-------------------------- MODULE PathSearchProofs --------------------------
(***************************************************************************)
(* What findPath(to:) guarantees on graphs of every size.                  *)
(***************************************************************************)
EXTENDS PathSearch, TLAPS

\* Inserting s at position p moves the elements from p on by one place.
LEMMA InsertAtElements ==
    ASSUME NEW S, NEW q \in Seq(S), NEW s \in S, NEW p \in 1..(Len(q) + 1)
    PROVE  /\ InsertAt(q, p, s) \in Seq(S)
           /\ Len(InsertAt(q, p, s)) = Len(q) + 1
           /\ \A j \in 1..(p - 1) : InsertAt(q, p, s)[j] = q[j]
           /\ InsertAt(q, p, s)[p] = s
           /\ \A j \in p..Len(q) : InsertAt(q, p, s)[j + 1] = q[j]
<1> DEFINE front == SubSeq(q, 1, p - 1)
           back == SubSeq(q, p, Len(q))
           r == front \o <<s>> \o back
<1>1. InsertAt(q, p, s) = r
  BY DEF InsertAt
<1>2. /\ front \in Seq(S)
      /\ Len(front) = p - 1
      /\ \A j \in 1..(p - 1) : front[j] = q[j]
  OBVIOUS
<1>3. /\ back \in Seq(S)
      /\ Len(back) = Len(q) - p + 1
      /\ \A j \in 1..(Len(q) - p + 1) : back[j] = q[p + j - 1]
  OBVIOUS
<1> HIDE DEF front, back
<1>4. /\ front \o <<s>> \in Seq(S)
      /\ Len(front \o <<s>>) = p
      /\ \A j \in 1..(p - 1) : (front \o <<s>>)[j] = q[j]
      /\ (front \o <<s>>)[p] = s
  BY <1>2
<1>5. /\ r \in Seq(S)
      /\ Len(r) = Len(q) + 1
      /\ \A j \in 1..p : r[j] = (front \o <<s>>)[j]
      /\ \A j \in (p + 1)..(Len(q) + 1) : r[j] = back[j - p]
  BY <1>3, <1>4
<1> HIDE DEF r
<1>6. /\ \A j \in 1..(p - 1) : r[j] = q[j]
      /\ r[p] = s
  <2>1. p \in 1..p /\ \A j \in 1..(p - 1) : j \in 1..p
    OBVIOUS
  <2> QED
    BY <1>4, <1>5, <2>1
<1>7. ASSUME NEW j \in p..Len(q) PROVE r[j + 1] = q[j]
  <2>1. r[j + 1] = back[(j + 1) - p]
    BY <1>5
  <2>2. (j + 1) - p \in 1..(Len(q) - p + 1) /\ p + ((j + 1) - p) - 1 = j
    OBVIOUS
  <2>3. back[(j + 1) - p] = q[j]
    BY <1>3, <2>2
  <2> QED
    BY <2>1, <2>3
<1> QED
  BY <1>1, <1>5, <1>6, <1>7

\* It adds s to the elements and loses none.
LEMMA InsertAtRange ==
    ASSUME NEW S, NEW q \in Seq(S), NEW s \in S, NEW p \in 1..(Len(q) + 1)
    PROVE  Range(InsertAt(q, p, s)) = Range(q) \cup {s}
<1> DEFINE r == InsertAt(q, p, s)
<1>1. /\ r \in Seq(S)
      /\ Len(r) = Len(q) + 1
      /\ \A j \in 1..(p - 1) : r[j] = q[j]
      /\ r[p] = s
      /\ \A j \in p..Len(q) : r[j + 1] = q[j]
  BY InsertAtElements
<1> HIDE DEF r
<1>2. /\ DOMAIN q = 1..Len(q)
      /\ Len(q) \in Nat
      /\ DOMAIN r = 1..(Len(q) + 1)
      /\ p \in DOMAIN r
  BY <1>1
<1>3. ASSUME NEW j \in DOMAIN r PROVE r[j] \in Range(q) \cup {s}
  <2>1. CASE j < p
    <3>1. j \in DOMAIN q /\ r[j] = q[j]
      BY <1>1, <1>2, <2>1
    <3> QED
      BY <3>1 DEF Range
  <2>2. CASE j = p
    BY <1>1, <2>2
  <2>3. CASE j > p
    <3>1. j - 1 \in p..Len(q) /\ (j - 1) + 1 = j
      BY <1>2, <2>3
    <3>2. j - 1 \in DOMAIN q /\ r[(j - 1) + 1] = q[j - 1]
      BY <1>1, <1>2, <3>1
    <3> QED
      BY <3>1, <3>2 DEF Range
  <2> QED
    BY <1>2, <2>1, <2>2, <2>3
<1>4. ASSUME NEW j \in DOMAIN q PROVE q[j] \in Range(r)
  <2>1. CASE j < p
    <3>1. j \in DOMAIN r /\ r[j] = q[j]
      BY <1>1, <1>2, <2>1
    <3> QED
      BY <3>1 DEF Range
  <2>2. CASE j >= p
    <3>1. j + 1 \in DOMAIN r /\ r[j + 1] = q[j]
      BY <1>1, <1>2, <2>2
    <3> QED
      BY <3>1 DEF Range
  <2> QED
    BY <1>2, <2>1, <2>2
<1> QED
  BY <1>1, <1>2, <1>3, <1>4 DEF Range, r

-----------------------------------------------------------------------------
(***************************************************************************)
(* The three ways the queue is written.                                    *)
(***************************************************************************)

\* sortedInsert adds one step and loses none.
LEMMA SortedInsertSteps ==
    ASSUME possibleSteps \in Seq(Step), NEW s \in Step, SortedInsert(s)
    PROVE  /\ possibleSteps' \in Seq(Step)
           /\ Range(possibleSteps') = Range(possibleSteps) \cup {s}
<1>1. PICK p \in 1..(Len(possibleSteps) + 1) :
         possibleSteps' = InsertAt(possibleSteps, p, s)
  BY DEF SortedInsert
<1> QED
  BY <1>1, InsertAtElements, InsertAtRange

\* removeFirst takes one step away and leaves the others.
LEMMA PoppedSteps ==
    ASSUME NEW q \in Seq(Step), q # <<>>
    PROVE  /\ Head(q) \in Step
           /\ Head(q) = q[1]
           /\ Tail(q) \in Seq(Step)
           /\ Len(Tail(q)) = Len(q) - 1
           /\ \A j \in DOMAIN Tail(q) : j + 1 \in DOMAIN q /\ Tail(q)[j] = q[j + 1]
           /\ Range(q) = Range(Tail(q)) \cup {Head(q)}
<1>1. /\ Head(q) \in Step
      /\ Head(q) = q[1]
      /\ Tail(q) \in Seq(Step)
      /\ Len(Tail(q)) = Len(q) - 1
      /\ DOMAIN q = 1..Len(q)
      /\ 1 \in DOMAIN q
      /\ DOMAIN Tail(q) = 1..(Len(q) - 1)
  OBVIOUS
<1>2. \A j \in DOMAIN Tail(q) : j + 1 \in DOMAIN q /\ Tail(q)[j] = q[j + 1]
  OBVIOUS
<1>3. ASSUME NEW j \in DOMAIN q, j # 1
      PROVE  j - 1 \in DOMAIN Tail(q) /\ Tail(q)[j - 1] = q[j]
  <2>1. j - 1 \in 1..(Len(q) - 1) /\ (j - 1) + 1 = j
    BY <1>1, <1>3
  <2> QED
    BY <1>1, <1>2, <2>1
<1>4. Range(q) \subseteq Range(Tail(q)) \cup {Head(q)}
  BY <1>1, <1>3 DEF Range
<1>5. Range(Tail(q)) \cup {Head(q)} \subseteq Range(q)
  BY <1>1, <1>2 DEF Range
<1> QED
  BY <1>1, <1>2, <1>4, <1>5

\* A step whose chain is exchanged keeps its node and its cost.
LEMMA ReparentedSteps ==
    ASSUME NEW q \in Seq(Step), NEW p \in DOMAIN q, NEW chain \in Seq(Node),
           NEW r, r = [q EXCEPT ![p].previous = chain]
    PROVE  /\ r \in Seq(Step)
           /\ DOMAIN r = DOMAIN q
           /\ \A j \in DOMAIN q : /\ r[j].node = q[j].node
                                  /\ r[j].stepCost = q[j].stepCost
                                  /\ j # p => r[j] = q[j]
           /\ r[p].previous = chain
<1> DEFINE s == [q[p] EXCEPT !.previous = chain]
<1>1. r = [q EXCEPT ![p] = s]
  OBVIOUS
<1>2. q[p] \in Step
  OBVIOUS
<1>3. /\ s \in Step
      /\ s.node = q[p].node
      /\ s.stepCost = q[p].stepCost
      /\ s.previous = chain
  BY <1>2 DEF Step
<1> HIDE DEF s
<1>4. r \in Seq(Step) /\ DOMAIN r = DOMAIN q /\ r[p] = s
  BY <1>1, <1>3
<1>5. \A j \in DOMAIN q : j # p => r[j] = q[j]
  BY <1>1
<1> QED
  BY <1>3, <1>4, <1>5

-----------------------------------------------------------------------------
(***************************************************************************)
(* Types.                                                                  *)
(***************************************************************************)

\* While connections are left to visit, they are those of a step.
TypeInv ==
    /\ TypeOK
    /\ phase = "searching" /\ toVisit # {} => step \in Step

LEMMA CostType ==
    ASSUME NEW a \in Node, NEW b \in Node
    PROVE  Cost(a, b) \in Nat
BY DistanceAssumption, NodeAssumption DEF Cost

LEMMA FirstStepType ==
    ASSUME TypeOK, NEW n \in Node
    PROVE  FirstStep(n) \in Step
<1>1. Cost(start, n) \in Nat
  BY CostType DEF TypeOK
<1> QED
  BY <1>1 DEF FirstStep, Step

LEMMA NextStepType ==
    ASSUME step \in Step, NEW n \in Node
    PROVE  NextStep(n) \in Step
<1>1. step.node \in Node /\ step.previous \in Seq(Node) /\ step.stepCost \in Nat
  BY DEF Step
<1>2. Append(step.previous, step.node) \in Seq(Node)
  BY <1>1
<1>3. step.stepCost + Cost(step.node, n) \in Nat
  BY <1>1, CostType
<1> QED
  BY <1>2, <1>3 DEF NextStep, Step

LEMMA TotalType ==
    ASSUME TypeOK, NEW s \in Step
    PROVE  Total(s) \in Nat
<1>1. s.node \in Node /\ s.stepCost \in Nat /\ goalNode \in Node
  BY DEF Step, TypeOK
<1> QED
  BY <1>1, CostType DEF Total

LEMMA TypeInvInit == Init => TypeInv
<1> SUFFICES ASSUME Init PROVE TypeInv
  OBVIOUS
<1>1. connectedNodes \in [Node -> SUBSET Node] /\ start \in Node
  BY GraphsAssumption DEF Init
<1> QED
  BY <1>1 DEF Init, TypeInv, TypeOK

LEMMA TypeInvInductive == TypeInv /\ [Next]_vars => TypeInv'
<1> SUFFICES ASSUME TypeInv, [Next]_vars PROVE TypeInv'
  OBVIOUS
<1> USE DEF TypeInv, TypeOK, query
<1>1. ASSUME NEW n \in Node, Seed(n) PROVE TypeInv'
  <2>1. possibleSteps' \in Seq(Step)
    BY <1>1, FirstStepType, SortedInsertSteps DEF Seed
  <2> QED
    BY <1>1, <2>1 DEF Seed
<1>2. ASSUME NEW n \in Node, EnqueueStep(n) PROVE TypeInv'
  <2>1. step \in Step
    BY <1>2 DEF EnqueueStep
  <2>2. possibleSteps' \in Seq(Step)
    BY <1>2, <2>1, NextStepType, SortedInsertSteps DEF EnqueueStep
  <2> QED
    BY <1>2, <2>1, <2>2 DEF EnqueueStep
<1>3. ASSUME NEW n \in Node, ReparentStep(n) PROVE TypeInv'
  <2>1. step \in Step
    BY <1>3 DEF ReparentStep
  <2>2. NextStep(n).previous \in Seq(Node)
    BY <2>1, NextStepType DEF Step
  <2>3. PICK p \in DOMAIN possibleSteps :
           possibleSteps' = [possibleSteps EXCEPT ![p].previous = NextStep(n).previous]
    BY <1>3 DEF ReparentStep
  <2>4. possibleSteps \in Seq(Step)
    OBVIOUS
  <2>5. possibleSteps' \in Seq(Step)
    BY <2>2, <2>3, <2>4, ReparentedSteps
  <2> QED
    BY <1>3, <2>1, <2>5 DEF ReparentStep
<1>4. ASSUME NEW n \in Node, DiscardStep(n) PROVE TypeInv'
  BY <1>4 DEF DiscardStep
<1>5. CASE Seeded
  BY <1>5 DEF Seeded
<1>6. CASE PopGoal
  <2>1. /\ Head(possibleSteps) \in Step
        /\ Tail(possibleSteps) \in Seq(Step)
    BY <1>6, PoppedSteps DEF PopGoal
  <2>2. Head(possibleSteps).previous \in Seq(Node)
    BY <2>1 DEF Step
  <2>3. path' \in Seq(Node)
    BY <1>6, <2>2 DEF PopGoal
  <2> QED
    BY <1>6, <2>1, <2>3 DEF PopGoal
<1>7. CASE PopOther
  <2>1. /\ Head(possibleSteps) \in Step
        /\ Tail(possibleSteps) \in Seq(Step)
    BY <1>7, PoppedSteps DEF PopOther
  <2>2. Head(possibleSteps).node \in Node
    BY <2>1 DEF Step
  <2> QED
    BY <1>7, <2>1, <2>2 DEF PopOther
<1>8. CASE Exhausted
  BY <1>8 DEF Exhausted
<1>9. CASE UNCHANGED vars
  BY <1>9 DEF vars
<1> QED
  BY <1>1, <1>2, <1>3, <1>4, <1>5, <1>6, <1>7, <1>8, <1>9 DEF Next

\* Every variable keeps its type: chains stay chains of nodes, costs natural
\* numbers, and no connection is visited before a step was taken.
THEOREM TypeCorrect == Spec => []TypeOK
<1>1. TypeInv => TypeOK
  BY DEF TypeInv
<1> QED
  BY <1>1, TypeInvInit, TypeInvInductive, PTL DEF Spec

-----------------------------------------------------------------------------
(***************************************************************************)
(* The queue stays sorted.                                                 *)
(***************************************************************************)

\* Inserting at the partition index keeps the queue sorted.
LEMMA SortedInsertSorts ==
    ASSUME TypeOK, QueueSorted, NEW s \in Step, SortedInsert(s)
    PROVE  \A j, k \in DOMAIN possibleSteps' :
              j < k => Total(possibleSteps'[j]) <= Total(possibleSteps'[k])
<1> DEFINE q == possibleSteps
           r == possibleSteps'
<1>1. PICK p \in 1..(Len(q) + 1) :
         /\ IsPartitionIndex(Smaller(s), p - 1)
         /\ r = InsertAt(q, p, s)
  <2>1. PICK index \in 0..Len(q) :
           /\ IsPartitionIndex(Smaller(s), index)
           /\ r = InsertAt(q, index + 1, s)
    BY DEF SortedInsert
  <2>2. index + 1 \in 1..(Len(q) + 1) /\ (index + 1) - 1 = index
    BY DEF TypeOK
  <2> QED
    BY <2>1, <2>2
<1>2. q \in Seq(Step) /\ DOMAIN q = 1..Len(q) /\ Len(q) \in Nat
  BY DEF TypeOK
<1>3. /\ DOMAIN r = 1..(Len(q) + 1)
      /\ \A j \in 1..(p - 1) : r[j] = q[j]
      /\ r[p] = s
      /\ \A j \in p..Len(q) : r[j + 1] = q[j]
  <2>1. /\ r \in Seq(Step)
        /\ Len(r) = Len(q) + 1
    BY <1>1, <1>2, InsertAtElements
  <2>2. \A j \in 1..(p - 1) : r[j] = q[j]
    BY <1>1, <1>2, InsertAtElements
  <2>3. r[p] = s
    BY <1>1, <1>2, InsertAtElements
  <2>4. \A j \in p..Len(q) : r[j + 1] = q[j]
    BY <1>1, <1>2, InsertAtElements
  <2> QED
    BY <2>1, <2>2, <2>3, <2>4
<1>4. \A j \in DOMAIN q : /\ Total(q[j]) \in Nat
                          /\ Total(q[j]) < Total(s) <=> j < p
  <2>1. /\ DOMAIN Smaller(s) = DOMAIN q
        /\ \A j \in DOMAIN q : Smaller(s)[j] <=> Total(q[j]) < Total(s)
    BY DEF Smaller
  <2>2. Len(Smaller(s)) = Len(q)
    BY <1>2, <2>1
  <2>3. \A j \in DOMAIN q : Smaller(s)[j] <=> j <= p - 1
    BY <1>1, <1>2, <2>2 DEF IsPartitionIndex
  <2>4. \A j \in DOMAIN q : Total(q[j]) \in Nat
    BY <1>2, TotalType
  <2> QED
    BY <1>2, <2>1, <2>3, <2>4
<1>5. Total(s) \in Nat
  BY TotalType
<1>6. \A j, k \in DOMAIN q : j < k => Total(q[j]) <= Total(q[k])
  BY DEF QueueSorted
<1> HIDE DEF q, r
<1>7. ASSUME NEW j \in DOMAIN r
      PROVE  /\ j < p => j \in DOMAIN q /\ r[j] = q[j]
             /\ j > p => j - 1 \in DOMAIN q /\ j - 1 >= p /\ r[j] = q[j - 1]
  <2>1. ASSUME j > p PROVE j - 1 \in p..Len(q) /\ (j - 1) + 1 = j
    BY <1>2, <1>3, <2>1
  <2>2. ASSUME j < p PROVE j \in 1..(p - 1)
    BY <1>2, <1>3, <2>2
  <2> QED
    BY <1>2, <1>3, <2>1, <2>2
<1> SUFFICES ASSUME NEW j \in DOMAIN r, NEW k \in DOMAIN r, j < k
             PROVE  Total(r[j]) <= Total(r[k])
  BY DEF r
<1>8. j \in Int /\ k \in Int /\ p \in Int
  BY <1>2, <1>3
<1>9. CASE k < p
  BY <1>6, <1>7, <1>8, <1>9
<1>10. CASE k = p
  BY <1>3, <1>4, <1>5, <1>7, <1>8, <1>10
<1>11. CASE k > p /\ j < p
  BY <1>6, <1>7, <1>8, <1>11
<1>12. CASE k > p /\ j = p
  <2>1. k - 1 \in DOMAIN q /\ ~(k - 1 < p) /\ r[k] = q[k - 1]
    BY <1>7, <1>8, <1>12
  <2> QED
    BY <1>3, <1>4, <1>5, <1>12, <2>1
<1>13. CASE k > p /\ j > p
  BY <1>6, <1>7, <1>8, <1>13
<1> QED
  BY <1>8, <1>9, <1>10, <1>11, <1>12, <1>13

LEMMA QueueSortedInductive ==
    TypeInv /\ QueueSorted /\ [Next]_vars => QueueSorted'
<1> SUFFICES ASSUME TypeInv, QueueSorted, [Next]_vars PROVE QueueSorted'
  OBVIOUS
<1>0. TypeOK /\ possibleSteps \in Seq(Step)
  BY DEF TypeInv, TypeOK
<1>1. ASSUME NEW s \in Step, SortedInsert(s), goalNode' = goalNode
      PROVE  QueueSorted'
  BY <1>0, <1>1, SortedInsertSorts DEF QueueSorted, Total
<1>2. ASSUME possibleSteps' = possibleSteps, goalNode' = goalNode
      PROVE  QueueSorted'
  BY <1>2 DEF QueueSorted, Total
<1>3. ASSUME possibleSteps # <<>>, possibleSteps' = Tail(possibleSteps),
             goalNode' = goalNode
      PROVE  QueueSorted'
  <2>1. \A j \in DOMAIN possibleSteps' :
           /\ j \in Int
           /\ j + 1 \in DOMAIN possibleSteps
           /\ possibleSteps'[j] = possibleSteps[j + 1]
    BY <1>0, <1>3, PoppedSteps
  <2>2. \A j, k \in DOMAIN possibleSteps' :
           j < k => Total(possibleSteps[j + 1]) <= Total(possibleSteps[k + 1])
    BY <2>1 DEF QueueSorted
  <2> QED
    BY <1>3, <2>1, <2>2 DEF QueueSorted, Total
<1>4. ASSUME NEW n \in Node, ReparentStep(n) PROVE QueueSorted'
  <2>1. NextStep(n).previous \in Seq(Node)
    BY <1>4, NextStepType DEF ReparentStep, TypeInv, Step
  <2>2. /\ DOMAIN possibleSteps' = DOMAIN possibleSteps
        /\ \A j \in DOMAIN possibleSteps :
              /\ possibleSteps'[j].node = possibleSteps[j].node
              /\ possibleSteps'[j].stepCost = possibleSteps[j].stepCost
    BY <1>0, <1>4, <2>1, ReparentedSteps DEF ReparentStep
  <2>3. goalNode' = goalNode
    BY <1>4 DEF ReparentStep, query
  <2> QED
    BY <2>2, <2>3 DEF QueueSorted, Total
<1>5. ASSUME NEW n \in Node, Seed(n) PROVE QueueSorted'
  BY <1>0, <1>1, <1>5, FirstStepType DEF Seed, query
<1>6. ASSUME NEW n \in Node, EnqueueStep(n) PROVE QueueSorted'
  BY <1>1, <1>6, NextStepType DEF EnqueueStep, query, TypeInv
<1> QED
  BY <1>2, <1>3, <1>4, <1>5, <1>6
     DEF Next, vars, query, DiscardStep, Seeded, PopGoal, PopOther, Exhausted

\* possibleSteps is sorted whenever it is searched, on every graph: every
\* index that binarySearch returns is the documented one.
THEOREM QueueAlwaysSorted == Spec => []QueueSorted
<1>1. Init => QueueSorted
  BY DEF Init, QueueSorted
<1>2. TypeInv /\ QueueSorted /\ [Next]_vars => QueueSorted'
  BY QueueSortedInductive
<1> QED
  BY <1>1, <1>2, TypeInvInit, TypeInvInductive, PTL DEF Spec

-----------------------------------------------------------------------------
(***************************************************************************)
(* Steps leave the queue in the order of their cost.                       *)
(***************************************************************************)

\* No step in the queue is cheaper than the one last taken from it.
CostInv ==
    /\ phase = "seeding" => step = NoStep
    /\ step # NoStep =>
          \A j \in DOMAIN possibleSteps : Total(step) <= Total(possibleSteps[j])

\* The estimate never drops by more than the way costs.
LEMMA NextStepNotCheaper ==
    ASSUME TypeOK, step \in Step, NEW n \in Node
    PROVE  Total(step) <= Total(NextStep(n))
<1> DEFINE here == Cost(step.node, goalNode)
           leg == Cost(step.node, n)
           rest == Cost(n, goalNode)
<1>1. step.node \in Node /\ goalNode \in Node /\ step.stepCost \in Nat
  BY DEF TypeOK, Step
<1>2. here \in Nat /\ leg \in Nat /\ rest \in Nat
  BY <1>1, CostType
<1>3. here <= leg + rest
  BY <1>1, TriangleAssumption DEF Cost
<1>4. Total(step) = step.stepCost + here
  BY DEF Total
<1>5. Total(NextStep(n)) = step.stepCost + leg + rest
  BY DEF Total, NextStep
<1> HIDE DEF here, leg, rest
<1> QED
  BY <1>1, <1>2, <1>3, <1>4, <1>5

\* A sorted queue gives up its cheapest step first.
LEMMA HeadIsCheapest ==
    ASSUME TypeOK, QueueSorted, possibleSteps # <<>>
    PROVE  \A j \in DOMAIN Tail(possibleSteps) :
              Total(Head(possibleSteps)) <= Total(Tail(possibleSteps)[j])
<1> SUFFICES ASSUME NEW j \in DOMAIN Tail(possibleSteps)
             PROVE  Total(Head(possibleSteps)) <= Total(Tail(possibleSteps)[j])
  OBVIOUS
<1>1. /\ Head(possibleSteps) = possibleSteps[1]
      /\ j + 1 \in DOMAIN possibleSteps
      /\ Tail(possibleSteps)[j] = possibleSteps[j + 1]
  BY PoppedSteps DEF TypeOK
<1>2. 1 \in DOMAIN possibleSteps /\ 1 < j + 1
  BY DEF TypeOK
<1> QED
  BY <1>1, <1>2 DEF QueueSorted

LEMMA CostInvInductive ==
    TypeInv /\ QueueSorted /\ CostInv /\ [Next]_vars => CostInv'
<1> SUFFICES ASSUME TypeInv, QueueSorted, CostInv, [Next]_vars
             PROVE  CostInv'
  OBVIOUS
<1>0. TypeOK /\ possibleSteps \in Seq(Step)
  BY DEF TypeInv, TypeOK
<1>1. ASSUME NEW n \in Node, Seed(n) PROVE CostInv'
  BY <1>1 DEF Seed, CostInv
<1>2. ASSUME NEW n \in Node, EnqueueStep(n) PROVE CostInv'
  <2>1. step \in Step /\ step # NoStep
    BY <1>2, NoStepAssumption DEF EnqueueStep, TypeInv
  <2>2. Range(possibleSteps') = Range(possibleSteps) \cup {NextStep(n)}
    BY <1>0, <1>2, <2>1, NextStepType, SortedInsertSteps DEF EnqueueStep
  <2>3. \A s \in Range(possibleSteps') : Total(step) <= Total(s)
    BY <1>0, <2>1, <2>2, NextStepNotCheaper DEF CostInv, Range
  <2>4. goalNode' = goalNode /\ step' = step /\ phase' = "searching"
    BY <1>2 DEF EnqueueStep, query
  <2> QED
    BY <2>3, <2>4 DEF CostInv, Range, Total
<1>3. ASSUME NEW n \in Node, ReparentStep(n) PROVE CostInv'
  <2>1. NextStep(n).previous \in Seq(Node)
    BY <1>3, NextStepType DEF ReparentStep, TypeInv, Step
  <2>2. /\ DOMAIN possibleSteps' = DOMAIN possibleSteps
        /\ \A j \in DOMAIN possibleSteps :
              /\ possibleSteps'[j].node = possibleSteps[j].node
              /\ possibleSteps'[j].stepCost = possibleSteps[j].stepCost
    BY <1>0, <1>3, <2>1, ReparentedSteps DEF ReparentStep
  <2>3. goalNode' = goalNode /\ step' = step /\ phase' = "searching"
    BY <1>3 DEF ReparentStep, query
  <2> QED
    BY <2>2, <2>3 DEF CostInv, Total
<1>4. ASSUME possibleSteps # <<>>, step' = Head(possibleSteps),
             possibleSteps' = Tail(possibleSteps), goalNode' = goalNode,
             phase' # "seeding"
      PROVE  CostInv'
  BY <1>0, <1>4, HeadIsCheapest DEF CostInv, Total
<1>5. ASSUME possibleSteps' = possibleSteps, step' = step,
             goalNode' = goalNode, phase' = phase \/ phase' # "seeding"
      PROVE  CostInv'
  BY <1>5 DEF CostInv, Total
<1>6. CASE PopGoal \/ PopOther
  BY <1>4, <1>6 DEF PopGoal, PopOther, AtLoopHead, query
<1>7. CASE Seeded \/ Exhausted \/ (\E n \in Node : DiscardStep(n)) \/ UNCHANGED vars
  BY <1>5, <1>7 DEF Seeded, Exhausted, DiscardStep, vars, query
<1> QED
  BY <1>1, <1>2, <1>3, <1>6, <1>7 DEF Next

\* Costs that leave the queue never fall, on every graph and every metric that
\* satisfies the triangle inequality.
THEOREM CostOrder == Spec => PopsInCostOrder
<1>1. Init => QueueSorted /\ CostInv
  BY DEF Init, QueueSorted, CostInv
<1>2. TypeInv /\ CostInv /\ [Next]_vars
        => [step' # step /\ step # NoStep => Total(step') >= Total(step)]_vars
  <2> SUFFICES ASSUME TypeInv, CostInv, Next, step' # step, step # NoStep
               PROVE  Total(step') >= Total(step)
    OBVIOUS
  <2>1. possibleSteps # <<>> /\ step' = Head(possibleSteps)
    BY DEF Next, Seed, EnqueueStep, ReparentStep, DiscardStep, Seeded, PopGoal,
           PopOther, Exhausted
  <2>2. possibleSteps \in Seq(Step) /\ step \in Step
    BY DEF TypeInv, TypeOK
  <2>3. 1 \in DOMAIN possibleSteps /\ step' = possibleSteps[1] /\ step' \in Step
    BY <2>1, <2>2, PoppedSteps
  <2>4. Total(step) <= Total(step')
    BY <2>3 DEF CostInv
  <2>5. Total(step) \in Nat /\ Total(step') \in Nat
    BY <2>2, <2>3, TotalType DEF TypeInv
  <2> QED
    BY <2>4, <2>5
<1> QED
  BY <1>1, <1>2, TypeInvInit, TypeInvInductive, QueueSortedInductive,
     CostInvInductive, PTL DEF Spec, PopsInCostOrder

-----------------------------------------------------------------------------
(***************************************************************************)
(* Whatever is returned can be walked.                                     *)
(***************************************************************************)

\* The way a step stands for, from start to its node.
Way(s) == <<start>> \o s.previous \o <<s.node>>

\* No place occurs twice in w.
Simple(w) == \A j, k \in DOMAIN w : w[j] = w[k] => j = k

\* A walk from start, without repetitions where start has no loop.
ProperWay(w) ==
    /\ w \in Seq(Node)
    /\ w # <<>>
    /\ w[1] = start
    /\ IsWalk(w)
    /\ start \notin connectedNodes[start] => Simple(w)

LEMMA WayType ==
    ASSUME TypeOK, NEW s \in Step
    PROVE  /\ Way(s) \in Seq(Node)
           /\ Len(Way(s)) = Len(s.previous) + 2
           /\ Way(s)[Len(Way(s))] = s.node
<1>1. s.previous \in Seq(Node) /\ s.node \in Node /\ start \in Node
  BY DEF Step, TypeOK
<1>2. /\ <<start>> \o s.previous \in Seq(Node)
      /\ Len(<<start>> \o s.previous) = Len(s.previous) + 1
  BY <1>1
<1> QED
  BY <1>1, <1>2 DEF Way

\* The first steps lead along one connection.
LEMMA FirstStepElements ==
    ASSUME TypeOK, NEW n \in Node
    PROVE  /\ Way(FirstStep(n)) \in Seq(Node)
           /\ Len(Way(FirstStep(n))) = 2
           /\ Way(FirstStep(n))[1] = start
           /\ Way(FirstStep(n))[2] = n
<1>1. FirstStep(n).previous = <<>> /\ FirstStep(n).node = n
  BY DEF FirstStep
<1>2. <<start>> \o <<>> = <<start>>
  BY DEF TypeOK
<1>3. Way(FirstStep(n)) = <<start>> \o <<n>>
  BY <1>1, <1>2 DEF Way
<1>4. <<start>> \in Seq(Node) /\ <<n>> \in Seq(Node)
  BY DEF TypeOK
<1> QED
  BY <1>3, <1>4

LEMMA FirstStepRange ==
    ASSUME TypeOK, NEW n \in Node
    PROVE  Range(Way(FirstStep(n))) = {start, n}
<1> DEFINE w == Way(FirstStep(n))
<1>1. DOMAIN w = 1..2 /\ w[1] = start /\ w[2] = n
  BY FirstStepElements
<1> HIDE DEF w
<1> QED
  BY <1>1 DEF Range, w

LEMMA FirstStepWay ==
    ASSUME TypeOK, NEW n \in Node, n \in connectedNodes[start]
    PROVE  ProperWay(Way(FirstStep(n)))
<1> DEFINE w == Way(FirstStep(n))
<1>1. /\ w \in Seq(Node)
      /\ Len(w) = 2
      /\ w[1] = start
      /\ w[2] = n
  BY FirstStepElements
<1> HIDE DEF w
<1>2. DOMAIN w = 1..2 /\ w # <<>>
  BY <1>1
<1>3. IsWalk(w)
  BY <1>1 DEF IsWalk
<1>4. start \notin connectedNodes[start] => Simple(w)
  BY <1>1, <1>2 DEF Simple
<1> QED
  BY <1>1, <1>2, <1>3, <1>4 DEF ProperWay, w

\* The next steps prolong the way of the step they come from.
LEMMA NextStepWay ==
    ASSUME TypeOK, step \in Step, NEW n \in Node
    PROVE  Way(NextStep(n)) = Append(Way(step), n)
<1>1. step.previous \in Seq(Node) /\ step.node \in Node /\ start \in Node
  BY DEF Step, TypeOK
<1>2. /\ NextStep(n).previous = Append(step.previous, step.node)
      /\ NextStep(n).node = n
  BY DEF NextStep
<1> DEFINE chain == step.previous
           w == <<start>> \o Append(chain, step.node) \o <<n>>
           v == Append(<<start>> \o chain \o <<step.node>>, n)
<1>3. /\ <<start>> \o Append(chain, step.node) \in Seq(Node)
      /\ Len(<<start>> \o Append(chain, step.node)) = Len(chain) + 2
      /\ <<start>> \o chain \in Seq(Node)
      /\ Len(<<start>> \o chain) = Len(chain) + 1
      /\ <<start>> \o chain \o <<step.node>> \in Seq(Node)
      /\ Len(<<start>> \o chain \o <<step.node>>) = Len(chain) + 2
  BY <1>1
<1>4. <<start>> \o Append(chain, step.node) = <<start>> \o chain \o <<step.node>>
  BY <1>1
<1>5. w = v
  BY <1>3, <1>4
<1> QED
  BY <1>2, <1>5 DEF Way

LEMMA AppendWay ==
    ASSUME TypeOK, NEW w, ProperWay(w), NEW n \in connectedNodes[w[Len(w)]],
           n \in Node, n \notin Range(w)
    PROVE  ProperWay(Append(w, n))
<1> DEFINE v == Append(w, n)
<1>1. /\ w \in Seq(Node)
      /\ Len(w) \in Nat
      /\ Len(w) >= 1
      /\ DOMAIN w = 1..Len(w)
  BY DEF ProperWay
<1>2. /\ v \in Seq(Node)
      /\ Len(v) = Len(w) + 1
      /\ DOMAIN v = 1..(Len(w) + 1)
      /\ \A j \in 1..Len(w) : v[j] = w[j]
      /\ v[Len(w) + 1] = n
  BY <1>1
<1> HIDE DEF v
<1>3. v # <<>> /\ v[1] = start
  BY <1>1, <1>2 DEF ProperWay
<1>4. ASSUME NEW j \in 1..(Len(v) - 1) PROVE v[j + 1] \in connectedNodes[v[j]]
  <2>1. CASE j = Len(w)
    <3>1. v[j] = w[Len(w)] /\ v[j + 1] = n
      BY <1>1, <1>2, <2>1
    <3> QED
      BY <3>1
  <2>2. CASE j < Len(w)
    <3>1. j \in 1..(Len(w) - 1) /\ j \in 1..Len(w) /\ j + 1 \in 1..Len(w)
      BY <1>1, <1>2, <2>2
    <3> QED
      BY <1>2, <3>1 DEF ProperWay, IsWalk
  <2>3. j \in Nat /\ j <= Len(w)
    BY <1>1, <1>2
  <2>4. j = Len(w) \/ j < Len(w)
    <3>1. \A a, b \in Nat : a <= b => a = b \/ a < b
      OBVIOUS
    <3> QED
      BY <1>1, <2>3, <3>1
  <2> QED
    BY <2>1, <2>2, <2>4
<1>5. Simple(w) => Simple(v)
  <2> SUFFICES ASSUME Simple(w), NEW j \in DOMAIN v, NEW k \in DOMAIN v,
                      v[j] = v[k]
               PROVE  j = k
    BY DEF Simple
  <2>1. \A m \in 1..Len(w) : v[m] # n
    BY <1>1, <1>2 DEF Range
  <2>2. CASE j \in 1..Len(w) /\ k \in 1..Len(w)
    BY <1>1, <1>2, <2>2 DEF Simple
  <2>3. CASE j = Len(w) + 1
    BY <1>1, <1>2, <2>1, <2>3
  <2>4. CASE k = Len(w) + 1
    BY <1>1, <1>2, <2>1, <2>4
  <2> QED
    BY <1>1, <1>2, <2>2, <2>3, <2>4
<1> QED
  BY <1>2, <1>3, <1>4, <1>5 DEF ProperWay, IsWalk, v

LEMMA AppendRange ==
    ASSUME NEW S, NEW w \in Seq(S), NEW n \in S
    PROVE  Range(Append(w, n)) = Range(w) \cup {n}
<1>1. /\ DOMAIN Append(w, n) = 1..(Len(w) + 1)
      /\ DOMAIN w = 1..Len(w)
      /\ \A j \in 1..Len(w) : Append(w, n)[j] = w[j]
      /\ Append(w, n)[Len(w) + 1] = n
      /\ Len(w) \in Nat
  OBVIOUS
<1> DEFINE v == Append(w, n)
<1> HIDE DEF v
<1>2. Range(v) \subseteq Range(w) \cup {n}
  BY <1>1 DEF Range, v
<1>3. Range(w) \cup {n} \subseteq Range(v)
  BY <1>1 DEF Range, v
<1> QED
  BY <1>2, <1>3 DEF v

\* The ways of queued steps are proper and lead over eliminated nodes; what is
\* still to visit is not eliminated, so it prolongs a way without repetition.
WayInv ==
    /\ \A s \in Range(possibleSteps) :
          /\ ProperWay(Way(s))
          /\ Range(Way(s)) \subseteq eliminatedNodes \cup {s.node}
    /\ start \in eliminatedNodes
    /\ phase = "seeding" => toVisit \subseteq connectedNodes[start]
    /\ phase = "searching" /\ toVisit # {} =>
          /\ ProperWay(Way(step))
          /\ Range(Way(step)) \subseteq eliminatedNodes
          /\ toVisit \subseteq connectedNodes[step.node] \ eliminatedNodes
    /\ phase # "returned" => path = <<start>>
    /\ phase = "returned" => /\ ProperWay(path)
                             /\ path[Len(path)] = goalNode \/ path = <<start>>

\* The way that a visited node adds to the queue.
LEMMA VisitedWay ==
    ASSUME TypeInv, WayInv, NEW n \in toVisit, phase = "searching"
    PROVE  /\ NextStep(n) \in Step
           /\ ProperWay(Way(NextStep(n)))
           /\ Range(Way(NextStep(n))) \subseteq eliminatedNodes \cup {n}
<1>1. /\ TypeOK
      /\ n \in Node
      /\ step \in Step
      /\ ProperWay(Way(step))
      /\ Range(Way(step)) \subseteq eliminatedNodes
      /\ n \in connectedNodes[step.node]
      /\ n \notin eliminatedNodes
  BY DEF TypeInv, TypeOK, WayInv
<1>2. Way(NextStep(n)) = Append(Way(step), n)
  BY <1>1, NextStepWay
<1>3. Way(step) \in Seq(Node) /\ Way(step)[Len(Way(step))] = step.node
  BY <1>1, WayType
<1>4. ProperWay(Append(Way(step), n))
  BY <1>1, <1>3, AppendWay
<1>5. Range(Append(Way(step), n)) = Range(Way(step)) \cup {n}
  BY <1>1, <1>3, AppendRange
<1> QED
  BY <1>1, <1>2, <1>4, <1>5, NextStepType

LEMMA WayInvInductive == TypeInv /\ WayInv /\ [Next]_vars => WayInv'
<1> SUFFICES ASSUME TypeInv, WayInv, [Next]_vars PROVE WayInv'
  OBVIOUS
<1>0. TypeOK /\ possibleSteps \in Seq(Step)
  BY DEF TypeInv, TypeOK
<1>1. query' = query
  BY DEF Next, Seed, EnqueueStep, ReparentStep, DiscardStep, Seeded, PopGoal,
         PopOther, Exhausted, vars, query
<1>2. start' = start /\ connectedNodes' = connectedNodes /\ goalNode' = goalNode
  BY <1>1 DEF query
<1> USE DEF ProperWay, IsWalk, Way
<1>3. ASSUME NEW n \in Node, Seed(n) PROVE WayInv'
  <2>1. ProperWay(Way(FirstStep(n))) /\ FirstStep(n) \in Step /\ FirstStep(n).node = n
    BY <1>0, <1>3, FirstStepWay, FirstStepType DEF Seed, WayInv, FirstStep
  <2>2. Range(Way(FirstStep(n))) = {start, n}
    BY <1>0, FirstStepRange
  <2>3. Range(possibleSteps') = Range(possibleSteps) \cup {FirstStep(n)}
    BY <1>0, <1>3, <2>1, SortedInsertSteps DEF Seed
  <2> QED
    BY <1>2, <1>3, <2>1, <2>2, <2>3 DEF Seed, WayInv
<1>4. ASSUME NEW n \in Node, EnqueueStep(n) PROVE WayInv'
  <2>1. /\ NextStep(n) \in Step
        /\ ProperWay(Way(NextStep(n)))
        /\ Range(Way(NextStep(n))) \subseteq eliminatedNodes \cup {n}
        /\ NextStep(n).node = n
    BY <1>4, VisitedWay DEF EnqueueStep, NextStep
  <2>2. Range(possibleSteps') = Range(possibleSteps) \cup {NextStep(n)}
    BY <1>0, <1>4, <2>1, SortedInsertSteps DEF EnqueueStep
  <2> QED
    BY <1>2, <1>4, <2>1, <2>2 DEF EnqueueStep, WayInv
<1>5. ASSUME NEW n \in Node, ReparentStep(n) PROVE WayInv'
  <2>1. /\ NextStep(n) \in Step
        /\ ProperWay(Way(NextStep(n)))
        /\ Range(Way(NextStep(n))) \subseteq eliminatedNodes \cup {n}
        /\ NextStep(n).node = n
    BY <1>5, VisitedWay DEF ReparentStep, NextStep
  <2>2. PICK p \in DOMAIN possibleSteps :
           /\ possibleSteps[p].node = n
           /\ possibleSteps' = [possibleSteps EXCEPT
                                  ![p].previous = NextStep(n).previous]
    BY <1>5 DEF ReparentStep, SameNodeAt
  <2>3. /\ DOMAIN possibleSteps' = DOMAIN possibleSteps
        /\ \A j \in DOMAIN possibleSteps : j # p => possibleSteps'[j] = possibleSteps[j]
        /\ possibleSteps'[p].node = n
        /\ possibleSteps'[p].previous = NextStep(n).previous
    <3>1. NextStep(n).previous \in Seq(Node)
      BY <2>1 DEF Step
    <3> QED
      BY <1>0, <2>2, <3>1, ReparentedSteps
  <2>4. \A s \in Range(possibleSteps') :
           \/ s \in Range(possibleSteps)
           \/ Way(s) = Way(NextStep(n)) /\ s.node = n
    BY <2>1, <2>3 DEF Range
  <2> QED
    BY <1>2, <1>5, <2>1, <2>4 DEF ReparentStep, WayInv
<1>6. ASSUME NEW n \in Node, DiscardStep(n) PROVE WayInv'
  BY <1>2, <1>6 DEF DiscardStep, WayInv
<1>7. CASE Seeded
  BY <1>2, <1>7 DEF Seeded, WayInv
<1>8. CASE PopGoal
  <2>1. /\ Range(possibleSteps) = Range(possibleSteps') \cup {Head(possibleSteps)}
        /\ Head(possibleSteps) \in Step
        /\ Head(possibleSteps).node = goalNode
    BY <1>0, <1>8, PoppedSteps DEF PopGoal
  <2>2. path' = Way(Head(possibleSteps)) /\ ProperWay(Way(Head(possibleSteps)))
    BY <1>8, <2>1 DEF PopGoal, WayInv
  <2>3. path'[Len(path')] = goalNode
    BY <1>0, <2>1, <2>2, WayType
  <2> QED
    BY <1>2, <1>8, <2>1, <2>2, <2>3 DEF PopGoal, WayInv
<1>9. CASE PopOther
  <2>1. /\ Range(possibleSteps) = Range(possibleSteps') \cup {Head(possibleSteps)}
        /\ step' = Head(possibleSteps)
    BY <1>0, <1>9, PoppedSteps DEF PopOther
  <2>2. /\ ProperWay(Way(step'))
        /\ Range(Way(step')) \subseteq eliminatedNodes'
    BY <1>9, <2>1 DEF PopOther, WayInv
  <2>3. eliminatedNodes \subseteq eliminatedNodes'
    BY <1>9 DEF PopOther
  <2> QED
    BY <1>2, <1>9, <2>1, <2>2, <2>3 DEF PopOther, AtLoopHead, WayInv
<1>10. CASE Exhausted
  <2>1. ProperWay(<<start>>)
    BY <1>0 DEF TypeOK, Simple
  <2> QED
    BY <1>2, <1>10, <2>1 DEF Exhausted, AtLoopHead, WayInv
<1>11. CASE UNCHANGED vars
  BY <1>2, <1>11 DEF vars, WayInv
<1> QED
  BY <1>3, <1>4, <1>5, <1>6, <1>7, <1>8, <1>9, <1>10, <1>11 DEF Next

LEMMA WayInvInit == Init => WayInv
<1> SUFFICES ASSUME Init PROVE WayInv
  OBVIOUS
<1>1. Range(possibleSteps) = {}
  BY DEF Init, Range
<1> QED
  BY <1>1 DEF Init, WayInv

\* No path passes a place twice, while it is searched or when it is returned.
THEOREM PathIsSimple == Spec => []NoNodeTwice
<1>1. TypeInv /\ WayInv => NoNodeTwice
  <2> SUFFICES ASSUME TypeInv, WayInv PROVE NoNodeTwice
    OBVIOUS
  <2>1. CASE phase = "returned"
    BY <2>1 DEF WayInv, NoNodeTwice, ProperWay, Simple
  <2>2. CASE phase # "returned"
    BY <2>2 DEF WayInv, NoNodeTwice, TypeInv, TypeOK
  <2> QED
    BY <2>1, <2>2
<1> QED
  BY <1>1, TypeInvInit, TypeInvInductive, WayInvInit, WayInvInductive, PTL DEF Spec

-----------------------------------------------------------------------------
(***************************************************************************)
(* The search is complete.                                                 *)
(***************************************************************************)

QueuedNodes == {s.node : s \in Range(possibleSteps)}

\* Every connection of an eliminated node leads to a node that is eliminated,
\* queued, or about to be visited; when nothing is left to visit the eliminated
\* nodes are closed, and the goal is outside of them.
SearchInv ==
    /\ \A n \in QueuedNodes : Reachable(n)
    /\ phase = "seeding" => toVisit \subseteq connectedNodes[start]
    /\ phase = "searching" /\ toVisit # {} =>
          /\ Reachable(step.node)
          /\ toVisit \subseteq connectedNodes[step.node]
    /\ start \in eliminatedNodes
    /\ goalNode \in eliminatedNodes => goalNode = start
    /\ phase # "returned" =>
          /\ path = <<start>>
          /\ \A n \in eliminatedNodes :
                connectedNodes[n] \subseteq eliminatedNodes \cup toVisit \cup QueuedNodes
    /\ FindsGoal

LEMMA ReachableStep ==
    ASSUME TypeOK, NEW m \in Node, Reachable(m), NEW n \in connectedNodes[m]
    PROVE  Reachable(n)
BY DEF Reachable

LEMMA StartReachable == Reachable(start)
BY DEF Reachable

LEMMA SearchInvInit == Init => SearchInv
<1> SUFFICES ASSUME Init PROVE SearchInv
  OBVIOUS
<1>1. QueuedNodes = {}
  BY DEF Init, QueuedNodes, Range
<1> QED
  BY <1>1 DEF Init, SearchInv, FindsGoal

LEMMA SearchInvInductive == TypeInv /\ SearchInv /\ [Next]_vars => SearchInv'
<1> SUFFICES ASSUME TypeInv, SearchInv, [Next]_vars PROVE SearchInv'
  OBVIOUS
<1>0. TypeOK /\ possibleSteps \in Seq(Step)
  BY DEF TypeInv, TypeOK
<1>1. query' = query
  BY DEF Next, Seed, EnqueueStep, ReparentStep, DiscardStep, Seeded, PopGoal,
         PopOther, Exhausted, vars, query
<1>2. start' = start /\ connectedNodes' = connectedNodes /\ goalNode' = goalNode
  BY <1>1 DEF query
<1>3. \A n : Reachable(n)' <=> (\A S \in SUBSET Node :
                /\ start \in S
                /\ \A m \in S : connectedNodes[m] \subseteq S
                => n \in S)
  BY <1>2 DEF Reachable
<1>4. ASSUME NEW n PROVE Reachable(n)' <=> Reachable(n)
  BY <1>3 DEF Reachable
<1>5. ASSUME NEW n \in Node, Seed(n) PROVE SearchInv'
  <2>1. FirstStep(n) \in Step /\ FirstStep(n).node = n
    BY <1>0, FirstStepType DEF FirstStep
  <2>2. QueuedNodes' = QueuedNodes \cup {n}
    BY <1>0, <1>5, <2>1, SortedInsertSteps DEF Seed, QueuedNodes
  <2>3. Reachable(n)
    BY <1>0, <1>5, StartReachable, ReachableStep DEF Seed, SearchInv, TypeOK
  <2> QED
    BY <1>2, <1>4, <1>5, <2>2, <2>3 DEF Seed, SearchInv, FindsGoal
<1>6. ASSUME NEW n \in Node, EnqueueStep(n) PROVE SearchInv'
  <2>1. NextStep(n) \in Step /\ NextStep(n).node = n
    BY <1>6, NextStepType DEF EnqueueStep, TypeInv, NextStep
  <2>2. QueuedNodes' = QueuedNodes \cup {n}
    BY <1>0, <1>6, <2>1, SortedInsertSteps DEF EnqueueStep, QueuedNodes
  <2>3. step.node \in Node
    BY <1>6 DEF EnqueueStep, TypeInv, Step
  <2>4. Reachable(n)
    BY <1>0, <1>6, <2>3, ReachableStep DEF EnqueueStep, SearchInv
  <2> QED
    BY <1>2, <1>4, <1>6, <2>2, <2>4 DEF EnqueueStep, SearchInv, FindsGoal
<1>7. ASSUME NEW n \in Node, ReparentStep(n) PROVE SearchInv'
  <2>1. PICK p \in DOMAIN possibleSteps :
           /\ possibleSteps[p].node = n
           /\ possibleSteps' = [possibleSteps EXCEPT
                                  ![p].previous = NextStep(n).previous]
    BY <1>7 DEF ReparentStep, SameNodeAt
  <2>2. NextStep(n).previous \in Seq(Node)
    BY <1>7, NextStepType DEF ReparentStep, TypeInv, Step
  <2>3. /\ DOMAIN possibleSteps' = DOMAIN possibleSteps
        /\ \A j \in DOMAIN possibleSteps : possibleSteps'[j].node = possibleSteps[j].node
    BY <1>0, <2>1, <2>2, ReparentedSteps
  <2>4. QueuedNodes' = QueuedNodes /\ n \in QueuedNodes
    <3>1. /\ QueuedNodes = {possibleSteps[j].node : j \in DOMAIN possibleSteps}
          /\ QueuedNodes' = {possibleSteps'[j].node : j \in DOMAIN possibleSteps'}
      BY DEF QueuedNodes, Range
    <3> QED
      BY <2>1, <2>3, <3>1
  <2> QED
    BY <1>2, <1>4, <1>7, <2>4 DEF ReparentStep, SearchInv, FindsGoal
<1>8. ASSUME NEW n \in Node, DiscardStep(n) PROVE SearchInv'
  <2>1. n \in QueuedNodes /\ QueuedNodes' = QueuedNodes
    BY <1>8 DEF DiscardStep, SameNodeAt, QueuedNodes, Range
  <2> QED
    BY <1>2, <1>4, <1>8, <2>1 DEF DiscardStep, SearchInv, FindsGoal
<1>9. CASE Seeded
  <2>1. QueuedNodes' = QueuedNodes
    BY <1>9 DEF Seeded, QueuedNodes
  <2> QED
    BY <1>2, <1>4, <1>9, <2>1 DEF Seeded, SearchInv, FindsGoal
<1>10. ASSUME possibleSteps # <<>>, possibleSteps' = Tail(possibleSteps)
       PROVE  QueuedNodes = QueuedNodes' \cup {Head(possibleSteps).node}
  BY <1>0, <1>10, PoppedSteps DEF QueuedNodes
<1>11. CASE PopGoal
  <2>1. QueuedNodes = QueuedNodes' \cup {goalNode}
    BY <1>10, <1>11 DEF PopGoal
  <2>2. Reachable(goalNode)
    BY <2>1 DEF SearchInv
  <2>3. path'[Len(path')] = goalNode
    <3>1. Head(possibleSteps).previous \in Seq(Node) /\ start \in Node /\ goalNode \in Node
      BY <1>0, <1>11, PoppedSteps DEF PopGoal, Step, TypeOK
    <3>2. <<start>> \o Head(possibleSteps).previous \in Seq(Node)
      BY <3>1
    <3> QED
      BY <1>11, <3>1, <3>2 DEF PopGoal
  <2> QED
    BY <1>2, <1>4, <1>11, <2>1, <2>2, <2>3 DEF PopGoal, SearchInv, FindsGoal
<1>12. CASE PopOther
  <2>1. /\ QueuedNodes = QueuedNodes' \cup {step'.node}
        /\ step'.node # goalNode
        /\ toVisit = {}
        /\ phase = "searching"
        /\ eliminatedNodes' = eliminatedNodes \cup {step'.node}
        /\ toVisit' = connectedNodes[step'.node] \ eliminatedNodes'
    BY <1>10, <1>12 DEF PopOther, AtLoopHead
  <2>2. Reachable(step'.node)
    BY <2>1 DEF SearchInv
  <2>3. \A n \in eliminatedNodes' :
           connectedNodes[n] \subseteq eliminatedNodes' \cup toVisit' \cup QueuedNodes'
    BY <2>1 DEF SearchInv
  <2> QED
    BY <1>2, <1>4, <1>12, <2>1, <2>2, <2>3 DEF PopOther, SearchInv, FindsGoal
<1>13. CASE Exhausted
  <2>1. QueuedNodes = {} /\ QueuedNodes' = {}
    BY <1>13 DEF Exhausted, QueuedNodes, Range
  <2>2. \A m \in eliminatedNodes : connectedNodes[m] \subseteq eliminatedNodes
    BY <1>13, <2>1 DEF Exhausted, AtLoopHead, SearchInv
  <2>3. Reachable(goalNode) => goalNode = start
    BY <1>0, <2>2 DEF Reachable, SearchInv, TypeOK
  <2>4. path' = <<start>> /\ path'[Len(path')] = start
    <3>1. path' = <<start>>
      BY <1>13 DEF Exhausted, AtLoopHead, SearchInv
    <3>2. Len(<<start>>) = 1 /\ <<start>>[1] = start
      OBVIOUS
    <3> QED
      BY <3>1, <3>2
  <2>5. FindsGoal'
    <3>1. Reachable(goalNode)' <=> Reachable(goalNode)
      BY <1>2, <1>3 DEF Reachable
    <3>2. Reachable(goalNode) <=> goalNode = start
      BY <2>3, StartReachable
    <3> QED
      BY <1>2, <2>4, <3>1, <3>2 DEF FindsGoal
  <2> QED
    BY <1>2, <1>4, <1>13, <2>1, <2>5 DEF Exhausted, SearchInv
<1>14. CASE UNCHANGED vars
  BY <1>14 DEF vars, SearchInv, FindsGoal, QueuedNodes, Reachable
<1> QED
  BY <1>5, <1>6, <1>7, <1>8, <1>9, <1>11, <1>12, <1>13, <1>14 DEF Next

\* The goal is at the end of the path that is returned exactly when the graph
\* lets it be reached.
THEOREM SearchIsComplete == Spec => []FindsGoal
<1>1. SearchInv => FindsGoal
  BY DEF SearchInv
<1> QED
  BY <1>1, TypeInvInit, TypeInvInductive, SearchInvInit, SearchInvInductive,
     PTL DEF Spec

\* Every path that is returned for a goal that can be reached can be walked from
\* self to that goal.
THEOREM PathIsWalk == Spec => []ReturnedPathIsWalk
<1>1. WayInv /\ FindsGoal => ReturnedPathIsWalk
  BY DEF WayInv, FindsGoal, ReturnedPathIsWalk, ProperWay
<1> QED
  BY <1>1, SearchIsComplete, TypeInvInit, TypeInvInductive, WayInvInit, WayInvInductive,
     PTL DEF Spec

=============================================================================
