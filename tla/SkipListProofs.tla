--------------------------- MODULE SkipListProofs ---------------------------
(***************************************************************************)
(* A skip list of any keys and height, with any number of readers beside   *)
(* its writer: nobody follows a link that is not stored, every list is a   *)
(* part of the one below it, and a search finds what it may rely on.       *)
(***************************************************************************)
EXTENDS SkipList, FiniteSetTheorems, WellFoundedInduction, TLAPS

-----------------------------------------------------------------------------
(* The lists, told by their links.                                         *)

\* The nodes that have a link at the level, and the head.
Stored(level) == {x \in Keys : next[x][level] # Garbage}
Nodes(level) == Stored(level) \cup {HeadNode}

LinksInv == next \in [Keys \cup {HeadNode} -> [Levels -> Keys \cup {Null, Garbage}]]

\* A link leads to the next greater node of its list.
LeadsToNext(x, level) ==
    /\ next[x][level] \in Stored(level) \cup {Null}
    /\ x < next[x][level]
    /\ \A y \in Stored(level) : y <= x \/ next[x][level] <= y

ChainInv ==
    /\ \A level \in Levels : \A x \in Nodes(level) : LeadsToNext(x, level)
    /\ \A level, upper \in Levels : level <= upper => Stored(upper) \subseteq Stored(level)

-----------------------------------------------------------------------------
(* Linked, which follows the links, has the nodes that are stored.         *)

\* The largest of finitely many numbers.
LEMMA MaxOfIs ==
    ASSUME NEW n \in Nat, NEW S \in SUBSET (0..n), S # {}
    PROVE  MaxOf(S) \in S /\ \A k \in S : k <= MaxOf(S)
<1> DEFINE T == {n - k : k \in S}
<1>1. T \subseteq Nat /\ T # {}
  <2>1. \A k \in S : n - k \in Nat
    OBVIOUS
  <2> QED
    BY <2>1
<1>2. \A k \in S : n - k \in T
  OBVIOUS
<1>3. \A t \in T : \E k \in S : t = n - k
  OBVIOUS
<1> HIDE DEF T
<1>4. PICK t \in T : \A y \in T : ~(<<y, t>> \in OpToRel(<, Nat))
  BY <1>1, WFMin, NatLessThanWellFounded
<1>5. \A y \in T : ~(y < t)
  BY <1>1, <1>4 DEF OpToRel
<1>6. PICK m \in S : t = n - m
  BY <1>3
<1>7. \A k \in S : m >= k
  <2> SUFFICES ASSUME NEW k \in S PROVE m >= k
    OBVIOUS
  <2>1. ~(n - k < n - m)
    BY <1>2, <1>5, <1>6
  <2> QED
    BY <2>1
<1>8. MaxOf(S) \in S /\ \A k \in S : MaxOf(S) >= k
  BY <1>7 DEF MaxOf
<1> QED
  BY <1>8

\* What the keys are, and the nodes.
LEMMA KeysAreNumbers ==
    ASSUME ListParameters
    PROVE  /\ \A k \in Keys : k \in Nat /\ k > 0 /\ k < Null
           /\ Null \in Nat /\ IsFiniteSet(Keys) /\ HeadNode \notin Keys /\ Null \notin Keys
           /\ \A level : Stored(level) \subseteq Keys
           /\ \A level : \A x \in Nodes(level) : x \in Nat /\ x < Null /\ (x = HeadNode \/ x \in Stored(level))
<1>1. /\ \A k \in Keys : k \in Nat /\ k > 0 /\ k < Null
      /\ Null \in Nat /\ Null > 0 /\ IsFiniteSet(Keys)
  BY DEF ListParameters
<1>2. HeadNode \notin Keys /\ Null \notin Keys
  BY <1>1 DEF HeadNode
<1>3. \A level : Stored(level) \subseteq Keys
  BY DEF Stored
<1>4. \A level : \A x \in Nodes(level) : x \in Nat /\ x < Null /\ (x = HeadNode \/ x \in Stored(level))
  BY <1>1, <1>3 DEF Nodes, HeadNode
<1> QED
  BY <1>1, <1>2, <1>3, <1>4

\* How many nodes of the list are not beyond x.
Rank(x, level) == Cardinality({y \in Stored(level) : y <= x})

\* Ranks are numbers.
LEMMA RankType ==
    ASSUME ListParameters, NEW level, NEW x \in Keys \cup {HeadNode}
    PROVE  /\ IsFiniteSet({y \in Stored(level) : y <= x})
           /\ Rank(x, level) \in 0..Cardinality(Keys)
<1>1. IsFiniteSet(Keys) /\ {y \in Stored(level) : y <= x} \subseteq Keys
  BY DEF ListParameters, Stored
<1>2. IsFiniteSet({y \in Stored(level) : y <= x}) /\ Rank(x, level) <= Cardinality(Keys)
  BY <1>1, FS_Subset DEF Rank
<1>3. Rank(x, level) \in Nat /\ Cardinality(Keys) \in Nat
  BY <1>1, <1>2, FS_CardinalityType DEF Rank
<1> QED
  BY <1>2, <1>3

\* The link of a node leads to the one of the next rank.
LEMMA RankOfNext ==
    ASSUME ListParameters, NEW level, NEW x \in Nodes(level), LeadsToNext(x, level), next[x][level] # Null
    PROVE  Rank(next[x][level], level) = Rank(x, level) + 1
<1> DEFINE n == next[x][level]
           S == {y \in Stored(level) : y <= x}
<1>1. n \in Stored(level) /\ x < n /\ \A y \in Stored(level) : y <= x \/ n <= y
  BY DEF LeadsToNext
<1> HIDE DEF n
<1>2. n \in Nat /\ x \in Nat /\ x \in Keys \cup {HeadNode} /\ \A y \in Stored(level) : y \in Nat
  BY <1>1, KeysAreNumbers
<1>3. \A y \in Stored(level) : y <= n <=> y <= x \/ y = n
  BY <1>1, <1>2
<1>4. n \notin S
  BY <1>1, <1>2
<1>5. \A y : y \in {z \in Stored(level) : z <= n} <=> y \in S \cup {n}
  BY <1>1, <1>3
<1>6. {z \in Stored(level) : z <= n} = S \cup {n}
  BY <1>5
<1>7. IsFiniteSet(S)
  BY <1>2, RankType
<1> HIDE DEF S
<1>8. Cardinality(S \cup {n}) = Cardinality(S) + 1
  BY <1>4, <1>7, FS_AddElement
<1> QED
  BY <1>8, <1>6 DEF Rank, n, S

\* Every node but the head is the next of another.
LEMMA HasPredecessor ==
    ASSUME ListParameters, NEW level \in Levels, ChainInv, NEW y \in Stored(level)
    PROVE  \E x \in Nodes(level) : next[x][level] = y
<1> DEFINE S == {x \in Nodes(level) : x < y}
<1>1. y \in Nat /\ y > 0 /\ y < Null /\ \A x \in Nodes(level) : x \in Nat
  BY KeysAreNumbers
<1>2. S \in SUBSET (0..y)
  BY <1>1
<1>3. HeadNode \in S
  BY <1>1 DEF Nodes, HeadNode
<1>4. PICK x \in S : \A k \in S : k <= x
  <2> HIDE DEF S
  <2> QED
    BY <1>1, <1>2, <1>3, MaxOfIs
<1>5. x \in Nodes(level) /\ x < y
  OBVIOUS
<1>6. LeadsToNext(x, level)
  BY <1>5 DEF ChainInv
<1>7. next[x][level] \in Stored(level) \cup {Null} /\ x < next[x][level] /\ next[x][level] <= y
  BY <1>1, <1>5, <1>6 DEF LeadsToNext
<1>8. next[x][level] \in Stored(level)
  BY <1>1, <1>7, KeysAreNumbers
<1>9. ~(next[x][level] < y)
  <2> SUFFICES ASSUME next[x][level] < y PROVE FALSE
    OBVIOUS
  <2>1. next[x][level] \in S
    BY <1>8 DEF Nodes
  <2>2. next[x][level] <= x /\ next[x][level] \in Nat /\ x \in Nat
    BY <1>1, <1>4, <1>5, <1>8, <2>1, KeysAreNumbers
  <2> QED
    BY <1>7, <2>2
<1>10. next[x][level] = y
  <2> DEFINE n == next[x][level]
  <2>1. n \in Nat /\ n <= y /\ ~(n < y)
    BY <1>7, <1>8, <1>9, KeysAreNumbers
  <2> HIDE DEF n
  <2>2. n = y
    BY <1>1, <2>1
  <2> QED
    BY <2>2 DEF n
<1> QED
  BY <1>5, <1>10

\* Whoever follows the links of a level meets the nodes that are stored there.
LEMMA LinkedIsStored ==
    ASSUME ListParameters, ChainInv, NEW level \in Levels
    PROVE  Linked(level) = Stored(level)
<1> DEFINE C == Cardinality(Keys)
           Links(X) == {next[x][level] : x \in X} \ {Null, Garbage}
           Met(n) == {HeadNode} \cup {y \in Stored(level) : Rank(y, level) <= n}
           met == [n \in 0..C |-> Met(n)]
           IsReach(f) == f = [n \in 0..C |-> IF n = 0 THEN {HeadNode} ELSE f[n - 1] \cup Links(f[n - 1])]
           reach == CHOOSE f : IsReach(f)
<1>1. C \in Nat
  BY KeysAreNumbers, FS_CardinalityType
<1>2. \A x \in Nodes(level) : Rank(x, level) \in 0..C /\ LeadsToNext(x, level)
  BY RankType, KeysAreNumbers DEF ChainInv, Nodes
<1>3. \A y \in Stored(level) : \E x \in Nodes(level) : next[x][level] = y /\ Rank(y, level) = Rank(x, level) + 1
  <2> SUFFICES ASSUME NEW y \in Stored(level)
               PROVE  \E x \in Nodes(level) : next[x][level] = y /\ Rank(y, level) = Rank(x, level) + 1
    OBVIOUS
  <2>1. PICK x \in Nodes(level) : next[x][level] = y
    BY HasPredecessor
  <2>2. y # Null
    BY KeysAreNumbers
  <2>3. Rank(next[x][level], level) = Rank(x, level) + 1
    BY <1>2, <2>1, <2>2, RankOfNext
  <2> QED
    BY <2>1, <2>3
<1>4. Met(0) = {HeadNode} /\ Rank(HeadNode, level) = 0
  <2>1. \A y \in Stored(level) : Rank(y, level) > 0
    BY <1>1, <1>2, <1>3
  <2>2. \A y \in Stored(level) : y \in Nat /\ y > 0
    BY KeysAreNumbers
  <2>3. {y \in Stored(level) : y <= HeadNode} = {}
    BY <2>2 DEF HeadNode
  <2>4. Rank(HeadNode, level) = 0
    BY <2>3, FS_EmptySet DEF Rank
  <2>5. \A y \in Stored(level) : ~(Rank(y, level) <= 0)
    BY <1>1, <1>2, <2>1 DEF Nodes
  <2> QED
    BY <2>4, <2>5
<1>5. \A n \in 1..C : Met(n) = Met(n - 1) \cup Links(Met(n - 1))
  <2> SUFFICES ASSUME NEW n \in 1..C, NEW y
               PROVE  y \in Met(n) <=> y \in Met(n - 1) \/ y \in Links(Met(n - 1))
    OBVIOUS
  <2>1. CASE y = HeadNode
    BY <2>1
  <2>2. CASE y # HeadNode
    <3>1. ASSUME y \in Met(n) PROVE y \in Links(Met(n - 1))
      <4>1. y \in Stored(level) /\ Rank(y, level) <= n
        BY <2>2, <3>1
      <4>2. PICK x \in Nodes(level) : next[x][level] = y /\ Rank(y, level) = Rank(x, level) + 1
        BY <1>3, <4>1
      <4>3. Rank(x, level) <= n - 1
        BY <1>1, <1>2, <4>1, <4>2
      <4>4. x \in Met(n - 1)
        BY <4>2, <4>3 DEF Nodes
      <4>5. y \notin {Null, Garbage}
        BY <4>1, KeysAreNumbers DEF Garbage
      <4> QED
        BY <4>2, <4>4, <4>5
    <3>2. ASSUME y \in Met(n - 1) PROVE y \in Met(n)
      BY <1>1, <1>2, <2>2, <3>2 DEF Nodes
    <3>3. ASSUME y \in Links(Met(n - 1)) PROVE y \in Met(n)
      <4>1. PICK x \in Met(n - 1) : y = next[x][level] /\ y # Null
        BY <3>3
      <4>2. x \in Nodes(level)
        BY <4>1 DEF Nodes
      <4>3. y \in Stored(level) /\ Rank(y, level) = Rank(x, level) + 1
        <5>1. LeadsToNext(x, level)
          BY <1>2, <4>2
        <5>2. y \in Stored(level)
          BY <4>1, <5>1 DEF LeadsToNext
        <5> QED
          BY <4>1, <4>2, <5>1, <5>2, RankOfNext
      <4>4. Rank(x, level) <= n - 1
        BY <1>1, <1>4, <4>1
      <4> QED
        BY <1>1, <1>2, <4>2, <4>3, <4>4
    <3> QED
      BY <3>1, <3>2, <3>3
  <2> QED
    BY <2>1, <2>2
<1>6. IsReach(met)
  BY <1>1, <1>4, <1>5
<1> HIDE DEF met, Met, Links, IsReach, C
<1>7. IsReach(reach)
  BY <1>6
<1>8. Linked(level) = reach[C] \ {HeadNode}
  BY DEF Linked, C, Links, IsReach
<1> HIDE DEF reach
<1>9. reach = met
  <2> DEFINE T == {n \in 0..C : reach[n] # met[n]}
  <2>1. reach = [n \in 0..C |-> IF n = 0 THEN {HeadNode} ELSE reach[n - 1] \cup Links(reach[n - 1])]
    BY <1>7 DEF IsReach
  <2>2. met = [n \in 0..C |-> IF n = 0 THEN {HeadNode} ELSE met[n - 1] \cup Links(met[n - 1])]
    BY <1>6 DEF IsReach
  <2>3. SUFFICES ASSUME T # {} PROVE FALSE
    BY <2>1, <2>2
  <2>4. T \subseteq Nat
    BY <1>1
  <2>5. PICK t \in T : \A n \in T : ~(<<n, t>> \in OpToRel(<, Nat))
    BY <2>3, <2>4, WFMin, NatLessThanWellFounded
  <2>6. t \in 0..C /\ reach[t] # met[t] /\ \A n \in 0..C : n < t => reach[n] = met[n]
    BY <1>1, <2>4, <2>5 DEF OpToRel
  <2>7. CASE t = 0
    BY <1>1, <2>1, <2>2, <2>6, <2>7
  <2>8. CASE t # 0
    <3>1. t - 1 \in 0..C /\ reach[t - 1] = met[t - 1]
      BY <1>1, <2>6, <2>8
    <3>2. reach[t] = reach[t - 1] \cup Links(reach[t - 1])
      BY <2>1, <2>6, <2>8
    <3>3. met[t] = met[t - 1] \cup Links(met[t - 1])
      BY <2>2, <2>6, <2>8
    <3> QED
      BY <2>6, <3>1, <3>2, <3>3
  <2> QED
    BY <2>7, <2>8
<1>10. met[C] = {HeadNode} \cup Stored(level)
  BY <1>1, <1>2 DEF met, Met, Nodes
<1>11. HeadNode \notin Stored(level)
  BY KeysAreNumbers
<1> QED
  BY <1>8, <1>9, <1>10, <1>11

-----------------------------------------------------------------------------
(* The inductive invariant: every list leads through its nodes in order,   *)
(* the writer knows where its node belongs, and a search stands at a node  *)
(* of its level before its target.                                         *)

Insertions == [key : Keys, height : 1..kMaxHeight, linked : Nat, prev : [Levels -> Keys \cup {HeadNode}]]
Searches ==
    [op : {"none", "done", "seek", "last", "prev"}, target : Keys \cup {Null, HeadNode},
     x : Keys \cup {HeadNode}, level : Levels, node : Keys \cup {Null}, before : SUBSET Keys]

TypeInv ==
    /\ LinksInv
    /\ heights \subseteq 1..kMaxHeight
    /\ writer = Idle \/ writer \in Insertions
    /\ reader \in [Readers -> Searches]

\* Where the node that is inserted is linked, and where it will be.
BelongsAt(w, level) ==
    /\ level < w.linked => w.key \in Stored(level)
    /\ level >= w.linked =>
          /\ w.key \notin Stored(level)
          /\ w.prev[level] \in Nodes(level) /\ w.prev[level] < w.key
          /\ \A y \in Stored(level) : y <= w.prev[level] \/ w.key < y

WriterInv ==
    writer # Idle => writer.linked < writer.height /\ \A level \in Levels : BelongsAt(writer, level)

\* A search s has seen its list up to x, which is before the target.
SearchInv(s) ==
    /\ s.op \notin {"none", "done"} =>
          s.x \in Nodes(s.level) /\ s.x < s.target /\ s.target \in Keys \cup {Null}
    /\ s.node \in Stored(0) \cup {Null}
    /\ s.before \subseteq Stored(0)

IInv == TypeInv /\ ChainInv /\ WriterInv /\ \A r \in Readers : SearchInv(reader[r])

\* The levels are numbers, the lowest is 0.
LEMMA LevelsAreNumbers ==
    ASSUME ListParameters
    PROVE  kMaxHeight \in Nat /\ kMaxHeight > 0 /\ 0 \in Levels /\ \A level \in Levels : level \in Nat /\ level < kMaxHeight
BY DEF ListParameters, Levels

\* What the loads of a reader and of the writer see where nothing is written.
LEMMA ListsStay ==
    ASSUME next' = next
    PROVE  /\ \A level : Stored(level)' = Stored(level) /\ Nodes(level)' = Nodes(level)
           /\ \A w, level : BelongsAt(w, level)' <=> BelongsAt(w, level)
           /\ LinksInv' <=> LinksInv
           /\ ChainInv' <=> ChainInv
           /\ \A s : SearchInv(s)' <=> SearchInv(s)
<1>1. \A level : Stored(level)' = Stored(level) /\ Nodes(level)' = Nodes(level)
  BY DEF Stored, Nodes
<1>2. \A w, level : BelongsAt(w, level)' <=> BelongsAt(w, level)
  BY <1>1 DEF BelongsAt
<1>3. \A s : SearchInv(s)' <=> SearchInv(s)
  BY <1>1 DEF SearchInv
<1>4. ChainInv' <=> ChainInv
  BY <1>1 DEF ChainInv, LeadsToNext
<1> QED
  BY <1>1, <1>2, <1>3, <1>4 DEF LinksInv

\* At the start all lists are empty.
LEMMA InitInv ==
    ASSUME ListParameters, Init
    PROVE  IInv
<1>1. \A level : level \in Levels => Stored(level) = {} /\ Nodes(level) = {HeadNode}
  BY KeysAreNumbers DEF Init, Stored, Nodes, Unlinked
<1>2. TypeInv
  <2>1. LinksInv
    BY DEF Init, LinksInv, Unlinked
  <2>2. heights \subseteq 1..kMaxHeight
    BY LevelsAreNumbers DEF Init
  <2>3. writer = Idle
    BY DEF Init
  <2>4. reader \in [Readers -> Searches]
    BY LevelsAreNumbers DEF Init, NoOp, HeadNode, Searches
  <2> QED
    BY <2>1, <2>2, <2>3, <2>4 DEF TypeInv
<1>3. ChainInv
  <2>1. \A level \in Levels : next[HeadNode][level] = Null /\ HeadNode < Null
    BY LevelsAreNumbers DEF Init, ListParameters, HeadNode
  <2> QED
    BY <1>1, <2>1 DEF ChainInv, LeadsToNext
<1>4. WriterInv
  BY DEF Init, WriterInv
<1>5. ASSUME NEW r \in Readers PROVE SearchInv(reader[r])
  <2>1. reader[r] = NoOp
    BY DEF Init
  <2> QED
    BY <2>1 DEF SearchInv, NoOp
<1> QED
  BY <1>2, <1>3, <1>4, <1>5 DEF IInv

-----------------------------------------------------------------------------
(* The writer.                                                             *)

\* The search of Insert finds the predecessors.
LEMMA InsertKeeps ==
    ASSUME ListParameters, IInv, NEW key \in Keys, NEW height \in 1..kMaxHeight, Insert(key, height)
    PROVE  IInv'
<1>1. next' = next /\ heights' = heights /\ reader' = reader /\ key \notin Linked(0)
  BY DEF Insert
<1>2. ChainInv /\ TypeInv
  BY DEF IInv
<1>3. \A level \in Levels : Linked(level) = Stored(level)
  BY <1>2, LinkedIsStored
<1>4. \A level \in Levels : key \notin Stored(level)
  BY <1>1, <1>2, <1>3, LevelsAreNumbers DEF ChainInv
<1> DEFINE Before(level) == {HeadNode} \cup {k \in Linked(level) : k < key}
           p(level) == MaxOf(Before(level))
<1>5. writer' = [key |-> key, height |-> height, linked |-> 0, prev |-> [level \in Levels |-> p(level)]]
  BY DEF Insert
<1>6. ASSUME NEW level \in Levels
      PROVE  /\ p(level) \in Nodes(level) /\ p(level) < key
             /\ \A y \in Stored(level) : y <= p(level) \/ key < y
  <2>1. key \in Nat /\ key > 0 /\ \A y \in Stored(level) : y \in Nat
    BY KeysAreNumbers
  <2>2. Before(level) = {HeadNode} \cup {k \in Stored(level) : k < key}
    BY <1>3
  <2>3. Before(level) \in SUBSET (0..key) /\ HeadNode \in Before(level)
    BY <2>1, <2>2 DEF HeadNode
  <2> HIDE DEF Before
  <2>4. p(level) \in Before(level) /\ \A k \in Before(level) : k <= p(level)
    BY <2>1, <2>3, MaxOfIs
  <2> HIDE DEF p
  <2>5. p(level) \in Nodes(level) /\ p(level) < key
    BY <2>1, <2>2, <2>4 DEF Nodes, HeadNode
  <2>6. ASSUME NEW y \in Stored(level) PROVE y <= p(level) \/ key < y
    <3>1. y # key
      BY <1>4
    <3>2. y < key => y \in Before(level)
      BY <2>2
    <3> QED
      BY <2>1, <2>4, <3>1, <3>2
  <2> QED
    BY <2>5, <2>6
<1> HIDE DEF p, Before
<1>7. TypeInv'
  <2>1. \A level \in Levels : p(level) \in Keys \cup {HeadNode}
    BY <1>6, KeysAreNumbers
  <2>2. writer' \in Insertions
    BY <1>5, <2>1 DEF Insertions
  <2> QED
    BY <1>1, <1>2, <2>2, ListsStay DEF TypeInv
<1>8. WriterInv'
  <2>1. writer'.linked = 0 /\ writer'.height = height /\ writer'.key = key
    BY <1>5
  <2>2. ASSUME NEW level \in Levels PROVE BelongsAt(writer', level)
    <3>1. writer'.prev[level] = p(level)
      BY <1>5
    <3>2. ~(level < 0)
      BY LevelsAreNumbers
    <3> QED
      BY <1>4, <1>6, <2>1, <3>1, <3>2 DEF BelongsAt
  <2>3. \A level \in Levels : BelongsAt(writer, level)'
    BY <1>1, <2>2 DEF BelongsAt, Stored, Nodes
  <2>4. 0 < height
    OBVIOUS
  <2> QED
    BY <2>1, <2>3, <2>4 DEF WriterInv
<1>9. ChainInv' /\ \A r \in Readers : SearchInv(reader[r])'
  BY <1>1, <1>2, ListsStay DEF IInv, SearchInv, Stored
<1> QED
  BY <1>7, <1>8, <1>9 DEF IInv

\* A greater max_height_ is stored.
LEMMA StoreHeightKeeps ==
    ASSUME ListParameters, IInv, StoreHeight
    PROVE  IInv'
<1>1. next' = next /\ writer' = writer /\ reader' = reader /\ writer # Idle /\ heights' = heights \cup {writer.height}
  BY DEF StoreHeight
<1>2. writer.height \in 1..kMaxHeight
  BY <1>1 DEF IInv, TypeInv, Insertions
<1>3. TypeInv'
  BY <1>1, <1>2, ListsStay DEF IInv, TypeInv
<1>4. WriterInv'
  BY <1>1 DEF IInv, WriterInv, BelongsAt, Stored, Nodes
<1>5. ChainInv' /\ \A r \in Readers : SearchInv(reader[r])'
  BY <1>1, ListsStay DEF IInv, SearchInv, Stored
<1> QED
  BY <1>3, <1>4, <1>5 DEF IInv

\* The node that is inserted joins the list of a level.
LEMMA LinkKeeps ==
    ASSUME ListParameters, IInv, Link
    PROVE  /\ IInv'
           /\ \A level \in Levels : Stored(level) \subseteq Stored(level)' /\ Stored(level)' \subseteq Stored(level) \cup {writer.key}
<1>1. writer # Idle /\ heights' = heights /\ reader' = reader
  BY DEF Link
<1>2. /\ LinksInv /\ ChainInv /\ writer.linked < writer.height
      /\ writer.key \in Keys /\ writer.height \in 1..kMaxHeight /\ writer.linked \in Nat
      /\ writer.prev \in [Levels -> Keys \cup {HeadNode}]
      /\ \A level \in Levels : BelongsAt(writer, level)
  BY <1>1 DEF IInv, TypeInv, WriterInv, Insertions
<1>3. writer.linked \in Levels
  BY <1>2, LevelsAreNumbers DEF Levels
\* They are picked, as they change in the step.
<1>k. PICK key \in Keys : key = writer.key
  BY <1>2
<1>l. PICK l \in Levels : l = writer.linked
  BY <1>3
<1>p. PICK p \in Keys \cup {HeadNode} : p = writer.prev[l]
  BY <1>2
<1>q. PICK q : q = next[p][l]
  OBVIOUS
<1>4. /\ key \notin Stored(l) /\ p \in Nodes(l) /\ p < key
      /\ \A y \in Stored(l) : y <= p \/ key < y
  <2>1. l \in Nat
    BY LevelsAreNumbers
  <2> QED
    BY <1>2, <1>k, <1>l, <1>p, <2>1 DEF BelongsAt
<1>5. LeadsToNext(p, l)
  BY <1>2, <1>4 DEF ChainInv
<1>6. /\ key \in Nat /\ key < Null /\ p \in Nat /\ Null \in Nat
      /\ \A level : \A y \in Nodes(level) : y \in Nat
      /\ \A y \in Stored(l) : y \in Nat
      /\ HeadNode \in Nat
  BY <1>4, KeysAreNumbers DEF HeadNode
<1>7. q \in Stored(l) \cup {Null} /\ p < q /\ \A y \in Stored(l) : y <= p \/ q <= y
  BY <1>5, <1>q DEF LeadsToNext
<1>8. key < q /\ q \in Nat /\ q \in Keys \cup {Null}
  <2>1. CASE q = Null
    BY <1>6, <2>1
  <2>2. CASE q \in Stored(l)
    <3>1. q \in Nat /\ q \in Keys
      BY <2>2, KeysAreNumbers
    <3>2. q <= p \/ key < q
      BY <1>4, <2>2
    <3> QED
      BY <1>6, <1>7, <3>1, <3>2
  <2> QED
    BY <1>7, <2>1, <2>2
<1>9. next' = [next EXCEPT ![key][l] = q, ![p][l] = key]
  BY <1>k, <1>l, <1>p, <1>q DEF Link, LevelToLink, WithLink
<1>10. p # key
  BY <1>4, <1>6
<1>11. /\ next'[key][l] = q /\ next'[p][l] = key
       /\ \A x \in Keys \cup {HeadNode} : x \notin {key, p} => next'[x][l] = next[x][l]
       /\ \A x \in Keys \cup {HeadNode}, level \in Levels : level # l => next'[x][level] = next[x][level]
       /\ LinksInv'
  <2>1. next \in [Keys \cup {HeadNode} -> [Levels -> Keys \cup {Null, Garbage}]]
    BY <1>2 DEF LinksInv
  <2>2. q \in Keys \cup {Null, Garbage} /\ key \in Keys \cup {Null, Garbage}
    BY <1>8
  <2>3. key \in Keys \cup {HeadNode} /\ p \in Keys \cup {HeadNode}
    OBVIOUS
  <2> QED
    BY <1>9, <1>10, <2>1, <2>2, <2>3 DEF LinksInv
<1>12. Stored(l)' = Stored(l) \cup {key} /\ Nodes(l)' = Nodes(l) \cup {key}
  <2>1. q # Garbage /\ key # Garbage
    BY <1>6, <1>8 DEF Garbage
  <2>2. next[p][l] # Garbage
    BY <1>4, <1>5, <1>q, <2>1
  <2>3. \A x \in Keys : next'[x][l] # Garbage <=> next[x][l] # Garbage \/ x = key
    BY <1>2, <1>10, <1>11, <2>1, <2>2
  <2> QED
    BY <1>2, <2>3 DEF Stored, Nodes
<1>13. \A level \in Levels : level # l => Stored(level)' = Stored(level) /\ Nodes(level)' = Nodes(level)
  BY <1>11 DEF Stored, Nodes
<1>14. \A level \in Levels : Stored(level) \subseteq Stored(level)' /\ Nodes(level) \subseteq Nodes(level)'
  BY <1>12, <1>13
<1>15. ChainInv'
  <2>1. ASSUME NEW level \in Levels, level # l, NEW x \in Nodes(level)' PROVE LeadsToNext(x, level)'
    <3>1. x \in Nodes(level) /\ next'[x][level] = next[x][level]
      BY <1>11, <1>13, <2>1 DEF Nodes, Stored
    <3>2. LeadsToNext(x, level)
      BY <1>2, <3>1 DEF ChainInv
    <3> QED
      BY <1>13, <2>1, <3>1, <3>2 DEF LeadsToNext
  <2>2. ASSUME NEW x \in Nodes(l)' PROVE LeadsToNext(x, l)'
    <3>1. CASE x = key
      <4>1. \A y \in Stored(l)' : y <= key \/ q <= y
        BY <1>4, <1>6, <1>7, <1>12
      <4> QED
        BY <1>7, <1>8, <1>11, <1>12, <3>1, <4>1 DEF LeadsToNext
    <3>2. CASE x = p
      <4>1. \A y \in Stored(l)' : y <= p \/ key <= y
        BY <1>4, <1>6, <1>12
      <4> QED
        BY <1>4, <1>11, <1>12, <3>2, <4>1 DEF LeadsToNext
    <3>3. CASE x \notin {key, p}
      <4>1. x \in Nodes(l) /\ x \in Keys \cup {HeadNode}
        BY <1>12, <3>3 DEF Nodes, Stored
      <4>2. next'[x][l] = next[x][l]
        BY <1>11, <3>3, <4>1
      <4>3. LeadsToNext(x, l)
        BY <1>2, <1>3, <4>1 DEF ChainInv
      <4>4. x \in Nat /\ next[x][l] \in Nat
        BY <1>6, <4>1, <4>3 DEF LeadsToNext
      <4>5. key <= x \/ next[x][l] <= key
        <5>1. CASE x < p
          <6>1. p \in Stored(l)
            BY <1>4, <1>6, <4>4, <5>1 DEF Nodes, HeadNode
          <6>2. p <= x \/ next[x][l] <= p
            BY <4>3, <6>1 DEF LeadsToNext
          <6> QED
            BY <1>4, <1>6, <4>4, <5>1, <6>2
        <5>2. CASE ~(x < p)
          <6>1. x # HeadNode
            BY <1>6, <3>3, <4>4, <5>2 DEF HeadNode
          <6>2. x \in Stored(l)
            BY <4>1, <6>1 DEF Nodes
          <6> QED
            BY <1>4, <1>6, <3>3, <4>4, <5>2, <6>2
        <5> QED
          BY <5>1, <5>2
      <4> QED
        BY <1>12, <4>2, <4>3, <4>5 DEF LeadsToNext
    <3> QED
      BY <3>1, <3>2, <3>3
  <2>3. ASSUME NEW level \in Levels, NEW upper \in Levels, level <= upper PROVE Stored(upper)' \subseteq Stored(level)'
    <3>1. Stored(upper) \subseteq Stored(level)
      BY <1>2, <2>3 DEF ChainInv
    <3>2. CASE upper = l /\ level # l
      <4>1. level < l
        BY <1>3, <2>3, <3>2, LevelsAreNumbers
      <4>2. key \in Stored(level)
        BY <1>2, <1>k, <1>l, <4>1 DEF BelongsAt
      <4> QED
        BY <1>12, <1>13, <3>1, <3>2, <4>2
    <3>3. CASE upper # l \/ level = l
      BY <1>12, <1>13, <3>1, <3>3
    <3> QED
      BY <3>2, <3>3
  <2> QED
    BY <2>1, <2>2, <2>3 DEF ChainInv
<1>16. writer' = IF l + 1 = writer.height THEN Idle ELSE [writer EXCEPT !.linked = l + 1]
  BY <1>l DEF Link
<1>17. TypeInv' /\ WriterInv'
  <2>1. CASE l + 1 = writer.height
    BY <1>1, <1>11, <1>16, <2>1 DEF IInv, TypeInv, WriterInv
  <2>2. CASE l + 1 # writer.height
    <3>1. PICK w : w = writer'
      OBVIOUS
    <3>w. w = [writer EXCEPT !.linked = l + 1]
      BY <1>16, <2>2, <3>1
    <3>2. writer \in Insertions
      BY <1>1 DEF IInv, TypeInv
    <3>3. /\ w \in Insertions
          /\ w.linked = l + 1 /\ w.key = key /\ w.height = writer.height /\ w.prev = writer.prev
      BY <1>k, <1>l, <1>6, <3>2, <3>w, LevelsAreNumbers DEF Insertions
    <3>4. TypeInv'
      BY <1>1, <1>11, <3>1, <3>3 DEF IInv, TypeInv
    <3>5. ASSUME NEW level \in Levels PROVE BelongsAt(w, level)'
      <4>1. BelongsAt(writer, level) /\ level \in Nat /\ l \in Nat
        BY <1>2, LevelsAreNumbers
      <4>2. CASE level = l
        BY <1>12, <3>3, <4>1, <4>2 DEF BelongsAt
      <4>3. CASE level # l
        <5>1. Stored(level)' = Stored(level) /\ Nodes(level)' = Nodes(level)
          BY <1>13, <4>3
        <5>2. level < w.linked <=> level < writer.linked
          BY <1>l, <3>3, <4>1, <4>3
        <5>3. level >= w.linked => level >= writer.linked
          BY <1>l, <3>3, <4>1, <4>3
        <5> QED
          BY <1>k, <3>3, <4>1, <5>1, <5>2, <5>3 DEF BelongsAt
      <4> QED
        BY <4>2, <4>3
    <3>6. w.linked < w.height
      BY <1>2, <1>l, <2>2, <3>3
    <3>7. WriterInv'
      BY <3>1, <3>5, <3>6 DEF WriterInv, BelongsAt, Stored, Nodes
    <3> QED
      BY <3>4, <3>7
  <2> QED
    BY <2>1, <2>2
<1>18. ASSUME NEW r \in Readers PROVE SearchInv(reader[r])'
  <2>1. SearchInv(reader[r]) /\ reader[r].level \in Levels
    BY DEF IInv, TypeInv, Searches
  <2> QED
    BY <1>1, <1>14, <2>1, LevelsAreNumbers DEF SearchInv
<1>19. \A level \in Levels : Stored(level)' \subseteq Stored(level) \cup {writer.key}
  BY <1>k, <1>12, <1>13
<1> QED
  BY <1>14, <1>15, <1>17, <1>18, <1>19 DEF IInv

-----------------------------------------------------------------------------
(* The readers.                                                            *)

\* What a step of one reader changes.
LEMMA ReaderKeeps ==
    ASSUME IInv, UNCHANGED <<next, heights, writer>>, NEW r \in Readers, NEW s,
           reader' = [reader EXCEPT ![r] = s], SearchInv(s),
           s \in Searches
    PROVE  IInv'
<1>1. next' = next /\ heights' = heights /\ writer' = writer
  OBVIOUS
<1>2. TypeInv'
  BY <1>1, ListsStay DEF IInv, TypeInv
<1>3. WriterInv'
  BY <1>1 DEF IInv, WriterInv, BelongsAt, Stored, Nodes
<1>4. ASSUME NEW o \in Readers PROVE SearchInv(reader[o])'
  <2>1. PICK t : t = reader'[o]
    OBVIOUS
  <2>2. SearchInv(t)
    BY <2>1 DEF IInv, TypeInv
  <2> QED
    BY <1>1, <2>1, <2>2 DEF SearchInv, Stored, Nodes
<1> QED
  BY <1>1, <1>2, <1>3, <1>4, ListsStay DEF IInv

\* A search begins at the head.
LEMMA SearchKeeps ==
    ASSUME ListParameters, IInv, NEW r \in Readers, NEW op \in {"seek", "last", "prev"},
           NEW target \in Keys \cup {Null}, Search(r, op, target)
    PROVE  IInv'
<1>1. PICK h \in heights :
          reader' = [reader EXCEPT ![r] = [op |-> op, target |-> target, x |-> HeadNode, level |-> h - 1,
                                           node |-> reader[r].node, before |-> Linked(0)]]
  BY DEF Search
<1> DEFINE s == [op |-> op, target |-> target, x |-> HeadNode, level |-> h - 1,
                 node |-> reader[r].node, before |-> Linked(0)]
<1>2. h - 1 \in Levels
  <2>1. h \in 1..kMaxHeight /\ kMaxHeight \in Nat
    BY LevelsAreNumbers DEF IInv, TypeInv
  <2> QED
    BY <2>1 DEF Levels
<1>3. Linked(0) = Stored(0) /\ Stored(0) \subseteq Keys
  BY LinkedIsStored, LevelsAreNumbers, KeysAreNumbers DEF IInv
<1>4. reader[r].node \in Keys \cup {Null} /\ reader[r].node \in Stored(0) \cup {Null}
  BY DEF IInv, TypeInv, SearchInv, Searches
<1>5. SearchInv(s)
  BY <1>3, <1>4, KeysAreNumbers DEF SearchInv, Nodes, HeadNode, ListParameters
<1>6. s \in Searches
  BY <1>2, <1>3, <1>4 DEF Searches
<1>7. reader' = [reader EXCEPT ![r] = s] /\ UNCHANGED <<next, heights, writer>>
  BY <1>1 DEF Search
<1> HIDE DEF s
<1> QED
  BY <1>5, <1>6, <1>7, ReaderKeeps

\* An operation has ended at a node of the lowest list or beyond the last.
LEMMA DoneKeeps ==
    ASSUME ListParameters, IInv, UNCHANGED <<next, heights, writer>>, NEW r \in Readers,
           NEW node \in Stored(0) \cup {Null}, Done(r, node)
    PROVE  IInv'
<1> DEFINE s == [reader[r] EXCEPT !.op = "done", !.node = node]
<1>1. /\ reader[r] \in Searches
      /\ SearchInv(reader[r]) /\ r \in DOMAIN reader
  BY DEF IInv, TypeInv
<1>2. /\ s \in Searches
      /\ s.op = "done" /\ s.node = node /\ s.before = reader[r].before
  BY <1>1, KeysAreNumbers DEF Searches
<1>3. reader' = [reader EXCEPT ![r] = s]
  BY <1>1 DEF Done
<1> HIDE DEF s
<1>4. SearchInv(s)
  BY <1>1, <1>2 DEF SearchInv
<1> QED
  BY <1>2, <1>3, <1>4, ReaderKeeps

\* The link a search follows next.
LEMMA SearchLoads ==
    ASSUME ListParameters, IInv, NEW r \in Readers, reader[r].op \notin {"none", "done"}
    PROVE  /\ reader[r].x \in Nodes(reader[r].level) /\ reader[r].level \in Levels
           /\ LeadsToNext(reader[r].x, reader[r].level)
           /\ next[reader[r].x][reader[r].level] \in Stored(reader[r].level) \cup {Null}
           /\ next[reader[r].x][reader[r].level] \in Nat
           /\ reader[r].x < reader[r].target /\ reader[r].target \in Keys \cup {Null}
           /\ reader[r].x \in Nat /\ reader[r].target \in Nat /\ reader[r].target <= Null
<1>1. /\ reader[r].x \in Nodes(reader[r].level) /\ reader[r].level \in Levels
      /\ reader[r].x < reader[r].target /\ reader[r].target \in Keys \cup {Null}
  BY DEF IInv, TypeInv, SearchInv, Searches
<1>2. LeadsToNext(reader[r].x, reader[r].level)
  BY <1>1 DEF IInv, ChainInv
<1>3. next[reader[r].x][reader[r].level] \in Stored(reader[r].level) \cup {Null}
  BY <1>2 DEF LeadsToNext
<1>4. next[reader[r].x][reader[r].level] \in Nat /\ reader[r].x \in Nat
  BY <1>1, <1>3, KeysAreNumbers
<1>5. reader[r].target \in Nat /\ reader[r].target <= Null
  BY <1>1, KeysAreNumbers
<1> QED
  BY <1>1, <1>2, <1>3, <1>4, <1>5

\* One round of a search: to the right, down, or it ends.
LEMMA StepKeeps ==
    ASSUME ListParameters, IInv, NEW r \in Readers, Step(r)
    PROVE  IInv'
<1> DEFINE old == reader[r]
           n == next[old.x][old.level]
<1>1. old.op \notin {"none", "done"} /\ UNCHANGED <<next, heights, writer>>
  BY DEF Step
<1>2. /\ old \in Searches
      /\ SearchInv(old) /\ r \in DOMAIN reader
  BY DEF IInv, TypeInv
<1>3. /\ old.x \in Nodes(old.level) /\ old.level \in Levels
      /\ n \in Stored(old.level) \cup {Null} /\ n \in Nat
      /\ old.x < old.target /\ old.target \in Keys \cup {Null}
      /\ old.x \in Nat /\ old.target \in Nat /\ old.target <= Null
  BY <1>1, SearchLoads
<1>4. CASE GoesOn(r, n)
  <2> DEFINE s == [old EXCEPT !.x = n]
  <2>1. reader' = [reader EXCEPT ![r] = s]
    BY <1>2, <1>4 DEF Step
  <2>2. n < old.target
    BY <1>4 DEF GoesOn
  <2>3. n \in Stored(old.level) /\ n \in Keys
    BY <1>3, <2>2, KeysAreNumbers
  <2>4. /\ s \in Searches
        /\ s.x = n /\ s.level = old.level /\ s.target = old.target /\ s.node = old.node /\ s.before = old.before
    BY <1>2, <2>3 DEF Searches
  <2> HIDE DEF s, n, old
  <2>5. SearchInv(s)
    BY <1>2, <1>3, <2>2, <2>3, <2>4 DEF SearchInv, Nodes
  <2> QED
    BY <1>1, <2>1, <2>4, <2>5, ReaderKeeps
<1>5. CASE ~GoesOn(r, n) /\ old.level = 0
  <2>1. Done(r, Result(old.op, old.x, n))
    BY <1>5 DEF Step
  <2>2. Result(old.op, old.x, n) \in Stored(0) \cup {Null}
    BY <1>3, <1>5 DEF Result, Nodes
  <2> QED
    BY <1>1, <2>1, <2>2, DoneKeeps
<1>6. CASE ~GoesOn(r, n) /\ old.level # 0
  <2> DEFINE s == [old EXCEPT !.level = old.level - 1]
  <2>1. reader' = [reader EXCEPT ![r] = s]
    BY <1>2, <1>6 DEF Step, Lower
  <2>2. old.level - 1 \in Levels /\ old.level - 1 <= old.level
    <3>1. old.level \in Nat /\ kMaxHeight \in Nat /\ old.level < kMaxHeight
      BY <1>3, LevelsAreNumbers
    <3> QED
      BY <1>6, <3>1 DEF Levels
  <2>3. old.x \in Nodes(old.level - 1)
    BY <1>3, <2>2 DEF IInv, ChainInv, Nodes
  <2>4. /\ s \in Searches
        /\ s.x = old.x /\ s.level = old.level - 1 /\ s.target = old.target
        /\ s.node = old.node /\ s.before = old.before
    BY <1>2, <2>2 DEF Searches
  <2> HIDE DEF s, n, old
  <2>5. SearchInv(s)
    BY <1>2, <1>3, <2>3, <2>4 DEF SearchInv
  <2> QED
    BY <1>1, <2>1, <2>4, <2>5, ReaderKeeps
<1> QED
  BY <1>4, <1>5, <1>6

-----------------------------------------------------------------------------
(* The properties.                                                         *)

\* Every step of the writer and of the readers keeps the invariant.
LEMMA NextKeeps ==
    ASSUME ListParameters, IInv, [Next]_vars
    PROVE  IInv'
<1>1. ASSUME NEW key \in Keys, NEW height \in 1..kMaxHeight, Insert(key, height) PROVE IInv'
  BY <1>1, InsertKeeps
<1>2. CASE StoreHeight
  BY <1>2, StoreHeightKeeps
<1>3. CASE Link
  BY <1>3, LinkKeeps
<1>4. ASSUME NEW r \in Readers, NEW target \in Keys, Seek(r, target) PROVE IInv'
  BY <1>4, SearchKeeps DEF Seek
<1>5. ASSUME NEW r \in Readers, SeekToLast(r) PROVE IInv'
  BY <1>5, SearchKeeps DEF SeekToLast
<1>6. ASSUME NEW r \in Readers, Prev(r) PROVE IInv'
  <2>1. reader[r].node \in Keys \cup {Null}
    BY DEF IInv, TypeInv, Searches
  <2> QED
    BY <1>6, <2>1, SearchKeeps DEF Prev
<1>7. ASSUME NEW r \in Readers, SeekToFirst(r) PROVE IInv'
  <2>1. LeadsToNext(HeadNode, 0)
    BY LevelsAreNumbers DEF IInv, ChainInv, Nodes
  <2>2. next[HeadNode][0] \in Stored(0) \cup {Null}
    BY <2>1 DEF LeadsToNext
  <2> QED
    BY <1>7, <2>2, DoneKeeps DEF SeekToFirst
<1>8. ASSUME NEW r \in Readers, Next1(r) PROVE IInv'
  <2>1. reader[r].node \in Stored(0)
    BY <1>8 DEF Next1, IInv, SearchInv
  <2>2. LeadsToNext(reader[r].node, 0)
    BY <2>1, LevelsAreNumbers DEF IInv, ChainInv, Nodes
  <2>3. next[reader[r].node][0] \in Stored(0) \cup {Null}
    BY <2>2 DEF LeadsToNext
  <2> QED
    BY <1>8, <2>3, DoneKeeps DEF Next1
<1>9. ASSUME NEW r \in Readers, Step(r) PROVE IInv'
  BY <1>9, StepKeeps
<1>10. CASE UNCHANGED vars
  <2>1. next' = next /\ heights' = heights /\ writer' = writer /\ reader' = reader
    BY <1>10 DEF vars
  <2>2. TypeInv' /\ ChainInv'
    BY <2>1, ListsStay DEF IInv, TypeInv
  <2>3. WriterInv'
    BY <2>1 DEF IInv, WriterInv, BelongsAt, Stored, Nodes
  <2>4. \A r \in Readers : SearchInv(reader[r])'
    BY <2>1 DEF IInv, SearchInv, Stored, Nodes
  <2> QED
    BY <2>2, <2>3, <2>4 DEF IInv
<1> QED
  BY <1>1, <1>2, <1>3, <1>4, <1>5, <1>6, <1>7, <1>8, <1>9, <1>10 DEF Next, WriterStep

\* The invariant holds in every state of a skip list.
THEOREM SkipListIsSound ==
    ASSUME ListParameters
    PROVE  Spec => []IInv
<1>1. Init => IInv
  BY InitInv
<1>2. IInv /\ [Next]_vars => IInv'
  BY NextKeeps
<1> QED
  BY <1>1, <1>2, PTL DEF Spec

\* All is of its type (TypeOK of SkipList).
THEOREM ListTypeCorrect ==
    ASSUME ListParameters
    PROVE  Spec => []TypeOK
<1>1. IInv => TypeOK
  BY DEF IInv, TypeInv, LinksInv, TypeOK, Searches
<1> QED
  BY <1>1, SkipListIsSound, PTL

\* A reader loads only links that were stored.
LEMMA GarbageUnread ==
    ASSUME ListParameters, IInv
    PROVE  NoGarbageIsRead
<1> SUFFICES ASSUME NEW r \in Readers, reader[r].op \notin {"none", "done"}
             PROVE  next[reader[r].x][reader[r].level] # Garbage
  BY DEF NoGarbageIsRead
<1>1. next[reader[r].x][reader[r].level] \in Nat
  BY SearchLoads
<1> QED
  BY <1>1 DEF Garbage

\* Every list is in order and a part of the list below it.
LEMMA Nested ==
    ASSUME ListParameters, IInv
    PROVE  ListsAreNested
<1> SUFFICES ASSUME NEW level \in Levels
             PROVE  /\ \A x \in Linked(level) \cup {HeadNode} : next[x][level] > x
                    /\ level > 0 => Linked(level) \subseteq Linked(level - 1)
  BY DEF ListsAreNested
<1>1. ChainInv
  BY DEF IInv
<1>2. \A l \in Levels : Linked(l) = Stored(l)
  BY <1>1, LinkedIsStored
<1>3. ASSUME NEW x \in Linked(level) \cup {HeadNode} PROVE next[x][level] > x
  <2>1. x \in Nodes(level) /\ x \in Nat
    BY <1>2, KeysAreNumbers DEF Nodes
  <2>2. LeadsToNext(x, level)
    BY <1>1, <2>1 DEF ChainInv
  <2> QED
    BY <2>1, <2>2 DEF LeadsToNext
<1>4. ASSUME level > 0 PROVE Linked(level) \subseteq Linked(level - 1)
  <2>1. level - 1 \in Levels /\ level - 1 <= level
    <3>1. level \in Nat /\ kMaxHeight \in Nat /\ level < kMaxHeight
      BY LevelsAreNumbers
    <3> QED
      BY <1>4, <3>1 DEF Levels
  <2> QED
    BY <1>1, <1>2, <2>1 DEF ChainInv
<1> QED
  BY <1>3, <1>4

\* A search that ends has passed no node it should have found.
LEMMA SearchEndsRight ==
    ASSUME ListParameters, IInv, [Next]_vars
    PROVE  SearchIsRight
<1> SUFFICES ASSUME NEW r \in Readers, reader[r].op \notin {"none", "done"}, reader'[r].op = "done"
             PROVE  IF reader[r].op = "seek"
                    THEN reader'[r].node >= reader[r].target /\ \A k \in reader[r].before : k >= reader[r].target => reader'[r].node <= k
                    ELSE /\ reader'[r].node # Null => reader'[r].node < reader[r].target
                         /\ \A k \in reader[r].before : k < reader[r].target => reader'[r].node # Null /\ reader'[r].node >= k
  BY DEF SearchIsRight
<1> DEFINE old == reader[r]
           n == next[old.x][old.level]
           found == reader'[r].node
<1>1. Step(r)
  <2>1. reader' # reader
    OBVIOUS
  <2>2. reader \in [Readers -> Searches]
    BY DEF IInv, TypeInv
  <2>3. ASSUME NEW o \in Readers, NEW op \in {"seek", "last", "prev"}, NEW target, Search(o, op, target) PROVE FALSE
    <3>1. PICK s : reader' = [reader EXCEPT ![o] = s] /\ s.op = op
      BY <2>3 DEF Search
    <3> QED
      BY <2>2, <2>3, <3>1 DEF Search
  <2>4. ASSUME NEW o \in Readers, NEW node, Done(o, node), o # r PROVE FALSE
    BY <2>2, <2>4 DEF Done
  <2>5. ASSUME NEW o \in Readers, Step(o), o # r PROVE FALSE
    BY <2>2, <2>5 DEF Step, Done
  <2>6. \E o \in Readers : \/ \E target \in Keys : Seek(o, target)
                           \/ SeekToLast(o) \/ Prev(o) \/ SeekToFirst(o) \/ Next1(o) \/ Step(o)
    BY <2>1 DEF Next, vars, Insert, WriterStep, StoreHeight, Link
  <2>7. PICK o \in Readers : \/ \E target \in Keys : Seek(o, target)
                             \/ SeekToLast(o) \/ Prev(o) \/ SeekToFirst(o) \/ Next1(o) \/ Step(o)
    BY <2>6
  <2>8. ~SeekToLast(o) /\ ~Prev(o) /\ ~(\E target \in Keys : Seek(o, target))
    BY <2>3 DEF Seek, SeekToLast, Prev
  <2>9. ~SeekToFirst(o) /\ ~Next1(o)
    BY <2>4 DEF SeekToFirst, Next1
  <2> QED
    BY <2>5, <2>7, <2>8, <2>9
<1>2. /\ old.x \in Nodes(old.level) /\ LeadsToNext(old.x, old.level) /\ n \in Nat
      /\ old.x < old.target /\ old.x \in Nat /\ old.target \in Nat /\ old.target <= Null
  BY SearchLoads
<1>3. /\ old \in Searches /\ old.before \subseteq Stored(0) /\ r \in DOMAIN reader
      /\ \A k \in Stored(0) : k \in Nat /\ k > 0 /\ k < Null
      /\ Null \in Nat
  BY KeysAreNumbers DEF IInv, TypeInv, SearchInv
<1>4. ~GoesOn(r, n) /\ old.level = 0 /\ found = Result(old.op, old.x, n)
  BY <1>1, <1>3 DEF Step, Done, Searches
<1>5. n >= old.target
  BY <1>2, <1>4 DEF GoesOn
<1>6. \A k \in old.before : k \in Nat /\ k > 0 /\ k < Null /\ (k <= old.x \/ n <= k)
  BY <1>2, <1>3, <1>4 DEF LeadsToNext
<1>7. CASE old.op = "seek"
  <2>1. found = n
    BY <1>4, <1>7 DEF Result
  <2> HIDE DEF n, found, old
  <2>2. \A k \in old.before : k >= old.target => n <= k
    BY <1>2, <1>6
  <2> QED
    BY <1>5, <1>7, <2>1, <2>2 DEF found, old
<1>8. CASE old.op # "seek"
  <2>1. found = IF old.x = HeadNode THEN Null ELSE old.x
    BY <1>4, <1>8 DEF Result
  <2> HIDE DEF n, found, old
  <2>2. found # Null => found < old.target
    BY <1>2, <2>1
  <2>3. ASSUME NEW k \in old.before, k < old.target PROVE found # Null /\ found >= k
    <3>1. k <= old.x
      BY <1>2, <1>5, <1>6, <2>3
    <3>2. old.x # HeadNode
      BY <1>6, <3>1 DEF HeadNode
    <3> QED
      BY <1>2, <1>3, <2>1, <3>1, <3>2
  <2> QED
    BY <1>8, <2>2, <2>3 DEF found, old
<1> QED
  BY <1>7, <1>8

\* Readers beside the writer follow links to nodes that are finished, every
\* list is a part of the one below, and a search ends where it should: no node
\* that was in the list when it began lies between its target and its result
\* (SearchesAreRight of SkipList, skiplist.h:261-369).
THEOREM SearchesEndRight ==
    ASSUME ListParameters
    PROVE  Spec => SearchesAreRight
<1>1. IInv /\ [Next]_vars => NoGarbageIsRead /\ ListsAreNested /\ SearchIsRight
  BY GarbageUnread, Nested, SearchEndsRight
<1>2. IInv /\ [Next]_vars => [NoGarbageIsRead /\ ListsAreNested /\ SearchIsRight]_vars
  BY <1>1
<1> QED
  BY <1>2, SkipListIsSound, PTL DEF Spec, SearchesAreRight
=============================================================================
