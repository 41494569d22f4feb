---------------------------- MODULE CampusProofs ----------------------------
(***************************************************************************)
(* With one page to edit the graph on, what the editor keeps true of it at *)
(* every point between two writes, whoever else looks on or loads it.      *)
(***************************************************************************)
EXTENDS Campus, FiniteSetTheorems, SequenceTheorems, WellFoundedInduction, TLAPS

-----------------------------------------------------------------------------
(* What a graph is after a sequence of writes.                             *)

\* A set of numbers up to n has a largest one.
LEMMA LargestExists ==
    ASSUME NEW n \in Nat, NEW S \in SUBSET (0..n), S # {}
    PROVE  Max(S) \in S /\ \A k \in S : k <= Max(S)
<1> DEFINE T == {n - k : k \in S}
<1>1. T \subseteq Nat /\ T # {}
  <2>1. \A k \in S : n - k \in Nat
    OBVIOUS
  <2> QED
    BY <2>1
<1>2. \A k \in S : n - k \in T
  OBVIOUS
<1>3. \A t \in T : \E k \in S : t = n - k
  OBVIOUS
<1> HIDE DEF T
<1>4. PICK t \in T : \A y \in T : ~(<<y, t>> \in OpToRel(<, Nat))
  BY <1>1, WFMin, NatLessThanWellFounded
<1>5. \A y \in T : ~(y < t)
  BY <1>1, <1>4 DEF OpToRel
<1>6. PICK m \in S : t = n - m
  BY <1>3
<1>7. ASSUME NEW k \in S PROVE k <= m
  <2>1. ~(n - k < n - m)
    BY <1>2, <1>5, <1>6
  <2> QED
    BY <2>1
<1>8. \E x \in S : \A y \in S : x >= y
  <2>1. \A y \in S : m >= y
    BY <1>7
  <2> QED
    BY <2>1
<1> QED
  BY <1>8 DEF Max

\* LastWrite is 0 where nothing is written to p, else the last such place.
LEMMA LastWriteIs ==
    ASSUME NEW ws \in Seq(Writes), NEW p
    PROVE  \/ /\ LastWrite(ws, p) = 0
              /\ \A k \in 1..Len(ws) : ws[k].path # p
           \/ /\ LastWrite(ws, p) \in 1..Len(ws)
              /\ ws[LastWrite(ws, p)].path = p
              /\ \A k \in 1..Len(ws) : k > LastWrite(ws, p) => ws[k].path # p
<1> DEFINE I == {k \in 1..Len(ws) : ws[k].path = p}
<1>1. LastWrite(ws, p) = IF I # {} THEN Max(I) ELSE 0
  BY DEF LastWrite, SelectLastInSeq
<1>2. CASE I = {}
  BY <1>1, <1>2
<1>3. CASE I # {}
  <2>1. Max(I) \in I /\ \A k \in I : k <= Max(I)
    <3>1. Len(ws) \in Nat /\ I \in SUBSET (0..Len(ws))
      OBVIOUS
    <3> HIDE DEF I
    <3> QED
      BY <1>3, <3>1, LargestExists
  <2>2. Max(I) \in 1..Len(ws) /\ ws[Max(I)].path = p
    BY <2>1
  <2>3. \A k \in 1..Len(ws) : ws[k].path = p => k \in I
    OBVIOUS
  <2>4. Len(ws) \in Nat
    OBVIOUS
  <2> HIDE DEF I
  <2>5. \A k \in 1..Len(ws) : k > Max(I) => ws[k].path # p
    BY <2>1, <2>2, <2>3, <2>4
  <2> QED
    BY <1>1, <1>3, <2>2, <2>5
<1> QED
  BY <1>2, <1>3

\* ... and the only place like that.
LEMMA LastWriteUnique ==
    ASSUME NEW ws \in Seq(Writes), NEW p, NEW k \in 1..Len(ws),
           ws[k].path = p,
           \A j \in 1..Len(ws) : j > k => ws[j].path # p
    PROVE  LastWrite(ws, p) = k
<1>1. LastWrite(ws, p) \in 1..Len(ws) /\ ws[LastWrite(ws, p)].path = p
  BY LastWriteIs
<1>2. ~(LastWrite(ws, p) > k)
  BY <1>1
<1>3. ~(k > LastWrite(ws, p))
  BY LastWriteIs
<1> QED
  BY <1>1, <1>2, <1>3

LEMMA WritesType ==
    /\ \A p \in Path : \A v \in Value(p) : Write(p, v) \in Writes
    /\ \A w \in Writes : w.path \in Path /\ w.value \in Value(w.path)
BY DEF Writes, Write

LEMMA OverlayType ==
    ASSUME NEW g \in Graph, NEW ws \in Seq(Writes)
    PROVE  Overlay(g, ws) \in Graph
<1> SUFFICES ASSUME NEW p \in Path PROVE Overlay(g, ws)[p] \in Value(p)
  BY DEF Overlay, Graph, Value, Null, There
<1>1. CASE LastWrite(ws, p) = 0
  BY <1>1 DEF Overlay, Graph
<1>2. CASE LastWrite(ws, p) # 0
  <2>1. LastWrite(ws, p) \in 1..Len(ws) /\ ws[LastWrite(ws, p)].path = p
    BY <1>2, LastWriteIs
  <2>2. ws[LastWrite(ws, p)] \in Writes
    BY <2>1
  <2> QED
    BY <1>2, <2>1, <2>2, WritesType DEF Overlay
<1> QED
  BY <1>1, <1>2

LEMMA OverlayNothing ==
    ASSUME NEW g \in Graph
    PROVE  Overlay(g, <<>>) = g
<1> DEFINE ws == <<>>
<1>1. ws \in Seq(Writes) /\ 1..Len(ws) = {}
  OBVIOUS
<1> HIDE DEF ws
<1>2. ASSUME NEW p PROVE LastWrite(ws, p) = 0
  BY <1>1, LastWriteIs
<1>3. Overlay(g, ws) = g
  BY <1>2 DEF Overlay, Graph
<1> QED
  BY <1>3 DEF ws

LEMMA OverlayOne ==
    ASSUME NEW g \in Graph, NEW w \in Writes
    PROVE  Overlay(g, <<w>>) = [g EXCEPT ![w.path] = w.value]
<1> DEFINE ws == <<w>>
<1>1. ws \in Seq(Writes) /\ 1..Len(ws) = {1} /\ ws[1] = w
  OBVIOUS
<1> HIDE DEF ws
<1>2. LastWrite(ws, w.path) = 1
  BY <1>1, LastWriteIs
<1>3. ASSUME NEW p, p # w.path PROVE LastWrite(ws, p) = 0
  BY <1>1, <1>3, LastWriteIs
<1>4. w.path \in Path
  BY WritesType
<1>5. Overlay(g, ws) = [p \in Path |-> IF p = w.path THEN w.value ELSE g[p]]
  BY <1>1, <1>2, <1>3 DEF Overlay
<1>6. [g EXCEPT ![w.path] = w.value] = [p \in Path |-> IF p = w.path THEN w.value ELSE g[p]]
  BY DEF Graph
<1> QED
  BY <1>5, <1>6 DEF ws

\* The writes of t come on top of those of s.
LEMMA OverlayConcat ==
    ASSUME NEW g \in Graph, NEW s \in Seq(Writes), NEW t \in Seq(Writes)
    PROVE  Overlay(g, s \o t) = Overlay(Overlay(g, s), t)
<1> DEFINE r == s \o t
<1>1. /\ r \in Seq(Writes)
      /\ Len(r) = Len(s) + Len(t)
      /\ Len(s) \in Nat /\ Len(t) \in Nat
      /\ \A k \in 1..Len(s) : r[k] = s[k]
      /\ \A k \in 1..Len(t) : r[Len(s) + k] = t[k]
      /\ \A k \in 1..Len(r) : k > Len(s) => k - Len(s) \in 1..Len(t) /\ r[k] = t[k - Len(s)]
  OBVIOUS
<1> HIDE DEF r
<1> SUFFICES ASSUME NEW p \in Path
             PROVE  Overlay(g, r)[p] = Overlay(Overlay(g, s), t)[p]
  BY DEF r, Overlay
<1>2. CASE LastWrite(t, p) # 0
  <2> DEFINE k == LastWrite(t, p)
  <2>1. k \in 1..Len(t) /\ t[k].path = p /\ \A j \in 1..Len(t) : j > k => t[j].path # p
    BY <1>2, LastWriteIs
  <2> HIDE DEF k
  <2>2. Len(s) + k \in 1..Len(r) /\ r[Len(s) + k] = t[k]
    BY <1>1, <2>1
  <2>3. ASSUME NEW j \in 1..Len(r), j > Len(s) + k PROVE r[j].path # p
    <3>1. j - Len(s) \in 1..Len(t) /\ j - Len(s) > k /\ r[j] = t[j - Len(s)]
      BY <1>1, <2>1, <2>3
    <3> QED
      BY <2>1, <3>1
  <2>4. LastWrite(r, p) = Len(s) + k
    BY <1>1, <2>1, <2>2, <2>3, LastWriteUnique
  <2>5. Len(s) + k # 0
    BY <1>1, <2>1
  <2> QED
    BY <1>2, <2>2, <2>4, <2>5 DEF Overlay, k
<1>3. CASE LastWrite(t, p) = 0 /\ LastWrite(s, p) # 0
  <2> DEFINE k == LastWrite(s, p)
  <2>1. k \in 1..Len(s) /\ s[k].path = p /\ \A j \in 1..Len(s) : j > k => s[j].path # p
    BY <1>3, LastWriteIs
  <2>2. \A j \in 1..Len(t) : t[j].path # p
    BY <1>3, LastWriteIs
  <2> HIDE DEF k
  <2>3. k \in 1..Len(r) /\ r[k] = s[k]
    BY <1>1, <2>1
  <2>4. ASSUME NEW j \in 1..Len(r), j > k PROVE r[j].path # p
    <3>1. CASE j <= Len(s)
      BY <1>1, <2>1, <2>4, <3>1
    <3>2. CASE j > Len(s)
      BY <1>1, <2>2, <3>2
    <3> QED
      BY <1>1, <3>1, <3>2
  <2>5. LastWrite(r, p) = k
    BY <1>1, <2>1, <2>3, <2>4, LastWriteUnique
  <2> QED
    BY <1>3, <2>3, <2>5 DEF Overlay, k
<1>4. CASE LastWrite(t, p) = 0 /\ LastWrite(s, p) = 0
  <2>1. \A j \in 1..Len(t) : t[j].path # p
    BY <1>4, LastWriteIs
  <2>2. \A j \in 1..Len(s) : s[j].path # p
    BY <1>4, LastWriteIs
  <2>3. \A j \in 1..Len(r) : r[j].path # p
    <3> SUFFICES ASSUME NEW j \in 1..Len(r) PROVE r[j].path # p
      OBVIOUS
    <3>1. CASE j <= Len(s)
      BY <1>1, <2>2, <3>1
    <3>2. CASE j > Len(s)
      BY <1>1, <2>1, <3>2
    <3> QED
      BY <1>1, <3>1, <3>2
  <2>4. LastWrite(r, p) = 0
    BY <1>1, <2>3, LastWriteIs
  <2> QED
    BY <1>4, <2>4 DEF Overlay
<1> QED
  BY <1>2, <1>3, <1>4

-----------------------------------------------------------------------------
LEMMA PathsDiffer ==
    /\ \A i, j, k : NodePath(i) # EdgePath(j, k) /\ EdgePath(j, k) # NodePath(i)
    /\ \A i : NodePath(i) # IndexPath /\ IndexPath # NodePath(i)
    /\ \A j, k : EdgePath(j, k) # IndexPath /\ IndexPath # EdgePath(j, k)
    /\ \A i, j : NodePath(i) = NodePath(j) => i = j
    /\ \A i, j, k, l : EdgePath(i, j) = EdgePath(k, l) => i = k /\ j = l
BY DEF NodePath, EdgePath, IndexPath

LEMMA PathsExist ==
    /\ \A i \in Id : NodePath(i) \in Path /\ Value(NodePath(i)) = {Null, There}
    /\ \A i, j \in Id : EdgePath(i, j) \in Path /\ Value(EdgePath(i, j)) = {Null, There}
    /\ IndexPath \in Path /\ Value(IndexPath) = 0..MaxId
BY PathsDiffer DEF Path, Value

LEMMA GraphParts ==
    ASSUME NEW g \in Graph
    PROVE  Nodes(g) \subseteq Id /\ Edges(g) \subseteq Id \X Id /\ Index(g) \in 0..MaxId
BY PathsExist DEF Nodes, Edges, Index, Graph

\* What a write of a node changes,
LEMMA NodeWritten ==
    ASSUME NEW g \in Graph, NEW n \in Id, NEW v \in {Null, There}
    PROVE  LET h == [g EXCEPT ![NodePath(n)] = v]
           IN  /\ Nodes(h) = IF v = There THEN Nodes(g) \cup {n} ELSE Nodes(g) \ {n}
               /\ Edges(h) = Edges(g)
               /\ Index(h) = Index(g)
<1> DEFINE h == [g EXCEPT ![NodePath(n)] = v]
<1>1. \A p \in Path : h[p] = IF p = NodePath(n) THEN v ELSE g[p]
  BY PathsExist DEF Graph
<1>2. h[NodePath(n)] = v /\ \A i \in Id : i # n => h[NodePath(i)] = g[NodePath(i)]
  BY <1>1, PathsExist, PathsDiffer
<1>3. \A i, j \in Id : h[EdgePath(i, j)] = g[EdgePath(i, j)]
  BY <1>1, PathsExist, PathsDiffer
<1>4. h[IndexPath] = g[IndexPath]
  BY <1>1, PathsExist, PathsDiffer
<1> HIDE DEF h
<1>5. Nodes(h) = IF v = There THEN Nodes(g) \cup {n} ELSE Nodes(g) \ {n}
  BY <1>2 DEF Nodes
<1>6. Edges(h) = Edges(g)
  BY <1>3 DEF Edges
<1>7. Index(h) = Index(g)
  BY <1>4 DEF Index
<1> QED
  BY <1>5, <1>6, <1>7 DEF h

\* ... of an edge that is added,
LEMMA EdgeWritten ==
    ASSUME NEW g \in Graph, NEW a \in Id, NEW b \in Id
    PROVE  LET h == [g EXCEPT ![EdgePath(a, b)] = There]
           IN  /\ Nodes(h) = Nodes(g)
               /\ Edges(h) = Edges(g) \cup {<<a, b>>}
               /\ Index(h) = Index(g)
<1> DEFINE h == [g EXCEPT ![EdgePath(a, b)] = There]
<1>1. \A p \in Path : h[p] = IF p = EdgePath(a, b) THEN There ELSE g[p]
  BY PathsExist DEF Graph
<1>2. \A i \in Id : h[NodePath(i)] = g[NodePath(i)]
  BY <1>1, PathsExist, PathsDiffer
<1>3. /\ h[EdgePath(a, b)] = There
      /\ \A i, j \in Id : <<i, j>> # <<a, b>> => h[EdgePath(i, j)] = g[EdgePath(i, j)]
  BY <1>1, PathsExist, PathsDiffer
<1>4. h[IndexPath] = g[IndexPath]
  BY <1>1, PathsExist, PathsDiffer
<1> HIDE DEF h
<1>5. Nodes(h) = Nodes(g)
  BY <1>2 DEF Nodes
<1>6. Edges(h) = Edges(g) \cup {<<a, b>>}
  <2>1. \A e \in Id \X Id : e = <<e[1], e[2]>> /\ e[1] \in Id /\ e[2] \in Id
    OBVIOUS
  <2> QED
    BY <1>3, <2>1 DEF Edges
<1>7. Index(h) = Index(g)
  BY <1>4 DEF Index
<1> QED
  BY <1>5, <1>6, <1>7 DEF h

\* ... and of the index.
LEMMA IndexWritten ==
    ASSUME NEW g \in Graph, NEW v \in 0..MaxId
    PROVE  LET h == [g EXCEPT ![IndexPath] = v]
           IN  Nodes(h) = Nodes(g) /\ Edges(h) = Edges(g) /\ Index(h) = v
<1> DEFINE h == [g EXCEPT ![IndexPath] = v]
<1>1. \A p \in Path : h[p] = IF p = IndexPath THEN v ELSE g[p]
  BY PathsExist DEF Graph
<1>2. \A i \in Id : h[NodePath(i)] = g[NodePath(i)]
  BY <1>1, PathsExist, PathsDiffer
<1>3. \A i, j \in Id : h[EdgePath(i, j)] = g[EdgePath(i, j)]
  BY <1>1, PathsExist, PathsDiffer
<1>4. h[IndexPath] = v
  BY <1>1, PathsExist
<1> HIDE DEF h
<1> QED
  BY <1>2, <1>3, <1>4 DEF Nodes, Edges, Index, h

-----------------------------------------------------------------------------
(* The editor and its writes.                                              *)

\* What is asked of a graph: no half edge, no id to be given out again.
Sound(g) == NoDangling(g) /\ IndexCovers(g)

\* The server once it has taken k of the writes ws.
After(g, ws, k) == Overlay(g, SubSeq(ws, 1, k))

\* None of the graphs on the way is unsound, and no node is put in the place of
\* one that was there at any time before.
Safe(g, ws) ==
    /\ \A k \in 0..Len(ws) : Sound(After(g, ws, k))
    /\ \A k \in 0..Len(ws) : Index(After(g, ws, k)) <= Index(Overlay(g, ws))
    /\ \A k \in 1..Len(ws) : \A n \in Id :
           ws[k] = Write(NodePath(n), There) =>
               \A j \in 0..(k - 1) : n \notin Nodes(After(g, ws, j))

-----------------------------------------------------------------------------
LEMMA PrefixType ==
    ASSUME NEW ws \in Seq(Writes), NEW k \in 0..Len(ws)
    PROVE  /\ SubSeq(ws, 1, k) \in Seq(Writes)
           /\ Len(SubSeq(ws, 1, k)) = k
           /\ \A i \in 1..k : SubSeq(ws, 1, k)[i] = ws[i]
<1>1. \A i \in 1..k : ws[i] \in Writes
  OBVIOUS
<1>2. k \in Int /\ 1 \in Int /\ k - 1 + 1 = k /\ (~(1 <= k) => k = 0)
  OBVIOUS
<1>3. /\ SubSeq(ws, 1, k) \in Seq(Writes)
      /\ Len(SubSeq(ws, 1, k)) = IF 1 <= k THEN k - 1 + 1 ELSE 0
      /\ \A i \in 1..(k - 1 + 1) : SubSeq(ws, 1, k)[i] = ws[1 + i - 1]
  BY <1>1, <1>2, SubSeqProperties
<1>4. \A i \in 1..k : 1 + i - 1 = i
  OBVIOUS
<1> QED
  BY <1>2, <1>3, <1>4

LEMMA AfterType ==
    ASSUME NEW g \in Graph, NEW ws \in Seq(Writes), NEW k \in 0..Len(ws)
    PROVE  After(g, ws, k) \in Graph
BY PrefixType, OverlayType DEF After

LEMMA AfterEnds ==
    ASSUME NEW g \in Graph, NEW ws \in Seq(Writes)
    PROVE  After(g, ws, 0) = g /\ After(g, ws, Len(ws)) = Overlay(g, ws)
<1>1. SubSeq(ws, 1, 0) = <<>>
  BY SubSeqEmpty
<1>2. SubSeq(ws, 1, Len(ws)) = ws
  BY SubSeqFull
<1> QED
  BY <1>1, <1>2, OverlayNothing DEF After

\* Writes t that come on top of s.
LEMMA AfterConcat ==
    ASSUME NEW g \in Graph, NEW s \in Seq(Writes), NEW t \in Seq(Writes)
    PROVE  /\ \A k \in 0..Len(s) : After(g, s \o t, k) = After(g, s, k)
           /\ \A k \in 0..Len(t) :
                  After(g, s \o t, Len(s) + k) = After(Overlay(g, s), t, k)
<1> DEFINE r == s \o t
<1>1. /\ r \in Seq(Writes)
      /\ Len(r) = Len(s) + Len(t)
      /\ Len(s) \in Nat /\ Len(t) \in Nat
      /\ \A k \in 1..Len(s) : r[k] = s[k]
      /\ \A k \in 1..Len(t) : r[Len(s) + k] = t[k]
  OBVIOUS
<1> HIDE DEF r
<1>2. ASSUME NEW k \in 0..Len(s) PROVE SubSeq(r, 1, k) = SubSeq(s, 1, k)
  <2> DEFINE a == SubSeq(r, 1, k)
             b == SubSeq(s, 1, k)
  <2>1. k \in 0..Len(r)
    BY <1>1
  <2>2. a \in Seq(Writes) /\ Len(a) = k /\ \A i \in 1..k : a[i] = r[i]
    BY <1>1, <2>1, PrefixType
  <2>3. b \in Seq(Writes) /\ Len(b) = k /\ \A i \in 1..k : b[i] = s[i]
    BY <1>1, PrefixType
  <2>4. \A i \in 1..k : i \in 1..Len(s)
    BY <1>1
  <2> HIDE DEF a, b
  <2>5. \A i \in 1..Len(a) : a[i] = b[i]
    BY <1>1, <2>2, <2>3, <2>4
  <2>6. a = b
    BY <2>2, <2>3, <2>5, SeqEqual
  <2> QED
    BY <2>6 DEF a, b
<1>3. ASSUME NEW k \in 0..Len(t) PROVE SubSeq(r, 1, Len(s) + k) = s \o SubSeq(t, 1, k)
  <2> DEFINE a == SubSeq(r, 1, Len(s) + k)
             b == SubSeq(t, 1, k)
             c == s \o b
  <2>1. Len(s) + k \in 0..Len(r)
    BY <1>1
  <2>2. a \in Seq(Writes) /\ Len(a) = Len(s) + k /\ \A i \in 1..(Len(s) + k) : a[i] = r[i]
    BY <1>1, <2>1, PrefixType
  <2>3. b \in Seq(Writes) /\ Len(b) = k /\ \A i \in 1..k : b[i] = t[i]
    BY <1>1, PrefixType
  <2> HIDE DEF a, b
  <2>4. /\ c \in Seq(Writes)
        /\ Len(c) = Len(s) + k
        /\ \A i \in 1..(Len(s) + k) : c[i] = IF i <= Len(s) THEN s[i] ELSE b[i - Len(s)]
    BY <1>1, <2>3
  <2> HIDE DEF c
  <2>5. ASSUME NEW i \in 1..Len(a) PROVE a[i] = c[i]
    <3>1. CASE i <= Len(s)
      <4>1. i \in 1..(Len(s) + k) /\ i \in 1..Len(s)
        BY <1>1, <2>2, <3>1
      <4>2. a[i] = r[i] /\ c[i] = s[i]
        BY <2>2, <2>4, <3>1, <4>1
      <4> QED
        BY <1>1, <4>1, <4>2
    <3>2. CASE ~(i <= Len(s))
      <4>1. i - Len(s) \in 1..k /\ i = Len(s) + (i - Len(s)) /\ i - Len(s) \in 1..Len(t)
        BY <1>1, <2>2, <3>2
      <4>2. r[i] = t[i - Len(s)]
        BY <1>1, <4>1
      <4>3. i \in 1..(Len(s) + k)
        BY <2>2
      <4>4. a[i] = r[i] /\ c[i] = b[i - Len(s)]
        BY <2>2, <2>4, <3>2, <4>3
      <4>5. b[i - Len(s)] = t[i - Len(s)]
        BY <2>3, <4>1
      <4> QED
        BY <4>2, <4>4, <4>5
    <3> QED
      BY <3>1, <3>2
  <2>6. a = c
    BY <2>2, <2>4, <2>5, SeqEqual
  <2> QED
    BY <2>6 DEF a, b, c
<1>4. ASSUME NEW k \in 0..Len(t) PROVE After(g, r, Len(s) + k) = After(Overlay(g, s), t, k)
  <2> DEFINE b == SubSeq(t, 1, k)
  <2>1. b \in Seq(Writes)
    BY PrefixType
  <2>2. SubSeq(r, 1, Len(s) + k) = s \o b
    BY <1>3
  <2>3. After(Overlay(g, s), t, k) = Overlay(Overlay(g, s), b)
    BY DEF After
  <2> HIDE DEF b
  <2>4. Overlay(g, s \o b) = Overlay(Overlay(g, s), b)
    BY <2>1, OverlayConcat
  <2> QED
    BY <2>2, <2>3, <2>4 DEF After
<1>5. ASSUME NEW k \in 0..Len(s) PROVE After(g, r, k) = After(g, s, k)
  BY <1>2 DEF After
<1> QED
  BY <1>4, <1>5 DEF r

\* The first write reaches the server: the same graphs, from the second on.
LEMMA AfterCommit ==
    ASSUME NEW g \in Graph, NEW ws \in Seq(Writes), ws # <<>>
    PROVE  LET h == [g EXCEPT ![Head(ws).path] = Head(ws).value]
           IN  /\ h \in Graph
               /\ h = After(g, ws, 1)
               /\ Overlay(h, Tail(ws)) = Overlay(g, ws)
               /\ \A k \in 0..Len(Tail(ws)) : After(h, Tail(ws), k) = After(g, ws, k + 1)
<1> DEFINE w == Head(ws)
           s == <<w>>
           t == Tail(ws)
           h == [g EXCEPT ![w.path] = w.value]
<1>1. w \in Writes /\ t \in Seq(Writes)
  OBVIOUS
<1>2. s \in Seq(Writes) /\ Len(s) = 1
  BY <1>1
<1>3. ws = s \o t
  OBVIOUS
<1>4. h = Overlay(g, s)
  BY <1>1, OverlayOne
<1>5. h \in Graph
  BY <1>2, <1>4, OverlayType
<1>6. Overlay(h, t) = Overlay(g, ws)
  <2> HIDE DEF s, t, h
  <2> QED
    BY <1>1, <1>2, <1>3, <1>4, OverlayConcat
<1>7. Len(t) \in Nat
  BY <1>1
<1> HIDE DEF s, t, h
<1>8. ASSUME NEW k \in 0..Len(t) PROVE After(h, t, k) = After(g, ws, k + 1)
  <2>1. After(g, s \o t, Len(s) + k) = After(Overlay(g, s), t, k)
    BY <1>1, <1>2, AfterConcat
  <2>2. Len(s) + k = k + 1
    BY <1>2, <1>7
  <2> QED
    BY <1>3, <1>4, <2>1, <2>2
<1>9. h = After(g, ws, 1)
  <2>1. 0 \in 0..Len(t) /\ 0 + 1 = 1
    BY <1>7
  <2>2. After(h, t, 0) = After(g, ws, 0 + 1)
    BY <1>8, <2>1
  <2>3. After(h, t, 0) = h
    BY <1>1, <1>5, AfterEnds DEF t
  <2> QED
    BY <2>1, <2>2, <2>3
<1> QED
  BY <1>5, <1>6, <1>8, <1>9 DEF h, t, w

LEMMA SafeCommit ==
    ASSUME NEW g \in Graph, NEW ws \in Seq(Writes), ws # <<>>, Safe(g, ws)
    PROVE  LET h == [g EXCEPT ![Head(ws).path] = Head(ws).value]
           IN  Sound(h) /\ Safe(h, Tail(ws))
<1> DEFINE h == [g EXCEPT ![Head(ws).path] = Head(ws).value]
           t == Tail(ws)
<1>1. /\ t \in Seq(Writes)
      /\ Len(ws) \in Nat /\ Len(t) \in Nat
      /\ Len(ws) = Len(t) + 1
      /\ \A k \in 1..Len(t) : t[k] = ws[k + 1]
  OBVIOUS
<1>2. /\ h = After(g, ws, 1)
      /\ Overlay(h, t) = Overlay(g, ws)
      /\ \A k \in 0..Len(t) : After(h, t, k) = After(g, ws, k + 1)
  BY AfterCommit
<1> HIDE DEF h, t
<1>3. Sound(h)
  <2>1. 1 \in 0..Len(ws)
    BY <1>1
  <2> QED
    BY <1>2, <2>1 DEF Safe
<1>4. ASSUME NEW k \in 0..Len(t)
      PROVE  Sound(After(h, t, k)) /\ Index(After(h, t, k)) <= Index(Overlay(h, t))
  <2>1. k + 1 \in 0..Len(ws)
    BY <1>1
  <2> QED
    BY <1>2, <2>1 DEF Safe
<1>5. ASSUME NEW k \in 1..Len(t), NEW n \in Id, t[k] = Write(NodePath(n), There),
             NEW j \in 0..(k - 1)
      PROVE  n \notin Nodes(After(h, t, j))
  <2>1. k + 1 \in 1..Len(ws) /\ j + 1 \in 0..(k + 1 - 1) /\ j \in 0..Len(t)
    BY <1>1
  <2>2. ws[k + 1] = Write(NodePath(n), There)
    BY <1>1, <1>5
  <2>3. n \notin Nodes(After(g, ws, j + 1))
    BY <2>1, <2>2 DEF Safe
  <2> QED
    BY <1>2, <2>1, <2>3
<1> QED
  BY <1>3, <1>4, <1>5 DEF Safe, h, t

\* An id beyond the index is that of no node on the way there.
LEMMA BeyondIndexIsFresh ==
    ASSUME NEW g \in Graph, NEW s \in Seq(Writes), Safe(g, s),
           NEW n \in Id, n > Index(Overlay(g, s)), NEW j \in 0..Len(s)
    PROVE  n \notin Nodes(After(g, s, j))
<1>1. /\ Sound(After(g, s, j))
      /\ Index(After(g, s, j)) \in 0..MaxId
      /\ Index(After(g, s, j)) <= Index(Overlay(g, s))
  BY AfterType, GraphParts DEF Safe
<1>2. Index(Overlay(g, s)) \in 0..MaxId
  BY OverlayType, GraphParts
<1>3. ~(n <= Index(After(g, s, j)))
  BY <1>1, <1>2, MaxIdAssumption DEF Id
<1> QED
  BY <1>1, <1>3 DEF Sound, IndexCovers

\* Writes t on top of writes s that may still be under way.
LEMMA SafeAppend ==
    ASSUME NEW g \in Graph, NEW s \in Seq(Writes), NEW t \in Seq(Writes),
           Safe(g, s), Safe(Overlay(g, s), t),
           Index(Overlay(g, s)) <= Index(Overlay(Overlay(g, s), t)),
           \A k \in 1..Len(t) : \A n \in Id :
               t[k] = Write(NodePath(n), There) =>
                   \A j \in 0..Len(s) : n \notin Nodes(After(g, s, j))
    PROVE  Safe(g, s \o t)
<1> DEFINE r == s \o t
           v == Overlay(g, s)
<1>1. /\ r \in Seq(Writes)
      /\ Len(r) = Len(s) + Len(t)
      /\ Len(s) \in Nat /\ Len(t) \in Nat
      /\ \A k \in 1..Len(s) : r[k] = s[k]
      /\ \A k \in 1..Len(t) : r[Len(s) + k] = t[k]
  OBVIOUS
<1>2. /\ \A k \in 0..Len(s) : After(g, r, k) = After(g, s, k)
      /\ \A k \in 0..Len(t) : After(g, r, Len(s) + k) = After(v, t, k)
  BY AfterConcat
<1>3. v \in Graph /\ Overlay(g, r) = Overlay(v, t) /\ Overlay(v, t) \in Graph
  BY OverlayType, OverlayConcat
<1>4. \A k \in 0..Len(r) : k \in 0..Len(s)
                           \/ (k - Len(s) \in 1..Len(t) /\ k = Len(s) + (k - Len(s)))
  <2> HIDE DEF r
  <2> QED
    BY <1>1
<1>5. \A k \in 0..Len(s) : /\ After(g, s, k) \in Graph
                           /\ Sound(After(g, s, k))
                           /\ Index(After(g, s, k)) \in 0..MaxId
                           /\ Index(After(g, s, k)) <= Index(v)
  BY AfterType, GraphParts DEF Safe
<1>6. Index(v) \in 0..MaxId /\ Index(Overlay(v, t)) \in 0..MaxId
  BY <1>3, GraphParts
<1>7. /\ Index(v) <= Index(Overlay(v, t))
      /\ \A k \in 1..Len(t) : \A n \in Id :
             t[k] = Write(NodePath(n), There) =>
                 \A j \in 0..Len(s) : n \notin Nodes(After(g, s, j))
  OBVIOUS
<1>8. Safe(v, t)
  OBVIOUS
<1> HIDE DEF r, v
<1>9. ASSUME NEW k \in 0..Len(r)
      PROVE  Sound(After(g, r, k)) /\ Index(After(g, r, k)) <= Index(Overlay(g, r))
  <2>1. CASE k \in 0..Len(s)
    <3>1. Index(After(g, s, k)) <= Index(Overlay(v, t))
      BY <1>5, <1>6, <1>7, <2>1, MaxIdAssumption
    <3> QED
      BY <1>2, <1>3, <1>5, <2>1, <3>1
  <2>2. CASE k - Len(s) \in 1..Len(t) /\ k = Len(s) + (k - Len(s))
    <3>1. k - Len(s) \in 0..Len(t)
      BY <1>1, <2>2
    <3>2. After(g, r, k) = After(v, t, k - Len(s))
      BY <1>2, <2>2, <3>1
    <3> QED
      BY <1>3, <1>8, <3>1, <3>2 DEF Safe
  <2> QED
    BY <1>4, <2>1, <2>2
<1>10. ASSUME NEW k \in 1..Len(r), NEW n \in Id, r[k] = Write(NodePath(n), There),
              NEW j \in 0..(k - 1)
       PROVE  n \notin Nodes(After(g, r, j))
  <2>0. k \in 0..Len(r) /\ j \in 0..Len(r)
    BY <1>1
  <2>1. CASE k \in 0..Len(s)
    <3>1. k \in 1..Len(s) /\ j \in 0..Len(s) /\ s[k] = Write(NodePath(n), There)
      BY <1>1, <1>10, <2>1
    <3> QED
      BY <1>2, <3>1 DEF Safe
  <2>2. CASE k - Len(s) \in 1..Len(t) /\ k = Len(s) + (k - Len(s))
    <3>1. t[k - Len(s)] = Write(NodePath(n), There)
      BY <1>1, <1>10, <2>2
    <3>2. CASE j \in 0..Len(s)
      BY <1>2, <1>7, <2>2, <3>1, <3>2
    <3>3. CASE j - Len(s) \in 1..Len(t) /\ j = Len(s) + (j - Len(s))
      <4>1. j - Len(s) \in 0..(k - Len(s) - 1) /\ j - Len(s) \in 0..Len(t)
        BY <1>1, <2>2, <3>3
      <4>2. After(g, r, j) = After(v, t, j - Len(s))
        BY <1>2, <3>3, <4>1
      <4> QED
        BY <1>8, <2>2, <3>1, <4>1, <4>2 DEF Safe
    <3> QED
      BY <1>4, <2>0, <3>2, <3>3
  <2> QED
    BY <1>4, <2>0, <2>1, <2>2
<1>11. Safe(g, r)
  BY <1>9, <1>10 DEF Safe
<1> QED
  BY <1>11 DEF r

-----------------------------------------------------------------------------
Removal(e) == Write(EdgePath(e[1], e[2]), Null)

\* ws removes the edges in E, in some order.
Removes(ws, E) ==
    /\ ws \in Seq(Writes)
    /\ \A k \in 1..Len(ws) : \E e \in E : ws[k] = Removal(e)
    /\ \A e \in E : \E k \in 1..Len(ws) : ws[k] = Removal(e)

LEMMA RemoveType ==
    ASSUME NEW e \in Id \X Id
    PROVE  /\ Removal(e) \in Writes
           /\ Removal(e).path = EdgePath(e[1], e[2])
           /\ Removal(e).value = Null
<1>1. e[1] \in Id /\ e[2] \in Id
  OBVIOUS
<1> QED
  BY <1>1, PathsExist, WritesType DEF Removal, Write

LEMMA RemovalsRemove ==
    ASSUME NEW E \in SUBSET (Id \X Id)
    PROVE  Removes(Removals(E), E)
<1> DEFINE T == {Removal(e) : e \in E}
           f == [e \in E |-> Removal(e)]
           n == Cardinality(T)
           s == SetToSeq(T)
<1>1. IsFiniteSet(Id) /\ 1 \in Int /\ MaxId \in Int
  BY MaxIdAssumption, FS_Interval DEF Id
<1>2. IsFiniteSet(E)
  BY <1>1, FS_Product, FS_Subset
<1>3. f \in Surjection(E, T)
  BY DEF Surjection
<1>4. IsFiniteSet(T)
  <2> HIDE DEF f, T
  <2> QED
    BY <1>2, <1>3, FS_Surjection
<1>5. n \in Nat /\ ExistsBijection(1..n, T)
  <2> HIDE DEF T
  <2> QED
    BY <1>4, FS_CardinalityType
<1>6. PICK b \in [1..n -> T] : IsInjective(b)
  BY <1>5 DEF ExistsBijection, Bijection, Injection
<1>7. s \in [1..n -> T] /\ IsInjective(s)
  <2> HIDE DEF T
  <2> QED
    BY <1>6 DEF SetToSeq
<1>8. s \in Surjection(1..n, T)
  <2>1. s \in Injection(1..n, T)
    BY <1>7 DEF Injection
  <2>2. IsFiniteSet(1..n) /\ Cardinality(1..n) = n
    BY <1>5, FS_Interval
  <2> HIDE DEF T, s
  <2> QED
    BY <1>4, <2>1, <2>2, FS_Injection
<1>9. T \subseteq Writes
  <2>1. \A e \in E : Removal(e) \in Writes
    BY RemoveType
  <2> QED
    BY <2>1
<1>10. s \in Seq(Writes) /\ Len(s) = n
  <2> HIDE DEF s, T
  <2>1. n \in Nat
    BY <1>5
  <2> HIDE DEF n
  <2> QED
    BY <1>7, <1>9, <2>1
<1>11. \A k \in 1..n : s[k] \in T
  BY <1>7
<1>12. \A t \in T : \E k \in 1..n : s[k] = t
  BY <1>8 DEF Surjection
<1>13. Removals(E) = s
  BY DEF Removals, Removal
<1> HIDE DEF s, n
<1> QED
  BY <1>10, <1>11, <1>12, <1>13 DEF Removes

\* A path that ws does not write.
LEMMA PathLeftAlone ==
    ASSUME NEW g \in Graph, NEW ws \in Seq(Writes), NEW p \in Path,
           \A k \in 1..Len(ws) : ws[k].path # p
    PROVE  Overlay(g, ws)[p] = g[p]
<1>1. LastWrite(ws, p) = 0
  BY LastWriteIs
<1> QED
  BY <1>1 DEF Overlay

LEMMA RemovesIs ==
    ASSUME NEW g \in Graph, NEW E \in SUBSET (Id \X Id), NEW ws, Removes(ws, E)
    PROVE  /\ Nodes(Overlay(g, ws)) = Nodes(g)
           /\ Index(Overlay(g, ws)) = Index(g)
           /\ Edges(Overlay(g, ws)) = Edges(g) \ E
<1>1. ws \in Seq(Writes)
  BY DEF Removes
<1>2. \A k \in 1..Len(ws) : \E e \in E : ws[k].path = EdgePath(e[1], e[2]) /\ ws[k].value = Null
  BY RemoveType DEF Removes
<1>3. \A i \in Id : Overlay(g, ws)[NodePath(i)] = g[NodePath(i)]
  BY <1>1, <1>2, PathLeftAlone, PathsDiffer, PathsExist
<1>4. Overlay(g, ws)[IndexPath] = g[IndexPath]
  BY <1>1, <1>2, PathLeftAlone, PathsDiffer, PathsExist
<1>5. ASSUME NEW e \in Id \X Id, e \notin E
      PROVE  Overlay(g, ws)[EdgePath(e[1], e[2])] = g[EdgePath(e[1], e[2])]
  <2>1. e[1] \in Id /\ e[2] \in Id /\ e = <<e[1], e[2]>>
    OBVIOUS
  <2>2. EdgePath(e[1], e[2]) \in Path
    BY <2>1, PathsExist
  <2>3. \A d \in E : d = <<d[1], d[2]>>
    OBVIOUS
  <2>4. \A d \in E : EdgePath(d[1], d[2]) # EdgePath(e[1], e[2])
    BY <1>5, <2>1, <2>3, PathsDiffer
  <2> QED
    BY <1>1, <1>2, <2>2, <2>4, PathLeftAlone
<1>6. ASSUME NEW e \in E
      PROVE  Overlay(g, ws)[EdgePath(e[1], e[2])] # There
  <2> DEFINE p == EdgePath(e[1], e[2])
  <2>1. p \in Path
    BY PathsExist
  <2>2. PICK k \in 1..Len(ws) : ws[k] = Removal(e)
    BY DEF Removes
  <2>3. ws[k].path = p
    BY <2>2, RemoveType
  <2>4. LastWrite(ws, p) # 0 /\ LastWrite(ws, p) \in 1..Len(ws)
    BY <1>1, <2>3, LastWriteIs
  <2>5. Overlay(g, ws)[p] = ws[LastWrite(ws, p)].value
    BY <2>1, <2>4 DEF Overlay
  <2>6. ws[LastWrite(ws, p)].value = Null
    BY <1>2, <2>4
  <2> QED
    BY <2>5, <2>6 DEF Null, There
<1> QED
  BY <1>3, <1>4, <1>5, <1>6 DEF Nodes, Index, Edges

LEMMA RemovesPrefix ==
    ASSUME NEW E, NEW ws, Removes(ws, E), NEW k \in 0..Len(ws)
    PROVE  \E D \in SUBSET E : Removes(SubSeq(ws, 1, k), D)
<1> DEFINE D == {e \in E : \E i \in 1..k : ws[i] = Removal(e)}
           s == SubSeq(ws, 1, k)
<1>1. ws \in Seq(Writes) /\ \A i \in 1..Len(ws) : \E e \in E : ws[i] = Removal(e)
  BY DEF Removes
<1>2. s \in Seq(Writes) /\ Len(s) = k /\ \A i \in 1..k : s[i] = ws[i]
  BY <1>1, PrefixType
<1>3. \A i \in 1..k : i \in 1..Len(ws)
  BY <1>1
<1>4. \A i \in 1..k : \E e \in D : ws[i] = Removal(e)
  BY <1>1, <1>3
<1>5. \A e \in D : \E i \in 1..k : ws[i] = Removal(e)
  OBVIOUS
<1>6. D \in SUBSET E
  OBVIOUS
<1> HIDE DEF D, s
<1>7. /\ \A i \in 1..Len(s) : \E e \in D : s[i] = Removal(e)
      /\ \A e \in D : \E i \in 1..Len(s) : s[i] = Removal(e)
  BY <1>2, <1>4, <1>5
<1>8. Removes(s, D)
  BY <1>2, <1>7 DEF Removes
<1> QED
  BY <1>6, <1>8 DEF s

LEMMA RemovesSafe ==
    ASSUME NEW g \in Graph, Sound(g), NEW E \in SUBSET (Id \X Id), NEW ws, Removes(ws, E)
    PROVE  Safe(g, ws)
<1>1. ws \in Seq(Writes)
  BY DEF Removes
<1>2. Index(g) \in 0..MaxId /\ Index(Overlay(g, ws)) = Index(g)
  BY GraphParts, RemovesIs
<1>3. ASSUME NEW k \in 0..Len(ws)
      PROVE  Sound(After(g, ws, k)) /\ Index(After(g, ws, k)) <= Index(Overlay(g, ws))
  <2> DEFINE s == SubSeq(ws, 1, k)
  <2>1. PICK D \in SUBSET E : Removes(s, D)
    BY RemovesPrefix
  <2>2. D \in SUBSET (Id \X Id)
    BY <2>1
  <2> HIDE DEF s
  <2>3. /\ Nodes(Overlay(g, s)) = Nodes(g)
        /\ Index(Overlay(g, s)) = Index(g)
        /\ Edges(Overlay(g, s)) = Edges(g) \ D
    BY <2>1, <2>2, RemovesIs
  <2>4. Sound(Overlay(g, s)) /\ Index(Overlay(g, s)) <= Index(Overlay(g, ws))
    BY <1>2, <2>3, MaxIdAssumption DEF Sound, NoDangling, IndexCovers
  <2> QED
    BY <2>4 DEF After, s
<1>4. \A k \in 1..Len(ws) : \A n : ws[k] # Write(NodePath(n), There)
  <2>1. \A k \in 1..Len(ws) : \E e \in E : ws[k].path = EdgePath(e[1], e[2])
    BY RemoveType DEF Removes
  <2>2. \A n : Write(NodePath(n), There).path = NodePath(n)
    BY DEF Write
  <2> QED
    BY <2>1, <2>2, PathsDiffer
<1> QED
  BY <1>3, <1>4 DEF Safe

LEMMA OverlayWrite ==
    ASSUME NEW g \in Graph, NEW p \in Path, NEW u \in Value(p)
    PROVE  Overlay(g, <<Write(p, u)>>) = [g EXCEPT ![p] = u]
<1> DEFINE w == Write(p, u)
<1>1. w \in Writes /\ w.path = p /\ w.value = u
  <2>1. w \in Writes
    BY WritesType
  <2> QED
    BY <2>1 DEF Write
<1> HIDE DEF w
<1>2. Overlay(g, <<w>>) = [g EXCEPT ![p] = u]
  BY <1>1, OverlayOne
<1> QED
  BY <1>2 DEF w

\* w adds no node that g has.
AddsNew(g, w) == \A n \in Id : w = Write(NodePath(n), There) => n \notin Nodes(g)

\* g and the graph h after one write.
SafeStep(g, w, h) ==
    /\ h = Overlay(g, <<w>>)
    /\ Sound(h)
    /\ Index(g) <= Index(h)
    /\ AddsNew(g, w)

LEMMA OneWriteSafe ==
    ASSUME NEW g \in Graph, Sound(g), NEW w \in Writes, NEW h, SafeStep(g, w, h)
    PROVE  Safe(g, <<w>>)
<1> DEFINE ws == <<w>>
<1>1. ws \in Seq(Writes) /\ Len(ws) = 1 /\ ws[1] = w
  OBVIOUS
<1>2. Overlay(g, ws) = h
  BY DEF SafeStep
<1>3. Sound(h) /\ Index(g) <= Index(h)
  BY DEF SafeStep
<1> HIDE DEF ws
<1>4. After(g, ws, 0) = g /\ After(g, ws, 1) = h
  <2>1. After(g, ws, 0) = g /\ After(g, ws, Len(ws)) = Overlay(g, ws)
    BY <1>1, AfterEnds
  <2> QED
    BY <1>1, <1>2, <2>1
<1>5. h \in Graph
  BY <1>1, <1>2, OverlayType
<1>6. Index(h) \in 0..MaxId /\ Index(h) <= Index(h)
  <2>1. Index(h) \in 0..MaxId
    BY <1>5, GraphParts
  <2> QED
    BY <2>1, MaxIdAssumption
<1>7. \A k \in 0..1 : k = 0 \/ k = 1
  OBVIOUS
<1>8. \A k \in 0..1 : Sound(After(g, ws, k)) /\ Index(After(g, ws, k)) <= Index(Overlay(g, ws))
  BY <1>2, <1>3, <1>4, <1>6, <1>7
<1>9. ASSUME NEW k \in 1..1, NEW n \in Id, ws[k] = Write(NodePath(n), There),
             NEW j \in 0..(k - 1)
      PROVE  n \notin Nodes(After(g, ws, j))
  <2>1. k = 1
    OBVIOUS
  <2>2. j = 0
    BY <2>1
  <2>3. w = Write(NodePath(n), There)
    BY <1>1, <1>9, <2>1
  <2> QED
    BY <1>4, <2>2, <2>3 DEF SafeStep, AddsNew
<1>10. Safe(g, ws)
  BY <1>1, <1>8, <1>9 DEF Safe
<1> QED
  BY <1>10 DEF ws

-----------------------------------------------------------------------------
\* What the writes ws of an edit have to be, on a page that shows v.
GoodEdit(v, ws) ==
    /\ ws \in Seq(Writes)
    /\ Safe(v, ws)
    /\ \A k \in 1..Len(ws) : \A n \in Id :
           ws[k] = Write(NodePath(n), There) => n > Index(v)
    /\ TwoWay(v) => TwoWay(Overlay(v, ws))

\* Writes of edges are of no node.
LEMMA EdgeIsNoNode == \A a, b, n, x : Write(EdgePath(a, b), x) # Write(NodePath(n), There)
<1>1. \A p, x : Write(p, x).path = p
  BY DEF Write
<1> QED
  BY <1>1, PathsDiffer

\* Two writes, one after the other.
LEMMA TwoWritesSafe ==
    ASSUME NEW g \in Graph, Sound(g), NEW x \in Writes, NEW y \in Writes, NEW h, NEW i,
           SafeStep(g, x, h), SafeStep(h, y, i), AddsNew(g, y)
    PROVE  /\ <<x, y>> \in Seq(Writes)
           /\ Overlay(g, <<x, y>>) = i
           /\ Safe(g, <<x, y>>)
<1> DEFINE s == <<x>>
           t == <<y>>
<1>1. \A n \in Id : y = Write(NodePath(n), There) => n \notin Nodes(g) /\ n \notin Nodes(h)
  BY DEF SafeStep, AddsNew
<1>2. s \in Seq(Writes) /\ Len(s) = 1
  OBVIOUS
<1>3. t \in Seq(Writes) /\ Len(t) = 1 /\ t[1] = y
  OBVIOUS
<1>4. <<x, y>> = s \o t
  <2> DEFINE r == s \o t
             b == <<x, y>>
  <2>1. r \in Seq(Writes) /\ Len(r) = 2 /\ r[1] = x /\ r[2] = y
    OBVIOUS
  <2>2. b \in Seq(Writes) /\ Len(b) = 2 /\ b[1] = x /\ b[2] = y
    OBVIOUS
  <2>3. \A k \in 1..2 : k = 1 \/ k = 2
    OBVIOUS
  <2> HIDE DEF r, b
  <2>4. \A k \in 1..Len(b) : b[k] = r[k]
    BY <2>1, <2>2, <2>3
  <2>5. b = r
    BY <2>1, <2>2, <2>4, SeqEqual
  <2> QED
    BY <2>5 DEF r, b
<1>5. Overlay(g, s) = h /\ Overlay(h, t) = i /\ Sound(h) /\ Index(h) <= Index(i)
  BY DEF SafeStep
<1>6. Safe(g, s)
  BY OneWriteSafe
<1>7. h \in Graph
  <2> HIDE DEF s
  <2> QED
    BY <1>2, <1>5, OverlayType
<1>8. Safe(h, t)
  BY <1>5, <1>7, OneWriteSafe
<1> HIDE DEF s, t
<1>9. Overlay(g, s \o t) = i
  BY <1>2, <1>3, <1>5, OverlayConcat
<1>10. After(g, s, 0) = g /\ After(g, s, 1) = h
  <2>1. After(g, s, 0) = g /\ After(g, s, Len(s)) = Overlay(g, s)
    BY <1>2, AfterEnds
  <2> QED
    BY <1>2, <1>5, <2>1
<1>11. \A j \in 0..Len(s) : j = 0 \/ j = 1
  BY <1>2
<1>12. \A k \in 1..Len(t) : t[k] = y
  BY <1>3
<1>13. \A k \in 1..Len(t) : \A n \in Id : t[k] = Write(NodePath(n), There) =>
           \A j \in 0..Len(s) : n \notin Nodes(After(g, s, j))
  BY <1>1, <1>10, <1>11, <1>12
<1>14. Safe(g, s \o t)
  BY <1>2, <1>3, <1>5, <1>6, <1>8, <1>13, SafeAppend
<1>15. s \o t \in Seq(Writes)
  BY <1>2, <1>3
<1> QED
  BY <1>4, <1>9, <1>14, <1>15

\* A graph with one value replaced is a graph.
LEMMA WrittenIsGraph ==
    ASSUME NEW g \in Graph, NEW p \in Path, NEW u \in Value(p)
    PROVE  [g EXCEPT ![p] = u] \in Graph
<1>1. \A q \in Path : [g EXCEPT ![p] = u][q] \in Value(q)
  BY DEF Graph
<1> QED
  BY <1>1 DEF Graph, Value, Null, There

LEMMA SaveEdgeGood ==
    ASSUME NEW v \in Graph, Sound(v), NEW a \in Nodes(v), NEW b \in Nodes(v)
    PROVE  GoodEdit(v, <<Write(EdgePath(a, b), There), Write(EdgePath(b, a), There)>>)
<1> DEFINE h == [v EXCEPT ![EdgePath(a, b)] = There]
           i == [h EXCEPT ![EdgePath(b, a)] = There]
           x == Write(EdgePath(a, b), There)
           y == Write(EdgePath(b, a), There)
<1>1. a \in Id /\ b \in Id /\ There \in {Null, There}
  BY GraphParts
<1>2. /\ EdgePath(a, b) \in Path /\ There \in Value(EdgePath(a, b))
      /\ EdgePath(b, a) \in Path /\ There \in Value(EdgePath(b, a))
  BY <1>1, PathsExist
<1>3. h \in Graph
  BY <1>2, WrittenIsGraph
<1>4. Nodes(h) = Nodes(v) /\ Edges(h) = Edges(v) \cup {<<a, b>>} /\ Index(h) = Index(v)
  BY <1>1, EdgeWritten
<1>5. h = [v EXCEPT ![EdgePath(a, b)] = There]
  OBVIOUS
<1> HIDE DEF h
<1>6. Nodes(i) = Nodes(h) /\ Edges(i) = Edges(h) \cup {<<b, a>>} /\ Index(i) = Index(h)
  BY <1>1, <1>3, EdgeWritten
<1>7. i = [h EXCEPT ![EdgePath(b, a)] = There]
  OBVIOUS
<1> HIDE DEF i
<1>8. Sound(h) /\ Sound(i)
  BY <1>4, <1>6 DEF Sound, NoDangling, IndexCovers
<1>9. Index(v) <= Index(h) /\ Index(h) <= Index(i)
  <2>1. Index(v) \in 0..MaxId
    BY GraphParts
  <2> QED
    BY <1>4, <1>6, <2>1, MaxIdAssumption
<1>10. \A n : x # Write(NodePath(n), There) /\ y # Write(NodePath(n), There)
  BY EdgeIsNoNode
<1>11. <<x, y>> \in Seq(Writes) /\ Overlay(v, <<x, y>>) = i /\ Safe(v, <<x, y>>)
  <2>1. x \in Writes /\ y \in Writes /\ i \in Graph
    BY <1>2, <1>3, WritesType, WrittenIsGraph DEF i
  <2>2. Overlay(v, <<x>>) = h
    BY <1>2, OverlayWrite DEF h
  <2>3. Overlay(h, <<y>>) = i
    BY <1>2, <1>3, OverlayWrite DEF i
  <2> HIDE DEF x, y
  <2>4. SafeStep(v, x, h) /\ SafeStep(h, y, i) /\ AddsNew(v, y)
    BY <1>8, <1>9, <1>10, <2>2, <2>3 DEF SafeStep, AddsNew
  <2> QED
    BY <2>1, <2>4, TwoWritesSafe
<1>12. TwoWay(v) => TwoWay(i)
  <2> SUFFICES ASSUME TwoWay(v), NEW e \in Edges(i) PROVE <<e[2], e[1]>> \in Edges(i)
    BY DEF TwoWay
  <2>1. e \in Edges(v) \/ e = <<a, b>> \/ e = <<b, a>>
    BY <1>4, <1>6
  <2>2. CASE e \in Edges(v)
    BY <1>4, <1>6, <2>2 DEF TwoWay
  <2> QED
    BY <1>4, <1>6, <2>1, <2>2
<1>13. \A k \in 1..Len(<<x, y>>) : <<x, y>>[k] = x \/ <<x, y>>[k] = y
  OBVIOUS
<1> HIDE DEF x, y
<1>14. GoodEdit(v, <<x, y>>)
  BY <1>10, <1>11, <1>12, <1>13 DEF GoodEdit
<1> QED
  BY <1>14 DEF x, y

LEMMA SaveNodeGood ==
    ASSUME NEW v \in Graph, Sound(v), NEW n \in Id, n = Index(v) + 1
    PROVE  GoodEdit(v, <<Write(IndexPath, n), Write(NodePath(n), There)>>)
<1> DEFINE h == [v EXCEPT ![IndexPath] = n]
           i == [h EXCEPT ![NodePath(n)] = There]
           x == Write(IndexPath, n)
           y == Write(NodePath(n), There)
<1>1. n \in 0..MaxId /\ There \in {Null, There}
  BY MaxIdAssumption DEF Id
<1>2. /\ IndexPath \in Path /\ n \in Value(IndexPath)
      /\ NodePath(n) \in Path /\ There \in Value(NodePath(n))
  BY <1>1, PathsExist
<1>3. h \in Graph
  BY <1>2, WrittenIsGraph
<1>4. Nodes(h) = Nodes(v) /\ Edges(h) = Edges(v) /\ Index(h) = n
  BY <1>1, IndexWritten
<1>5. h = [v EXCEPT ![IndexPath] = n]
  OBVIOUS
<1> HIDE DEF h
<1>6. Nodes(i) = Nodes(h) \cup {n} /\ Edges(i) = Edges(h) /\ Index(i) = Index(h)
  BY <1>1, <1>3, NodeWritten
<1>7. i = [h EXCEPT ![NodePath(n)] = There]
  OBVIOUS
<1> HIDE DEF i
<1>8. Index(v) \in Nat /\ n \in Nat /\ n > Index(v) /\ Nodes(v) \subseteq Nat
  BY <1>1, GraphParts, MaxIdAssumption DEF Id
<1>9. \A m \in Nodes(v) : m <= Index(v)
  BY DEF Sound, IndexCovers
<1>10. \A m \in Nodes(v) : m <= n /\ m # n
  BY <1>8, <1>9
<1>11. Sound(h) /\ Sound(i)
  BY <1>4, <1>6, <1>8, <1>10 DEF Sound, NoDangling, IndexCovers
<1>12. Index(v) <= Index(h) /\ Index(h) <= Index(i)
  BY <1>4, <1>6, <1>8
<1>13. n \notin Nodes(v) /\ n \notin Nodes(h)
  BY <1>4, <1>10
<1>14. \A m : x # Write(NodePath(m), There) /\ (y = Write(NodePath(m), There) => m = n)
  <2>1. \A p, w : Write(p, w).path = p
    BY DEF Write
  <2> QED
    BY <2>1, PathsDiffer
<1>15. <<x, y>> \in Seq(Writes) /\ Overlay(v, <<x, y>>) = i /\ Safe(v, <<x, y>>)
  <2>1. x \in Writes /\ y \in Writes /\ i \in Graph
    BY <1>2, <1>3, WritesType, WrittenIsGraph DEF i
  <2>2. Overlay(v, <<x>>) = h
    BY <1>2, OverlayWrite DEF h
  <2>3. Overlay(h, <<y>>) = i
    BY <1>2, <1>3, OverlayWrite DEF i
  <2> HIDE DEF x, y
  <2>4. SafeStep(v, x, h) /\ SafeStep(h, y, i) /\ AddsNew(v, y)
    BY <1>11, <1>12, <1>13, <1>14, <2>2, <2>3 DEF SafeStep, AddsNew
  <2> QED
    BY <2>1, <2>4, TwoWritesSafe
<1>16. TwoWay(v) => TwoWay(i)
  BY <1>4, <1>6 DEF TwoWay
<1>17. \A k \in 1..Len(<<x, y>>) : <<x, y>>[k] = x \/ <<x, y>>[k] = y
  OBVIOUS
<1> HIDE DEF x, y
<1>18. GoodEdit(v, <<x, y>>)
  BY <1>8, <1>14, <1>15, <1>16, <1>17 DEF GoodEdit
<1> QED
  BY <1>18 DEF x, y

\* Removals add no node, whatever comes after.
LEMMA RemovesNoNode ==
    ASSUME NEW E \in SUBSET (Id \X Id), NEW ws, Removes(ws, E)
    PROVE  \A k \in 1..Len(ws) : \A n : ws[k] # Write(NodePath(n), There)
BY EdgeIsNoNode DEF Removes, Removal

LEMMA DeleteEdgeGood ==
    ASSUME NEW v \in Graph, Sound(v), NEW m \in Id, NEW n \in Id
    PROVE  GoodEdit(v, Removals({<<m, n>>, <<n, m>>} \cap Edges(v)))
<1> DEFINE E == {<<m, n>>, <<n, m>>} \cap Edges(v)
           ws == Removals(E)
<1>1. E \in SUBSET (Id \X Id)
  OBVIOUS
<1>2. \A e \in Edges(v) \ E : e \notin {<<m, n>>, <<n, m>>}
  OBVIOUS
<1>3. \A e \in Edges(v) \ E : <<e[2], e[1]>> \notin E
  <2> SUFFICES ASSUME NEW e \in Edges(v) \ E, <<e[2], e[1]>> \in E PROVE FALSE
    OBVIOUS
  <2>1. e = <<e[1], e[2]>>
    BY DEF Edges
  <2>2. <<e[2], e[1]>> = <<m, n>> \/ <<e[2], e[1]>> = <<n, m>>
    OBVIOUS
  <2>3. e = <<n, m>> \/ e = <<m, n>>
    BY <2>1, <2>2
  <2> QED
    BY <1>2, <2>3
<1> HIDE DEF E
<1>4. Removes(ws, E)
  BY <1>1, RemovalsRemove
<1> HIDE DEF ws
<1>5. Edges(Overlay(v, ws)) = Edges(v) \ E
  BY <1>1, <1>4, RemovesIs
<1>6. TwoWay(v) => TwoWay(Overlay(v, ws))
  BY <1>3, <1>5 DEF TwoWay
<1>7. ws \in Seq(Writes)
  BY <1>4 DEF Removes
<1>8. GoodEdit(v, ws)
  BY <1>1, <1>4, <1>6, <1>7, RemovesSafe, RemovesNoNode DEF GoodEdit
<1> QED
  BY <1>8 DEF ws, E

LEMMA DeleteNodeGood ==
    ASSUME NEW v \in Graph, Sound(v), NEW n \in Id
    PROVE  GoodEdit(v, Removals({e \in Edges(v) : n \in {e[1], e[2]}})
                       \o <<Write(NodePath(n), Null)>>)
<1> DEFINE E == {e \in Edges(v) : n \in {e[1], e[2]}}
           s == Removals(E)
           h == Overlay(v, s)
           y == Write(NodePath(n), Null)
           i == [h EXCEPT ![NodePath(n)] = Null]
           t == <<y>>
           ws == s \o t
<1>1. E \in SUBSET (Id \X Id)
  BY DEF Edges
<1>2. \A e \in Edges(v) \ E : n # e[1] /\ n # e[2] /\ <<e[2], e[1]>> \notin E
  OBVIOUS
<1> HIDE DEF E
<1>3. Removes(s, E)
  BY <1>1, RemovalsRemove
<1> HIDE DEF s
<1>4. Nodes(h) = Nodes(v) /\ Index(h) = Index(v) /\ Edges(h) = Edges(v) \ E
  BY <1>1, <1>3, RemovesIs
<1>5. s \in Seq(Writes) /\ h \in Graph
  BY <1>3, OverlayType DEF Removes
<1>6. Safe(v, s)
  BY <1>1, <1>3, RemovesSafe
<1>7. \A k \in 1..Len(s) : \A m : s[k] # Write(NodePath(m), There)
  BY <1>1, <1>3, RemovesNoNode
<1>8. h = Overlay(v, s)
  OBVIOUS
<1>9. NodePath(n) \in Path /\ Null \in Value(NodePath(n)) /\ Null \in {Null, There} /\ Null # There
  BY PathsExist DEF Null, There
<1> HIDE DEF h
<1>10. Nodes(i) = Nodes(h) \ {n} /\ Edges(i) = Edges(h) /\ Index(i) = Index(h)
  BY <1>5, <1>9, NodeWritten
<1>11. y \in Writes /\ Overlay(h, t) = i
  BY <1>5, <1>9, WritesType, OverlayWrite
<1>12. \A m : y # Write(NodePath(m), There)
  <2>1. \A q, w : Write(q, w).value = w
    BY DEF Write
  <2> QED
    BY <1>9, <2>1
<1> HIDE DEF i, y
<1>13. Sound(h) /\ Sound(i)
  BY <1>2, <1>4, <1>10 DEF Sound, NoDangling, IndexCovers
<1>14. Index(v) <= Index(h) /\ Index(h) <= Index(i)
  <2>1. Index(v) \in 0..MaxId
    BY GraphParts
  <2> QED
    BY <1>4, <1>10, <2>1, MaxIdAssumption
<1>15. SafeStep(h, y, i)
  BY <1>11, <1>12, <1>13, <1>14 DEF SafeStep, AddsNew
<1>16. Safe(h, t)
  BY <1>5, <1>11, <1>13, <1>15, OneWriteSafe
<1>17. t \in Seq(Writes) /\ Len(t) = 1 /\ t[1] = y
  BY <1>11
<1> HIDE DEF t
<1>18. \A k \in 1..Len(t) : \A m : t[k] # Write(NodePath(m), There)
  <2>1. \A k \in 1..Len(t) : t[k] = y
    BY <1>17
  <2> QED
    BY <1>12, <2>1
<1>19. Index(h) <= Index(Overlay(h, t))
  BY <1>11, <1>14
<1>20. Safe(v, ws)
  BY <1>5, <1>6, <1>8, <1>16, <1>17, <1>18, <1>19, SafeAppend
<1>21. Overlay(v, ws) = i
  BY <1>5, <1>8, <1>11, <1>17, OverlayConcat
<1>22. TwoWay(v) => TwoWay(i)
  BY <1>2, <1>4, <1>10 DEF TwoWay
<1>23. /\ ws \in Seq(Writes)
       /\ \A k \in 1..Len(ws) : \/ k \in 1..Len(s) /\ ws[k] = s[k]
                                \/ k - Len(s) \in 1..Len(t) /\ ws[k] = t[k - Len(s)]
  <2>0. s \in Seq(Writes) /\ t \in Seq(Writes)
    BY <1>5, <1>17
  <2>1. /\ ws \in Seq(Writes)
        /\ Len(ws) = Len(s) + Len(t)
        /\ Len(s) \in Nat /\ Len(t) \in Nat
        /\ \A k \in 1..Len(s) : ws[k] = s[k]
        /\ \A k \in 1..Len(ws) : k > Len(s) => ws[k] = t[k - Len(s)]
    BY <2>0
  <2> HIDE DEF ws
  <2>2. \A k \in 1..Len(ws) : k \in 1..Len(s) \/ (k > Len(s) /\ k - Len(s) \in 1..Len(t))
    BY <2>1
  <2> QED
    BY <2>1, <2>2
<1> HIDE DEF ws
<1>24. \A k \in 1..Len(ws) : \A m : ws[k] # Write(NodePath(m), There)
  BY <1>7, <1>18, <1>23
<1>25. GoodEdit(v, ws)
  BY <1>20, <1>21, <1>22, <1>23, <1>24 DEF GoodEdit
<1> QED
  BY <1>25 DEF ws, t, y, s, E

-----------------------------------------------------------------------------
\* The graph is edited on one page at most.
OneWriter == \A c, d \in Writer : c = d

SoundDrawings == \A g \in Drawings : Sound(g)

\* The server is on its way to what the writer shows; whoever only looks has
\* nothing under way.
StoreInv ==
    /\ store \in Graph
    /\ view \in [Editor -> Graph]
    /\ pending \in [Editor -> Seq(Writes)]
    /\ Sound(store)
    /\ \A c \in Editor : Sound(view[c])
    /\ \A c \in Editor \ Writer : pending[c] = <<>>
    /\ \A c \in Writer : view[c] = Overlay(store, pending[c]) /\ Safe(store, pending[c])

\* A window with the details of a node only stands on a map that has the node.
PageInv ==
    /\ addingEdge \in [Editor -> {<<>>} \cup (Id \X Id)]
    /\ helpers \in [Editor -> SUBSET Id]
    /\ windows \in [Editor -> SUBSET Window]
    /\ \A c \in Editor : \A n \in Id : DetailWindow(n) \in windows[c] => n \in Nodes(view[c])

EditInv == StoreInv /\ PageInv

\* With no writes under way there is nothing on top of the server.
LEMMA NothingPending ==
    ASSUME NEW g \in Graph, Sound(g)
    PROVE  Overlay(g, <<>>) = g /\ Safe(g, <<>>)
<1> DEFINE ws == <<>>
<1>1. ws \in Seq(Writes) /\ Len(ws) = 0 /\ (\A k \in 0..0 : k = 0) /\ (\A k \in 1..0 : FALSE)
  OBVIOUS
<1>2. Overlay(g, ws) = g
  BY OverlayNothing
<1>3. Index(g) <= Index(g)
  <2>1. Index(g) \in 0..MaxId
    BY GraphParts
  <2> QED
    BY <2>1, MaxIdAssumption
<1> HIDE DEF ws
<1>4. After(g, ws, 0) = g
  BY <1>1, AfterEnds
<1>5. Safe(g, ws)
  BY <1>1, <1>2, <1>3, <1>4 DEF Safe
<1> QED
  BY <1>2, <1>5 DEF ws

LEMMA SetKeepsStore ==
    ASSUME StoreInv, OneWriter, NEW c \in Writer, NEW ws, GoodEdit(view[c], ws), Set(c, ws)
    PROVE  StoreInv'
<1> DEFINE v == view[c]
           s == pending[c]
<1>1. c \in Editor /\ v \in Graph /\ s \in Seq(Writes) /\ store \in Graph
  BY WriterAssumption DEF StoreInv
<1>2. v = Overlay(store, s) /\ Safe(store, s)
  BY DEF StoreInv
<1>3. ws \in Seq(Writes) /\ Safe(v, ws)
  BY DEF GoodEdit
<1>4. \A k \in 1..Len(ws) : \A n \in Id : ws[k] = Write(NodePath(n), There) => n > Index(v)
  BY DEF GoodEdit
<1>5. /\ store' = store
      /\ view' = [view EXCEPT ![c] = Overlay(v, ws)]
      /\ pending' = [pending EXCEPT ![c] = s \o ws]
  BY DEF Set
<1>6. view'[c] = Overlay(v, ws) /\ \A d \in Editor : d # c => view'[d] = view[d]
  BY <1>1, <1>5 DEF StoreInv
<1>7. pending'[c] = s \o ws /\ \A d \in Editor : d # c => pending'[d] = pending[d]
  BY <1>1, <1>5 DEF StoreInv
<1>8. s \o ws \in Seq(Writes)
  BY <1>1, <1>3
<1>9. Overlay(v, ws) \in Graph
  BY <1>1, <1>3, OverlayType
<1>10. view' \in [Editor -> Graph] /\ pending' \in [Editor -> Seq(Writes)]
  <2>1. view \in [Editor -> Graph] /\ pending \in [Editor -> Seq(Writes)]
    BY DEF StoreInv
  <2> HIDE DEF v, s
  <2> QED
    BY <1>1, <1>5, <1>8, <1>9, <2>1
<1> HIDE DEF v, s
<1>11. After(v, ws, 0) = v /\ After(v, ws, Len(ws)) = Overlay(v, ws)
  BY <1>1, <1>3, AfterEnds
<1>12. Len(ws) \in Nat /\ 0 \in 0..Len(ws) /\ Len(ws) \in 0..Len(ws)
  BY <1>3
<1>13. Sound(Overlay(v, ws)) /\ Index(v) <= Index(Overlay(v, ws))
  BY <1>3, <1>11, <1>12 DEF Safe
<1>14. \A k \in 1..Len(ws) : \A n \in Id : ws[k] = Write(NodePath(n), There) =>
           \A j \in 0..Len(s) : n \notin Nodes(After(store, s, j))
  BY <1>1, <1>2, <1>4, BeyondIndexIsFresh
<1>15. Safe(store, s \o ws)
  BY <1>1, <1>2, <1>3, <1>13, <1>14, SafeAppend
<1>16. Overlay(store, s \o ws) = Overlay(v, ws)
  BY <1>1, <1>2, <1>3, OverlayConcat
<1>17. \A d \in Writer : d = c
  BY DEF OneWriter
<1>18. Writer \subseteq Editor
  BY WriterAssumption
<1> QED
  BY <1>1, <1>5, <1>6, <1>7, <1>10, <1>13, <1>15, <1>16, <1>17, <1>18 DEF StoreInv

LEMMA CommitKeepsStore ==
    ASSUME StoreInv, OneWriter, NEW c \in Editor, Commit(c)
    PROVE  StoreInv'
<1> DEFINE s == pending[c]
           h == [store EXCEPT ![Head(s).path] = Head(s).value]
<1>1. s # <<>> /\ store' = h /\ view' = view /\ pending' = [pending EXCEPT ![c] = Tail(s)]
  BY DEF Commit
<1>2. c \in Writer
  BY <1>1 DEF StoreInv
<1>3. s \in Seq(Writes) /\ store \in Graph /\ view[c] = Overlay(store, s) /\ Safe(store, s)
  BY <1>2 DEF StoreInv
<1>4. Tail(s) \in Seq(Writes)
  BY <1>1, <1>3
<1>5. pending'[c] = Tail(s) /\ \A d \in Editor : d # c => pending'[d] = pending[d]
  BY <1>1 DEF StoreInv
<1>6. pending' \in [Editor -> Seq(Writes)]
  <2>1. pending \in [Editor -> Seq(Writes)]
    BY DEF StoreInv
  <2> HIDE DEF s
  <2> QED
    BY <1>1, <1>4, <2>1
<1> HIDE DEF s
<1>7. h \in Graph /\ Overlay(h, Tail(s)) = Overlay(store, s)
  BY <1>1, <1>3, AfterCommit
<1>8. Sound(h) /\ Safe(h, Tail(s))
  BY <1>1, <1>3, SafeCommit
<1>9. \A d \in Writer : d = c
  BY <1>2 DEF OneWriter
<1>10. Writer \subseteq Editor
  BY WriterAssumption
<1> HIDE DEF h
<1> QED
  BY <1>1, <1>2, <1>3, <1>5, <1>6, <1>7, <1>8, <1>9, <1>10 DEF StoreInv

\* A writer has nothing to be told; what another page is told is the server.
LEMMA SyncKeepsStore ==
    ASSUME StoreInv, NEW c \in Editor, Sync(c)
    PROVE  StoreInv' /\ c \notin Writer
<1>1. c \notin Writer
  BY DEF StoreInv, Sync
<1>2. pending[c] = <<>> /\ store \in Graph /\ Sound(store)
  BY <1>1 DEF StoreInv
<1>3. Overlay(store, pending[c]) = store
  BY <1>2, OverlayNothing
<1>4. store' = store /\ pending' = pending /\ view' = [view EXCEPT ![c] = store]
  BY <1>3 DEF Sync
<1>5. \A d \in Editor : view'[d] = IF d = c THEN store ELSE view[d]
  BY <1>4 DEF StoreInv
<1>6. Writer \subseteq Editor
  BY WriterAssumption
<1> QED
  BY <1>1, <1>2, <1>4, <1>5, <1>6 DEF StoreInv

LEMMA ReopenKeepsStore ==
    ASSUME StoreInv, NEW c \in Editor, Reopen(c)
    PROVE  StoreInv'
<1>1. store \in Graph /\ Sound(store)
  BY DEF StoreInv
<1>2. /\ store' = store
      /\ view' = [view EXCEPT ![c] = store]
      /\ pending' = [pending EXCEPT ![c] = <<>>]
  BY DEF Reopen
<1>3. \A d \in Editor : /\ view'[d] = IF d = c THEN store ELSE view[d]
                        /\ pending'[d] = IF d = c THEN <<>> ELSE pending[d]
  BY <1>2 DEF StoreInv
<1>4. Overlay(store, <<>>) = store /\ Safe(store, <<>>)
  BY <1>1, NothingPending
<1>5. Writer \subseteq Editor
  BY WriterAssumption
<1>6. view' \in [Editor -> Graph] /\ pending' \in [Editor -> Seq(Writes)]
  BY <1>1, <1>2 DEF StoreInv
<1>7. \A d \in Writer : view'[d] = Overlay(store, pending'[d]) /\ Safe(store, pending'[d])
  BY <1>3, <1>4, <1>5 DEF StoreInv
<1> QED
  BY <1>1, <1>2, <1>3, <1>5, <1>6, <1>7 DEF StoreInv

-----------------------------------------------------------------------------
LEMMA MarkerIndexType ==
    ASSUME NEW g \in Graph, NEW n \in Nodes(g)
    PROVE  MarkerIndex(g, n) \in Id
<1> DEFINE S == {m \in Nodes(g) : m <= n}
<1>1. IsFiniteSet(Id) /\ Cardinality(Id) = MaxId /\ n \in Id
  <2>1. 1 \in Int /\ MaxId \in Int /\ (1 > MaxId => MaxId = 0) /\ MaxId - 1 + 1 = MaxId
    BY MaxIdAssumption
  <2>2. IsFiniteSet(1..MaxId) /\ Cardinality(1..MaxId) = IF 1 > MaxId THEN 0 ELSE MaxId - 1 + 1
    BY <2>1, FS_Interval
  <2> QED
    BY <2>1, <2>2, GraphParts DEF Id
<1>2. S \in SUBSET Id
  BY GraphParts
<1>3. n \in S
  BY <1>1, MaxIdAssumption DEF Id
<1> HIDE DEF S
<1>4. IsFiniteSet(S) /\ Cardinality(S) <= MaxId
  BY <1>1, <1>2, FS_Subset
<1>5. Cardinality(S) \in Nat /\ Cardinality(S) # 0
  BY <1>3, <1>4, FS_CardinalityType, FS_EmptySet
<1>6. Cardinality(S) \in Id
  BY <1>4, <1>5, MaxIdAssumption DEF Id
<1> QED
  BY <1>6 DEF MarkerIndex, S

LEMMA WindowKinds ==
    /\ \A n \in Id : DetailWindow(n) \in Window /\ DeleteWindow(n) \in Window
    /\ CreateWindow \in Window
    /\ \A m, n \in Id : \A i \in Id : EdgeWindow(m, n, i) \in Window
    /\ \A m, n : DetailWindow(m) = DetailWindow(n) => m = n
    /\ \A m, n, o, i : /\ DetailWindow(m) # DeleteWindow(n)
                       /\ DetailWindow(m) # CreateWindow
                       /\ DetailWindow(m) # EdgeWindow(n, o, i)
<1>1. \A n : DetailWindow(n).shows = "detail" /\ DetailWindow(n).node = n
  BY DEF DetailWindow
<1>2. /\ \A n : DeleteWindow(n).shows = "delete"
      /\ CreateWindow.shows = "create"
      /\ \A n, o, i : EdgeWindow(n, o, i).shows = "edge"
  BY DEF DeleteWindow, CreateWindow, EdgeWindow
<1>3. "detail" # "delete" /\ "detail" # "create" /\ "detail" # "edge"
  OBVIOUS
<1>4. \A m, n, o, i : /\ DetailWindow(m) # DeleteWindow(n)
                      /\ DetailWindow(m) # CreateWindow
                      /\ DetailWindow(m) # EdgeWindow(n, o, i)
  BY <1>1, <1>2, <1>3
<1>5. \A m, n : DetailWindow(m) = DetailWindow(n) => m = n
  BY <1>1
<1> QED
  BY <1>4, <1>5 DEF Window

\* A redraw leaves no window on the page whose map it is.
LEMMA RedrawKeepsPage ==
    ASSUME PageInv, NEW c \in Editor, NEW shown, Redraw(c, shown), addingEdge' = addingEdge,
           \A d \in Editor : d # c => view'[d] = view[d]
    PROVE  PageInv'
<1>1. windows' = [windows EXCEPT ![c] = {}]
  BY DEF Redraw
<1>2. helpers' \in [Editor -> SUBSET Id]
  <2>1. PICK H : helpers' = [helpers EXCEPT ![c] = H] /\ H \subseteq helpers[c]
    BY DEF Redraw
  <2> QED
    BY <2>1 DEF PageInv
<1>3. windows' \in [Editor -> SUBSET Window]
  BY <1>1 DEF PageInv
<1>4. ASSUME NEW d \in Editor, NEW n \in Id, DetailWindow(n) \in windows'[d]
      PROVE  n \in Nodes(view'[d])
  <2>1. d # c /\ windows'[d] = windows[d]
    BY <1>1, <1>4 DEF PageInv
  <2> QED
    BY <1>4, <2>1 DEF PageInv
<1> QED
  BY <1>2, <1>3, <1>4 DEF PageInv

\* One more window, of a node that the map has if it shows details.
LEMMA OpenedKeepsWindows ==
    ASSUME PageInv, NEW c \in Editor, NEW w \in Window, NEW x, Opened(c, w, x), view' = view,
           \A n \in Id : w = DetailWindow(n) => n \in Nodes(view[c])
    PROVE  /\ windows' \in [Editor -> SUBSET Window]
           /\ \A d \in Editor : \A n \in Id :
                  DetailWindow(n) \in windows'[d] => n \in Nodes(view'[d])
<1>1. windows' = [windows EXCEPT ![c] = (windows[c] \ {x}) \cup {w}]
  BY DEF Opened
<1>2. \A d \in Editor : windows'[d] = IF d = c THEN (windows[c] \ {x}) \cup {w} ELSE windows[d]
  BY <1>1 DEF PageInv
<1>3. windows' \in [Editor -> SUBSET Window]
  BY <1>1 DEF PageInv
<1>4. ASSUME NEW d \in Editor, NEW n \in Id, DetailWindow(n) \in windows'[d]
      PROVE  n \in Nodes(view[d])
  BY <1>2, <1>4 DEF PageInv
<1> QED
  BY <1>3, <1>4

\* An edit that is good keeps the invariant.
LEMMA EditKeeps ==
    ASSUME EditInv, OneWriter, NEW c \in Writer, NEW ws, GoodEdit(view[c], ws), Edit(c, ws)
    PROVE  EditInv'
<1>1. StoreInv'
  BY SetKeepsStore DEF EditInv, Edit
<1>2. \A d \in Editor : d # c => view'[d] = view[d]
  BY DEF EditInv, StoreInv, Edit, Set
<1>3. PageInv'
  BY <1>2, WriterAssumption, RedrawKeepsPage DEF EditInv, Edit
<1> QED
  BY <1>1, <1>3 DEF EditInv

\* Steps that only open and close windows.
LEMMA StoreUntouched ==
    ASSUME StoreInv, UNCHANGED storeVars
    PROVE  StoreInv'
<1>1. store' = store /\ view' = view /\ pending' = pending
  BY DEF storeVars
<1> QED
  BY <1>1 DEF StoreInv

-----------------------------------------------------------------------------
\* What somebody does on the page of the writer.
LEMMA UseKeeps ==
    ASSUME EditInv, OneWriter, NEW c \in Writer, Use(c)
    PROVE  EditInv'
<1>0. /\ c \in Editor /\ view[c] \in Graph /\ Sound(view[c]) /\ Nodes(view[c]) \subseteq Id
      /\ StoreInv /\ PageInv
  BY WriterAssumption, GraphParts DEF EditInv, StoreInv
<1>1. ASSUME NEW n \in Id, ClickMarker(c, n)
      PROVE  EditInv'
  <2>1. StoreInv'
    BY <1>0, <1>1, StoreUntouched DEF ClickMarker
  <2>2. view' = view /\ addingEdge' = addingEdge /\ helpers' = helpers
    BY <1>1 DEF ClickMarker, storeVars
  <2>3. \A m \in Id : DetailWindow(n) = DetailWindow(m) => m \in Nodes(view[c])
    BY <1>1, WindowKinds DEF ClickMarker
  <2>4. DetailWindow(n) \in Window /\ Opened(c, DetailWindow(n), DetailWindow(n))
    BY <1>1, WindowKinds DEF ClickMarker
  <2>5. PageInv'
    BY <1>0, <2>2, <2>3, <2>4, OpenedKeepsWindows DEF PageInv
  <2> QED
    BY <2>1, <2>5 DEF EditInv
<1>2. ASSUME NEW n \in Id, addFirstEdge(c, n)
      PROVE  EditInv'
  <2>1. StoreInv'
    BY <1>0, <1>2, StoreUntouched DEF addFirstEdge
  <2>2. view' = view
    BY <1>2 DEF addFirstEdge, storeVars
  <2>3. MarkerIndex(view[c], n) \in Id
    BY <1>0, <1>2, MarkerIndexType DEF addFirstEdge, PageInv
  <2>4. \A d \in Editor : windows'[d] \subseteq windows[d]
    BY <1>2 DEF addFirstEdge, PageInv
  <2>5. windows' \in [Editor -> SUBSET Window]
    BY <1>0, <1>2 DEF addFirstEdge, PageInv
  <2>6. helpers' \in [Editor -> SUBSET Id]
    BY <1>0, <1>2, <2>3 DEF addFirstEdge, PageInv
  <2>7. addingEdge' \in [Editor -> {<<>>} \cup (Id \X Id)]
    BY <1>0, <1>2, <2>3 DEF addFirstEdge, PageInv
  <2>8. PageInv'
    BY <1>0, <2>2, <2>4, <2>5, <2>6, <2>7 DEF PageInv
  <2> QED
    BY <2>1, <2>8 DEF EditInv
<1>3. ASSUME NEW n \in Id, addSecondEdge(c, n)
      PROVE  EditInv'
  <2> DEFINE w == EdgeWindow(n, addingEdge[c][1], addingEdge[c][2])
  <2>1. StoreInv'
    BY <1>0, <1>3, StoreUntouched DEF addSecondEdge
  <2>2. view' = view /\ helpers' = helpers
    BY <1>3 DEF addSecondEdge, storeVars
  <2>3. addingEdge[c] \in Id \X Id
    BY <1>0, <1>3 DEF addSecondEdge, PageInv
  <2>4. addingEdge[c][1] \in Id /\ addingEdge[c][2] \in Id
    BY <2>3
  <2>5. w \in Window
    BY <2>4, WindowKinds
  <2>6. \A m \in Id : w # DetailWindow(m)
    BY WindowKinds
  <2>7. Opened(c, w, DetailWindow(n)) /\ addingEdge' = [addingEdge EXCEPT ![c] = <<>>]
    BY <1>3 DEF addSecondEdge
  <2> HIDE DEF w
  <2>8. /\ windows' \in [Editor -> SUBSET Window]
        /\ \A d \in Editor : \A m \in Id :
               DetailWindow(m) \in windows'[d] => m \in Nodes(view'[d])
    BY <1>0, <2>2, <2>5, <2>6, <2>7, OpenedKeepsWindows
  <2>9. addingEdge' \in [Editor -> {<<>>} \cup (Id \X Id)]
    BY <1>0, <2>7 DEF PageInv
  <2>10. PageInv'
    BY <1>0, <2>2, <2>8, <2>9 DEF PageInv
  <2> QED
    BY <2>1, <2>10 DEF EditInv
<1>4. ASSUME NEW n \in Id, deleteNodeBox(c, n)
      PROVE  EditInv'
  <2>1. StoreInv'
    BY <1>0, <1>4, StoreUntouched DEF deleteNodeBox
  <2>2. view' = view /\ addingEdge' = addingEdge
    BY <1>4 DEF deleteNodeBox, storeVars
  <2>3. MarkerIndex(view[c], n) \in Id
    BY <1>0, <1>4, MarkerIndexType DEF deleteNodeBox, PageInv
  <2>4. \A m \in Id : DeleteWindow(n) # DetailWindow(m)
    BY WindowKinds
  <2>5. DeleteWindow(n) \in Window /\ Opened(c, DeleteWindow(n), DetailWindow(n))
    BY <1>4, WindowKinds DEF deleteNodeBox
  <2>6. /\ windows' \in [Editor -> SUBSET Window]
        /\ \A d \in Editor : \A m \in Id :
               DetailWindow(m) \in windows'[d] => m \in Nodes(view'[d])
    BY <1>0, <2>2, <2>4, <2>5, OpenedKeepsWindows
  <2>7. helpers' \in [Editor -> SUBSET Id]
    BY <1>0, <1>4, <2>3 DEF deleteNodeBox, PageInv
  <2>8. PageInv'
    BY <1>0, <2>2, <2>6, <2>7 DEF PageInv
  <2> QED
    BY <2>1, <2>8 DEF EditInv
<1>5. ASSUME DoubleClick(c)
      PROVE  EditInv'
  <2>1. StoreInv'
    BY <1>0, <1>5, StoreUntouched DEF DoubleClick
  <2>2. view' = view /\ addingEdge' = addingEdge /\ helpers' = helpers
    BY <1>5 DEF DoubleClick, storeVars
  <2>3. /\ CreateWindow \in Window /\ Opened(c, CreateWindow, CreateWindow)
        /\ \A m \in Id : CreateWindow # DetailWindow(m)
    BY <1>5, WindowKinds DEF DoubleClick
  <2>4. PageInv'
    BY <1>0, <2>2, <2>3, OpenedKeepsWindows DEF PageInv
  <2> QED
    BY <2>1, <2>4 DEF EditInv
<1>6. ASSUME NEW n \in Id, deleteNode(c, n)
      PROVE  EditInv'
  BY <1>0, <1>6, DeleteNodeGood, EditKeeps DEF deleteNode
<1>7. ASSUME NEW m \in Id, NEW n \in Id, deleteEdge(c, m, n)
      PROVE  EditInv'
  BY <1>0, <1>7, DeleteEdgeGood, EditKeeps DEF deleteEdge
<1>8. ASSUME NEW w \in windows[c], saveEdge(c, w)
      PROVE  EditInv'
  BY <1>0, <1>8, SaveEdgeGood, EditKeeps DEF saveEdge
<1>9. ASSUME saveNode(c)
      PROVE  EditInv'
  BY <1>0, <1>9, SaveNodeGood, EditKeeps DEF saveNode
<1> QED
  BY <1>1, <1>2, <1>3, <1>4, <1>5, <1>6, <1>7, <1>8, <1>9 DEF Use

LEMMA InitEstablishes ==
    ASSUME SoundDrawings, Init
    PROVE  EditInv
<1>1. store \in Graph /\ Sound(store)
  BY DrawingsAssumption DEF Init, SoundDrawings
<1>2. Overlay(store, <<>>) = store /\ Safe(store, <<>>)
  BY <1>1, NothingPending
<1>3. StoreInv
  BY <1>1, <1>2, WriterAssumption DEF Init, StoreInv
<1>4. PageInv
  BY DEF Init, PageInv
<1> QED
  BY <1>3, <1>4 DEF EditInv

LEMMA NextKeeps ==
    ASSUME EditInv, OneWriter, [Next]_vars
    PROVE  EditInv'
<1>1. CASE UNCHANGED vars
  <2>1. StoreInv'
    BY <1>1, StoreUntouched DEF EditInv, vars
  <2>2. PageInv'
    BY <1>1 DEF EditInv, PageInv, vars, pageVars, storeVars
  <2> QED
    BY <2>1, <2>2 DEF EditInv
<1>2. ASSUME NEW c \in Writer, Use(c)
      PROVE  EditInv'
  BY <1>2, UseKeeps
<1>3. ASSUME NEW c \in Editor, Update(c)
      PROVE  EditInv'
  <2>1. StoreInv'
    BY <1>3, SyncKeepsStore DEF EditInv, Update
  <2>2. \A d \in Editor : d # c => view'[d] = view[d]
    BY <1>3 DEF EditInv, StoreInv, Update, Sync
  <2>3. PageInv'
    BY <1>3, <2>2, RedrawKeepsPage DEF EditInv, Update
  <2> QED
    BY <2>1, <2>3 DEF EditInv
<1>4. ASSUME NEW c \in Editor, WriteThrough(c)
      PROVE  EditInv'
  <2>1. StoreInv'
    BY <1>4, CommitKeepsStore DEF EditInv, WriteThrough
  <2>2. PageInv'
    BY <1>4 DEF EditInv, PageInv, WriteThrough, Commit, pageVars
  <2> QED
    BY <2>1, <2>2 DEF EditInv
<1>5. ASSUME NEW c \in Editor, Reload(c)
      PROVE  EditInv'
  <2>1. StoreInv'
    BY <1>5, ReopenKeepsStore DEF EditInv, Reload
  <2>2. \A d \in Editor : d # c => view'[d] = view[d]
    BY <1>5 DEF EditInv, StoreInv, Reload, Reopen
  <2>3. PageInv'
    BY <1>5, <2>2 DEF EditInv, PageInv, Reload
  <2> QED
    BY <2>1, <2>3 DEF EditInv
<1> QED
  BY <1>1, <1>2, <1>3, <1>4, <1>5 DEF Next

\* A step of the campus is one of the editors, or leaves them alone.
LEMMA CampusStep ==
    ASSUME [CampusNext]_campusVars
    PROVE  [Next]_vars
BY DEF CampusNext, campusVars

THEOREM EditInvariant ==
    ASSUME OneWriter, SoundDrawings
    PROVE  CampusSpec => []EditInv
<1>1. CampusInit => EditInv
  BY InitEstablishes DEF CampusInit
<1>2. EditInv /\ [CampusNext]_campusVars => EditInv'
  BY CampusStep, NextKeeps
<1> QED
  BY <1>1, <1>2, PTL DEF CampusSpec

LEMMA StoreInvSound ==
    ASSUME StoreInv, NEW g \in Copies
    PROVE  Sound(g)
BY DEF StoreInv, Copies

\* Every part of the state has its type, also the numbers of the markers.
THEOREM TypeCorrect ==
    ASSUME OneWriter, SoundDrawings
    PROVE  CampusSpec => []TypeOK
<1>1. EditInv => TypeOK
  BY DEF EditInv, StoreInv, PageInv, TypeOK
<1> QED
  BY <1>1, EditInvariant, PTL

\* The edges of a node go before the node, in every prefix of the writes of a
\* deletion, and an edge only comes where both its nodes are.
THEOREM EdgesAnchored ==
    ASSUME OneWriter, SoundDrawings
    PROVE  CampusSpec => []NoDanglingEdge
<1>1. EditInv => NoDanglingEdge
  BY StoreInvSound DEF EditInv, NoDanglingEdge, Sound
<1> QED
  BY <1>1, EditInvariant, PTL

\* The index is written before the node it is for, and is never taken back.
THEOREM IndexAhead ==
    ASSUME OneWriter, SoundDrawings
    PROVE  CampusSpec => []IndexCoversNodes
<1>1. EditInv => IndexCoversNodes
  BY StoreInvSound DEF EditInv, IndexCoversNodes, Sound
<1> QED
  BY <1>1, EditInvariant, PTL

\* A node under way has an id that none of the nodes on the server has, however
\* many edits are under way with it.
THEOREM NodesKept ==
    ASSUME OneWriter, SoundDrawings
    PROVE  CampusSpec => []NoNodeOverwritten
<1>1. EditInv => NoNodeOverwritten
  <2> SUFFICES ASSUME EditInv, NEW c \in Editor, NEW n \in Nodes(store),
                      Write(NodePath(n), There) \in Range(pending[c])
               PROVE  FALSE
    BY DEF NoNodeOverwritten
  <2>1. PICK k \in DOMAIN pending[c] : pending[c][k] = Write(NodePath(n), There)
    BY DEF Range
  <2>2. pending[c] \in Seq(Writes) /\ store \in Graph
    BY DEF EditInv, StoreInv
  <2>3. k \in 1..Len(pending[c])
    BY <2>1, <2>2
  <2>4. c \in Writer
    BY <2>3 DEF EditInv, StoreInv
  <2>5. n \in Id /\ Safe(store, pending[c])
    BY <2>2, <2>4, GraphParts DEF EditInv, StoreInv
  <2>6. 0 \in 0..(k - 1)
    BY <2>3
  <2>7. n \notin Nodes(After(store, pending[c], 0))
    BY <2>1, <2>3, <2>5, <2>6 DEF Safe
  <2> QED
    BY <2>2, <2>7, AfterEnds
<1> QED
  BY <1>1, EditInvariant, PTL

\* An edge without its node in the snapshot of the nodes has that node on the
\* server: it came after the snapshot.
THEOREM LoaderTrapsOnAdditionsOnly ==
    ASSUME OneWriter, SoundDrawings
    PROVE  CampusSpec => DeletionNeverTraps
<1>1. EditInv /\ [CampusNext]_campusVars =>
          [loading # "trapped" /\ loading' = "trapped" =>
               \E n \in Nodes(store) : n \notin nodesDict]_campusVars
  <2> SUFFICES ASSUME EditInv, CampusNext, loading # "trapped", loading' = "trapped"
               PROVE  \E n \in Nodes(store) : n \notin nodesDict
    OBVIOUS
  <2>1. Loader!Trap
    BY DEF CampusNext, Loader!Next, Loader!FetchNodes, Loader!Convert
  <2>2. PICK e \in Edges(store) : ~({e[1], e[2]} \subseteq nodesDict)
    <3>1. Loader!Edges(store) = Edges(store)
      BY DEF Loader!Edges, Loader!EdgePath, Loader!There, Loader!Id, Edges, EdgePath, There, Id
    <3> QED
      BY <2>1, <3>1 DEF Loader!Trap
  <2>3. {e[1], e[2]} \subseteq Nodes(store)
    BY DEF EditInv, StoreInv, Sound, NoDangling
  <2> QED
    BY <2>2, <2>3
<1> QED
  BY <1>1, EditInvariant, PTL DEF CampusSpec, DeletionNeverTraps

\* Every edit adds and removes edges in pairs; nothing else changes what the
\* writer's page shows, but for loading it anew.
THEOREM EdgesPaired ==
    ASSUME OneWriter, SoundDrawings
    PROVE  CampusSpec => PairsStayPaired
<1>1. EditInv /\ [CampusNext]_campusVars =>
          [\A c \in Writer : TwoWay(view[c]) /\ ~Reload(c) => TwoWay(view'[c])]_vars
  <2> SUFFICES ASSUME EditInv, Next, NEW c \in Writer, TwoWay(view[c]), ~Reload(c)
               PROVE  TwoWay(view'[c])
    BY CampusStep
  <2>0. /\ c \in Editor /\ view[c] \in Graph /\ Sound(view[c]) /\ Nodes(view[c]) \subseteq Id
        /\ StoreInv /\ PageInv
    BY WriterAssumption, GraphParts DEF EditInv, StoreInv
  <2>1. ASSUME NEW ws, GoodEdit(view[c], ws), Edit(c, ws)
        PROVE  TwoWay(view'[c])
    <3>1. view'[c] = Overlay(view[c], ws)
      BY <2>0, <2>1 DEF Edit, Set, StoreInv
    <3> QED
      BY <2>1, <3>1 DEF GoodEdit
  <2>2. CASE Use(c)
    <3>1. ASSUME NEW n \in Id, deleteNode(c, n) PROVE TwoWay(view'[c])
      BY <2>0, <2>1, <3>1, DeleteNodeGood DEF deleteNode
    <3>2. ASSUME NEW m \in Id, NEW n \in Id, deleteEdge(c, m, n) PROVE TwoWay(view'[c])
      BY <2>0, <2>1, <3>2, DeleteEdgeGood DEF deleteEdge
    <3>3. ASSUME NEW w \in windows[c], saveEdge(c, w) PROVE TwoWay(view'[c])
      BY <2>0, <2>1, <3>3, SaveEdgeGood DEF saveEdge
    <3>4. ASSUME saveNode(c) PROVE TwoWay(view'[c])
      BY <2>0, <2>1, <3>4, SaveNodeGood DEF saveNode
    <3>5. ASSUME UNCHANGED storeVars PROVE TwoWay(view'[c])
      BY <3>5 DEF storeVars
    <3> QED
      BY <2>2, <3>1, <3>2, <3>3, <3>4, <3>5
         DEF Use, ClickMarker, addFirstEdge, addSecondEdge, deleteNodeBox, DoubleClick
  <2>3. ASSUME NEW d \in Editor, Update(d) PROVE TwoWay(view'[c])
    <3>1. d \notin Writer
      BY <2>0, <2>3, SyncKeepsStore DEF Update
    <3>2. view'[c] = view[c]
      BY <2>0, <2>3, <3>1 DEF Update, Sync, StoreInv
    <3> QED
      BY <3>2
  <2>4. ASSUME NEW d \in Editor, WriteThrough(d) PROVE TwoWay(view'[c])
    BY <2>4 DEF WriteThrough, Commit
  <2>5. ASSUME NEW d \in Editor, Reload(d) PROVE TwoWay(view'[c])
    <3>1. d # c
      BY <2>5
    <3>2. view'[c] = view[c]
      BY <2>0, <2>5, <3>1 DEF Reload, Reopen, StoreInv
    <3> QED
      BY <3>2
  <2>6. \A d \in Writer : d = c
    BY DEF OneWriter
  <2> QED
    BY <2>2, <2>3, <2>4, <2>5, <2>6 DEF Next
<1> QED
  BY <1>1, EditInvariant, PTL DEF CampusSpec, PairsStayPaired

=============================================================================
