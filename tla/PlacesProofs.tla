---------------------------- MODULE PlacesProofs ----------------------------
(***************************************************************************)
(* The functions that group places, look for the nearest, and bisect an    *)
(* array are right for any number of places, in every order of visits.     *)
(***************************************************************************)
EXTENDS Buildings, ClosestNode, BinarySearch, FiniteSetTheorems, WellFoundedInduction, TLAPS

-----------------------------------------------------------------------------
(* Buildings: the grouping of places into buildings, for any number of     *)
(* places and names and every order of visits.                             *)

\* What a visit adds: n joins the buildings it is listed under.
LEMMA EntrancesAfterListing ==
    ASSUME NEW n \in Place, ListNode(n), NEW k \in Name
    PROVE  buildings'[k] = buildings[k] \cup (IF k \in ListedUnder(n) THEN {n} ELSE {})
BY DEF ListNode

\* BuildingsTypeOK: entrances are visited places that carry the name.
THEOREM BuildingsTypeCorrect == BuildingsSpec => []BuildingsTypeOK
<1>1. BuildingsInit => BuildingsTypeOK
  BY MatchingsAssumption DEF BuildingsInit, BuildingsTypeOK
<1>2. BuildingsTypeOK /\ [BuildingsNext]_buildingsVars => BuildingsTypeOK'
  <2> SUFFICES ASSUME BuildingsTypeOK, [BuildingsNext]_buildingsVars PROVE BuildingsTypeOK'
    OBVIOUS
  <2>1. ASSUME NEW n \in Place, SkipConnector(n) PROVE BuildingsTypeOK'
    BY <2>1 DEF BuildingsTypeOK, SkipConnector
  <2>2. ASSUME NEW n \in Place, ListNode(n) PROVE BuildingsTypeOK'
    <3>1. /\ n \notin connectors /\ unlisted' = unlisted \ {n}
          /\ UNCHANGED <<matches, connectors>>
      BY <2>2 DEF ListNode
    <3>2. buildings' \in [Name -> SUBSET Place]
      BY <2>2 DEF ListNode, BuildingsTypeOK
    <3>3. ASSUME NEW k \in Name, NEW m \in buildings'[k]
          PROVE  m \notin unlisted' \cup connectors' /\ k \in matches'[m]
      <4>1. m \in buildings[k] \/ (m = n /\ k \in ListedUnder(n))
        BY <2>2, <3>3, EntrancesAfterListing
      <4> QED
        BY <3>1, <4>1 DEF BuildingsTypeOK, ListedUnder
    <3> QED
      BY <3>1, <3>2, <3>3 DEF BuildingsTypeOK
  <2>3. CASE UNCHANGED buildingsVars
    BY <2>3 DEF BuildingsTypeOK, buildingsVars
  <2> QED
    BY <2>1, <2>2, <2>3 DEF BuildingsNext
<1> QED
  BY <1>1, <1>2, PTL DEF BuildingsSpec

\* ListedUnderFirstName: no place is lost.
THEOREM FirstNameCorrect == BuildingsSpec => []ListedUnderFirstName
<1>1. BuildingsInit => ListedUnderFirstName
  BY DEF BuildingsInit, ListedUnderFirstName
<1>2. BuildingsTypeOK /\ ListedUnderFirstName /\ [BuildingsNext]_buildingsVars => ListedUnderFirstName'
  <2> SUFFICES ASSUME BuildingsTypeOK, ListedUnderFirstName, [BuildingsNext]_buildingsVars
               PROVE  ListedUnderFirstName'
    OBVIOUS
  <2>1. ASSUME NEW n \in Place, SkipConnector(n) PROVE ListedUnderFirstName'
    BY <2>1 DEF ListedUnderFirstName, SkipConnector
  <2>2. ASSUME NEW n \in Place, ListNode(n) PROVE ListedUnderFirstName'
    <3>1. unlisted' = unlisted \ {n} /\ UNCHANGED <<matches, connectors>>
      BY <2>2 DEF ListNode
    <3> SUFFICES ASSUME NEW m \in Place \ (unlisted' \cup connectors'),
                        NEW k \in matches'[m], \A j \in matches'[m] : k <= j
                 PROVE  m \in buildings'[k]
      BY DEF ListedUnderFirstName
    <3>2. k \in Name /\ matches[m] \subseteq Nat
      BY <3>1 DEF BuildingsTypeOK, Name
    <3>3. CASE m = n
      <4>1. k \in ListedUnder(n)
        BY <3>1, <3>2, <3>3 DEF ListedUnder
      <4> QED
        BY <2>2, <3>2, <3>3, <4>1, EntrancesAfterListing
    <3>4. CASE m # n
      <4>1. m \in buildings[k]
        BY <3>1, <3>4 DEF ListedUnderFirstName
      <4> QED
        BY <2>2, <3>2, <4>1, EntrancesAfterListing
    <3> QED
      BY <3>3, <3>4
  <2>3. CASE UNCHANGED buildingsVars
    BY <2>3 DEF ListedUnderFirstName, buildingsVars
  <2> QED
    BY <2>1, <2>2, <2>3 DEF BuildingsNext
<1> QED
  BY <1>1, <1>2, BuildingsTypeCorrect, PTL DEF BuildingsSpec

-----------------------------------------------------------------------------
\* Places visited that carry the name k and are not listed under it.
Lost(k) == {n \in Place \ (unlisted \cup connectors) : k \in matches[n]} \ buildings[k]

\* Buildings with a name before k.
Made(k) == {j \in 1..(k - 1) : Exists(j)}

\* Each place a building misses has made a building with an earlier name.
LossInv == \A k \in Name : Cardinality(Lost(k)) <= Cardinality(Made(k))

LEMMA FiniteLoss ==
    ASSUME NEW k \in Name
    PROVE  /\ IsFiniteSet(Lost(k)) /\ Cardinality(Lost(k)) \in Nat
           /\ IsFiniteSet(Made(k)) /\ Cardinality(Made(k)) \in Nat
           /\ Cardinality(Made(k)) <= k - 1
<1>1. k \in Nat /\ k >= 1
  BY NameCountAssumption DEF Name
<1>2. IsFiniteSet(1..(k - 1)) /\ Cardinality(1..(k - 1)) = k - 1
  BY <1>1, FS_Interval
<1>3. Made(k) \in SUBSET (1..(k - 1))
  BY DEF Made
<1>4. IsFiniteSet(Made(k)) /\ Cardinality(Made(k)) <= k - 1
  BY <1>2, <1>3, FS_Subset
<1>5. Lost(k) \in SUBSET Place
  BY DEF Lost
<1>6. IsFiniteSet(Lost(k))
  BY <1>5, PlaceAssumption, FS_Subset
<1> QED
  BY <1>4, <1>6, FS_CardinalityType

\* A place that is not listed under k although it carries the name has made a
\* building with an earlier name.
LEMMA LossMakesBuilding ==
    ASSUME BuildingsTypeOK, NEW n \in Place, NEW k \in matches[n], k \notin ListedUnder(n)
    PROVE  \E j \in 1..(k - 1) : ~Exists(j) /\ j \in ListedUnder(n)
<1> DEFINE missing == {j \in matches[n] : ~Exists(j)}
<1>1. matches[n] \subseteq Nat /\ k \in Nat /\ \A j \in matches[n] : j >= 1
  BY NameCountAssumption DEF BuildingsTypeOK, Name
<1>2. PICK i \in missing : i < k
  BY DEF ListedUnder
<1>3. PICK j \in missing : \A l \in missing : j <= l
  <2> DEFINE R == OpToRel(<, Nat)
  <2>1. missing \subseteq Nat /\ missing # {}
    BY <1>1, <1>2
  <2>2. IsWellFoundedOn(R, Nat)
    BY NatLessThanWellFounded
  <2>3. \A l, j \in Nat : <<l, j>> \notin R => j <= l
    BY DEF OpToRel
  <2> HIDE DEF missing, R
  <2>4. PICK j \in missing : \A l \in missing : <<l, j>> \notin R
    BY <2>1, <2>2, WFMin
  <2> QED
    BY <2>1, <2>3, <2>4
<1>4. j < k /\ j \in 1..(k - 1)
  BY <1>1, <1>2, <1>3
<1>5. j \in ListedUnder(n)
  BY <1>1, <1>3 DEF ListedUnder
<1> QED
  BY <1>3, <1>4, <1>5

LEMMA LossInvInductive == BuildingsTypeOK /\ LossInv /\ [BuildingsNext]_buildingsVars => LossInv'
<1> SUFFICES ASSUME BuildingsTypeOK, LossInv, [BuildingsNext]_buildingsVars, NEW k \in Name
             PROVE  Cardinality(Lost(k)') <= Cardinality(Made(k)')
  BY DEF LossInv
<1>0. /\ Cardinality(Lost(k)) <= Cardinality(Made(k))
      /\ IsFiniteSet(Lost(k)) /\ Cardinality(Lost(k)) \in Nat
      /\ IsFiniteSet(Made(k)) /\ Cardinality(Made(k)) \in Nat
  BY FiniteLoss DEF LossInv
<1>1. ASSUME NEW n \in Place, SkipConnector(n)
      PROVE  Cardinality(Lost(k)') <= Cardinality(Made(k)')
  <2>1. Lost(k)' = Lost(k) /\ Made(k)' = Made(k)
    BY <1>1 DEF SkipConnector, Lost, Made, Exists
  <2> QED
    BY <1>0, <2>1
<1>2. ASSUME NEW n \in Place, ListNode(n)
      PROVE  Cardinality(Lost(k)') <= Cardinality(Made(k)')
  <2>1. /\ n \in unlisted /\ n \notin connectors /\ unlisted' = unlisted \ {n}
        /\ UNCHANGED <<matches, connectors>>
    BY <1>2 DEF ListNode
  <2>2. \A j \in Name : buildings'[j]
                            = buildings[j] \cup (IF j \in ListedUnder(n) THEN {n} ELSE {})
    BY <1>2, EntrancesAfterListing
  <2>3. 1..(k - 1) \subseteq Name
    BY NameCountAssumption DEF Name
  <2>4. Made(k) \subseteq Made(k)'
    BY <2>2, <2>3 DEF Made, Exists
  <2>5. IsFiniteSet(Made(k)') /\ Cardinality(Made(k)') \in Nat
    <3>1. k - 1 \in Int
      BY NameCountAssumption DEF Name
    <3>2. IsFiniteSet(1..(k - 1))
      BY <3>1, FS_Interval
    <3>3. Made(k)' \in SUBSET (1..(k - 1))
      BY DEF Made
    <3> QED
      BY <3>2, <3>3, FS_Subset, FS_CardinalityType
  <2>6. Cardinality(Made(k)) <= Cardinality(Made(k)')
    BY <2>4, <2>5, FS_Subset
  <2>7. CASE k \in matches[n] /\ k \notin ListedUnder(n)
    <3>1. Lost(k)' = Lost(k) \cup {n}
      BY <2>1, <2>2, <2>7 DEF Lost, BuildingsTypeOK
    <3>2. Cardinality(Lost(k)') <= Cardinality(Lost(k)) + 1
      <4>1. \/ Cardinality(Lost(k) \cup {n}) = Cardinality(Lost(k))
            \/ Cardinality(Lost(k) \cup {n}) = Cardinality(Lost(k)) + 1
        BY <1>0, FS_AddElement
      <4> QED
        BY <1>0, <3>1, <4>1
    <3>3. PICK j \in 1..(k - 1) : ~Exists(j) /\ j \in ListedUnder(n)
      BY <2>7, LossMakesBuilding
    <3>4. j \notin Made(k) /\ j \in Made(k)'
      BY <2>2, <2>3, <3>3 DEF Made, Exists
    <3>5. Made(k) \cup {j} \in SUBSET Made(k)'
      BY <2>4, <3>4
    <3>6. Cardinality(Made(k) \cup {j}) = Cardinality(Made(k)) + 1
      BY <1>0, <3>4, FS_AddElement
    <3>7. Cardinality(Made(k)) + 1 <= Cardinality(Made(k)')
      BY <2>5, <3>5, <3>6, FS_Subset
    <3>8. Cardinality(Lost(k)') \in Nat
      BY <1>0, <3>1, FS_AddElement, FS_CardinalityType
    <3> QED
      BY <1>0, <2>5, <3>2, <3>7, <3>8
  <2>8. CASE ~(k \in matches[n] /\ k \notin ListedUnder(n))
    <3>1. Lost(k)' = Lost(k)
      BY <2>1, <2>2, <2>8 DEF Lost, BuildingsTypeOK
    <3> QED
      BY <1>0, <2>5, <2>6, <3>1
  <2> QED
    BY <2>7, <2>8
<1>3. CASE UNCHANGED buildingsVars
  <2>1. Lost(k)' = Lost(k) /\ Made(k)' = Made(k)
    BY <1>3 DEF buildingsVars, Lost, Made, Exists
  <2> QED
    BY <1>0, <2>1
<1> QED
  BY <1>1, <1>2, <1>3 DEF BuildingsNext

\* FewPlacesLost: a building misses at most as many places as there are names
\* before its own.
THEOREM LossBounded == BuildingsSpec => []FewPlacesLost
<1>1. BuildingsInit => LossInv
  <2> SUFFICES ASSUME BuildingsInit, NEW k \in Name
               PROVE  Cardinality(Lost(k)) <= Cardinality(Made(k))
    BY DEF LossInv
  <2>1. Lost(k) = {}
    BY DEF BuildingsInit, Lost
  <2>2. Cardinality(Lost(k)) = 0
    BY <2>1, FS_EmptySet
  <2> QED
    BY <2>2, FiniteLoss
<1>2. LossInv => FewPlacesLost
  <2> SUFFICES ASSUME LossInv, buildingsReturned, NEW k \in Name
               PROVE  Cardinality(Entitled(k) \ buildings[k]) < k
    BY DEF FewPlacesLost
  <2>1. Entitled(k) \ buildings[k] = Lost(k)
    BY DEF Entitled, Lost, buildingsReturned
  <2>2. k \in Nat /\ Cardinality(Lost(k)) <= Cardinality(Made(k))
    BY NameCountAssumption DEF LossInv, Name
  <2> QED
    BY <2>1, <2>2, FiniteLoss
<1> QED
  BY <1>1, <1>2, LossInvInductive, BuildingsTypeCorrect, PTL DEF BuildingsSpec

-----------------------------------------------------------------------------
(* ClosestNode: the two searches are right on collections of every size,   *)
(* in every order of visits.                                               *)

\* ClosestTypeOK: what is found is a place searched or the value at the start.
THEOREM ClosestTypeCorrect == ClosestSpec => []ClosestTypeOK
<1>1. ClosestInit => ClosestTypeOK
  BY FarAssumption, NowhereAssumption DEF ClosestInit, ClosestTypeOK
<1>2. ClosestTypeOK /\ [ClosestNext]_closestVars => ClosestTypeOK'
  <2> SUFFICES ASSUME ClosestTypeOK, [ClosestNext]_closestVars PROVE ClosestTypeOK'
    OBVIOUS
  <2>1. ASSUME NEW x \in Point, SkipNode(x) \/ SkipEntrance(x) PROVE ClosestTypeOK'
    BY <2>1 DEF ClosestTypeOK, SkipNode, SkipEntrance, Visit, Keep, arguments
  <2>2. ASSUME NEW x \in Point, TakeNode(x) \/ TakeEntrance(x) PROVE ClosestTypeOK'
    <3>1. Cost(current, x) \in 0..Far
      BY DistanceAssumption, FarAssumption DEF ClosestTypeOK, Cost
    <3> QED
      BY <2>2, <3>1 DEF ClosestTypeOK, TakeNode, TakeEntrance, Visit, Take, arguments
  <2>3. CASE UNCHANGED closestVars
    BY <2>3 DEF ClosestTypeOK, closestVars
  <2> QED
    BY <2>1, <2>2, <2>3 DEF ClosestNext
<1> QED
  BY <1>1, <1>2, PTL DEF ClosestSpec

Visited == nodes \ left

Found ==
    IF call = "findClosest" THEN Candidates(Visited, current, destination) ELSE Visited

\* A visit adds the place visited to what may be found, unless findClosest
\* skips it.
LEMMA FoundAfterVisit ==
    ASSUME ClosestTypeOK, NEW x \in Point, Visit(x), UNCHANGED arguments
    PROVE  /\ call = "findClosest" /\ TooFar(x) => Found' = Found
           /\ ~(call = "findClosest" /\ TooFar(x)) => Found' = Found \cup {x}
<1>1. Visited' = Visited \cup {x}
  BY DEF ClosestTypeOK, Visit, Visited, arguments
<1>2. \A y \in Visited' : Cost(y, destination) \in Nat
  BY <1>1, DistanceAssumption DEF ClosestTypeOK, Visited, Cost
<1>3. Cost(x, destination) \in Nat /\ Cost(current, destination) \in Nat
  BY DistanceAssumption DEF ClosestTypeOK, Cost
<1>4. CASE call = "findClosest"
  <2>1. Candidates(Visited', current, destination)
           = Candidates(Visited, current, destination)
                \cup {y \in {x} : ~TooFar(y)}
    BY <1>1, <1>2, <1>3 DEF Candidates, TooFar, ClosestTypeOK
  <2>2. Found' = Candidates(Visited', current, destination)
    BY <1>4 DEF Found, arguments, Candidates, Cost
  <2> QED
    BY <1>4, <2>1, <2>2 DEF Found
<1>5. CASE call # "findClosest"
  BY <1>1, <1>5 DEF Found, arguments
<1> QED
  BY <1>4, <1>5

\* BestSoFar holds whenever the loop is between two visits.
THEOREM BestSoFarCorrect == ClosestSpec => []BestSoFar
<1>1. ClosestInit => BestSoFar
  <2> SUFFICES ASSUME ClosestInit PROVE BestSoFar
    OBVIOUS
  <2>1. Found = {}
    BY DEF ClosestInit, Found, Visited, Candidates
  <2> QED
    BY <2>1 DEF ClosestInit, BestSoFar, Found, Visited
<1>2. ClosestTypeOK /\ BestSoFar /\ [ClosestNext]_closestVars => BestSoFar'
  <2> SUFFICES ASSUME ClosestTypeOK, BestSoFar, [ClosestNext]_closestVars PROVE BestSoFar'
    OBVIOUS
  <2> DEFINE AtStart == /\ closest = IF call = "findClosest" THEN current ELSE Nowhere
                        /\ distance = Far
             IsBest == closest \in NearestIn(Found, current) /\ distance = Cost(current, closest)
  <2>1. BestSoFar <=> IF Found = {} THEN AtStart ELSE IsBest
    BY DEF BestSoFar, Found, Visited
  <2>2. BestSoFar' <=> IF Found' = {} THEN AtStart' ELSE IsBest'
    BY DEF BestSoFar, Found, Visited
  <2>3. Found \subseteq Point
    BY DEF ClosestTypeOK, Found, Visited, Candidates
  <2>4. \A y \in Point : Cost(current, y) \in Nat /\ Cost(current, y) < Far
    BY DistanceAssumption, FarAssumption DEF ClosestTypeOK, Cost
  <2>5. Found # {} => closest \in Found /\ \A y \in Found : distance <= Cost(current, y)
    BY <2>1 DEF NearestIn
  <2>6. ASSUME NEW x \in Point, SkipNode(x) \/ SkipEntrance(x) PROVE BestSoFar'
    <3>1. /\ Visit(x) /\ UNCHANGED arguments
          /\ closest' = closest /\ distance' = distance /\ current' = current
          /\ call' = call
      BY <2>6 DEF SkipNode, SkipEntrance, arguments, Keep
    <3>2. CASE call = "findClosest" /\ TooFar(x)
      <4>1. Found' = Found
        BY <3>1, <3>2, FoundAfterVisit
      <4> QED
        BY <2>1, <2>2, <3>1, <4>1 DEF NearestIn, Cost
    <3>3. CASE ~(call = "findClosest" /\ TooFar(x))
      <4>1. Found' = Found \cup {x}
        BY <3>1, <3>3, FoundAfterVisit
      <4>2. Cost(current, x) >= distance
        <5>1. distance \in Nat
          BY DEF ClosestTypeOK
        <5> QED
          BY <2>4, <2>6, <3>3, <5>1 DEF SkipNode, SkipEntrance
      <4>3. Found # {}
        <5>1. distance # Far
          BY <2>4, <4>2, FarAssumption
        <5> QED
          BY <2>1, <5>1
      <4>4. closest \in NearestIn(Found', current)
        BY <2>1, <4>1, <4>2, <4>3 DEF NearestIn
      <4> QED
        BY <2>1, <2>2, <3>1, <4>1, <4>3, <4>4 DEF NearestIn, Cost
    <3> QED
      BY <3>2, <3>3
  <2>7. ASSUME NEW x \in Point, TakeNode(x) \/ TakeEntrance(x) PROVE BestSoFar'
    <3>1. /\ Visit(x) /\ UNCHANGED arguments
          /\ closest' = x /\ distance' = Cost(current, x) /\ current' = current
          /\ ~(call = "findClosest" /\ TooFar(x))
          /\ Cost(current, x) <= distance
      <4>1. distance \in Nat
        BY DEF ClosestTypeOK
      <4> QED
        BY <2>4, <2>7, <4>1 DEF TakeNode, TakeEntrance, arguments, Take
    <3>2. Found' = Found \cup {x}
      BY <3>1, FoundAfterVisit
    <3>3. \A y \in Found' : Cost(current, x) <= Cost(current, y)
      <4>1. distance \in Nat
        BY DEF ClosestTypeOK
      <4> QED
        BY <2>3, <2>4, <2>5, <3>1, <3>2, <4>1
    <3> QED
      BY <2>2, <3>1, <3>2, <3>3 DEF NearestIn, Cost
  <2>8. CASE UNCHANGED closestVars
    BY <2>8 DEF BestSoFar, closestVars, Candidates, NearestIn, Cost
  <2> QED
    BY <2>6, <2>7, <2>8 DEF ClosestNext
<1> QED
  BY <1>1, <1>2, ClosestTypeCorrect, PTL DEF ClosestSpec

\* ReturnsClosestNode: findClosest returns one of the nearest places a route
\* may start from, if there is any.
THEOREM ClosestNodeCorrect == ClosestSpec => []ReturnsClosestNode
<1>1. ClosestTypeOK /\ BestSoFar => ReturnsClosestNode
  BY DEF ClosestTypeOK, BestSoFar, ReturnsClosestNode, closestReturned, NearestIn, Candidates
<1> QED
  BY <1>1, ClosestTypeCorrect, BestSoFarCorrect, PTL

\* ReturnsClosestEntrance: findClosestEntrance returns a nearest entrance.
THEOREM ClosestEntranceCorrect == ClosestSpec => []ReturnsClosestEntrance
<1>1. ClosestTypeOK /\ BestSoFar => ReturnsClosestEntrance
  BY DEF ClosestTypeOK, BestSoFar, ReturnsClosestEntrance, closestReturned, ClosestEntrances
<1> QED
  BY <1>1, ClosestTypeCorrect, BestSoFarCorrect, PTL

\* ReturnsClosest: both searches return a nearest place, for every graph,
\* every set of entrances and every order of visiting them.
THEOREM ClosestCorrect == ClosestSpec => []ReturnsClosest
BY ClosestNodeCorrect, ClosestEntranceCorrect, PTL DEF ReturnsClosest

-----------------------------------------------------------------------------
(* BinarySearch: the loop is right on arrays of every length.              *)

\* The loop invariant.  Nothing is known of the elements that were not
\* probed, so it speaks of the two that border the interval only; for a
\* partitioned array they decide all the others.
LoopInv ==
    /\ BisectionTypeOK
    /\ low > 0 => holds[low]
    /\ high < Len(holds) => ~holds[high + 1]

\* The probe always falls inside the interval.
LEMMA MidInInterval ==
    ASSUME BisectionTypeOK, ~bisectionReturned
    PROVE  /\ mid \in low..(high - 1)
           /\ mid + 1 \in 1..Len(holds)
<1>1. low \in Nat /\ high \in Nat /\ low < high /\ high <= Len(holds) /\ Len(holds) \in Nat
  BY DEF BisectionTypeOK, bisectionReturned
<1> QED
  BY <1>1 DEF mid

\* Both theorems below rest on this: LoopInv is inductive.
LEMMA LoopInvInductive == LoopInv /\ [BisectionNext]_bisectionVars => LoopInv'
<1> SUFFICES ASSUME LoopInv, [BisectionNext]_bisectionVars PROVE LoopInv'
  OBVIOUS
<1>1. CASE ProbeTrue
  <2>1. mid \in low..(high - 1) /\ mid + 1 \in 1..Len(holds)
    BY <1>1, MidInInterval DEF ProbeTrue, LoopInv
  <2>2. low' = mid + 1 /\ holds' = holds /\ high' = high /\ holds[mid + 1]
    BY <1>1 DEF ProbeTrue
  <2> QED
    BY <2>1, <2>2 DEF LoopInv, BisectionTypeOK
<1>2. CASE ProbeFalse
  <2>1. mid \in low..(high - 1) /\ mid + 1 \in 1..Len(holds)
    BY <1>2, MidInInterval DEF ProbeFalse, LoopInv
  <2>2. high' = mid /\ holds' = holds /\ low' = low /\ ~holds[mid + 1]
    BY <1>2 DEF ProbeFalse
  <2> QED
    BY <2>1, <2>2 DEF LoopInv, BisectionTypeOK
<1>3. CASE UNCHANGED bisectionVars
  BY <1>3 DEF bisectionVars, LoopInv, BisectionTypeOK
<1> QED
  BY <1>1, <1>2, <1>3 DEF BisectionNext

LEMMA LoopInvInit == BisectionInit => LoopInv
<1> SUFFICES ASSUME BisectionInit PROVE LoopInv
  OBVIOUS
<1>1. holds \in Seq(BOOLEAN) /\ Len(holds) \in Nat
  BY DEF BisectionInit
<1> QED
  BY <1>1 DEF BisectionInit, LoopInv, BisectionTypeOK

\* The bounds stay inside the array for arrays of every length.
THEOREM BisectionTypeCorrect == BisectionSpec => []BisectionTypeOK
<1>1. LoopInv => BisectionTypeOK
  BY DEF LoopInv
<1> QED
  BY <1>1, LoopInvInit, LoopInvInductive, PTL DEF BisectionSpec

\* Whatever the array, the index bisectionReturned is a boundary of the predicate.
THEOREM BoundaryCorrect == BisectionSpec => []ReturnsBoundary
<1>1. LoopInv => ReturnsBoundary
  BY DEF LoopInv, ReturnsBoundary, bisectionReturned
<1> QED
  BY <1>1, LoopInvInit, LoopInvInductive, PTL DEF BisectionSpec

\* On a partitioned array a boundary is the partition index.
THEOREM PartitionCorrect == BisectionSpec => []ReturnsPartitionIndex
<1>1. LoopInv => ReturnsPartitionIndex
  <2> SUFFICES ASSUME LoopInv, bisectionReturned, Partitioned(holds)
               PROVE  IsPartitionIndex(holds, low)
    BY DEF ReturnsPartitionIndex
  <2>1. /\ low \in 0..Len(holds)
        /\ Len(holds) \in Nat
        /\ low > 0 => holds[low]
        /\ low < Len(holds) => ~holds[low + 1]
    BY DEF LoopInv, BisectionTypeOK, bisectionReturned
  <2>2. ASSUME NEW j \in 1..Len(holds), j <= low PROVE holds[j]
    BY <2>1, <2>2 DEF Partitioned
  <2>3. ASSUME NEW j \in 1..Len(holds), j > low PROVE ~holds[j]
    <3>1. low + 1 \in 1..Len(holds) /\ ~holds[low + 1] /\ low + 1 <= j
      BY <2>1, <2>3
    <3> QED
      BY <3>1, <2>3 DEF Partitioned
  <2>4. ASSUME NEW j \in 1..Len(holds) PROVE holds[j] <=> j <= low
    <3>1. CASE j <= low
      BY <3>1, <2>2
    <3>2. CASE j > low
      BY <3>2, <2>3, <2>1
    <3> QED
      BY <3>1, <3>2, <2>1
  <2> QED
    BY <2>1, <2>4 DEF IsPartitionIndex
<1> QED
  BY <1>1, LoopInvInit, LoopInvInductive, PTL DEF BisectionSpec

\* Every probe at least halves the interval, on arrays of every length.
THEOREM HalvingCorrect == BisectionSpec => Halves
<1>1. LoopInv /\ [BisectionNext]_bisectionVars => [high' - low' <= (high - low) \div 2]_bisectionVars
  <2> SUFFICES ASSUME LoopInv, BisectionNext
               PROVE  high' - low' <= (high - low) \div 2
    OBVIOUS
  <2>1. low \in Nat /\ high \in Nat /\ low <= high
    BY DEF LoopInv, BisectionTypeOK
  <2>2. CASE ProbeTrue
    BY <2>1, <2>2 DEF ProbeTrue, mid
  <2>3. CASE ProbeFalse
    BY <2>1, <2>3 DEF ProbeFalse, mid
  <2> QED
    BY <2>2, <2>3 DEF BisectionNext
<1> QED
  BY <1>1, LoopInvInit, LoopInvInductive, PTL DEF BisectionSpec, Halves
=============================================================================
