----------------------------- MODULE Buildings -----------------------------
(***************************************************************************)
(* DataManager.initBuildingsArray, which groups places into the buildings  *)
(* of the menu.  Places come in the order of a dictionary; the names they  *)
(* are compared with come in the order of buildingNames, which matters     *)
(* because the loop over names ends early.                                 *)
(*                                                                         *)
(* The array is a function from names to entrances: a name without         *)
(* entrances is a building that is not in it, as every Building is made    *)
(* with one.  Its order is lost on purpose: the array is sorted by name    *)
(* before anybody reads it.                                                *)
(***************************************************************************)
EXTENDS Naturals, FiniteSetsExt

CONSTANTS
    Place,      \* the values of navLocations
    NameCount,  \* buildingNames.count
    Matchings   \* for each place the names its description contains

ASSUME PlaceAssumption == IsFiniteSet(Place)

ASSUME NameCountAssumption == NameCount \in Nat

\* A name is its index in buildingNames.
Name == 1..NameCount

ASSUME MatchingsAssumption == Matchings \subseteq [Place -> SUBSET Name]

VARIABLES
    matches,     \* matches[n]: the names contained in the description of n
    connectors,  \* nodes whose description contains "node"
    unlisted,    \* nodes the outer loop has not come to yet
    buildings    \* buildings[k]: the entrances of the building named k

buildingsVars == <<matches, connectors, unlisted, buildings>>

BuildingsInit ==
    /\ matches \in Matchings
    /\ connectors \in SUBSET Place
    /\ unlisted = Place
    /\ buildings = [k \in Name |-> {}]

buildingsReturned == unlisted = {}

Exists(k) == buildings[k] # {}

\* Mutant: the building of the first name takes the node, and no other.
FirstName(n) == {k \in matches[n] : \A j \in matches[n] : k <= j}

\* Mutant: a building that exists already is passed over.
NewName(n) ==
    {k \in matches[n] : ~Exists(k) /\ \A j \in matches[n] : j < k => Exists(j)}

\* The names under which n is listed: those of the buildings that exist, up to
\* the first one that does not, which is made and ends the loop over names.
ListedUnder(n) == {k \in matches[n] : \A j \in matches[n] : j < k => Exists(j)}

SkipConnector(n) ==
    /\ n \in unlisted
    /\ n \in connectors
    /\ unlisted' = unlisted \ {n}
    /\ UNCHANGED <<matches, connectors, buildings>>

\* addNavLoc for the buildings that exist and Building(node:name:) for the one
\* that does not.
ListNode(n) ==
    /\ n \in unlisted
    /\ n \notin connectors
    /\ unlisted' = unlisted \ {n}
    /\ buildings' = [k \in Name |->
                        buildings[k] \cup {m \in {n} : k \in ListedUnder(m)}]
    /\ UNCHANGED <<matches, connectors>>

BuildingsNext == \E n \in Place : SkipConnector(n) \/ ListNode(n)

BuildingsSpec == BuildingsInit /\ [][BuildingsNext]_buildingsVars

-----------------------------------------------------------------------------

\* A building has entrances only among the places visited, and none that is a
\* connection node or does not carry its name.
BuildingsTypeOK ==
    /\ matches \in [Place -> SUBSET Name]
    /\ connectors \in SUBSET Place
    /\ unlisted \in SUBSET Place
    /\ buildings \in [Name -> SUBSET Place]
    /\ \A k \in Name : \A n \in buildings[k] :
          n \notin unlisted \cup connectors /\ k \in matches[n]

\* No place is lost, in whatever order they come: each one is listed under the
\* first name it carries, even where the loop over names ends early.
ListedUnderFirstName ==
    \A n \in Place \ (unlisted \cup connectors) : \A k \in matches[n] :
        (\A j \in matches[n] : k <= j) => n \in buildings[k]

\* The places that carry the name k.
Entitled(k) == {n \in Place \ connectors : k \in matches[n]}

\* An early end of the loop costs a building at most one place for each name
\* before its own: only a building with few entrances can fail to appear.
FewPlacesLost ==
    buildingsReturned => \A k \in Name :
        Cardinality(Entitled(k) \ buildings[k]) < k

=============================================================================
