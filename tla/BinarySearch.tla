---------------------------- MODULE BinarySearch ----------------------------
(***************************************************************************)
(* Array.binarySearch, in the generic form that takes a predicate and in   *)
(* the Comparable form whose predicate is "is smaller than element": the   *)
(* same loop over the bounds low and high, one action per branch.          *)
(***************************************************************************)
EXTENDS SortedArray

CONSTANT Arrays  \* the predicate's values on the arrays that are searched

VARIABLES
    holds,  \* the predicate on self[0], self[1], ...; the array is not changed
    low,
    high

bisectionVars == <<holds, low, high>>

BisectionInit ==
    /\ holds \in Arrays
    /\ holds \in Seq(BOOLEAN)
    /\ low = 0
    /\ high = Len(holds)

bisectionReturned == low = high

mid == low + ((high - low) \div 2)

\* Mutant: low = mid, the element just found too small stays in the interval.
ProbeTrueKeepsMid ==
    /\ ~bisectionReturned
    /\ holds[mid + 1]
    /\ low' = mid
    /\ UNCHANGED <<holds, high>>

\* self[mid] satisfies the predicate: the partition index lies after mid.
ProbeTrue ==
    /\ ~bisectionReturned
    /\ holds[mid + 1]
    /\ low' = mid + 1
    /\ UNCHANGED <<holds, high>>

\* Mutant: high = mid - 1, as in a search that has excluded mid already.
ProbeFalseSkipsMid ==
    /\ ~bisectionReturned
    /\ ~holds[mid + 1]
    /\ high' = IF mid > low THEN mid - 1 ELSE mid
    /\ UNCHANGED <<holds, low>>

\* self[mid] does not: the partition index is mid or lies before it.
ProbeFalse ==
    /\ ~bisectionReturned
    /\ ~holds[mid + 1]
    /\ high' = mid
    /\ UNCHANGED <<holds, low>>

BisectionNext == ProbeTrue \/ ProbeFalse

BisectionSpec == BisectionInit /\ [][BisectionNext]_bisectionVars

-----------------------------------------------------------------------------

\* The bounds stay inside the array and never cross, so every self[mid] is in
\* range.
BisectionTypeOK ==
    /\ holds \in Seq(BOOLEAN)
    /\ low \in 0..Len(holds)
    /\ high \in low..Len(holds)

\* On a partitioned array the loop returns exactly the documented index: the
\* bounds never step over it, whichever way the probes fall.
ReturnsPartitionIndex ==
    bisectionReturned /\ Partitioned(holds) => IsPartitionIndex(holds, low)

\* On any other array the behaviour "is undefined" by the comment; the loop
\* still returns a boundary: a true element (or the start) just before the
\* index, a false one (or the end) at it.
ReturnsBoundary ==
    bisectionReturned =>
        /\ low > 0 => holds[low]
        /\ low < Len(holds) => ~holds[low + 1]

\* Every probe at least halves the interval, which is what the complexity
\* note on sortedInsert relies on.
Halves == [][high' - low' <= (high - low) \div 2]_bisectionVars

=============================================================================
