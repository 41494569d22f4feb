---------------------------- MODULE SortedArray ----------------------------
(***************************************************************************)
(* What the binary search of Array+Extension.swift promises its callers.   *)
(* An array is seen through the predicate the search is called with:       *)
(* holds[j] is the predicate's value on the j-th element, counted from 1.  *)
(* Indices returned by the search count from 0 as in Swift, so index i     *)
(* stands between the i-th and the (i+1)-th element.                       *)
(***************************************************************************)
EXTENDS Integers, Sequences

\* "predicate is true for all elements up to but not including the index N,
\* and is false for all elements starting with index N"
IsPartitionIndex(holds, i) ==
    /\ i \in 0..Len(holds)
    /\ \A j \in 1..Len(holds) : holds[j] <=> j <= i

\* There is such an N: no element satisfying the predicate follows one that does not.
Partitioned(holds) ==
    \A j, k \in 1..Len(holds) : j < k /\ holds[k] => holds[j]

=============================================================================
