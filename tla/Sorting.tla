------------------------------ MODULE Sorting -------------------------------
(***************************************************************************)
(* Python's sorted and SQL's ORDER BY over numbers.  What is sorted is a   *)
(* family: a function from any finite set (positions, rows, Bundles) to    *)
(* integers.  The result is stated by rank and not by TLC's SortSeq, which *)
(* no prover can look into.                                                *)
(***************************************************************************)
EXTENDS Integers, FiniteSets, Functions

Below(f, x) == { i \in DOMAIN f : f[i] < x }
UpTo(f, x) == { i \in DOMAIN f : f[i] <= x }

\* the k-th value has fewer than k values below it, and k up to it
Sorted(f) ==
    [k \in 1 .. Cardinality(DOMAIN f) |->
       CHOOSE x \in Range(f) :
         Cardinality(Below(f, x)) < k /\ k <= Cardinality(UpTo(f, x))]

\* the elements of a finite set of integers, in their order
Ascending(S) == Sorted([x \in S |-> x])

=============================================================================
