----------------------------- MODULE Partitioner -----------------------------
(***************************************************************************)
(* How ranks are partitioned by the size of their data                     *)
(* (helper/adiosPartitioner.cpp): largest first, each rank to the group    *)
(* that has the least data so far, and ranks without data to the group     *)
(* that has the fewest ranks.                                              *)
(***************************************************************************)
EXTENDS Integers, Sequences, FiniteSets, SequencesExt

(* defect: smallest first *)
SortedAscending(values) ==
    {s \in SetToSeqs(DOMAIN values) :
        \A i, j \in DOMAIN s : i < j => values[s[i]] <= values[s[j]]}

(* std::sort, which leaves the order of equal elements open *)
Sorted(values) ==
    {s \in SetToSeqs(DOMAIN values) :
        \A i, j \in DOMAIN s : i < j => values[s[i]] >= values[s[j]]}

(* std::min_element: the first of the smallest *)
MinElement(f) == CHOOSE i \in DOMAIN f : \A j \in DOMAIN f : f[i] < f[j] \/ (f[i] = f[j] /\ i <= j)

(* defect: ranks without data are treated as the others *)
SmallestTotal(p, value) == MinElement(p.m_Sizes)

IndexOfSmallest(p, value) ==
    IF value = 0 THEN MinElement([g \in DOMAIN p.m_Partitions |-> Len(p.m_Partitions[g])])
    ELSE MinElement(p.m_Sizes)

(* Rank r is added to its group, and its data to what the group has. *)
Placed(p, values, r) ==
    LET g == IndexOfSmallest(p, values[r])
    IN  [p EXCEPT !.m_Partitions[g] = Append(@, r), !.m_Sizes[g] = @ + values[r]]

NobodyPlaced(numberOfPartitions) ==
    [m_Partitions |-> [g \in 1..numberOfPartitions |-> <<>>],
     m_Sizes      |-> [g \in 1..numberOfPartitions |-> 0]]

(* The ranks are placed in the order s. *)
PlacedInOrder(values, numberOfPartitions, s) ==
    LET result[n \in 0..Len(s)] ==
            IF n = 0 THEN NobodyPlaced(numberOfPartitions) ELSE Placed(result[n - 1], values, s[n])
    IN  result[Len(s)]

(* What PartitionGreedily may return, one result for each order std::sort may choose *)
PartitionGreedily(values, numberOfPartitions) ==
    {PlacedInOrder(values, numberOfPartitions, s) : s \in Sorted(values)}
=============================================================================
