--------------------------- MODULE BP5WriteDataProofs ---------------------------
(***************************************************************************)
(* For any number of ranks, of subfiles and of steps, and for any sizes:   *)
(*   - how PartitionGreedily groups the ranks: every rank is in one group, *)
(*     no group is empty, and the groups are as balanced as the greedy     *)
(*     choice promises;                                                    *)
(*   - the types of all that WriteData keeps and sends (TypeInv);          *)
(*   - no rank is lost or doubled on its way from one queue to another     *)
(*     (QueueInv).                                                         *)
(*                                                                         *)
(* PlacedInOrder and the sums of GroupsBalanced are recursive functions.   *)
(* What they compute is proved by induction over numbers in the form of a  *)
(* set: a set of naturals that has 0, and n + 1 with every n, has all.     *)
(***************************************************************************)
EXTENDS BP5WriteDataProps, FiniteSetTheorems, SequenceTheorems, WellFoundedInduction, TLAPS

(***************************************************************************)
(* Numbers                                                                 *)
(***************************************************************************)

(* The order of the naturals as a relation *)
Descends == {dd \in Nat \X Nat : dd[1] < dd[2]}

(* No sequence of naturals descends forever. *)
LEMMA DescendsWellFounded == IsWellFoundedOn(Descends, Nat)
BY NatLessThanWellFounded, Zenon DEF OpToRel, Descends

(* A set of naturals that is not empty has a least element. *)
LEMMA LeastOf ==
    ASSUME NEW S \in SUBSET Nat, S # {}
    PROVE  \E x \in S : \A y \in S : x <= y
<1>1. PICK x \in S : \A y \in S : ~(<<y, x>> \in Descends)
    BY DescendsWellFounded, WFMin
<1>2. \A y \in S : ~(y < x)
    BY <1>1 DEF Descends
<1>3. QED
    BY <1>2

(* Induction, for a set instead of a predicate *)
LEMMA NumberInduction ==
    ASSUME NEW S, 0 \in S, \A n \in Nat : n \in S => n + 1 \in S
    PROVE  Nat \subseteq S
<1> SUFFICES ASSUME Nat \ S # {} PROVE FALSE
    OBVIOUS
<1>1. PICK x \in Nat \ S : \A y \in Nat \ S : x <= y
    BY LeastOf
<1>2. x # 0 /\ x - 1 \in Nat
    OBVIOUS
<1>3. QED
    BY <1>1, <1>2

(* std::min_element finds an element, and none is smaller (lines 72-83). *)
LEMMA MinElementLeast ==
    ASSUME NEW k \in Nat \ {0}, NEW f \in [1..k -> Nat]
    PROVE  MinElement(f) \in 1..k /\ \A j \in 1..k : f[MinElement(f)] <= f[j]
<1>1. PICK v \in {f[j] : j \in 1..k} : \A w \in {f[j] : j \in 1..k} : v <= w
    <2>1. {f[j] : j \in 1..k} \in SUBSET Nat /\ {f[j] : j \in 1..k} # {}
        OBVIOUS
    <2>2. QED
        BY <2>1, LeastOf
<1>2. PICK i \in {j \in 1..k : f[j] = v} : \A j \in {h \in 1..k : f[h] = v} : i <= j
    <2>1. {j \in 1..k : f[j] = v} \in SUBSET Nat /\ {j \in 1..k : f[j] = v} # {}
        OBVIOUS
    <2>2. QED
        BY <2>1, LeastOf
<1>3. \A j \in 1..k : f[i] < f[j] \/ (f[i] = f[j] /\ i <= j)
    <2> TAKE j \in 1..k
    <2>1. f[i] = v /\ v <= f[j] /\ f[j] \in Nat /\ v \in Nat
        BY <1>1, <1>2
    <2>2. f[j] = v => i <= j
        BY <1>2
    <2>3. QED
        BY <2>1, <2>2
<1>4. /\ MinElement(f) \in DOMAIN f
      /\ \A j \in DOMAIN f : f[MinElement(f)] < f[j] \/ (f[MinElement(f)] = f[j] /\ MinElement(f) <= j)
    BY <1>2, <1>3 DEF MinElement
<1>5. QED
    BY <1>4

-----------------------------------------------------------------------------
(***************************************************************************)
(* Sums over sets: MapThenSumSet adds the elements in an order it chooses; *)
(* the sum is the same in any order.                                       *)
(***************************************************************************)

(* What the ranks of S have *)
TotalOf(values, S) == MapThenSumSet(LAMBDA x : values[x], S)

(* The element that MapThenSumSet adds first *)
Chosen(T) == CHOOSE x \in T : TRUE

(* f has the sum of every subset of S. *)
Sums(f, values, S) ==
    /\ IsFiniteSet(S) /\ \A x \in S : values[x] \in Nat
    /\ f \in [SUBSET S -> Nat]
    /\ \A T \in SUBSET S : f[T] = IF T = {} THEN 0 ELSE values[Chosen(T)] + f[T \ {Chosen(T)}]

(* A part of S with m + 1 elements has m without one of them. *)
LEMMA SmallerWithout ==
    ASSUME NEW S, IsFiniteSet(S), NEW T \in SUBSET S, NEW m \in Nat, Cardinality(T) = m + 1, NEW x \in T
    PROVE  T \ {x} \in SUBSET S /\ Cardinality(T \ {x}) = m
<1>1. IsFiniteSet(T)
    BY FS_Subset
<1>2. IsFiniteSet(T \ {x}) /\ Cardinality(T \ {x}) = Cardinality(T) - 1
    BY <1>1, FS_RemoveElement
<1>3. QED
    BY <1>2

(* A part of a finite set is finite, and empty only if its size is 0. *)
LEMMA SizeOfPart ==
    ASSUME NEW S, IsFiniteSet(S), NEW T \in SUBSET S
    PROVE  IsFiniteSet(T) /\ Cardinality(T) \in Nat /\ (Cardinality(T) = 0 <=> T = {})
<1>1. IsFiniteSet(T)
    BY FS_Subset
<1>2. QED
    BY <1>1, FS_CardinalityType, FS_EmptySet

(* The chosen element is one of the set. *)
LEMMA ChosenIn ==
    ASSUME NEW T, T # {}
    PROVE  Chosen(T) \in T
BY DEF Chosen

(* The sums of the subsets of a finite set exist: by induction over their size. *)
LEMMA SumsExist ==
    ASSUME NEW S, IsFiniteSet(S), NEW values, \A x \in S : values[x] \in Nat
    PROVE  \E f : Sums(f, values, S)
<1> DEFINE Upto(m) == {T \in SUBSET S : Cardinality(T) <= m}
           next(f, T) == IF T = {} THEN 0 ELSE values[Chosen(T)] + f[T \ {Chosen(T)}]
           M == {m \in Nat : \E f \in [Upto(m) -> Nat] : \A T \in Upto(m) : f[T] = next(f, T)}
<1>0. /\ \A T \in SUBSET S : T # {} => Chosen(T) \in T /\ values[Chosen(T)] \in Nat
      /\ \A T \in SUBSET S : Cardinality(T) \in Nat /\ (Cardinality(T) = 0 <=> T = {})
    BY ChosenIn, SizeOfPart
<1>1. 0 \in M
    <2>1. Upto(0) = {{}}
        BY <1>0
    <2> DEFINE f == [T \in Upto(0) |-> 0]
    <2>2. f \in [Upto(0) -> Nat] /\ \A T \in Upto(0) : f[T] = next(f, T)
        BY <2>1
    <2> HIDE DEF f, next, Upto
    <2>3. QED
        BY <2>2
<1>2. ASSUME NEW m \in Nat, m \in M PROVE m + 1 \in M
    <2>1. PICK f \in [Upto(m) -> Nat] : \A T \in Upto(m) : f[T] = next(f, T)
        <3> HIDE DEF Upto, next
        <3> QED BY <1>2
    <2> DEFINE h == [T \in Upto(m + 1) |-> next(f, T)]
    <2>2. ASSUME NEW T \in Upto(m + 1), T # {}
          PROVE  T \ {Chosen(T)} \in Upto(m) /\ T \ {Chosen(T)} \in Upto(m + 1)
        <3>1. T \in SUBSET S /\ Cardinality(T) \in Nat /\ Cardinality(T) # 0 /\ Cardinality(T) <= m + 1 /\ Chosen(T) \in T
            BY <1>0, <2>2
        <3>2. PICK j \in Nat : Cardinality(T) = j + 1
            <4>1. Cardinality(T) - 1 \in Nat /\ Cardinality(T) = (Cardinality(T) - 1) + 1
                BY <3>1
            <4>2. QED
                BY <4>1
        <3>3. T \ {Chosen(T)} \in SUBSET S /\ Cardinality(T \ {Chosen(T)}) = j
            BY <3>1, <3>2, SmallerWithout
        <3>4. j <= m /\ j <= m + 1
            BY <3>1, <3>2
        <3>5. QED
            BY <3>3, <3>4
    <2>3. \A T \in Upto(m + 1) : next(f, T) \in Nat
        <3> TAKE T \in Upto(m + 1)
        <3>1. CASE T = {}
            BY <3>1
        <3>2. CASE T # {}
            <4>1. f[T \ {Chosen(T)}] \in Nat
                <5> HIDE DEF Upto
                <5> QED BY <2>2, <3>2
            <4>2. values[Chosen(T)] \in Nat
                BY <1>0, <3>2
            <4>3. QED
                BY <3>2, <4>1, <4>2
        <3>3. QED
            BY <3>1, <3>2
    <2>4. \A T \in Upto(m) : T \in Upto(m + 1)
        BY <1>0
    <2> HIDE DEF Upto
    <2>5. h \in [Upto(m + 1) -> Nat]
        <3> HIDE DEF next
        <3> QED BY <2>3
    <2>6. \A T \in Upto(m + 1) : h[T] = next(h, T)
        <3> TAKE T \in Upto(m + 1)
        <3>1. h[T] = next(f, T)
            OBVIOUS
        <3>2. ASSUME T # {} PROVE h[T \ {Chosen(T)}] = f[T \ {Chosen(T)}]
            <4>1. T \ {Chosen(T)} \in Upto(m) /\ T \ {Chosen(T)} \in Upto(m + 1)
                BY <2>2, <3>2
            <4> HIDE DEF next
            <4>2. QED
                BY <2>1, <4>1
        <3> HIDE DEF h
        <3>3. QED
            BY <3>1, <3>2
    <2> HIDE DEF h, next
    <2>7. QED
        BY <2>5, <2>6
<1>3. Nat \subseteq M
    <2> HIDE DEF M
    <2> QED BY <1>1, <1>2, NumberInduction
<1>4. Cardinality(S) \in Nat
    BY FS_CardinalityType
<1>5. Upto(Cardinality(S)) = SUBSET S
    BY FS_Subset
<1>6. PICK f \in [Upto(Cardinality(S)) -> Nat] : \A T \in Upto(Cardinality(S)) : f[T] = next(f, T)
    <2> HIDE DEF Upto, next
    <2> QED BY <1>3, <1>4
<1> HIDE DEF Upto
<1>7. QED
    BY <1>5, <1>6 DEF Sums

(* What MapThenSumSet computes are sums. *)
LEMMA TotalOfSums ==
    ASSUME NEW S, IsFiniteSet(S), NEW values, \A x \in S : values[x] \in Nat
    PROVE  \E f : Sums(f, values, S) /\ TotalOf(values, S) = f[S]
<1> DEFINE next(f, T) == IF T = {} THEN 0 ELSE values[Chosen(T)] + f[T \ {Chosen(T)}]
           Def(f) == f = [T \in SUBSET S |-> next(f, T)]
           g == CHOOSE f : Def(f)
<1>1. TotalOf(values, S) = g[S]
    BY DEF TotalOf, MapThenSumSet, MapThenFoldSet, Chosen
<1>2. PICK f : Sums(f, values, S)
    BY SumsExist
<1>3. Def(f)
    BY <1>2 DEF Sums
<1>4. Def(g)
    <2> HIDE DEF Def
    <2> QED BY <1>3
<1> HIDE DEF g
<1>5. \A T \in SUBSET S : g[T] = next(g, T)
    <2> HIDE DEF next
    <2> QED BY <1>4
<1>6. g \in [SUBSET S -> Nat]
    <2>1. g = [T \in SUBSET S |-> g[T]]
        <3> HIDE DEF next
        <3> QED BY <1>4
    <2> DEFINE M == {m \in Nat : \A T \in SUBSET S : Cardinality(T) = m => g[T] \in Nat}
    <2>2. 0 \in M
        <3>1. g[{}] = 0
            BY <1>5
        <3>2. ASSUME NEW T \in SUBSET S, Cardinality(T) = 0 PROVE g[T] \in Nat
            <4>1. T = {}
                BY <3>2, SizeOfPart
            <4>2. QED
                BY <3>1, <4>1
        <3>3. QED
            BY <3>2
    <2>3. ASSUME NEW m \in Nat, m \in M PROVE m + 1 \in M
        <3> SUFFICES ASSUME NEW T \in SUBSET S, Cardinality(T) = m + 1 PROVE g[T] \in Nat
            OBVIOUS
        <3>1. T # {}
            BY SizeOfPart
        <3>2. Chosen(T) \in T
            BY <3>1, ChosenIn
        <3>3. T \ {Chosen(T)} \in SUBSET S /\ Cardinality(T \ {Chosen(T)}) = m
            BY <3>2, SmallerWithout
        <3>4. g[T \ {Chosen(T)}] \in Nat /\ values[Chosen(T)] \in Nat
            BY <2>3, <3>2, <3>3
        <3>5. g[T] = values[Chosen(T)] + g[T \ {Chosen(T)}]
            BY <1>5, <3>1
        <3>6. QED
            BY <3>4, <3>5
    <2>4. Nat \subseteq M
        <3> HIDE DEF M
        <3> QED BY <2>2, <2>3, NumberInduction
    <2>5. \A T \in SUBSET S : g[T] \in Nat
        <3> TAKE T \in SUBSET S
        <3>1. Cardinality(T) \in Nat
            BY SizeOfPart
        <3>2. QED
            BY <2>4, <3>1
    <2>6. QED
        BY <2>1, <2>5
<1>7. Sums(g, values, S)
    BY <1>5, <1>6 DEF Sums
<1>8. QED
    BY <1>1, <1>7

(* Any element may be the first to be added. *)
LEMMA SumsAnyElement ==
    ASSUME NEW S, NEW values, NEW f, Sums(f, values, S), NEW U \in SUBSET S, NEW r \in U
    PROVE  f[U] = values[r] + f[U \ {r}]
<1>0. IsFiniteSet(S) /\ (\A x \in S : values[x] \in Nat) /\ f \in [SUBSET S -> Nat]
    BY DEF Sums
<1> DEFINE M == {m \in Nat : \A T \in SUBSET S : Cardinality(T) = m => \A x \in T : f[T] = values[x] + f[T \ {x}]}
<1>1. 0 \in M
    BY <1>0, SizeOfPart
<1>2. ASSUME NEW m \in Nat, m \in M PROVE m + 1 \in M
    <2> SUFFICES ASSUME NEW T \in SUBSET S, Cardinality(T) = m + 1, NEW x \in T
                 PROVE  f[T] = values[x] + f[T \ {x}]
        OBVIOUS
    <2>1. PICK c \in T : c = Chosen(T)
        BY ChosenIn
    <2>2. f[T] = values[c] + f[T \ {c}]
        BY <2>1 DEF Sums
    <2>3. CASE x = c
        BY <2>2, <2>3
    <2>4. CASE x # c
        <3>1. /\ T \ {c} \in SUBSET S /\ Cardinality(T \ {c}) = m
              /\ T \ {x} \in SUBSET S /\ Cardinality(T \ {x}) = m
            BY <1>0, SmallerWithout
        <3>2. x \in T \ {c} /\ c \in T \ {x} /\ (T \ {c}) \ {x} = (T \ {x}) \ {c}
            BY <2>4
        <3>3. f[T \ {c}] = values[x] + f[(T \ {c}) \ {x}]
            BY <1>2, <3>1, <3>2
        <3>4. f[T \ {x}] = values[c] + f[(T \ {x}) \ {c}]
            BY <1>2, <3>1, <3>2
        <3>5. PICK v \in Nat : v = f[(T \ {x}) \ {c}]
            BY <1>0
        <3>6. values[c] \in Nat /\ values[x] \in Nat
            BY <1>0
        <3>7. f[T \ {c}] = values[x] + v /\ f[T \ {x}] = values[c] + v
            BY <3>2, <3>3, <3>4, <3>5
        <3>8. QED
            BY <2>2, <3>5, <3>6, <3>7
    <2>5. QED
        BY <2>3, <2>4
<1>3. Nat \subseteq M
    <2> HIDE DEF M
    <2> QED BY <1>1, <1>2, NumberInduction
<1>4. Cardinality(U) \in M
    BY <1>0, <1>3, SizeOfPart
<1>5. QED
    BY <1>4

(* The sum of a set does not depend on which set it is a part of. *)
LEMMA SumsAgree ==
    ASSUME NEW S, NEW R \in SUBSET S, NEW values,
           NEW f, Sums(f, values, S), NEW g, Sums(g, values, R)
    PROVE  f[R] = g[R]
<1> DEFINE M == {m \in Nat : \A T \in SUBSET R : Cardinality(T) = m => f[T] = g[T]}
<1>0. IsFiniteSet(R) /\ \A T \in SUBSET R : T \in SUBSET S
    BY DEF Sums
<1>1. 0 \in M
    <2>1. f[{}] = 0 /\ g[{}] = 0
        BY DEF Sums
    <2>2. \A T \in SUBSET R : Cardinality(T) = 0 => T = {}
        BY <1>0, SizeOfPart
    <2>3. QED
        BY <2>1, <2>2
<1>2. ASSUME NEW m \in Nat, m \in M PROVE m + 1 \in M
    <2> SUFFICES ASSUME NEW T \in SUBSET R, Cardinality(T) = m + 1 PROVE f[T] = g[T]
        OBVIOUS
    <2>1. T # {}
        BY <1>0, SizeOfPart
    <2>2. PICK c \in T : c = Chosen(T)
        BY <2>1, ChosenIn
    <2>3. T \ {c} \in SUBSET R /\ Cardinality(T \ {c}) = m
        BY <1>0, SmallerWithout
    <2>4. f[T \ {c}] = g[T \ {c}]
        BY <1>2, <2>3
    <2>5. f[T] = values[c] + f[T \ {c}] /\ g[T] = values[c] + g[T \ {c}]
        BY <1>0, <2>1, <2>2 DEF Sums
    <2>6. QED
        BY <2>4, <2>5
<1>3. Nat \subseteq M
    <2> HIDE DEF M
    <2> QED BY <1>1, <1>2, NumberInduction
<1>4. Cardinality(R) \in M
    BY <1>0, <1>3, SizeOfPart
<1>5. QED
    BY <1>4

(* A rank that leaves takes what it has from the sum. *)
LEMMA TotalWithout ==
    ASSUME NEW S, IsFiniteSet(S), NEW values, \A x \in S : values[x] \in Nat, NEW r \in S
    PROVE  /\ TotalOf(values, S) \in Nat /\ TotalOf(values, S \ {r}) \in Nat
           /\ TotalOf(values, S) = values[r] + TotalOf(values, S \ {r})
<1>1. PICK f : Sums(f, values, S) /\ TotalOf(values, S) = f[S]
    BY TotalOfSums
<1>2. PICK R \in SUBSET S : R = S \ {r} /\ IsFiniteSet(R)
    BY FS_RemoveElement
<1>3. PICK g : Sums(g, values, R) /\ TotalOf(values, R) = g[R]
    BY <1>2, TotalOfSums
<1>4. f[R] = g[R]
    BY <1>1, <1>2, <1>3, SumsAgree
<1>5. Sums(f, values, S)
    BY <1>1
<1>6. f[S] = values[r] + f[S \ {r}]
    BY <1>5, SumsAnyElement
<1>7. f[S] \in Nat /\ g[R] \in Nat
    BY <1>1, <1>3 DEF Sums
<1>8. QED
    BY <1>1, <1>2, <1>3, <1>4, <1>6, <1>7

(* Nobody has nothing. *)
LEMMA TotalOfNone ==
    ASSUME NEW values
    PROVE  TotalOf(values, {}) = 0
<1>1. PICK f : Sums(f, values, {}) /\ TotalOf(values, {}) = f[{}]
    BY FS_EmptySet, TotalOfSums
<1>2. QED
    BY <1>1 DEF Sums
-----------------------------------------------------------------------------
(***************************************************************************)
(* Placing one rank after the other                                        *)
(***************************************************************************)

(* What struct Partitioning may hold *)
Results(R, k) == [m_Partitions : [1..k -> Seq(R)], m_Sizes : [1..k -> Nat]]

(* A rank without data goes to a group with the fewest ranks, any other to one *)
(* with the least data (lines 64-84).                                          *)
LEMMA IndexOfSmallestIn ==
    ASSUME NEW R, NEW k \in Nat \ {0}, NEW p \in Results(R, k), NEW value \in Nat
    PROVE  /\ IndexOfSmallest(p, value) \in 1..k
           /\ value = 0 => \A g \in 1..k : Len(p.m_Partitions[IndexOfSmallest(p, value)]) <= Len(p.m_Partitions[g])
           /\ value # 0 => \A g \in 1..k : p.m_Sizes[IndexOfSmallest(p, value)] <= p.m_Sizes[g]
<1> DEFINE lens == [g \in 1..k |-> Len(p.m_Partitions[g])]
<1>1. p.m_Sizes \in [1..k -> Nat] /\ p.m_Partitions \in [1..k -> Seq(R)] /\ lens \in [1..k -> Nat]
    BY DEF Results
<1>2. CASE value = 0
    <2>1. DOMAIN p.m_Partitions = 1..k
        BY <1>1
    <2>2. IndexOfSmallest(p, value) = MinElement(lens)
        BY <1>2, <2>1 DEF IndexOfSmallest
    <2>3. MinElement(lens) \in 1..k /\ \A j \in 1..k : lens[MinElement(lens)] <= lens[j]
        BY <1>1, MinElementLeast
    <2>4. QED
        BY <1>2, <2>2, <2>3
<1>3. CASE value # 0
    <2>1. IndexOfSmallest(p, value) = MinElement(p.m_Sizes)
        BY <1>3 DEF IndexOfSmallest
    <2>2. QED
        BY <1>1, <1>3, <2>1, MinElementLeast
<1>4. QED
    BY <1>2, <1>3

(* q is p with the rank r, which has v, in the group g as well. *)
AddedTo(q, p, g, r, v, k) ==
    /\ \A h \in (1..k) \ {g} : q.m_Partitions[h] = p.m_Partitions[h] /\ q.m_Sizes[h] = p.m_Sizes[h]
    /\ q.m_Partitions[g] = Append(p.m_Partitions[g], r)
    /\ q.m_Sizes[g] = p.m_Sizes[g] + v

(* A rank is added to the group that was found for it, and to no other. *)
LEMMA PlacedIn ==
    ASSUME NEW R, NEW k \in Nat \ {0}, NEW p \in Results(R, k), NEW values \in [R -> Nat], NEW r \in R
    PROVE  /\ Placed(p, values, r) \in Results(R, k)
           /\ AddedTo(Placed(p, values, r), p, IndexOfSmallest(p, values[r]), r, values[r], k)
<1> DEFINE g == IndexOfSmallest(p, values[r])
<1>1. g \in 1..k /\ values[r] \in Nat
    BY IndexOfSmallestIn
<1>2. p.m_Sizes \in [1..k -> Nat] /\ p.m_Partitions \in [1..k -> Seq(R)]
    BY DEF Results
<1>3. p.m_Sizes[g] + values[r] \in Nat /\ Append(p.m_Partitions[g], r) \in Seq(R)
    BY <1>1, <1>2
<1>4. /\ Placed(p, values, r).m_Partitions = [p.m_Partitions EXCEPT ![g] = Append(@, r)]
      /\ Placed(p, values, r).m_Sizes = [p.m_Sizes EXCEPT ![g] = @ + values[r]]
      /\ Placed(p, values, r) = [m_Partitions |-> [p.m_Partitions EXCEPT ![g] = Append(@, r)],
                                 m_Sizes |-> [p.m_Sizes EXCEPT ![g] = @ + values[r]]]
    <2>1. p = [m_Partitions |-> p.m_Partitions, m_Sizes |-> p.m_Sizes]
        BY DEF Results
    <2>2. Placed(p, values, r) = [p EXCEPT !.m_Partitions[g] = Append(@, r), !.m_Sizes[g] = @ + values[r]]
        BY DEF Placed
    <2> HIDE DEF g
    <2>3. QED
        BY <2>1, <2>2
<1> HIDE DEF g
<1>5. Placed(p, values, r) \in Results(R, k)
    BY <1>1, <1>2, <1>3, <1>4 DEF Results
<1>6. AddedTo(Placed(p, values, r), p, g, r, values[r], k)
    BY <1>1, <1>2, <1>4 DEF AddedTo
<1>7. QED
    BY <1>5, <1>6 DEF g

(* f[n] is what there is after n ranks of s. *)
Builds(f, values, k, s) ==
    /\ f[0] = NobodyPlaced(k)
    /\ \A n \in 1..Len(s) : f[n] = Placed(f[n - 1], values, s[n])
    /\ PlacedInOrder(values, k, s) = f[Len(s)]

(* The recursive function of PlacedInOrder is defined, and builds its result. *)
LEMMA PlacedInOrderBuilds ==
    ASSUME NEW R, NEW k \in Nat \ {0}, NEW values \in [R -> Nat], NEW s \in Seq(R)
    PROVE  \E f \in [0..Len(s) -> Results(R, k)] : Builds(f, values, k, s)
<1> DEFINE Def(f, m) == f = [n \in 0..m |-> IF n = 0 THEN NobodyPlaced(k) ELSE Placed(f[n - 1], values, s[n])]
           S == {m \in Nat : m <= Len(s) => \E f \in [0..m -> Results(R, k)] : Def(f, m)}
<1>0. Len(s) \in Nat /\ \A n \in 1..Len(s) : s[n] \in R
    OBVIOUS
<1>n. NobodyPlaced(k) \in Results(R, k)
    BY DEF NobodyPlaced, Results
<1>1. 0 \in S
    <2>1. [n \in 0..0 |-> NobodyPlaced(k)] \in [0..0 -> Results(R, k)]
        BY <1>n
    <2>2. Def([n \in 0..0 |-> NobodyPlaced(k)], 0)
        OBVIOUS
    <2> QED BY <2>1, <2>2
<1>2. ASSUME NEW m \in Nat, m \in S PROVE m + 1 \in S
    <2> SUFFICES ASSUME m + 1 <= Len(s)
                 PROVE  \E f \in [0..(m + 1) -> Results(R, k)] : Def(f, m + 1)
        <3> HIDE DEF Def
        <3> QED OBVIOUS
    <2>1. PICK f \in [0..m -> Results(R, k)] : Def(f, m)
        <3> HIDE DEF Def
        <3> QED BY <1>0, <1>2
    <2> DEFINE last == Placed(f[m], values, s[m + 1])
               g == [n \in 0..(m + 1) |-> IF n = m + 1 THEN last ELSE f[n]]
    <2>2. last \in Results(R, k)
        <3>1. f[m] \in Results(R, k) /\ s[m + 1] \in R
            BY <1>0
        <3>2. QED
            BY <3>1, PlacedIn
    <2> HIDE DEF last
    <2>3. g \in [0..(m + 1) -> Results(R, k)]
        BY <2>2
    <2>4. ASSUME NEW n \in 0..(m + 1)
          PROVE  g[n] = IF n = 0 THEN NobodyPlaced(k) ELSE Placed(g[n - 1], values, s[n])
        <3>1. CASE n = m + 1
            BY <3>1 DEF last
        <3>2. CASE n # m + 1
            <4>1. n \in 0..m /\ g[n] = f[n]
                BY <3>2
            <4>2. n # 0 => g[n - 1] = f[n - 1]
                BY <4>1
            <4>3. f[n] = IF n = 0 THEN NobodyPlaced(k) ELSE Placed(f[n - 1], values, s[n])
                BY <2>1, <4>1
            <4>4. QED
                BY <4>1, <4>2, <4>3
        <3>3. QED
            BY <3>1, <3>2
    <2>5. Def(g, m + 1)
        BY <2>4
    <2> HIDE DEF g
    <2> QED BY <2>3, <2>5
<1>3. Nat \subseteq S
    <2> HIDE DEF S
    <2> QED BY <1>1, <1>2, NumberInduction
<1>4. \E f \in [0..Len(s) -> Results(R, k)] : Def(f, Len(s))
    <2> HIDE DEF Def
    <2> QED BY <1>0, <1>3
<1> DEFINE g == CHOOSE f : Def(f, Len(s))
<1>5. Def(g, Len(s))
    <2> HIDE DEF Def
    <2> QED BY <1>4
<1>6. PlacedInOrder(values, k, s) = g[Len(s)]
    BY DEF PlacedInOrder
<1> HIDE DEF g
<1> DEFINE next(n) == Placed(g[n - 1], values, s[n])
           body(n) == IF n = 0 THEN NobodyPlaced(k) ELSE next(n)
<1>a. g = [n \in 0..Len(s) |-> body(n)]
    BY <1>5
<1>b. \A n \in 0..Len(s) : g[n] = body(n)
    <2> HIDE DEF body
    <2> QED BY <1>a
<1>7. g = [n \in 0..Len(s) |-> g[n]]
    <2> HIDE DEF body
    <2> QED BY <1>a, <1>b
<1>8. g[0] = NobodyPlaced(k)
    BY <1>0, <1>b
<1>9. \A n \in 1..Len(s) : g[n] = next(n)
    <2> HIDE DEF next
    <2> QED BY <1>0, <1>b
<1> DEFINE V == {n \in Nat : n <= Len(s) => g[n] \in Results(R, k)}
<1>10. 0 \in V
    BY <1>8, <1>n
<1>11. ASSUME NEW m \in Nat, m \in V PROVE m + 1 \in V
    <2> SUFFICES ASSUME m + 1 <= Len(s) PROVE g[m + 1] \in Results(R, k)
        OBVIOUS
    <2>1. g[m] \in Results(R, k) /\ s[m + 1] \in R
        BY <1>0, <1>11
    <2>2. g[m + 1] = Placed(g[m], values, s[m + 1])
        <3>1. m + 1 \in 1..Len(s) /\ (m + 1) - 1 = m
            BY <1>0
        <3>2. QED
            BY <1>9, <3>1
    <2>3. Placed(g[m], values, s[m + 1]) \in Results(R, k)
        BY <2>1, PlacedIn
    <2>4. QED
        BY <2>2, <2>3
<1>12. Nat \subseteq V
    <2> HIDE DEF V
    <2> QED BY <1>10, <1>11, NumberInduction
<1>13. \A n \in 0..Len(s) : g[n] \in Results(R, k)
    BY <1>0, <1>12
<1>14. g \in [0..Len(s) -> Results(R, k)]
    BY <1>7, <1>13
<1>15. QED
    BY <1>6, <1>8, <1>9, <1>14 DEF Builds
(* Rank r is in a group. *)
InGroups(p, k, r) == \E g \in 1..k : \E i \in 1..Len(p.m_Partitions[g]) : p.m_Partitions[g][i] = r

(***************************************************************************)
(* What holds after the first n ranks of s have been placed.  These ranks  *)
(* and no others are in groups, each at one place.  A group without ranks  *)
(* has no data, and one with ranks has some as long as all the ranks have. *)
(* As long as a group is empty, no other has two ranks: this is what keeps *)
(* groups from staying empty, also when few ranks have data.               *)
(***************************************************************************)
Grouped(p, values, k, s, n) ==
    /\ \A j \in 1..n : InGroups(p, k, s[j])
    /\ \A r : InGroups(p, k, r) => \E j \in 1..n : s[j] = r
    /\ \A g, h \in 1..k : \A i \in 1..Len(p.m_Partitions[g]), j \in 1..Len(p.m_Partitions[h]) :
           p.m_Partitions[g][i] = p.m_Partitions[h][j] => g = h /\ i = j
    /\ \A g \in 1..k : Len(p.m_Partitions[g]) = 0 => p.m_Sizes[g] = 0
    /\ (\A j \in 1..n : values[s[j]] > 0) => \A g \in 1..k : Len(p.m_Partitions[g]) > 0 => p.m_Sizes[g] > 0
    /\ (\E g \in 1..k : Len(p.m_Partitions[g]) = 0) => \A g \in 1..k : Len(p.m_Partitions[g]) <= 1

(* One rank more keeps this.  Ranks come in the order of their data: when it has *)
(* data, all before it have some, and an empty group is one with the least; when *)
(* it has none, it goes by the number of ranks.                                  *)
LEMMA PlacedGrouped ==
    ASSUME NEW R, NEW k \in Nat \ {0}, NEW values \in [R -> Nat], NEW s \in Seq(R),
           \A i, j \in 1..Len(s) : i # j => s[i] # s[j],
           \A i, j \in 1..Len(s) : i < j => values[s[i]] >= values[s[j]],
           NEW n \in Nat, n + 1 <= Len(s), NEW p \in Results(R, k), Grouped(p, values, k, s, n)
    PROVE  Grouped(Placed(p, values, s[n + 1]), values, k, s, n + 1)
<1> DEFINE r == s[n + 1]
           g0 == IndexOfSmallest(p, values[r])
           q == Placed(p, values, r)
<1>0. /\ Len(s) \in Nat /\ n + 1 \in 1..Len(s) /\ r \in R /\ values[r] \in Nat
      /\ \A j \in 1..n : j \in 1..Len(s) /\ j # n + 1 /\ j < n + 1
    OBVIOUS
<1>1. /\ g0 \in 1..k
      /\ values[r] = 0 => \A g \in 1..k : Len(p.m_Partitions[g0]) <= Len(p.m_Partitions[g])
      /\ values[r] # 0 => \A g \in 1..k : p.m_Sizes[g0] <= p.m_Sizes[g]
    BY <1>0, IndexOfSmallestIn
<1>2. AddedTo(q, p, g0, r, values[r], k)
    <2>1. r \in R
        BY <1>0
    <2> HIDE DEF r
    <2>2. QED
        BY <2>1, PlacedIn
<1>3. /\ p.m_Partitions \in [1..k -> Seq(R)] /\ p.m_Sizes \in [1..k -> Nat]
      /\ \A g \in 1..k : Len(p.m_Partitions[g]) \in Nat /\ p.m_Sizes[g] \in Nat
    BY DEF Results
<1> HIDE DEF r, g0, q
<1>4. /\ \A g \in 1..k : g # g0 => q.m_Partitions[g] = p.m_Partitions[g] /\ q.m_Sizes[g] = p.m_Sizes[g]
      /\ q.m_Partitions[g0] = Append(p.m_Partitions[g0], r)
      /\ q.m_Sizes[g0] = p.m_Sizes[g0] + values[r]
    BY <1>1, <1>2, <1>3 DEF AddedTo
<1>b. Len(p.m_Partitions[g0]) \in Nat /\ p.m_Sizes[g0] \in Nat
    BY <1>1, <1>3
<1> DEFINE last == Len(p.m_Partitions[g0]) + 1
<1>5. /\ Len(q.m_Partitions[g0]) = last /\ q.m_Partitions[g0][last] = r
      /\ \A i \in 1..Len(p.m_Partitions[g0]) : q.m_Partitions[g0][i] = p.m_Partitions[g0][i]
      /\ 1..last = (1..Len(p.m_Partitions[g0])) \cup {last} /\ last \in Nat /\ last \notin 1..Len(p.m_Partitions[g0])
      /\ last \in 1..last
    <2>1. PICK w \in Seq(R) : w = p.m_Partitions[g0]
        BY <1>1, <1>3
    <2>2. /\ Len(Append(w, r)) = Len(w) + 1 /\ Append(w, r)[Len(w) + 1] = r
          /\ \A i \in 1..Len(w) : Append(w, r)[i] = w[i]
        BY <1>0
    <2>3. Len(w) \in Nat
        OBVIOUS
    <2>4. q.m_Partitions[g0] = Append(w, r) /\ last = Len(w) + 1
        BY <1>4, <2>1
    <2>5. Len(Append(w, r)) = last /\ Append(w, r)[last] = r
        BY <2>2, <2>4
    <2>6. 1..last = (1..Len(w)) \cup {last} /\ last \in Nat /\ last \notin 1..Len(w) /\ last \in 1..last
        <3> SUFFICES ASSUME NEW x \in Nat, last = x + 1, Len(w) = x
                     PROVE  1..last = (1..x) \cup {last} /\ last \in Nat /\ last \notin 1..x /\ last \in 1..last
            BY <2>3, <2>4
        <3> HIDE DEF last
        <3> QED OBVIOUS
    <2> HIDE DEF last
    <2>7. QED
        BY <2>1, <2>2, <2>4, <2>5, <2>6
<1> HIDE DEF last
<1>6. ~InGroups(p, k, r)
    <2>1. ASSUME InGroups(p, k, r) PROVE FALSE
        <3>1. PICK j \in 1..n : s[j] = r
            BY <2>1 DEF Grouped
        <3>2. j \in 1..Len(s) /\ j # n + 1 /\ n + 1 \in 1..Len(s)
            BY <1>0
        <3>3. QED
            BY <3>1, <3>2 DEF r
    <2>2. QED
        BY <2>1
<1>7. \A x : InGroups(q, k, x) <=> InGroups(p, k, x) \/ x = r
    <2>1. ASSUME NEW x, InGroups(q, k, x) PROVE InGroups(p, k, x) \/ x = r
        <3>1. PICK g \in 1..k : \E i \in 1..Len(q.m_Partitions[g]) : q.m_Partitions[g][i] = x
            BY <2>1 DEF InGroups
        <3>2. CASE g # g0
            BY <1>4, <3>1, <3>2 DEF InGroups
        <3>3. CASE g = g0
            BY <1>5, <3>1, <3>3 DEF InGroups
        <3>4. QED
            BY <3>2, <3>3
    <2>2. ASSUME NEW x, InGroups(p, k, x) PROVE InGroups(q, k, x)
        <3>1. PICK g \in 1..k : \E i \in 1..Len(p.m_Partitions[g]) : p.m_Partitions[g][i] = x
            BY <2>2 DEF InGroups
        <3>2. CASE g # g0
            BY <1>4, <3>1, <3>2 DEF InGroups
        <3>3. CASE g = g0
            BY <1>5, <3>1, <3>3 DEF InGroups
        <3>4. QED
            BY <3>2, <3>3
    <2>3. InGroups(q, k, r)
        BY <1>1, <1>5 DEF InGroups
    <2>4. QED
        BY <2>1, <2>2, <2>3
<1>8. /\ \A j \in 1..(n + 1) : InGroups(q, k, s[j])
      /\ \A x : InGroups(q, k, x) => \E j \in 1..(n + 1) : s[j] = x
    <2>1. 1..(n + 1) = (1..n) \cup {n + 1} /\ s[n + 1] = r
        BY DEF r
    <2>2. /\ \A j \in 1..n : InGroups(p, k, s[j])
          /\ \A x : InGroups(p, k, x) => \E j \in 1..n : s[j] = x
        BY DEF Grouped
    <2>3. QED
        BY <1>7, <2>1, <2>2
<1>9. ASSUME NEW g \in 1..k, NEW h \in 1..k, NEW i \in 1..Len(q.m_Partitions[g]), NEW j \in 1..Len(q.m_Partitions[h]),
             q.m_Partitions[g][i] = q.m_Partitions[h][j]
      PROVE  g = h /\ i = j
    <2>1. ASSUME NEW e \in 1..k, NEW a \in 1..Len(q.m_Partitions[e])
          PROVE  \/ /\ a \in 1..Len(p.m_Partitions[e]) /\ q.m_Partitions[e][a] = p.m_Partitions[e][a]
                    /\ q.m_Partitions[e][a] # r
                 \/ e = g0 /\ a = last /\ q.m_Partitions[e][a] = r
        <3>1. CASE e # g0
            BY <1>4, <1>6, <2>1, <3>1 DEF InGroups
        <3>2. CASE e = g0
            BY <1>5, <1>6, <2>1, <3>2 DEF InGroups
        <3>3. QED
            BY <3>1, <3>2
    <2>2. CASE q.m_Partitions[g][i] = r
        BY <1>9, <2>1, <2>2
    <2>3. CASE q.m_Partitions[g][i] # r
        <3>1. /\ i \in 1..Len(p.m_Partitions[g]) /\ j \in 1..Len(p.m_Partitions[h])
              /\ p.m_Partitions[g][i] = p.m_Partitions[h][j]
            BY <1>9, <2>1, <2>3
        <3>2. QED
            BY <3>1 DEF Grouped
    <2>4. QED
        BY <2>2, <2>3
<1>10. \A g \in 1..k : Len(q.m_Partitions[g]) = 0 => q.m_Sizes[g] = 0
    <2>1. \A g \in 1..k : Len(p.m_Partitions[g]) = 0 => p.m_Sizes[g] = 0
        BY DEF Grouped
    <2>2. last # 0
        BY <1>b DEF last
    <2>3. QED
        BY <1>4, <1>5, <2>1, <2>2
<1>11. ASSUME \A j \in 1..(n + 1) : values[s[j]] > 0
       PROVE  \A g \in 1..k : Len(q.m_Partitions[g]) > 0 => q.m_Sizes[g] > 0
    <2>1. values[r] > 0 /\ \A j \in 1..n : values[s[j]] > 0
        BY <1>0, <1>11 DEF r
    <2>2. \A g \in 1..k : Len(p.m_Partitions[g]) > 0 => p.m_Sizes[g] > 0
        BY <2>1 DEF Grouped
    <2>3. ASSUME NEW g \in 1..k, Len(q.m_Partitions[g]) > 0 PROVE q.m_Sizes[g] > 0
        <3>1. CASE g # g0
            BY <1>4, <2>2, <2>3, <3>1
        <3>2. CASE g = g0
            <4>1. q.m_Sizes[g0] = p.m_Sizes[g0] + values[r] /\ values[r] \in Nat
                BY <1>0, <1>4
            <4>2. QED
                BY <1>b, <2>1, <3>2, <4>1
        <3>3. QED
            BY <3>1, <3>2
    <2>4. QED
        BY <2>3
<1>12. ASSUME NEW e \in 1..k, Len(p.m_Partitions[e]) = 0 PROVE Len(p.m_Partitions[g0]) = 0
    <2>1. CASE values[r] = 0
        <3>1. Len(p.m_Partitions[g0]) <= Len(p.m_Partitions[e])
            BY <1>1, <2>1
        <3>2. Len(p.m_Partitions[g0]) \in Nat
            BY <1>1, <1>3
        <3>3. QED
            BY <1>12, <3>1, <3>2
    <2>2. CASE values[r] # 0
        <3>1. \A j \in 1..n : values[s[j]] > 0
            <4> TAKE j \in 1..n
            <4>1. values[s[j]] >= values[r] /\ values[s[j]] \in Nat
                BY <1>0 DEF r
            <4>2. QED
                BY <1>0, <2>2, <4>1
        <3>2. p.m_Sizes[e] = 0
            BY <1>12 DEF Grouped
        <3>3. p.m_Sizes[g0] = 0
            <4>1. p.m_Sizes[g0] <= p.m_Sizes[e]
                BY <1>1, <2>2
            <4>2. p.m_Sizes[g0] \in Nat
                BY <1>1, <1>3
            <4>3. QED
                BY <3>2, <4>1, <4>2
        <3>4. ~(Len(p.m_Partitions[g0]) > 0)
            <4>1. \A g \in 1..k : Len(p.m_Partitions[g]) > 0 => p.m_Sizes[g] > 0
                BY <3>1 DEF Grouped
            <4>2. QED
                BY <1>1, <3>3, <4>1
        <3>5. QED
            BY <1>1, <1>3, <3>4
    <2>3. QED
        BY <2>1, <2>2
<1>13. ASSUME NEW e \in 1..k, Len(q.m_Partitions[e]) = 0, NEW g \in 1..k PROVE Len(q.m_Partitions[g]) <= 1
    <2>1. e # g0 /\ Len(p.m_Partitions[e]) = 0
        <3>1. last # 0
            BY <1>b DEF last
        <3>2. QED
            BY <1>4, <1>5, <1>13, <3>1
    <2>2. Len(p.m_Partitions[g0]) = 0 /\ \A h \in 1..k : Len(p.m_Partitions[h]) <= 1
        <3>1. (\E h \in 1..k : Len(p.m_Partitions[h]) = 0) => \A h \in 1..k : Len(p.m_Partitions[h]) <= 1
            BY DEF Grouped
        <3>2. QED
            BY <1>12, <2>1, <3>1
    <2>3. CASE g = g0
        <3>1. last = 1
            BY <2>2 DEF last
        <3>2. Len(q.m_Partitions[g0]) = last
            BY <1>5
        <3>3. QED
            BY <2>3, <3>1, <3>2
    <2>4. CASE g # g0
        BY <1>4, <2>2, <2>4
    <2>5. QED
        BY <2>3, <2>4
<1>14. Grouped(q, values, k, s, n + 1)
    BY <1>8, <1>9, <1>10, <1>11, <1>13 DEF Grouped
<1>15. QED
    BY <1>14 DEF q, r

(* Each group's size is the sum of what its ranks have, and without any one of *)
(* its ranks that have data it is not larger than any other.                   *)
Balanced(p, values, k) ==
    /\ \A g \in 1..k : p.m_Sizes[g] = TotalOf(values, Range(p.m_Partitions[g]))
    /\ \A g, h \in 1..k : \A i \in 1..Len(p.m_Partitions[g]) :
           values[p.m_Partitions[g][i]] > 0 =>
               p.m_Sizes[g] <= p.m_Sizes[h] + values[p.m_Partitions[g][i]]

(* The ranks of a group that gets one more *)
LEMMA RangeAppended ==
    ASSUME NEW R, NEW w \in Seq(R), NEW r \in R
    PROVE  Range(Append(w, r)) = Range(w) \cup {r} /\ Range(w) \in SUBSET R
<1>1. /\ Append(w, r) \in Seq(R) /\ Len(Append(w, r)) = Len(w) + 1 /\ Append(w, r)[Len(w) + 1] = r
      /\ \A i \in 1..Len(w) : Append(w, r)[i] = w[i] /\ w[i] \in R
      /\ DOMAIN Append(w, r) = 1..Len(Append(w, r)) /\ DOMAIN w = 1..Len(w) /\ Len(w) \in Nat
    OBVIOUS
<1>2. 1..(Len(w) + 1) = (1..Len(w)) \cup {Len(w) + 1}
    BY <1>1
<1>3. Range(w) = {w[i] : i \in 1..Len(w)}
    BY <1>1 DEF Range
<1>4. Range(Append(w, r)) = {Append(w, r)[i] : i \in (1..Len(w)) \cup {Len(w) + 1}}
    BY <1>1, <1>2 DEF Range
<1>5. QED
    BY <1>1, <1>3, <1>4

(* Bounds of sums *)
LEMMA AddBounds ==
    /\ \A a, b, d, x \in Nat : a <= b + x /\ b <= d => a <= d + x
    /\ \A c, v, d, x \in Nat : c <= d /\ v <= x => c + v <= d + x
    /\ \A b, c, d \in Nat : c <= b /\ b <= d => c <= d
OBVIOUS

(* One rank more keeps this: with data it goes to a smallest group, and those *)
(* that are already there have as much as it has.                             *)
LEMMA PlacedBalanced ==
    ASSUME NEW R, IsFiniteSet(R), NEW k \in Nat \ {0}, NEW values \in [R -> Nat], NEW s \in Seq(R),
           \A i, j \in 1..Len(s) : i # j => s[i] # s[j],
           \A i, j \in 1..Len(s) : i < j => values[s[i]] >= values[s[j]],
           NEW n \in Nat, n + 1 <= Len(s), NEW p \in Results(R, k),
           Grouped(p, values, k, s, n), Balanced(p, values, k)
    PROVE  Balanced(Placed(p, values, s[n + 1]), values, k)
<1> DEFINE r == s[n + 1]
           g0 == IndexOfSmallest(p, values[r])
           q == Placed(p, values, r)
<1>0. /\ Len(s) \in Nat /\ n + 1 \in 1..Len(s) /\ r \in R /\ values[r] \in Nat
      /\ \A j \in 1..n : j \in 1..Len(s) /\ j # n + 1 /\ j < n + 1
    OBVIOUS
<1>1. /\ g0 \in 1..k
      /\ values[r] # 0 => \A g \in 1..k : p.m_Sizes[g0] <= p.m_Sizes[g]
    BY <1>0, IndexOfSmallestIn
<1>2. AddedTo(q, p, g0, r, values[r], k)
    <2>1. r \in R
        BY <1>0
    <2> HIDE DEF r
    <2>2. QED
        BY <2>1, PlacedIn
<1> HIDE DEF r, g0, q
<1>3. p.m_Partitions \in [1..k -> Seq(R)] /\ p.m_Sizes \in [1..k -> Nat]
    BY DEF Results
<1>4. /\ \A g \in 1..k : g # g0 => q.m_Partitions[g] = p.m_Partitions[g] /\ q.m_Sizes[g] = p.m_Sizes[g]
      /\ q.m_Partitions[g0] = Append(p.m_Partitions[g0], r)
      /\ q.m_Sizes[g0] = p.m_Sizes[g0] + values[r]
    BY <1>1, <1>2 DEF AddedTo
<1>5. PICK w \in Seq(R) : w = p.m_Partitions[g0]
    BY <1>1, <1>3
<1>6. \A i \in 1..Len(w) : values[w[i]] \in Nat /\ values[w[i]] >= values[r] /\ w[i] # r
    <2> TAKE i \in 1..Len(w)
    <2>1. InGroups(p, k, w[i])
        BY <1>1, <1>5 DEF InGroups
    <2>2. PICK j \in 1..n : s[j] = w[i]
        BY <2>1 DEF Grouped
    <2>3. j \in 1..Len(s) /\ n + 1 \in 1..Len(s) /\ j < n + 1 /\ j # n + 1
        BY <1>0
    <2>4. w[i] \in R
        OBVIOUS
    <2>5. QED
        BY <2>2, <2>3, <2>4 DEF r
<1>7. ASSUME NEW g \in 1..k PROVE q.m_Sizes[g] = TotalOf(values, Range(q.m_Partitions[g]))
    <2>0. p.m_Sizes[g] = TotalOf(values, Range(p.m_Partitions[g]))
        BY DEF Balanced
    <2>1. CASE g # g0
        BY <1>4, <2>0, <2>1
    <2>2. CASE g = g0
        <3>1. Range(Append(w, r)) = Range(w) \cup {r} /\ Range(w) \in SUBSET R
            BY <1>0, RangeAppended
        <3>2. r \notin Range(w)
            <4>1. \A x \in Range(w) : \E i \in 1..Len(w) : w[i] = x
                BY DEF Range
            <4>2. QED
                BY <1>6, <4>1
        <3>3. PICK S \in SUBSET R : S = Range(Append(w, r)) /\ r \in S /\ S \ {r} = Range(w)
            BY <1>0, <3>1, <3>2
        <3>4. IsFiniteSet(S) /\ \A x \in S : values[x] \in Nat
            BY FS_Subset
        <3>5. /\ TotalOf(values, S) = values[r] + TotalOf(values, S \ {r})
              /\ TotalOf(values, S \ {r}) \in Nat
            BY <3>3, <3>4, TotalWithout
        <3>6. q.m_Sizes[g0] = TotalOf(values, S \ {r}) + values[r] /\ q.m_Partitions[g0] = Append(w, r)
            BY <1>4, <1>5, <2>0, <2>2, <3>3
        <3>7. q.m_Sizes[g0] = TotalOf(values, S)
            BY <1>0, <3>5, <3>6
        <3>8. QED
            BY <2>2, <3>3, <3>6, <3>7
    <2>3. QED
        BY <2>1, <2>2
<1>8. ASSUME NEW g \in 1..k, NEW h \in 1..k, NEW i \in 1..Len(q.m_Partitions[g]),
             values[q.m_Partitions[g][i]] > 0
      PROVE  q.m_Sizes[g] <= q.m_Sizes[h] + values[q.m_Partitions[g][i]]
    <2>1. PICK a, b, c, v \in Nat : a = p.m_Sizes[g] /\ b = p.m_Sizes[h] /\ c = p.m_Sizes[g0] /\ v = values[r]
        BY <1>0, <1>1, <1>3
    <2>2. PICK d \in Nat : d = q.m_Sizes[h] /\ d >= b /\ (h = g0 => d = c + v)
        <3>1. h # g0 => q.m_Sizes[h] = b
            BY <1>4, <2>1
        <3>2. h = g0 => q.m_Sizes[h] = c + v /\ b = c
            BY <1>4, <2>1
        <3>3. b \in Nat /\ c + v \in Nat /\ c + v >= c
            OBVIOUS
        <3>4. QED
            BY <3>1, <3>2, <3>3
    <2>3. CASE g # g0
        <3>1. /\ i \in 1..Len(p.m_Partitions[g]) /\ q.m_Partitions[g][i] = p.m_Partitions[g][i]
              /\ q.m_Sizes[g] = a
            BY <1>4, <2>1, <2>3
        <3>2. p.m_Partitions[g] \in Seq(R)
            BY <1>3
        <3>3. p.m_Partitions[g][i] \in R
            BY <3>1, <3>2
        <3>4. PICK x \in Nat : x = values[p.m_Partitions[g][i]]
            BY <3>3
        <3>5. a <= b + x
            BY <1>8, <2>1, <3>1, <3>4 DEF Balanced
        <3>6. b <= d
            BY <2>2
        <3>7. a <= d + x
            BY <3>5, <3>6, AddBounds, Zenon
        <3>8. QED
            BY <2>2, <3>1, <3>4, <3>7
    <2>4. CASE g = g0
        <3>0. /\ q.m_Partitions[g] = Append(w, r) /\ q.m_Sizes[g] = c + v
              /\ Len(Append(w, r)) = Len(w) + 1 /\ Append(w, r)[Len(w) + 1] = r
              /\ (\A j \in 1..Len(w) : Append(w, r)[j] = w[j]) /\ Len(w) \in Nat
            <4>1. q.m_Partitions[g] = Append(w, r) /\ q.m_Sizes[g] = c + v
                BY <1>4, <1>5, <2>1, <2>4
            <4>2. /\ Len(Append(w, r)) = Len(w) + 1 /\ Append(w, r)[Len(w) + 1] = r
                  /\ \A j \in 1..Len(w) : Append(w, r)[j] = w[j]
                BY <1>0
            <4>3. Len(w) \in Nat
                OBVIOUS
            <4>4. QED
                BY <4>1, <4>2, <4>3
        <3>1. CASE i = Len(w) + 1
            <4>1. values[q.m_Partitions[g][i]] = v /\ v > 0
                BY <1>8, <2>1, <3>0, <3>1
            <4>2. c <= b
                <5>1. values[r] # 0
                    BY <2>1, <4>1
                <5>2. p.m_Sizes[g0] <= p.m_Sizes[h]
                    BY <1>1, <5>1
                <5>3. QED
                    BY <2>1, <5>2
            <4>3. c + v <= d + v
                <5>1. b <= d /\ v <= v
                    BY <2>2
                <5>2. QED
                    BY <4>2, <5>1, AddBounds, Zenon
            <4>4. QED
                BY <2>2, <3>0, <4>1, <4>3
        <3>2. CASE i # Len(w) + 1
            <4>1. i \in 1..Len(w) /\ q.m_Partitions[g][i] = w[i]
                BY <3>0, <3>2
            <4>2. PICK x \in Nat : x = values[w[i]] /\ x >= v /\ x > 0
                BY <1>6, <1>8, <2>1, <4>1
            <4>3. c <= b + x
                BY <1>1, <1>5, <2>1, <4>1, <4>2 DEF Balanced
            <4>4. c + v <= d + x
                <5>1. b <= d /\ v <= x
                    BY <2>2, <4>2
                <5>2. CASE v = 0
                    <6>1. c <= d + x
                        BY <4>3, <5>1, AddBounds, Zenon
                    <6>2. c + v = c
                        BY <5>2
                    <6>3. QED
                        BY <6>1, <6>2
                <5>3. CASE v # 0
                    <6>1. p.m_Sizes[g0] <= p.m_Sizes[h]
                        BY <1>1, <2>1, <5>3
                    <6>2. c <= d
                        BY <2>1, <5>1, <6>1, AddBounds, Zenon
                    <6>3. QED
                        BY <5>1, <6>2, AddBounds, Zenon
                <5>4. QED
                    BY <5>2, <5>3
            <4>5. QED
                BY <2>2, <3>0, <4>1, <4>2, <4>4
        <3>3. QED
            BY <3>1, <3>2
    <2>5. QED
        BY <2>3, <2>4
<1>9. Balanced(q, values, k)
    BY <1>7, <1>8 DEF Balanced
<1>10. QED
    BY <1>9 DEF q, r
(* What holds of all that PartitionGreedily may return *)
LEMMA GreedilyPlaced ==
    ASSUME NEW R, IsFiniteSet(R), NEW k \in 1..Cardinality(R), NEW values \in [R -> Nat],
           NEW p \in PartitionGreedily(values, k)
    PROVE  /\ p \in Results(R, k) /\ Balanced(p, values, k)
           /\ \E s \in Injection(1..Cardinality(R), R) : Grouped(p, values, k, s, Cardinality(R))
<1>0. Cardinality(R) \in Nat /\ k \in Nat \ {0}
    BY FS_CardinalityType
<1>1. PICK s \in Sorted(values) : p = PlacedInOrder(values, k, s)
    BY DEF PartitionGreedily
<1>2. /\ s \in [1..Cardinality(R) -> R] /\ \A i, j \in 1..Cardinality(R) : i # j => s[i] # s[j]
      /\ \A i, j \in 1..Cardinality(R) : i < j => values[s[i]] >= values[s[j]]
    BY DEF Sorted, SetToSeqs
<1>3. s \in Seq(R) /\ Len(s) = Cardinality(R)
    BY <1>0, <1>2
<1>4. PICK f \in [0..Len(s) -> Results(R, k)] : Builds(f, values, k, s)
    BY <1>0, <1>3, PlacedInOrderBuilds
<1> DEFINE S == {n \in Nat : n <= Len(s) => Grouped(f[n], values, k, s, n) /\ Balanced(f[n], values, k)}
<1>5. 0 \in S
    <2>1. /\ f[0].m_Partitions = [g \in 1..k |-> <<>>]
          /\ f[0].m_Sizes = [g \in 1..k |-> 0]
        BY <1>4 DEF Builds, NobodyPlaced
    <2>2. \A g \in 1..k : f[0].m_Partitions[g] = <<>> /\ Len(f[0].m_Partitions[g]) = 0 /\ f[0].m_Sizes[g] = 0
        BY <2>1
    <2>3. \A r : ~InGroups(f[0], k, r)
        BY <2>2 DEF InGroups
    <2>4. Grouped(f[0], values, k, s, 0)
        BY <2>2, <2>3 DEF Grouped
    <2>5. Balanced(f[0], values, k)
        <3>1. \A g \in 1..k : Range(f[0].m_Partitions[g]) = {} /\ TotalOf(values, Range(f[0].m_Partitions[g])) = 0
            <4>1. Range(<<>>) = {}
                BY DEF Range
            <4>2. TotalOf(values, {}) = 0
                BY TotalOfNone
            <4>3. QED
                BY <2>2, <4>1, <4>2
        <3>2. QED
            BY <2>2, <3>1 DEF Balanced
    <2>6. QED
        BY <2>4, <2>5
<1>6. ASSUME NEW n \in Nat, n \in S PROVE n + 1 \in S
    <2> SUFFICES ASSUME n + 1 <= Len(s) PROVE Grouped(f[n + 1], values, k, s, n + 1) /\ Balanced(f[n + 1], values, k)
        OBVIOUS
    <2>1. Grouped(f[n], values, k, s, n) /\ Balanced(f[n], values, k) /\ f[n] \in Results(R, k)
        BY <1>0, <1>3, <1>6
    <2>2. f[n + 1] = Placed(f[n], values, s[n + 1])
        <3>1. n + 1 \in 1..Len(s) /\ (n + 1) - 1 = n
            BY <1>0, <1>3
        <3>2. QED
            BY <1>4, <3>1 DEF Builds
    <2>3. Grouped(Placed(f[n], values, s[n + 1]), values, k, s, n + 1)
        BY <1>0, <1>2, <1>3, <2>1, PlacedGrouped
    <2>4. Balanced(Placed(f[n], values, s[n + 1]), values, k)
        BY <1>0, <1>2, <1>3, <2>1, PlacedBalanced
    <2>5. QED
        BY <2>2, <2>3, <2>4
<1>7. Nat \subseteq S
    <2> HIDE DEF S
    <2> QED BY <1>5, <1>6, NumberInduction
<1>8. p \in Results(R, k) /\ Grouped(p, values, k, s, Len(s)) /\ Balanced(p, values, k)
    BY <1>0, <1>1, <1>3, <1>4, <1>7 DEF Builds
<1>9. s \in Injection(1..Cardinality(R), R)
    BY <1>2 DEF Injection, IsInjective
<1>10. QED
    BY <1>3, <1>8, <1>9

(* With at least as many ranks as groups, every rank is at one place of one group, *)
(* and no group is empty: otherwise the others would hold one rank each, fewer     *)
(* than there are.                                                                 *)
LEMMA GreedilyGrouped ==
    ASSUME NEW R, IsFiniteSet(R), NEW k \in 1..Cardinality(R), NEW values \in [R -> Nat],
           NEW p \in PartitionGreedily(values, k)
    PROVE  /\ p \in Results(R, k)
           /\ \A r \in R : InGroups(p, k, r)
           /\ \A g, h \in 1..k : \A i \in 1..Len(p.m_Partitions[g]), j \in 1..Len(p.m_Partitions[h]) :
                  p.m_Partitions[g][i] = p.m_Partitions[h][j] => g = h /\ i = j
           /\ \A g \in 1..k : Len(p.m_Partitions[g]) > 0
<1>0. Cardinality(R) \in Nat /\ k \in Nat \ {0}
    BY FS_CardinalityType
<1>1. PICK s \in Injection(1..Cardinality(R), R) : p \in Results(R, k) /\ Grouped(p, values, k, s, Cardinality(R))
    BY GreedilyPlaced
<1>2. ASSUME NEW r \in R PROVE InGroups(p, k, r)
    <2>1. s \in Injection(1..Cardinality(R), R)
        OBVIOUS
    <2>2. Cardinality(1..Cardinality(R)) = Cardinality(R)
        BY <1>0, FS_Interval
    <2>3. s \in Surjection(1..Cardinality(R), R)
        BY <2>1, <2>2, FS_Injection
    <2>4. PICK j \in 1..Cardinality(R) : s[j] = r
        BY <2>3 DEF Surjection
    <2>5. QED
        BY <1>1, <2>4 DEF Grouped
<1>3. ASSUME NEW e \in 1..k, Len(p.m_Partitions[e]) = 0 PROVE FALSE
    <2> DEFINE group == [r \in R |-> CHOOSE g \in 1..k : \E i \in 1..Len(p.m_Partitions[g]) : p.m_Partitions[g][i] = r]
    <2>1. \A g \in 1..k : Len(p.m_Partitions[g]) <= 1 /\ Len(p.m_Partitions[g]) \in Nat
        <3>1. p.m_Partitions \in [1..k -> Seq(R)]
            BY <1>1 DEF Results
        <3>2. \A g \in 1..k : Len(p.m_Partitions[g]) \in Nat
            BY <3>1
        <3>3. (\E h \in 1..k : Len(p.m_Partitions[h]) = 0) => \A h \in 1..k : Len(p.m_Partitions[h]) <= 1
            BY <1>1 DEF Grouped
        <3>4. QED
            BY <1>3, <3>2, <3>3
    <2>2. ASSUME NEW r \in R
          PROVE  /\ group[r] \in 1..k /\ group[r] # e
                 /\ p.m_Partitions[group[r]][1] = r
        <3>1. group[r] \in 1..k /\ \E i \in 1..Len(p.m_Partitions[group[r]]) : p.m_Partitions[group[r]][i] = r
            BY <1>2, <2>2 DEF InGroups
        <3> HIDE DEF group
        <3>2. PICK i \in 1..Len(p.m_Partitions[group[r]]) : p.m_Partitions[group[r]][i] = r
            BY <3>1
        <3>3. i = 1
            BY <2>1, <3>1, <3>2
        <3>4. QED
            BY <1>3, <3>1, <3>2, <3>3
    <2> DEFINE T == (1..k) \ {e}
    <2>3. IsFiniteSet(1..k) /\ Cardinality(1..k) = k
        BY <1>0, FS_Interval
    <2>4. IsFiniteSet(T) /\ Cardinality(T) = k - 1
        BY <2>3, FS_RemoveElement
    <2>5. group \in [R -> T]
        BY <2>2
    <2> HIDE DEF group, T
    <2>6. Cardinality(T) < Cardinality(R)
        BY <1>0, <2>4
    <2>7. \E x, y \in R : x # y /\ group[x] = group[y]
        BY <2>4, <2>5, <2>6, FS_PigeonHole
    <2>8. QED
        BY <2>2, <2>7
<1>4. \A g \in 1..k : Len(p.m_Partitions[g]) > 0
    BY <1>1, <1>3 DEF Results
<1>5. QED
    BY <1>1, <1>2, <1>4 DEF Grouped

-----------------------------------------------------------------------------
(* The run goes through its plan, and the groups are those of this step. *)
PlanInv ==
    /\ plan \in Plans
    /\ step \in 1..Len(plan.steps)
    /\ block \in 1..Len(plan.steps[step])
    /\ m_Partitioning \in PartitionGreedily(plan.steps[step][1], plan.NumSubFiles)

(* The first step is partitioned when the writer is created. *)
LEMMA InitPlanInv == Init => PlanInv
<1> SUFFICES ASSUME Init PROVE PlanInv
    OBVIOUS
<1>1. /\ plan \in Plans /\ step = 1 /\ block = 1
      /\ m_Partitioning \in PartitionGreedily(plan.steps[1][1], plan.NumSubFiles)
    BY DEF Init, size
<1>2. Len(plan.steps) \in Nat \ {0}
    BY <1>1, PlansAssumption
<1>3. Len(plan.steps[1]) \in Nat \ {0}
    <2>1. 1 \in DOMAIN plan.steps /\ plan.steps[1] \in Seq([Rank -> Nat])
        BY <1>1, <1>2, PlansAssumption
    <2>2. plan.steps[1] # <<>>
        BY <1>1, <2>1, PlansAssumption
    <2>3. QED
        BY <2>1, <2>2
<1>4. QED
    BY <1>1, <1>2, <1>3 DEF PlanInv

(* No handler and no thread changes the groups, only the next call of WriteData does. *)
LEMMA OnlyNextCallChangesPlan ==
    ASSUME [Next]_vars
    PROVE  NextCall \/ UNCHANGED callVars
<1>1. ASSUME NEW r \in Rank, NEW q \in Rank, Receive(r, q) PROVE UNCHANGED callVars
    BY <1>1 DEF Receive, Received, DoWrite, WriteCompletion, WriteMore, GroupClose, GroupCloseAck,
                WriterIdle, WriterCapacity, StatusInquiry, StatusReply, RerouteRequest, RerouteReject, RerouteAck,
                CoordinatorReceived, Misdelivered
<1>2. ASSUME NEW r \in Rank, Work(r) PROVE UNCHANGED callVars
    BY <1>2 DEF Work
<1>3. ASSUME NEW r \in Rank, Main(r) PROVE UNCHANGED callVars
    BY <1>3 DEF Main, OwnStep, WriteV, FinishWriting, Join, ChainWriteV, ChainPass, ChainReturn
<1>4. ASSUME NEW r \in Rank, Comm(r) PROVE UNCHANGED callVars
    BY <1>1, <1>2, <1>4 DEF Comm, FinishTurn, ProbeNothing
<1>5. Terminated \/ UNCHANGED vars => UNCHANGED callVars
    BY DEF Terminated, vars, callVars
<1>6. QED
    BY <1>3, <1>4, <1>5 DEF Next

(* A step's end partitions the ranks again; a block of a step keeps the groups. *)
LEMMA NextPlanInv == PlanInv /\ [Next]_vars => PlanInv'
<1> SUFFICES ASSUME PlanInv, [Next]_vars PROVE PlanInv'
    OBVIOUS
<1>1. CASE UNCHANGED callVars
    BY <1>1 DEF PlanInv, callVars
<1>2. CASE NextCall
    <2>0. /\ plan \in Plans /\ step \in 1..Len(plan.steps) /\ block \in 1..Len(plan.steps[step])
          /\ Len(plan.steps) \in Nat
          /\ \A i \in 1..Len(plan.steps) : plan.steps[i] \in Seq([Rank -> Nat]) /\ Len(plan.steps[i]) \in Nat \ {0}
        <3>1. plan \in Plans /\ plan.steps \in Seq(Seq([Rank -> Nat]))
            BY PlansAssumption DEF PlanInv
        <3>2. \A i \in 1..Len(plan.steps) : plan.steps[i] \in Seq([Rank -> Nat]) /\ plan.steps[i] # <<>>
            BY <3>1, PlansAssumption
        <3>3. QED
            BY <3>1, <3>2 DEF PlanInv
    <2>1. plan' = plan
        BY <1>2 DEF NextCall
    <2>2. CASE block = Len(plan.steps[step])
        <3>1. /\ step # Len(plan.steps) /\ step' = step + 1 /\ block' = 1
              /\ m_Partitioning' \in PartitionGreedily(plan.steps[step'][block'], plan.NumSubFiles)
            BY <1>2, <2>2 DEF NextCall
        <3>2. step' \in 1..Len(plan.steps)
            BY <2>0, <3>1
        <3>3. QED
            BY <2>0, <2>1, <3>1, <3>2 DEF PlanInv
    <2>3. CASE block # Len(plan.steps[step])
        <3>1. step' = step /\ block' = block + 1 /\ m_Partitioning' = m_Partitioning
            BY <1>2, <2>3 DEF NextCall
        <3>2. QED
            BY <2>0, <2>1, <2>3, <3>1 DEF PlanInv
    <2>4. QED
        BY <2>2, <2>3
<1>3. QED
    BY <1>1, <1>2, OnlyNextCallChangesPlan

(* Whatever the threads do within a step, its groups are those it began with. *)
THEOREM PlansAreKept == Spec => []PlanInv
<1>1. QED
    BY InitPlanInv, NextPlanInv, PTL DEF Spec

(* The groups of a step, as they are used by the engine *)
LEMMA PlanInvGroups ==
    ASSUME PlanInv
    PROVE  /\ plan.NumSubFiles \in 1..Cardinality(Rank)
           /\ plan.steps[step][1] \in [Rank -> Nat]
           /\ Groups = 1..plan.NumSubFiles
           /\ m_Partitioning \in Results(Rank, plan.NumSubFiles)
           /\ \A r \in Rank : InGroups(m_Partitioning, plan.NumSubFiles, r)
           /\ \A g, h \in Groups : \A i \in 1..Len(Partition(g)), j \in 1..Len(Partition(h)) :
                  Partition(g)[i] = Partition(h)[j] => g = h /\ i = j
           /\ \A g \in Groups : Partition(g) \in Seq(Rank) /\ Len(Partition(g)) > 0
<1>1. plan.NumSubFiles \in 1..Cardinality(Rank) /\ IsFiniteSet(Rank) /\ plan.steps \in Seq(Seq([Rank -> Nat]))
    BY PlansAssumption DEF PlanInv
<1>2. plan.steps[step] \in Seq([Rank -> Nat]) /\ plan.steps[step] # <<>>
    BY <1>1, PlansAssumption DEF PlanInv
<1>3. plan.steps[step][1] \in [Rank -> Nat]
    BY <1>2
<1>4. PICK k, values : k = plan.NumSubFiles /\ values = plan.steps[step][1]
    OBVIOUS
<1>5. /\ k \in 1..Cardinality(Rank) /\ values \in [Rank -> Nat]
      /\ m_Partitioning \in PartitionGreedily(values, k)
    BY <1>1, <1>3, <1>4 DEF PlanInv
<1>6. /\ m_Partitioning \in Results(Rank, k)
      /\ \A r \in Rank : InGroups(m_Partitioning, k, r)
      /\ \A g, h \in 1..k : \A i \in 1..Len(m_Partitioning.m_Partitions[g]), j \in 1..Len(m_Partitioning.m_Partitions[h]) :
             m_Partitioning.m_Partitions[g][i] = m_Partitioning.m_Partitions[h][j] => g = h /\ i = j
      /\ \A g \in 1..k : Len(m_Partitioning.m_Partitions[g]) > 0
    BY <1>1, <1>5, GreedilyGrouped
<1>7. m_Partitioning.m_Partitions \in [1..k -> Seq(Rank)]
    BY <1>6 DEF Results
<1>8. Groups = 1..k /\ \A g \in 1..k : Partition(g) \in Seq(Rank)
    BY <1>7 DEF Groups, Partition
<1>9. QED
    BY <1>1, <1>3, <1>4, <1>6, <1>8 DEF Partition

(* Every rank is in one group at one place, and every group has a first rank, its *)
(* subcoordinator, which ReroutingCommunicationLoop looks up unasked.             *)
THEOREM RanksAreGrouped == Spec => []EveryoneGrouped
<1>1. PlanInv => EveryoneGrouped
    <2> SUFFICES ASSUME PlanInv PROVE EveryoneGrouped
        OBVIOUS
    <2>1. ASSUME NEW r \in Rank PROVE Cardinality({g \in Groups : r \in Range(Partition(g))}) = 1
        <3>1. PICK g \in Groups : \E i \in 1..Len(Partition(g)) : Partition(g)[i] = r
            BY PlanInvGroups DEF InGroups, Partition
        <3>2. \A h \in Groups : r \in Range(Partition(h)) <=> h = g
            <4> TAKE h \in Groups
            <4>1. /\ DOMAIN Partition(g) = 1..Len(Partition(g)) /\ DOMAIN Partition(h) = 1..Len(Partition(h))
                BY PlanInvGroups
            <4>2. \A i \in 1..Len(Partition(g)), j \in 1..Len(Partition(h)) :
                      Partition(g)[i] = Partition(h)[j] => g = h /\ i = j
                BY PlanInvGroups
            <4>3. r \in Range(Partition(h)) <=> \E j \in 1..Len(Partition(h)) : Partition(h)[j] = r
                BY <4>1 DEF Range
            <4>4. PICK i \in 1..Len(Partition(g)) : Partition(g)[i] = r
                BY <3>1
            <4>5. QED
                BY <4>2, <4>3, <4>4
        <3>3. {h \in Groups : r \in Range(Partition(h))} = {g}
            BY <3>2
        <3>4. QED
            BY <3>3, FS_Singleton
    <2>2. ASSUME NEW g \in Groups PROVE IsInjective(Partition(g)) /\ Partition(g) # <<>>
        <3>1. Partition(g) \in Seq(Rank) /\ Len(Partition(g)) > 0 /\ DOMAIN Partition(g) = 1..Len(Partition(g))
            BY PlanInvGroups
        <3>2. \A i, j \in 1..Len(Partition(g)) : Partition(g)[i] = Partition(g)[j] => i = j
            BY PlanInvGroups
        <3>3. Partition(g) # <<>>
            BY <3>1
        <3>4. QED
            BY <3>1, <3>2, <3>3 DEF IsInjective
    <2>3. QED
        BY <2>1, <2>2 DEF EveryoneGrouped
<1>2. QED
    BY <1>1, PlansAreKept, PTL

(* The sums of GroupsBalanced *)
LEMMA TotalIsTotalOf ==
    ASSUME NEW S
    PROVE  Total(S) = TotalOf(plan.steps[step][1], S)
BY DEF Total, TotalOf

(* Without any one of its ranks that have data no group has more than another: the *)
(* promise of greedy number partitioning, which PartitionGreedily implements.      *)
THEOREM GroupsAreBalanced == Spec => []GroupsBalanced
<1>1. PlanInv => GroupsBalanced
    <2> SUFFICES ASSUME PlanInv, NEW g \in Groups, NEW h \in Groups, NEW r \in Range(Partition(g)),
                        plan.steps[step][1][r] > 0
                 PROVE  Total(Range(Partition(g)) \ {r}) <= Total(Range(Partition(h)))
        BY DEF GroupsBalanced
    <2>1. PICK k, values : k = plan.NumSubFiles /\ values = plan.steps[step][1]
        OBVIOUS
    <2>2. /\ k \in 1..Cardinality(Rank) /\ values \in [Rank -> Nat] /\ IsFiniteSet(Rank)
          /\ m_Partitioning \in PartitionGreedily(values, k) /\ Groups = 1..k
        BY <2>1, PlanInvGroups, PlansAssumption DEF PlanInv
    <2>3. Balanced(m_Partitioning, values, k)
        BY <2>2, GreedilyPlaced
    <2>4. \A e \in Groups : /\ Range(Partition(e)) \in SUBSET Rank
                             /\ IsFiniteSet(Range(Partition(e)))
                             /\ \A x \in Range(Partition(e)) : values[x] \in Nat
        <3> TAKE e \in Groups
        <3>1. Partition(e) \in Seq(Rank)
            BY PlanInvGroups
        <3>2. Range(Partition(e)) \in SUBSET Rank
            BY <3>1 DEF Range
        <3>3. QED
            BY <2>2, <3>2, FS_Subset
    <2>5. PICK i \in 1..Len(Partition(g)) : Partition(g)[i] = r
        <3>1. DOMAIN Partition(g) = 1..Len(Partition(g))
            BY PlanInvGroups
        <3>2. QED
            BY <3>1 DEF Range
    <2>6. PICK a, b : a = m_Partitioning.m_Sizes[g] /\ b = m_Partitioning.m_Sizes[h]
        OBVIOUS
    <2>7. /\ a = TotalOf(values, Range(Partition(g))) /\ b = TotalOf(values, Range(Partition(h)))
          /\ a <= b + values[r]
        BY <2>1, <2>2, <2>3, <2>5, <2>6 DEF Balanced, Partition
    <2>8. /\ TotalOf(values, Range(Partition(g)) \ {r}) \in Nat
          /\ a = values[r] + TotalOf(values, Range(Partition(g)) \ {r})
        BY <2>4, <2>7, TotalWithout
    <2>9. b \in Nat
        <3>1. m_Partitioning.m_Sizes \in [1..k -> Nat]
            BY <2>1, PlanInvGroups DEF Results
        <3>2. QED
            BY <2>2, <2>6, <3>1
    <2>10. values[r] \in Nat
        BY <2>4
    <2>11. TotalOf(values, Range(Partition(g)) \ {r}) <= b
        BY <2>7, <2>8, <2>9, <2>10
    <2>12. QED
        BY <2>1, <2>7, <2>11, TotalIsTotalOf
<1>2. QED
    BY <1>1, PlansAreKept, PTL

(* The coordinators of a step are ranks, and every rank has a group. *)
LEMMA PlanInvCoords ==
    ASSUME PlanInv
    PROVE  /\ Rank \subseteq Nat /\ NoRank \notin Rank /\ Aborted \notin Rank
           /\ 1 \in Groups /\ \A g \in Groups : SubCoord(g) \in Rank /\ SubCoord(g) \in SubCoords
           /\ SubCoords \subseteq Rank /\ GlobalCoord \in SubCoords
           /\ \A r \in Rank : GroupOf(r) \in Groups /\ scRankToIndex(r) \in Groups
           /\ size \in [Rank -> Nat]
<1>1. /\ plan.NumSubFiles \in Nat \ {0} /\ Groups = 1..plan.NumSubFiles
      /\ \A g \in Groups : Partition(g) \in Seq(Rank) /\ Len(Partition(g)) > 0
      /\ \A r \in Rank : InGroups(m_Partitioning, plan.NumSubFiles, r)
    BY PlanInvGroups, PlansAssumption, FS_CardinalityType
<1>2. 1 \in Groups
    BY <1>1
<1>3. \A g \in Groups : SubCoord(g) \in Rank /\ SubCoord(g) \in SubCoords
    BY <1>1 DEF SubCoord, SubCoords
<1>4. SubCoords \subseteq Rank /\ GlobalCoord \in SubCoords
    BY <1>2, <1>3 DEF SubCoords, GlobalCoord
<1>5. ASSUME NEW r \in Rank PROVE GroupOf(r) \in Groups /\ scRankToIndex(r) \in Groups
    <2>1. PICK g \in Groups : \E i \in 1..Len(Partition(g)) : Partition(g)[i] = r
        BY <1>1 DEF InGroups, Partition
    <2>2. r \in Range(Partition(g))
        BY <1>1, <2>1 DEF Range
    <2>3. GroupOf(r) \in Groups
        BY <2>2 DEF GroupOf
    <2>4. QED
        BY <1>2, <2>3 DEF scRankToIndex
<1>6. size \in [Rank -> Nat]
    <2>1. plan.steps \in Seq(Seq([Rank -> Nat])) /\ step \in 1..Len(plan.steps) /\ block \in 1..Len(plan.steps[step])
        BY PlansAssumption DEF PlanInv
    <2>2. plan.steps[step] \in Seq([Rank -> Nat])
        BY <2>1
    <2>3. QED
        BY <2>1, <2>2 DEF size
<1>7. Rank \subseteq Nat /\ NoRank \notin Rank /\ Aborted \notin Rank
    BY PlansAssumption DEF PlanInv, NoRank, Aborted
<1>8. QED
    BY <1>2, <1>3, <1>4, <1>5, <1>6, <1>7

(* Within a call the groups and their coordinators stay, and so do the message types. *)
LEMMA CallKept ==
    ASSUME UNCHANGED callVars
    PROVE  /\ plan' = plan /\ step' = step /\ block' = block /\ m_Partitioning' = m_Partitioning
           /\ m_SubstreamDataPos' = m_SubstreamDataPos /\ start' = start
           /\ Groups' = Groups /\ SubCoords' = SubCoords /\ GlobalCoord' = GlobalCoord
           /\ rerouting' = rerouting /\ size' = size /\ Message' = Message
           /\ \A g : SubCoord(g)' = SubCoord(g) /\ Partition(g)' = Partition(g)
<1>1. /\ plan' = plan /\ step' = step /\ block' = block /\ m_Partitioning' = m_Partitioning
      /\ m_SubstreamDataPos' = m_SubstreamDataPos /\ start' = start
    BY DEF callVars
<1>2. Groups' = Groups /\ \A g : SubCoord(g)' = SubCoord(g) /\ Partition(g)' = Partition(g)
    BY <1>1 DEF Groups, SubCoord, Partition
<1>3. SubCoords' = SubCoords /\ GlobalCoord' = GlobalCoord
    BY <1>1, <1>2 DEF SubCoords, GlobalCoord, SubCoord, Partition, Groups
<1>4. rerouting' = rerouting /\ size' = size
    BY <1>1 DEF rerouting, Reroutable, size
<1>5. Message' = Message
    BY <1>2 DEF Message, Pos
<1>6. QED
    BY <1>1, <1>2, <1>3, <1>4, <1>5

-----------------------------------------------------------------------------
(* Messages *)

Entry == [own : Nat, msg : Message]

(* What a message of each type carries *)
LEMMA MessageFields ==
    ASSUME NEW m \in Message
    PROVE  /\ m.type = "DO_WRITE" => m.index \in Groups /\ m.offset \in Nat
           /\ m.type = "WRITE_COMPLETION" => m.offset \in Nat
           /\ m.type \in {"GROUP_CLOSE_ACK", "WRITER_IDLE", "WRITER_CAPACITY"} => m.index \in Groups
           /\ m.type = "STATUS_REPLY" => m.index \in Groups /\ m.size \in Nat
           /\ m.type \in {"REROUTE_REQUEST", "REROUTE_REJECT", "REROUTE_ACK"} => m.src \in Rank /\ m.dest \in Rank
           /\ m.type \in {"REROUTE_ACK", "WRITE_MORE"} => m.rank \in Rank
BY DEF Message, Pos

(* A request is answered with a message of its fields. *)
LEMMA AnswerTypes ==
    ASSUME NEW m \in Message, m.type = "REROUTE_REQUEST", NEW w \in Rank
    PROVE  /\ [m EXCEPT !.type = "REROUTE_REJECT"] \in Message
           /\ [m EXCEPT !.type = "REROUTE_ACK", !.rank = w] \in Message
<1>1. m \in [type : {"REROUTE_REQUEST", "REROUTE_REJECT"}, src : Rank, dest : Rank, rank : {NoRank}]
    BY DEF Message
<1>2. /\ [m EXCEPT !.type = "REROUTE_REJECT"] \in [type : {"REROUTE_REQUEST", "REROUTE_REJECT"}, src : Rank, dest : Rank, rank : {NoRank}]
      /\ [m EXCEPT !.type = "REROUTE_ACK", !.rank = w] \in [type : {"REROUTE_ACK"}, src : Rank, dest : Rank, rank : Rank]
    BY <1>1
<1>3. QED
    BY <1>2 DEF Message

LEMMA ToType ==
    ASSUME NEW S, NEW m \in Message
    PROVE  To(S, m) \in [Rank -> Seq(Message)] /\ Nothing \in [Rank -> Seq(Message)]
BY DEF To, Nothing

LEMMA NothingType == Nothing \in [Rank -> Seq(Message)]
BY DEF Nothing

(* A function over 1..n is a sequence. *)
LEMMA FunctionIsSeq ==
    ASSUME NEW S, NEW n \in Nat, NEW s \in [1..n -> S]
    PROVE  s \in Seq(S) /\ Len(s) = n
OBVIOUS

(* What an exchange leaves of a channel: its head is received, the rest stays in order *)
LEMMA KeptType ==
    ASSUME channel \in [Rank \X Rank -> Seq(Entry)], NEW r \in Rank, NEW q \in Rank \cup {NoRank},
           q \in Rank => channel[<<q, r>>] # <<>>, NoRank \notin Rank, NEW c \in Rank \X Rank
    PROVE  /\ Kept(c, r, q) \in Seq(Entry)
           /\ Len(Kept(c, r, q)) = IF c = <<q, r>> THEN Len(channel[c]) - 1 ELSE Len(channel[c])
           /\ \A i \in 1..Len(Kept(c, r, q)) :
                  Kept(c, r, q)[i].msg = IF c = <<q, r>> THEN channel[c][i + 1].msg ELSE channel[c][i].msg
<1> DEFINE rest == IF c = <<q, r>> THEN Tail(channel[c]) ELSE channel[c]
<1>1. /\ rest \in Seq(Entry)
      /\ Len(rest) = IF c = <<q, r>> THEN Len(channel[c]) - 1 ELSE Len(channel[c])
      /\ \A i \in 1..Len(rest) : rest[i] = IF c = <<q, r>> THEN channel[c][i + 1] ELSE channel[c][i]
    <2>1. channel[c] \in Seq(Entry)
        OBVIOUS
    <2>2. CASE c = <<q, r>>
        <3>1. channel[c] # <<>>
            BY <2>2
        <3> HIDE DEF Entry
        <3>2. QED
            BY <2>1, <2>2, <3>1
    <2>3. CASE c # <<q, r>>
        BY <2>1, <2>3
    <2>4. QED
        BY <2>2, <2>3
<1> DEFINE eased == [i \in DOMAIN rest |-> [rest[i] EXCEPT !.own = IF @ > 0 THEN @ - 1 ELSE 0]]
<1>2. /\ eased \in Seq(Entry) /\ Len(eased) = Len(rest)
      /\ \A i \in 1..Len(rest) : eased[i].msg = rest[i].msg
    <2>1. PICK n \in Nat : n = Len(rest)
        BY <1>1
    <2>2. DOMAIN rest = 1..n /\ \A i \in 1..n : rest[i] \in Entry
        BY <1>1, <2>1
    <2> HIDE DEF rest
    <2>3. \A i \in 1..n : [rest[i] EXCEPT !.own = IF @ > 0 THEN @ - 1 ELSE 0] \in Entry
                          /\ [rest[i] EXCEPT !.own = IF @ > 0 THEN @ - 1 ELSE 0].msg = rest[i].msg
        BY <2>2 DEF Entry
    <2>4. eased \in [1..n -> Entry]
        BY <2>2, <2>3
    <2>5. eased \in Seq(Entry) /\ Len(eased) = n
        <3> HIDE DEF eased, Entry
        <3> QED BY <2>1, <2>4
    <2>6. QED
        BY <2>1, <2>2, <2>3, <2>5
<1>3. Kept(c, r, q) = IF q = r /\ c[2] = r THEN eased ELSE rest
    BY DEF Kept
<1> HIDE DEF rest, eased
<1>4. QED
    BY <1>1, <1>2, <1>3

LEMMA SentType ==
    ASSUME channel \in [Rank \X Rank -> Seq(Entry)], NEW r \in Rank, NEW to \in Rank,
           NEW out \in [Rank -> Seq(Message)]
    PROVE  /\ Sent(r, to, out) \in Seq(Entry)
           /\ Len(Sent(r, to, out)) = Len(out[to])
           /\ \A i \in 1..Len(out[to]) : Sent(r, to, out)[i].msg = out[to][i]
<1>1. PICK n \in Nat : n = Len(out[to]) /\ DOMAIN out[to] = 1..n /\ \A i \in 1..n : out[to][i] \in Message
    OBVIOUS
<1>2. PICK own \in Nat : own = IF r = to THEN 0 ELSE Len(channel[<<to, to>>])
    <2>1. channel[<<to, to>>] \in Seq(Entry)
        OBVIOUS
    <2>2. Len(channel[<<to, to>>]) \in Nat
        BY <2>1
    <2>3. (IF r = to THEN 0 ELSE Len(channel[<<to, to>>])) \in Nat
        BY <2>2
    <2>4. QED
        BY <2>3
<1>3. Sent(r, to, out) = [i \in 1..n |-> [own |-> own, msg |-> out[to][i]]]
    BY <1>1, <1>2 DEF Sent
<1>4. Sent(r, to, out) \in [1..n -> Entry]
    BY <1>1, <1>2, <1>3 DEF Entry
<1>5. Sent(r, to, out) \in Seq(Entry) /\ Len(Sent(r, to, out)) = n
    BY <1>1, <1>4, FunctionIsSeq
<1>6. QED
    BY <1>1, <1>3, <1>5

LEMMA ExchangedType ==
    ASSUME channel \in [Rank \X Rank -> Seq(Entry)], NEW r \in Rank, NEW q \in Rank \cup {NoRank},
           q \in Rank => channel[<<q, r>>] # <<>>, NoRank \notin Rank, NEW out \in [Rank -> Seq(Message)]
    PROVE  Exchanged(r, q, out) \in [Rank \X Rank -> Seq(Entry)]
<1>1. ASSUME NEW c \in Rank \X Rank
      PROVE  (Kept(c, r, q) \o IF c[1] = r THEN Sent(r, c[2], out) ELSE <<>>) \in Seq(Entry)
    <2>1. Kept(c, r, q) \in Seq(Entry)
        BY KeptType
    <2>2. c[2] \in Rank
        OBVIOUS
    <2>3. Sent(r, c[2], out) \in Seq(Entry)
        BY <2>2, SentType
    <2> HIDE DEF Entry
    <2>4. QED
        BY <2>1, <2>3
<1>2. QED
    BY <1>1 DEF Exchanged

-----------------------------------------------------------------------------
(* The types of the threads' variables, by the groups and the subcoordinators: *)
(* a rank that was told to write was told the index of a group.                 *)

ThreadType(groups) ==
    {t \in [main : {"wait", "write", "join", "done"}, m_ReadyToWrite : BOOLEAN, m_FinishedWriting : BOOLEAN,
            m_TargetIndex : groups \cup {0}, m_TargetCoordinator : Rank \cup {NoRank},
            m_DataPos : Nat, m_DataPosShared : BOOLEAN, m_StartDataPos : Nat, m_SubStreamIndex : groups,
            looping : BOOLEAN, receivedGroupClose : BOOLEAN, sentFinished : BOOLEAN] :
        t.m_ReadyToWrite => t.m_TargetIndex \in groups}

CoordinatorType ==
    [writerQueue : Seq(Rank), currentFilePos : Nat, writingRank : Rank \cup {NoRank},
     writeMoreCount : Nat, expectedOffset : Nat, atCapacity : BOOLEAN, sentIdle : BOOLEAN,
     expectingWriteCompletion : BOOLEAN]

Statuses == {"UNKNOWN", "WRITING", "WRITING_MORE", "REROUTE_REJECTED", "IDLE", "PENDING", "CAPACITY", "CLOSED"}

GlobalType(groups, coords) ==
    [groupState : [groups -> Statuses], firstIdleMsg : BOOLEAN, closeAcksNeeded : SUBSET coords,
     groupIdlesNeeded : SUBSET Rank, waitingForCloseAcks : BOOLEAN]

(* A completion is expected of the rank that was told to write. *)
Expecting(s) == s.expectingWriteCompletion <=> s.writingRank # NoRank

(* What the threads change within a call *)
ThreadsTyped ==
    /\ channel \in [Rank \X Rank -> Seq(Entry)]
    /\ turn \in Rank \cup {NoRank, Aborted}
    /\ token \in [Rank -> Nat \cup {NoToken}]
    /\ rank \in [Rank -> ThreadType(Groups)]
    /\ sc \in [Rank -> CoordinatorType] /\ \A r \in Rank : Expecting(sc[r])
    /\ gc \in GlobalType(Groups, SubCoords)

(* What a call begins with *)
CallTyped == m_SubstreamDataPos \in [Groups -> Nat] /\ start \in [Groups -> Nat]

TypeInv == PlanInv /\ CallTyped /\ ThreadsTyped

LEMMA TypeInvTypeOK == TypeInv => TypeOK
<1> SUFFICES ASSUME TypeInv PROVE TypeOK
    OBVIOUS
<1>1. plan \in Plans /\ step \in DOMAIN plan.steps /\ block \in DOMAIN plan.steps[step]
    <2>1. plan \in Plans /\ plan.steps \in Seq(Seq([Rank -> Nat])) /\ step \in 1..Len(plan.steps) /\ block \in 1..Len(plan.steps[step])
        BY PlansAssumption DEF TypeInv, PlanInv
    <2>2. plan.steps[step] \in Seq([Rank -> Nat])
        BY <2>1
    <2>3. QED
        BY <2>1, <2>2
<1>2. QED
    BY <1>1 DEF TypeInv, CallTyped, ThreadsTyped, TypeOK, ThreadType, CoordinatorType, GlobalType, Statuses,
                Expecting, Entry, Pos

-----------------------------------------------------------------------------
(* The call begins with threads of their types. *)

LEMMA CoordinatorsType ==
    ASSUME NEW p, NEW G, p.m_Partitions \in [G -> Seq(Rank)], NEW reroutes \in BOOLEAN, NEW pos \in [G -> Nat]
    PROVE  /\ SubCoordinators(p, reroutes, pos) \in [Rank -> CoordinatorType]
           /\ \A r \in Rank : Expecting(SubCoordinators(p, reroutes, pos)[r])
<1>1. ASSUME NEW queue \in Seq(Rank), NEW n \in Nat
      PROVE  Coordinator(queue, n) \in CoordinatorType /\ Expecting(Coordinator(queue, n))
    BY <1>1 DEF Coordinator, CoordinatorType, Expecting
<1>2. ASSUME NEW r \in Rank
      PROVE  \E queue \in Seq(Rank), n \in Nat : SubCoordinators(p, reroutes, pos)[r] = Coordinator(queue, n)
    <2> DEFINE led == {g \in DOMAIN p.m_Partitions : reroutes /\ p.m_Partitions[g][1] = r}
    <2>0. <<>> \in Seq(Rank) /\ 0 \in Nat
        OBVIOUS
    <2>1. CASE led = {}
        <3>1. SubCoordinators(p, reroutes, pos)[r] = Coordinator(<<>>, 0)
            BY <2>1 DEF SubCoordinators
        <3>2. QED
            BY <2>0, <3>1
    <2>2. CASE led # {}
        <3>1. PICK g : g = CHOOSE h \in led : TRUE
            OBVIOUS
        <3>2. g \in led
            BY <2>2, <3>1
        <3>3. SubCoordinators(p, reroutes, pos)[r] = Coordinator(p.m_Partitions[g], pos[g])
            BY <2>2, <3>1 DEF SubCoordinators
        <3>4. p.m_Partitions[g] \in Seq(Rank) /\ pos[g] \in Nat
            BY <3>2
        <3>5. QED
            BY <3>3, <3>4
    <2>3. QED
        BY <2>1, <2>2
<1>3. \A r \in Rank : SubCoordinators(p, reroutes, pos)[r] \in CoordinatorType /\ Expecting(SubCoordinators(p, reroutes, pos)[r])
    BY <1>1, <1>2
<1>4. \E f : SubCoordinators(p, reroutes, pos) = [r \in Rank |-> f[r]]
    <2>1. SubCoordinators(p, reroutes, pos) = [r \in Rank |-> SubCoordinators(p, reroutes, pos)[r]]
        BY DEF SubCoordinators
    <2>2. QED
        BY <2>1
<1>5. QED
    BY <1>3, <1>4

LEMMA GlobalCoordinatorType ==
    ASSUME NEW p, NEW reroutes \in BOOLEAN, {p.m_Partitions[g][1] : g \in DOMAIN p.m_Partitions} \subseteq Rank
    PROVE  GlobalCoordinator(p, reroutes)
              \in GlobalType(DOMAIN p.m_Partitions, {p.m_Partitions[g][1] : g \in DOMAIN p.m_Partitions})
BY DEF GlobalCoordinator, GlobalType, Statuses

LEMMA WaitingRankType ==
    ASSUME NEW p, NEW reroutes \in BOOLEAN, NEW r \in Rank, NEW pos \in Nat, NEW shared \in BOOLEAN,
           \E g \in DOMAIN p.m_Partitions : r \in Range(p.m_Partitions[g])
    PROVE  WaitingRank(p, reroutes, r, pos, shared) \in ThreadType(DOMAIN p.m_Partitions)
<1>1. PICK h : h = CHOOSE g \in DOMAIN p.m_Partitions : r \in Range(p.m_Partitions[g])
    OBVIOUS
<1>2. h \in DOMAIN p.m_Partitions
    BY <1>1
<1>3. QED
    BY <1>1, <1>2 DEF WaitingRank, ThreadType

(* What PlanInv says of the groups, for the lemmas above *)
LEMMA PlanInvPartition ==
    ASSUME PlanInv
    PROVE  /\ m_Partitioning.m_Partitions \in [Groups -> Seq(Rank)]
           /\ SubCoords = {m_Partitioning.m_Partitions[g][1] : g \in DOMAIN m_Partitioning.m_Partitions}
           /\ \A r \in Rank : \E g \in DOMAIN m_Partitioning.m_Partitions : r \in Range(m_Partitioning.m_Partitions[g])
           /\ \A s : Reroutable(s) \in BOOLEAN
<1>1. m_Partitioning.m_Partitions \in [Groups -> Seq(Rank)]
    BY PlanInvGroups DEF Results, Groups
<1>2. SubCoords = {m_Partitioning.m_Partitions[g][1] : g \in DOMAIN m_Partitioning.m_Partitions}
    BY DEF SubCoords, SubCoord, Partition, Groups
<1>3. ASSUME NEW r \in Rank
      PROVE  \E g \in DOMAIN m_Partitioning.m_Partitions : r \in Range(m_Partitioning.m_Partitions[g])
    <2>1. PICK g \in Groups : \E i \in 1..Len(Partition(g)) : Partition(g)[i] = r
        BY PlanInvGroups DEF InGroups, Partition
    <2>2. Partition(g) \in Seq(Rank)
        BY PlanInvGroups
    <2>3. r \in Range(Partition(g))
        BY <2>1, <2>2 DEF Range
    <2>4. QED
        BY <2>3 DEF Partition, Groups
<1>4. \A s : Reroutable(s) \in BOOLEAN
    BY DEF Reroutable
<1>5. QED
    BY <1>1, <1>2, <1>3, <1>4

LEMMA InitTypeInv == Init => TypeInv
<1> SUFFICES ASSUME Init PROVE TypeInv
    OBVIOUS
<1>1. PlanInv
    BY InitPlanInv
<1>2. CallTyped /\ start \in [Groups -> Nat]
    BY DEF Init, CallTyped
<1>3. channel \in [Rank \X Rank -> Seq(Entry)]
    <2> HIDE DEF Entry
    <2> QED BY DEF Init
<1>4. turn \in Rank \cup {NoRank, Aborted} /\ token \in [Rank -> Nat \cup {NoToken}]
    BY DEF Init
<1>5. rank \in [Rank -> ThreadType(Groups)]
    BY <1>1, PlanInvPartition, WaitingRankType DEF Init, rerouting, Groups
<1>6. sc \in [Rank -> CoordinatorType] /\ \A r \in Rank : Expecting(sc[r])
    <2>1. sc = SubCoordinators(m_Partitioning, rerouting, start) /\ rerouting \in BOOLEAN
        BY <1>1, PlanInvPartition DEF Init, rerouting
    <2>2. QED
        BY <1>1, <1>2, <2>1, PlanInvPartition, CoordinatorsType
<1>7. gc \in GlobalType(Groups, SubCoords)
    <2>1. gc = GlobalCoordinator(m_Partitioning, rerouting) /\ rerouting \in BOOLEAN
        BY <1>1, PlanInvPartition DEF Init, rerouting
    <2>2. QED
        BY <1>1, <2>1, PlanInvPartition, PlanInvCoords, GlobalCoordinatorType DEF Groups
<1>8. QED
    BY <1>1, <1>2, <1>3, <1>4, <1>5, <1>6, <1>7 DEF TypeInv, ThreadsTyped

-----------------------------------------------------------------------------
(* The handlers keep the types. *)

(* What a step within a call has to show *)
LEMMA WithinCall ==
    ASSUME TypeInv, UNCHANGED callVars,
           channel' \in [Rank \X Rank -> Seq(Entry)], turn' \in Rank \cup {NoRank, Aborted},
           token' \in [Rank -> Nat \cup {NoToken}], rank' \in [Rank -> ThreadType(Groups)],
           sc' \in [Rank -> CoordinatorType], \A r \in Rank : Expecting(sc'[r]),
           gc' \in GlobalType(Groups, SubCoords)
    PROVE  CallTyped' /\ ThreadsTyped'
<1>1. Groups' = Groups /\ SubCoords' = SubCoords /\ Message' = Message
    BY CallKept
<1>2. Entry' = Entry
    BY <1>1 DEF Entry
<1>3. GlobalType(Groups, SubCoords)' = GlobalType(Groups, SubCoords) /\ ThreadType(Groups)' = ThreadType(Groups)
    BY <1>1
<1>4. CallTyped'
    BY <1>1, CallKept DEF TypeInv, CallTyped
<1>5. QED
    BY <1>2, <1>3, <1>4 DEF ThreadsTyped

LEMMA FirstType ==
    ASSUME TypeInv, NEW r \in Rank, NEW q \in Rank, Arrives(r, q)
    PROVE  First(r, q) \in Message /\ channel[<<q, r>>] # <<>> /\ q \in Rank \cup {NoRank}
<1>1. channel[<<q, r>>] \in Seq(Entry) /\ channel[<<q, r>>] # <<>>
    BY DEF TypeInv, ThreadsTyped, Arrives
<1>2. Head(channel[<<q, r>>]) \in Entry
    BY <1>1
<1>3. QED
    BY <1>1, <1>2 DEF First, Entry

LEMMA ReceivedType ==
    ASSUME TypeInv, NEW r \in Rank, NEW q \in Rank, NEW type, NEW out \in [Rank -> Seq(Message)],
           Received(r, q, type, out)
    PROVE  /\ First(r, q) \in Message /\ First(r, q).type = type
           /\ channel' \in [Rank \X Rank -> Seq(Entry)] /\ turn' \in Rank \cup {NoRank, Aborted}
           /\ UNCHANGED callVars /\ token' \in [Rank -> Nat \cup {NoToken}]
<1>1. Arrives(r, q) /\ First(r, q).type = type /\ channel' = Exchanged(r, q, out) /\ turn' = r
      /\ UNCHANGED callVars /\ token' = token
    BY DEF Received
<1>2. First(r, q) \in Message /\ channel[<<q, r>>] # <<>> /\ q \in Rank \cup {NoRank}
    BY <1>1, FirstType
<1>3. channel \in [Rank \X Rank -> Seq(Entry)] /\ NoRank \notin Rank /\ token \in [Rank -> Nat \cup {NoToken}]
    BY PlanInvCoords DEF TypeInv, ThreadsTyped
<1>4. QED
    BY <1>1, <1>2, <1>3, ExchangedType

(* The steps of an action of the communication thread that keeps all but one of *)
(* its variables *)
LEMMA ThreadsBefore ==
    ASSUME TypeInv
    PROVE  /\ rank \in [Rank -> ThreadType(Groups)] /\ token \in [Rank -> Nat \cup {NoToken}]
           /\ sc \in [Rank -> CoordinatorType] /\ \A r \in Rank : Expecting(sc[r])
           /\ gc \in GlobalType(Groups, SubCoords)
           /\ channel \in [Rank \X Rank -> Seq(Entry)] /\ turn \in Rank \cup {NoRank, Aborted}
BY DEF TypeInv, ThreadsTyped

LEMMA DoWriteType ==
    ASSUME TypeInv, NEW r \in Rank, NEW q \in Rank, DoWrite(r, q)
    PROVE  CallTyped' /\ ThreadsTyped'
<1>1. PICK m : m = First(r, q)
    OBVIOUS
<1>2. Received(r, q, "DO_WRITE", Nothing) /\ sc' = sc /\ gc' = gc
      /\ rank' = [rank EXCEPT ![r].m_TargetIndex = m.index, ![r].m_DataPos = m.offset,
                              ![r].m_TargetCoordinator = q, ![r].m_ReadyToWrite = TRUE]
    BY <1>1 DEF DoWrite
<1>3. m \in Message /\ m.type = "DO_WRITE" /\ UNCHANGED callVars
    BY <1>1, <1>2, ReceivedType, NothingType
<1>4. m.index \in Groups /\ m.offset \in Nat
    BY <1>3, MessageFields
<1>5. rank' \in [Rank -> ThreadType(Groups)]
    <2>1. rank[r] \in ThreadType(Groups)
        BY ThreadsBefore
    <2>2. PICK index \in Groups, offset \in Nat : index = m.index /\ offset = m.offset
        BY <1>4
    <2>3. PICK told : told = [rank[r] EXCEPT !.m_TargetIndex = index, !.m_DataPos = offset,
                                            !.m_TargetCoordinator = q, !.m_ReadyToWrite = TRUE]
        OBVIOUS
    <2>4. told \in ThreadType(Groups)
        BY <2>1, <2>3 DEF ThreadType
    <2>5. rank' = [rank EXCEPT ![r] = told]
        BY <1>2, <2>2, <2>3, ThreadsBefore
    <2>6. QED
        BY <2>4, <2>5, ThreadsBefore
<1>6. QED
    BY <1>2, <1>3, <1>5, ReceivedType, NothingType, ThreadsBefore, WithinCall

LEMMA WriteCompletionType ==
    ASSUME TypeInv, NEW r \in Rank, NEW q \in Rank, WriteCompletion(r, q)
    PROVE  CallTyped' /\ ThreadsTyped'
<1>1. PICK m : m = First(r, q)
    OBVIOUS
<1>2. Received(r, q, "WRITE_COMPLETION", Nothing) /\ rank' = rank /\ gc' = gc
      /\ sc' = [sc EXCEPT ![r] = WriterDone(sc[r], m.offset)]
    BY <1>1 DEF WriteCompletion
<1>3. m \in Message /\ m.type = "WRITE_COMPLETION" /\ UNCHANGED callVars
    BY <1>1, <1>2, ReceivedType, NothingType
<1>4. m.offset \in Nat
    BY <1>3, MessageFields
<1>5. sc[r] \in CoordinatorType
    BY ThreadsBefore
<1>6. WriterDone(sc[r], m.offset) \in CoordinatorType /\ Expecting(WriterDone(sc[r], m.offset))
    <2>1. OverThreshold(m.offset, sc[r].expectedOffset) \in BOOLEAN
        BY DEF OverThreshold
    <2>2. QED
        BY <1>4, <1>5, <2>1 DEF WriterDone, Completed, CoordinatorType, Expecting
<1>7. sc' \in [Rank -> CoordinatorType] /\ \A x \in Rank : Expecting(sc'[x])
    BY <1>2, <1>6, ThreadsBefore
<1>8. QED
    BY <1>2, <1>3, <1>7, ReceivedType, NothingType, ThreadsBefore, WithinCall

LEMMA WriteMoreType ==
    ASSUME TypeInv, NEW r \in Rank, NEW q \in Rank, WriteMore(r, q)
    PROVE  CallTyped' /\ ThreadsTyped'
<1>1. PICK m : m = First(r, q)
    OBVIOUS
<1>2. Received(r, q, "WRITE_MORE", Nothing) /\ rank' = rank /\ gc' = gc
      /\ sc' = [sc EXCEPT ![r].writerQueue = Append(sc[r].writerQueue, m.rank),
                          ![r].sentIdle = FALSE, ![r].writeMoreCount = sc[r].writeMoreCount + 1]
    BY <1>1 DEF WriteMore
<1>3. m \in Message /\ m.type = "WRITE_MORE" /\ UNCHANGED callVars
    BY <1>1, <1>2, ReceivedType, NothingType
<1>4. m.rank \in Rank
    BY <1>3, MessageFields
<1>5. sc' \in [Rank -> CoordinatorType] /\ \A x \in Rank : Expecting(sc'[x])
    <2>1. sc[r] \in CoordinatorType
        BY ThreadsBefore
    <2>2. Append(sc[r].writerQueue, m.rank) \in Seq(Rank) /\ sc[r].writeMoreCount + 1 \in Nat
        BY <1>4, <2>1 DEF CoordinatorType
    <2>3. PICK queue \in Seq(Rank), n \in Nat : queue = Append(sc[r].writerQueue, m.rank) /\ n = sc[r].writeMoreCount + 1
        BY <2>2
    <2>4. PICK s : s = [sc[r] EXCEPT !.writerQueue = queue, !.sentIdle = FALSE, !.writeMoreCount = n]
        OBVIOUS
    <2>5. s \in CoordinatorType /\ Expecting(s)
        BY <2>1, <2>4, ThreadsBefore DEF CoordinatorType, Expecting
    <2>6. sc' = [sc EXCEPT ![r] = s]
        BY <1>2, <2>3, <2>4, ThreadsBefore
    <2>7. QED
        BY <2>5, <2>6, ThreadsBefore
<1>6. QED
    BY <1>2, <1>3, <1>5, ReceivedType, NothingType, ThreadsBefore, WithinCall

LEMMA RerouteRequestType ==
    ASSUME TypeInv, NEW r \in Rank, NEW q \in Rank, RerouteRequest(r, q)
    PROVE  CallTyped' /\ ThreadsTyped'
<1>1. PICK m : m = First(r, q)
    OBVIOUS
<1>2. PICK answer : answer = IF sc[r].writerQueue = <<>> THEN [m EXCEPT !.type = "REROUTE_REJECT"]
                             ELSE [m EXCEPT !.type = "REROUTE_ACK", !.rank = Head(sc[r].writerQueue)]
    OBVIOUS
<1>3. Received(r, q, "REROUTE_REQUEST", To({GlobalCoord}, answer)) /\ rank' = rank /\ gc' = gc
      /\ sc' = [sc EXCEPT ![r].writerQueue = TakeRerouted(r)]
    BY <1>1, <1>2 DEF RerouteRequest
<1>4. sc[r].writerQueue \in Seq(Rank)
    BY ThreadsBefore DEF CoordinatorType
<1>5. m \in Message /\ m.type = "REROUTE_REQUEST"
    BY <1>1, <1>3, FirstType DEF Received
<1>6. answer \in Message
    <2>1. CASE sc[r].writerQueue = <<>>
        <3>1. GlobalCoord \in Rank
            BY PlanInvCoords DEF TypeInv
        <3>2. QED
            BY <1>2, <1>5, <2>1, <3>1, AnswerTypes
    <2>2. CASE sc[r].writerQueue # <<>>
        <3>1. Head(sc[r].writerQueue) \in Rank
            BY <1>4, <2>2
        <3>2. QED
            BY <1>2, <1>5, <2>2, <3>1, AnswerTypes
    <2>3. QED
        BY <2>1, <2>2
<1>7. sc' \in [Rank -> CoordinatorType] /\ \A x \in Rank : Expecting(sc'[x])
    <2>0. TakeRerouted(r) \in Seq(Rank)
        <3>1. CASE sc[r].writerQueue = <<>>
            BY <1>4, <3>1 DEF TakeRerouted
        <3>2. CASE sc[r].writerQueue # <<>>
            <4>1. Tail(sc[r].writerQueue) \in Seq(Rank)
                BY <1>4, <3>2
            <4>2. QED
                BY <3>2, <4>1 DEF TakeRerouted
        <3>3. QED
            BY <3>1, <3>2
    <2>1. PICK queue \in Seq(Rank) : queue = TakeRerouted(r)
        BY <2>0
    <2>2. sc' = [sc EXCEPT ![r].writerQueue = queue]
        BY <1>3, <2>1
    <2>3. QED
        BY <2>2, ThreadsBefore DEF CoordinatorType, Expecting
<1>8. To({GlobalCoord}, answer) \in [Rank -> Seq(Message)]
    BY <1>6, ToType
<1>9. QED
    BY <1>3, <1>7, <1>8, ReceivedType, ThreadsBefore, WithinCall

(* The messages that only answer or tell *)
LEMMA AnswersType ==
    ASSUME TypeInv, NEW r \in Rank, NEW q \in Rank, GroupClose(r, q) \/ StatusInquiry(r, q)
    PROVE  CallTyped' /\ ThreadsTyped'
<1>1. rank[r].m_SubStreamIndex \in Groups /\ Len(sc[r].writerQueue) \in Nat
    <2>1. sc[r].writerQueue \in Seq(Rank)
        BY ThreadsBefore DEF CoordinatorType
    <2>2. QED
        BY <2>1, ThreadsBefore DEF ThreadType
<1>2. CASE GroupClose(r, q)
    <2>1. [type |-> "GROUP_CLOSE_ACK", index |-> rank[r].m_SubStreamIndex] \in Message
        BY <1>1 DEF Message
    <2>2. /\ Received(r, q, "GROUP_CLOSE", To({GlobalCoord}, [type |-> "GROUP_CLOSE_ACK", index |-> rank[r].m_SubStreamIndex]))
          /\ rank' = [rank EXCEPT ![r].receivedGroupClose = TRUE] /\ sc' = sc /\ gc' = gc
        BY <1>2 DEF GroupClose
    <2>3. rank' \in [Rank -> ThreadType(Groups)]
        <3>1. PICK closed : closed = [rank[r] EXCEPT !.receivedGroupClose = TRUE]
            OBVIOUS
        <3>2. closed \in ThreadType(Groups)
            <4>1. rank[r] \in ThreadType(Groups)
                BY ThreadsBefore
            <4>2. QED
                BY <3>1, <4>1 DEF ThreadType
        <3>3. rank' = [rank EXCEPT ![r] = closed]
            BY <2>2, <3>1, ThreadsBefore
        <3>4. QED
            BY <3>2, <3>3, ThreadsBefore
    <2>4. QED
        BY <2>1, <2>2, <2>3, ToType, ReceivedType, ThreadsBefore, WithinCall
<1>3. CASE StatusInquiry(r, q)
    <2>1. PICK m : m = [type |-> "STATUS_REPLY", index |-> rank[r].m_SubStreamIndex, size |-> Len(sc[r].writerQueue)]
        OBVIOUS
    <2>2. m \in Message
        BY <1>1, <2>1 DEF Message
    <2>3. Received(r, q, "STATUS_INQUIRY", To({GlobalCoord}, m)) /\ rank' = rank /\ sc' = sc /\ gc' = gc
        BY <1>3, <2>1 DEF StatusInquiry
    <2>4. QED
        BY <2>2, <2>3, ToType, ReceivedType, ThreadsBefore, WithinCall
<1>4. QED
    BY <1>2, <1>3

(* The messages that the global coordinator keeps the states of the groups by *)
LEMMA StatesType ==
    ASSUME TypeInv, NEW r \in Rank, NEW q \in Rank,
           GroupCloseAck(r, q) \/ WriterIdle(r, q) \/ WriterCapacity(r, q) \/ StatusReply(r, q)
    PROVE  CallTyped' /\ ThreadsTyped'
<1>0. [type |-> "STATUS_INQUIRY"] \in Message
    BY DEF Message
<1>1. PICK m : m = First(r, q)
    OBVIOUS
<1>2. PICK type \in {"GROUP_CLOSE_ACK", "WRITER_IDLE", "WRITER_CAPACITY", "STATUS_REPLY"}, out \in [Rank -> Seq(Message)] :
          Received(r, q, type, out) /\ rank' = rank /\ sc' = sc
    <2>1. Inquiries(q) \in [Rank -> Seq(Message)] /\ Nothing \in [Rank -> Seq(Message)]
        BY <1>0, ToType DEF Inquiries
    <2>2. (IF gc.firstIdleMsg THEN Inquiries(q) ELSE Nothing) \in [Rank -> Seq(Message)]
        BY <2>1
    <2>3. QED
        BY <2>1, <2>2 DEF GroupCloseAck, WriterIdle, WriterCapacity, StatusReply, CoordinatorReceived
<1>3. m \in Message /\ m.type = type
    BY <1>1, <1>2, ReceivedType
<1>4. m.index \in Groups
    BY <1>3, MessageFields
<1>5. gc' \in GlobalType(Groups, SubCoords)
    <2>1. gc \in GlobalType(Groups, SubCoords)
        BY ThreadsBefore
    <2>2. CASE GroupCloseAck(r, q)
        BY <1>1, <1>4, <2>1, <2>2 DEF GroupCloseAck, GlobalType, Statuses
    <2>3. CASE WriterIdle(r, q)
        BY <1>1, <1>4, <2>1, <2>3 DEF WriterIdle, GlobalType, Statuses
    <2>4. CASE WriterCapacity(r, q)
        BY <1>1, <1>4, <2>1, <2>4 DEF WriterCapacity, GlobalType, Statuses
    <2>5. CASE StatusReply(r, q)
        BY <1>1, <1>4, <2>1, <2>5 DEF StatusReply, GlobalType, Statuses
    <2>6. QED
        BY <2>2, <2>3, <2>4, <2>5
<1>6. QED
    BY <1>2, <1>5, ReceivedType, ThreadsBefore, WithinCall

LEMMA ReroutesType ==
    ASSUME TypeInv, NEW r \in Rank, NEW q \in Rank, RerouteReject(r, q) \/ RerouteAck(r, q)
    PROVE  CallTyped' /\ ThreadsTyped'
<1>1. PICK m : m = First(r, q)
    OBVIOUS
<1>2. m \in Message /\ m.type \in {"REROUTE_REJECT", "REROUTE_ACK"}
    BY <1>1, FirstType DEF RerouteReject, RerouteAck, CoordinatorReceived, Received
<1>3. m.src \in Rank /\ m.dest \in Rank
    BY <1>2, MessageFields
<1>4. PICK src \in Groups, dest \in Groups : src = scRankToIndex(m.src) /\ dest = scRankToIndex(m.dest)
    BY <1>3, PlanInvCoords DEF TypeInv
<1>5. gc \in GlobalType(Groups, SubCoords)
    BY ThreadsBefore
<1>6. \A g \in Groups, status \in Statuses : IfPending(g, status) \in Statuses
    BY <1>5 DEF IfPending, GlobalType
<1>7. CASE RerouteReject(r, q)
    <2>1. Received(r, q, "REROUTE_REJECT", Nothing) /\ rank' = rank /\ sc' = sc
          /\ gc' = [gc EXCEPT !.groupState[src] = IfPending(src, "REROUTE_REJECTED"),
                              !.groupState[dest] = IfPending(dest, "IDLE")]
        BY <1>1, <1>4, <1>7 DEF RerouteReject, CoordinatorReceived
    <2>2. IfPending(src, "REROUTE_REJECTED") \in Statuses /\ IfPending(dest, "IDLE") \in Statuses
        BY <1>6 DEF Statuses
    <2>3. gc' \in GlobalType(Groups, SubCoords)
        BY <1>5, <2>1, <2>2 DEF GlobalType
    <2>4. QED
        BY <2>1, <2>3, NothingType, ReceivedType, ThreadsBefore, WithinCall
<1>8. CASE RerouteAck(r, q)
    <2>1. Received(r, q, "REROUTE_ACK", To({m.dest}, [type |-> "WRITE_MORE", rank |-> m.rank])) /\ rank' = rank /\ sc' = sc
          /\ gc' = [gc EXCEPT !.groupIdlesNeeded = gc.groupIdlesNeeded \cup {m.dest},
                              !.groupState[src] = IfPending(src, "WRITING"),
                              !.groupState[dest] = "WRITING_MORE"]
        BY <1>1, <1>4, <1>8 DEF RerouteAck, CoordinatorReceived
    <2>2. m.type = "REROUTE_ACK"
        BY <1>1, <2>1 DEF Received
    <2>3. [type |-> "WRITE_MORE", rank |-> m.rank] \in Message
        BY <1>2, <2>2, MessageFields DEF Message
    <2>4. IfPending(src, "WRITING") \in Statuses /\ "WRITING_MORE" \in Statuses
        BY <1>6 DEF Statuses
    <2>5. gc' \in GlobalType(Groups, SubCoords)
        BY <1>3, <1>5, <2>1, <2>4 DEF GlobalType
    <2>6. QED
        BY <2>1, <2>3, <2>5, ToType, ReceivedType, ThreadsBefore, WithinCall
<1>9. QED
    BY <1>7, <1>8

LEMMA ReceiveType ==
    ASSUME TypeInv, NEW r \in Rank, NEW q \in Rank, Receive(r, q)
    PROVE  CallTyped' /\ ThreadsTyped'
<1>1. CASE Misdelivered(r, q)
    BY <1>1, ThreadsBefore, WithinCall DEF Misdelivered
<1>2. QED
    BY <1>1, DoWriteType, WriteCompletionType, WriteMoreType, RerouteRequestType, AnswersType, StatesType, ReroutesType
       DEF Receive

-----------------------------------------------------------------------------
(* The rest of a turn keeps the types. *)

LEMMA CompletionType ==
    ASSUME TypeInv, NEW r \in Rank
    PROVE  Completion(r) \in [Rank -> Seq(Message)]
<1>1. rank[r].m_DataPos \in Nat
    BY ThreadsBefore DEF ThreadType
<1>2. [type |-> "WRITE_COMPLETION", offset |-> rank[r].m_DataPos] \in Message
    BY <1>1 DEF Message, Pos
<1>3. QED
    BY <1>2, ToType DEF Completion

(* Who is told to write is the head of a queue. *)
LEMMA NextWriterType ==
    ASSUME TypeInv, NEW r \in Rank, Dispatches(r)
    PROVE  NextWriter(r) \in Rank /\ Tail(sc[r].writerQueue) \in Seq(Rank)
<1>1. sc[r].writerQueue \in Seq(Rank) /\ sc[r].writerQueue # <<>>
    BY ThreadsBefore DEF CoordinatorType, Dispatches
<1>2. QED
    BY <1>1 DEF NextWriter

LEMMA OrdersType ==
    ASSUME TypeInv, NEW r \in Rank
    PROVE  Orders(r) \in [Rank -> Seq(Message)]
<1>1. rank[r].m_SubStreamIndex \in Groups /\ sc[r].currentFilePos \in Nat
    BY ThreadsBefore DEF ThreadType, CoordinatorType
<1>2. [type |-> "DO_WRITE", index |-> rank[r].m_SubStreamIndex, offset |-> sc[r].currentFilePos] \in Message
    BY <1>1 DEF Message, Pos
<1>3. Reports(r) \in {"WRITER_CAPACITY", "WRITER_IDLE"}
    BY DEF Reports
<1>4. [type |-> Reports(r), index |-> rank[r].m_SubStreamIndex] \in Message
    BY <1>1, <1>3 DEF Message
<1>5. Nothing \in [Rank -> Seq(Message)]
    BY NothingType
<1>6. CASE Dispatches(r)
    BY <1>2, <1>6, ToType DEF Orders
<1>7. CASE ~Dispatches(r)
    BY <1>4, <1>5, <1>7, ToType DEF Orders
<1>8. QED
    BY <1>6, <1>7

LEMMA CoordinationType ==
    ASSUME TypeInv, NEW r \in Rank, NEW idle \in Groups, NEW writing \in Groups
    PROVE  Coordination(r, idle, writing) \in [Rank -> Seq(Message)]
<1>1. SubCoord(idle) \in Rank /\ SubCoord(writing) \in Rank
    BY PlanInvCoords DEF TypeInv
<1>2. [type |-> "REROUTE_REQUEST", src |-> SubCoord(writing), dest |-> SubCoord(idle), rank |-> NoRank] \in Message
    BY <1>1 DEF Message
<1>3. [type |-> "GROUP_CLOSE"] \in Message /\ Nothing \in [Rank -> Seq(Message)]
    BY NothingType DEF Message
<1>4. CASE Reroutes(r)
    BY <1>2, <1>4, ToType DEF Coordination
<1>5. CASE ~Reroutes(r)
    BY <1>3, <1>5, ToType DEF Coordination
<1>6. QED
    BY <1>4, <1>5

(* All that a turn sends *)
Output(r, idle, writing) ==
    [to \in Rank |-> Completion(r)[to] \o Orders(r)[to] \o Coordination(r, idle, writing)[to]]

LEMMA OutputType ==
    ASSUME TypeInv, NEW r \in Rank, NEW idle \in Groups, NEW writing \in Groups
    PROVE  Output(r, idle, writing) \in [Rank -> Seq(Message)]
<1>1. ASSUME NEW to \in Rank
      PROVE  (Completion(r)[to] \o Orders(r)[to] \o Coordination(r, idle, writing)[to]) \in Seq(Message)
    <2>1. PICK a \in Seq(Message), b \in Seq(Message), c \in Seq(Message) :
              a = Completion(r)[to] /\ b = Orders(r)[to] /\ c = Coordination(r, idle, writing)[to]
        <3>1. Completion(r)[to] \in Seq(Message)
            BY CompletionType
        <3>2. Orders(r)[to] \in Seq(Message)
            BY OrdersType
        <3>3. Coordination(r, idle, writing)[to] \in Seq(Message)
            BY CoordinationType
        <3>4. QED
            BY <3>1, <3>2, <3>3
    <2>2. (a \o b \o c) \in Seq(Message)
        OBVIOUS
    <2>3. QED
        BY <2>1, <2>2
<1>2. QED
    BY <1>1 DEF Output

LEMMA DispatchType ==
    ASSUME TypeInv, NEW r \in Rank, Dispatch(r)
    PROVE  sc' \in [Rank -> CoordinatorType] /\ \A q \in Rank : Expecting(sc'[q])
<1>1. sc[r] \in CoordinatorType /\ Expecting(sc[r])
    BY ThreadsBefore
<1>2. NoRank \notin Rank
    BY PlanInvCoords DEF TypeInv
<1>3. PICK s : s = IF Dispatches(r)
                   THEN [sc[r] EXCEPT !.writingRank = NextWriter(r), !.writerQueue = Tail(sc[r].writerQueue),
                                      !.expectingWriteCompletion = TRUE]
                   ELSE [sc[r] EXCEPT !.sentIdle = sc[r].sentIdle \/ TurnsIdle(r)]
    OBVIOUS
<1>4. s \in CoordinatorType /\ Expecting(s)
    <2>1. CASE Dispatches(r)
        <3>1. PICK w \in Rank, queue \in Seq(Rank) : w = NextWriter(r) /\ queue = Tail(sc[r].writerQueue)
            BY <2>1, NextWriterType
        <3>2. s = [sc[r] EXCEPT !.writingRank = w, !.writerQueue = queue, !.expectingWriteCompletion = TRUE]
            BY <1>3, <2>1, <3>1
        <3>3. QED
            BY <1>1, <1>2, <3>2 DEF CoordinatorType, Expecting
    <2>2. CASE ~Dispatches(r)
        <3>1. PICK idle \in BOOLEAN : idle = (sc[r].sentIdle \/ TurnsIdle(r))
            OBVIOUS
        <3>2. s = [sc[r] EXCEPT !.sentIdle = idle]
            BY <1>3, <2>2, <3>1
        <3>3. QED
            BY <1>1, <3>2 DEF CoordinatorType, Expecting
    <2>3. QED
        BY <2>1, <2>2
<1>5. sc' = [sc EXCEPT ![r] = s]
    <2>1. CASE Dispatches(r)
        BY <1>3, <2>1, ThreadsBefore DEF Dispatch
    <2>2. CASE ~Dispatches(r)
        BY <1>3, <2>2, ThreadsBefore DEF Dispatch
    <2>3. QED
        BY <2>1, <2>2
<1>6. QED
    BY <1>4, <1>5, ThreadsBefore

LEMMA CoordinateType ==
    ASSUME TypeInv, NEW r \in Rank, NEW idle \in Groups, NEW writing \in Groups, Coordinate(r, idle, writing)
    PROVE  gc' \in GlobalType(Groups, SubCoords)
<1>1. gc \in GlobalType(Groups, SubCoords)
    BY ThreadsBefore
<1>2. PICK states, needed, waiting :
          /\ states = IF Reroutes(r) THEN [gc.groupState EXCEPT ![idle] = "PENDING", ![writing] = "PENDING"]
                      ELSE gc.groupState
          /\ needed = IF Closes(r) THEN gc.closeAcksNeeded \ {r} ELSE gc.closeAcksNeeded
          /\ waiting = ((gc.waitingForCloseAcks \/ Closes(r)) /\ needed # {})
    OBVIOUS
<1>3. states \in [Groups -> Statuses]
    BY <1>1, <1>2 DEF GlobalType, Statuses
<1>4. needed \in SUBSET SubCoords /\ waiting \in BOOLEAN
    BY <1>1, <1>2 DEF GlobalType
<1>5. gc' = IF r # GlobalCoord THEN gc
            ELSE [gc EXCEPT !.groupState = states, !.closeAcksNeeded = needed, !.waitingForCloseAcks = waiting]
    BY <1>2 DEF Coordinate
<1>6. QED
    BY <1>1, <1>3, <1>4, <1>5 DEF GlobalType

(* What a turn does to the rank it is of *)
Told(r) ==
    IF Dispatches(r) /\ NextWriter(r) = r
    THEN [rank[r] EXCEPT !.m_TargetIndex = rank[r].m_SubStreamIndex, !.m_TargetCoordinator = r,
                         !.m_ReadyToWrite = TRUE, !.m_DataPos = sc[r].currentFilePos]
    ELSE rank[r]

LEMMA ToldType ==
    ASSUME TypeInv, NEW r \in Rank
    PROVE  Told(r) \in ThreadType(Groups)
<1>1. rank[r] \in ThreadType(Groups)
    BY ThreadsBefore
<1>2. PICK pos \in Nat, index \in Groups : pos = sc[r].currentFilePos /\ index = rank[r].m_SubStreamIndex
    BY ThreadsBefore DEF CoordinatorType, ThreadType
<1>3. [rank[r] EXCEPT !.m_TargetIndex = index, !.m_TargetCoordinator = r,
                      !.m_ReadyToWrite = TRUE, !.m_DataPos = pos] \in ThreadType(Groups)
    BY <1>1 DEF ThreadType
<1>4. QED
    BY <1>1, <1>2, <1>3 DEF Told

LEMMA WorkParts ==
    ASSUME NEW r, Work(r)
    PROVE  \E idle, writing \in Groups :
              /\ IF Reroutes(r) THEN <<idle, writing>> \in FindNextPair ELSE idle = 1 /\ writing = 1
              /\ channel' = Exchanged(r, NoRank, Output(r, idle, writing))
              /\ Dispatch(r) /\ Coordinate(r, idle, writing)
              /\ rank' = [rank EXCEPT ![r] =
                     [Told(r) EXCEPT !.sentFinished = @ \/ Notifies(r),
                                     !.receivedGroupClose = @ \/ Closes(r),
                                     !.looping = KeepsGoing(r),
                                     !.m_DataPos = IF r \in SubCoords /\ ~KeepsGoing(r)
                                                   THEN sc[r].currentFilePos ELSE @]]
              /\ turn' = NoRank /\ UNCHANGED <<callVars, token>>
BY Zenon DEF Work, Output, Told

LEMMA WorkRankType ==
    ASSUME TypeInv, NEW r \in Rank, Work(r)
    PROVE  rank' \in [Rank -> ThreadType(Groups)]
<1>1. PICK told \in ThreadType(Groups) : told = Told(r)
    BY ToldType
<1>2. PICK sent, closed, keeps, pos :
          /\ sent = (told.sentFinished \/ Notifies(r))
          /\ closed = (told.receivedGroupClose \/ Closes(r))
          /\ keeps = KeepsGoing(r)
          /\ pos = IF r \in SubCoords /\ ~KeepsGoing(r) THEN sc[r].currentFilePos ELSE told.m_DataPos
    OBVIOUS
<1>3. sent \in BOOLEAN /\ closed \in BOOLEAN /\ keeps \in BOOLEAN
    BY <1>2 DEF KeepsGoing
<1>4. pos \in Nat
    BY <1>1, <1>2, ThreadsBefore DEF CoordinatorType, ThreadType
<1>5. rank' = [rank EXCEPT ![r] = [told EXCEPT !.sentFinished = sent, !.receivedGroupClose = closed,
                                              !.looping = keeps, !.m_DataPos = pos]]
    <2>1. rank' = [rank EXCEPT ![r] =
                     [Told(r) EXCEPT !.sentFinished = @ \/ Notifies(r),
                                     !.receivedGroupClose = @ \/ Closes(r),
                                     !.looping = KeepsGoing(r),
                                     !.m_DataPos = IF r \in SubCoords /\ ~KeepsGoing(r)
                                                   THEN sc[r].currentFilePos ELSE @]]
        BY WorkParts
    <2>2. QED
        BY <1>1, <1>2, <2>1, Zenon
<1>6. [told EXCEPT !.sentFinished = sent, !.receivedGroupClose = closed,
                   !.looping = keeps, !.m_DataPos = pos] \in ThreadType(Groups)
    BY <1>1, <1>3, <1>4 DEF ThreadType
<1>7. QED
    BY <1>5, <1>6, ThreadsBefore

LEMMA WorkType ==
    ASSUME TypeInv, NEW r \in Rank, Work(r)
    PROVE  CallTyped' /\ ThreadsTyped'
<1>1. PICK idle \in Groups, writing \in Groups :
          /\ channel' = Exchanged(r, NoRank, Output(r, idle, writing))
          /\ Dispatch(r) /\ Coordinate(r, idle, writing)
          /\ turn' = NoRank /\ UNCHANGED callVars /\ token' = token
    BY WorkParts
<1>2. channel' \in [Rank \X Rank -> Seq(Entry)]
    <2>1. Output(r, idle, writing) \in [Rank -> Seq(Message)]
        BY OutputType
    <2>2. NoRank \notin Rank /\ NoRank \in Rank \cup {NoRank}
        BY PlanInvCoords DEF TypeInv
    <2>3. QED
        BY <1>1, <2>1, <2>2, ThreadsBefore, ExchangedType
<1>3. turn' \in Rank \cup {NoRank, Aborted}
    BY <1>1
<1>4. QED
    BY <1>1, <1>2, <1>3, ThreadsBefore, WorkRankType, DispatchType, CoordinateType, WithinCall

-----------------------------------------------------------------------------
(* The main thread keeps the types. *)

LEMMA PaddingType ==
    ASSUME NEW pos \in Nat
    PROVE  Padding(pos) \in Nat
<1>1. StripeSize \in Nat \ {0}
    BY StripeAssumption
<1>2. PICK k \in Nat : k = pos % StripeSize /\ k < StripeSize
    BY <1>1
<1>3. (StripeSize - k) \in Nat
    BY <1>1, <1>2
<1>4. PICK j \in Nat : j = StripeSize - k
    BY <1>3
<1>5. j % StripeSize \in Nat
    BY <1>1, <1>4
<1>6. QED
    BY <1>2, <1>4, <1>5 DEF Padding

LEMMA OwnStepType ==
    ASSUME TypeInv, OwnStep, token' \in [Rank -> Nat \cup {NoToken}], rank' \in [Rank -> ThreadType(Groups)]
    PROVE  CallTyped' /\ ThreadsTyped'
<1>1. UNCHANGED callVars /\ channel' = channel /\ turn' = turn /\ sc' = sc /\ gc' = gc
    BY DEF OwnStep, callVars
<1>2. QED
    BY <1>1, ThreadsBefore, WithinCall

LEMMA WriteVType ==
    ASSUME TypeInv, NEW r \in Rank, WriteV(r)
    PROVE  CallTyped' /\ ThreadsTyped'
<1>1. OwnStep /\ token' = token /\ rank[r].m_ReadyToWrite
    BY DEF WriteV
<1>2. rank[r] \in ThreadType(Groups)
    BY ThreadsBefore
<1>3. PICK pos \in Nat : pos = rank[r].m_DataPos + Padding(rank[r].m_DataPos)
    <2>1. PICK n \in Nat : n = rank[r].m_DataPos
        BY <1>2 DEF ThreadType
    <2>2. n + Padding(n) \in Nat
        BY PaddingType
    <2>3. QED
        BY <2>1, <2>2
<1>4. PICK index \in Groups : index = rank[r].m_TargetIndex
    BY <1>1, <1>2 DEF ThreadType
<1>5. rank' = [rank EXCEPT ![r] = [rank[r] EXCEPT !.main = "write", !.m_SubStreamIndex = index, !.m_StartDataPos = pos]]
    BY <1>3, <1>4 DEF WriteV
<1>6. [rank[r] EXCEPT !.main = "write", !.m_SubStreamIndex = index, !.m_StartDataPos = pos] \in ThreadType(Groups)
    BY <1>2 DEF ThreadType
<1>7. QED
    BY <1>1, <1>5, <1>6, ThreadsBefore, OwnStepType

LEMMA FinishWritingType ==
    ASSUME TypeInv, NEW r \in Rank, FinishWriting(r)
    PROVE  CallTyped' /\ ThreadsTyped'
<1>1. rank[r] \in ThreadType(Groups)
    BY ThreadsBefore
<1>2. PICK pos \in Nat : pos = rank[r].m_StartDataPos + size[r]
    <2>1. rank[r].m_StartDataPos \in Nat /\ size[r] \in Nat
        BY <1>1, PlanInvCoords DEF ThreadType, TypeInv
    <2>2. QED
        BY <2>1
<1>3. rank' = [rank EXCEPT ![r] = [rank[r] EXCEPT !.main = "join", !.m_FinishedWriting = TRUE, !.m_DataPos = pos]]
    BY <1>2 DEF FinishWriting
<1>4. [rank[r] EXCEPT !.main = "join", !.m_FinishedWriting = TRUE, !.m_DataPos = pos] \in ThreadType(Groups)
    BY <1>1 DEF ThreadType
<1>5. OwnStep /\ token' = token
    BY DEF FinishWriting
<1>6. QED
    BY <1>3, <1>4, <1>5, ThreadsBefore, OwnStepType

LEMMA JoinType ==
    ASSUME TypeInv, NEW r \in Rank, Join(r)
    PROVE  CallTyped' /\ ThreadsTyped'
<1>1. rank[r] \in ThreadType(Groups)
    BY ThreadsBefore
<1>2. PICK done : done = [rank[r] EXCEPT !.main = "done"]
    OBVIOUS
<1>3. done \in ThreadType(Groups)
    BY <1>1, <1>2 DEF ThreadType
<1>4. rank' = [rank EXCEPT ![r] = done] /\ OwnStep /\ token' = token
    BY <1>2, ThreadsBefore DEF Join
<1>5. QED
    BY <1>3, <1>4, ThreadsBefore, OwnStepType

(* A position is taken from a token, from what the ranks share, or from the rank's own. *)
LEMMA ChainWriteVType ==
    ASSUME TypeInv, NEW r \in Rank, ChainWriteV(r)
    PROVE  CallTyped' /\ ThreadsTyped'
<1>1. rank[r] \in ThreadType(Groups) /\ size[r] \in Nat
    BY ThreadsBefore, PlanInvCoords DEF TypeInv
<1>2. PICK pos : pos = IF ~IsFirst(r) THEN token[r]
                       ELSE IF rank[r].m_DataPosShared THEN m_SubstreamDataPos[GroupOf(r)]
                       ELSE rank[r].m_DataPos
    OBVIOUS
<1>3. pos \in Nat
    <2>1. token[r] \in Nat \cup {NoToken} /\ (IsFirst(r) \/ token[r] # NoToken)
        BY ThreadsBefore DEF ChainWriteV
    <2>2. m_SubstreamDataPos[GroupOf(r)] \in Nat
        BY PlanInvCoords DEF TypeInv, CallTyped
    <2>3. rank[r].m_DataPos \in Nat
        BY <1>1 DEF ThreadType
    <2>4. QED
        BY <1>2, <2>1, <2>2, <2>3
<1>4. PICK from \in Nat : from = pos + Padding(pos)
    <2>1. Padding(pos) \in Nat
        BY <1>3, PaddingType
    <2>2. QED
        BY <1>3, <2>1
<1>5. PICK to \in Nat, shared \in BOOLEAN :
          to = from + size[r] /\ shared = (rank[r].m_DataPosShared /\ ~IsFirst(r))
    <2>1. from + size[r] \in Nat
        BY <1>1
    <2>2. (rank[r].m_DataPosShared /\ ~IsFirst(r)) \in BOOLEAN
        OBVIOUS
    <2>3. QED
        BY <2>1, <2>2
<1>6. rank' = [rank EXCEPT ![r] = [rank[r] EXCEPT !.main = "write", !.m_StartDataPos = from,
                                                  !.m_DataPos = to, !.m_DataPosShared = shared]]
    BY <1>2, <1>4, <1>5 DEF ChainWriteV
<1>7. [rank[r] EXCEPT !.main = "write", !.m_StartDataPos = from,
                      !.m_DataPos = to, !.m_DataPosShared = shared] \in ThreadType(Groups)
    BY <1>1 DEF ThreadType
<1>8. token' \in [Rank -> Nat \cup {NoToken}] /\ OwnStep
    BY ThreadsBefore DEF ChainWriteV
<1>9. QED
    BY <1>6, <1>7, <1>8, ThreadsBefore, OwnStepType

LEMMA ChainPassType ==
    ASSUME TypeInv, NEW r \in Rank, ChainPass(r)
    PROVE  CallTyped' /\ ThreadsTyped'
<1>1. rank[r] \in ThreadType(Groups)
    BY ThreadsBefore
<1>2. PICK main \in {"join", "done"} : main = IF IsFirst(r) /\ Len(Chain(r)) > 1 THEN "join" ELSE "done"
    OBVIOUS
<1>3. PICK after : after = [rank[r] EXCEPT !.main = main]
    OBVIOUS
<1>4. after \in ThreadType(Groups)
    BY <1>1, <1>3 DEF ThreadType
<1>5. rank' = [rank EXCEPT ![r] = after]
    BY <1>2, <1>3, ThreadsBefore DEF ChainPass
<1>6. token' \in [Rank -> Nat \cup {NoToken}]
    <2>1. PICK next : \/ token' = token
                      \/ token' = [token EXCEPT ![Chain(r)[next]] = rank[r].m_DataPos]
        BY DEF ChainPass
    <2>2. rank[r].m_DataPos \in Nat
        BY <1>1 DEF ThreadType
    <2>3. QED
        BY <2>1, <2>2, ThreadsBefore
<1>7. OwnStep
    BY DEF ChainPass
<1>8. QED
    BY <1>4, <1>5, <1>6, <1>7, ThreadsBefore, OwnStepType

LEMMA ChainReturnType ==
    ASSUME TypeInv, NEW r \in Rank, ChainReturn(r)
    PROVE  CallTyped' /\ ThreadsTyped'
<1>1. rank[r] \in ThreadType(Groups)
    BY ThreadsBefore
<1>2. PICK pos \in Nat : pos = token[r]
    BY ThreadsBefore DEF ChainReturn
<1>3. PICK done : done = [rank[r] EXCEPT !.main = "done", !.m_DataPos = pos]
    OBVIOUS
<1>4. done \in ThreadType(Groups)
    BY <1>1, <1>3 DEF ThreadType
<1>5. rank' = [rank EXCEPT ![r] = done]
    BY <1>2, <1>3, ThreadsBefore DEF ChainReturn
<1>6. token' \in [Rank -> Nat \cup {NoToken}] /\ OwnStep
    BY ThreadsBefore DEF ChainReturn
<1>7. QED
    BY <1>4, <1>5, <1>6, ThreadsBefore, OwnStepType

-----------------------------------------------------------------------------
(* The next call *)

(* The positions that a call has reached *)
Reached == [g \in Groups |-> rank[SubCoord(g)].m_DataPos]

LEMMA ReachedType ==
    ASSUME TypeInv
    PROVE  Reached \in [Groups -> Nat]
<1>1. \A g \in Groups : rank[SubCoord(g)].m_DataPos \in Nat
    BY PlanInvCoords, ThreadsBefore DEF TypeInv, ThreadType
<1>2. QED
    BY <1>1 DEF Reached

(* What the lemmas about the groups say of a call, for the next one *)
GroupsFit ==
    /\ Groups = 1..plan.NumSubFiles
    /\ m_Partitioning.m_Partitions \in [Groups -> Seq(Rank)]
    /\ SubCoords = {m_Partitioning.m_Partitions[g][1] : g \in DOMAIN m_Partitioning.m_Partitions}
    /\ SubCoords \subseteq Rank
    /\ \A r \in Rank : \E g \in DOMAIN m_Partitioning.m_Partitions : r \in Range(m_Partitioning.m_Partitions[g])

LEMMA PlanInvFits == PlanInv => GroupsFit
<1> SUFFICES ASSUME PlanInv PROVE GroupsFit
    OBVIOUS
<1>1. QED
    BY PlanInvGroups, PlanInvPartition, PlanInvCoords DEF GroupsFit

LEMMA NextPlanInvFits == PlanInv' => GroupsFit'
BY PlanInvFits, PTL

LEMMA NextCallType ==
    ASSUME TypeInv, PlanInv', NextCall
    PROVE  CallTyped' /\ ThreadsTyped'
<1> DEFINE endsStep == block = Len(plan.steps[step])
           shares(r) == endsStep \/ rank[r].m_DataPosShared
           first(g) == m_Partitioning'.m_Partitions[g][1]
           coordinates(r) == Reroutable(step') /\ \E g \in Groups : first(g) = r
           pos == [g \in Groups |-> IF shares(first(g)) THEN m_SubstreamDataPos'[g] ELSE rank[first(g)].m_DataPos]
           reroutes == Reroutable(step')
<1>1. /\ plan' = plan /\ channel' = channel /\ turn' = turn /\ token' = token /\ start' = Reached
      /\ m_SubstreamDataPos' = Reached \/ m_SubstreamDataPos' = m_SubstreamDataPos
      /\ rank' = [r \in Rank |-> WaitingRank(m_Partitioning', reroutes, r, rank[r].m_DataPos, shares(r) /\ ~coordinates(r))]
      /\ sc' = SubCoordinators(m_Partitioning', reroutes, pos)
      /\ gc' = GlobalCoordinator(m_Partitioning', reroutes)
    BY Zenon DEF NextCall, Reached
<1>2. /\ Groups' = Groups /\ DOMAIN m_Partitioning'.m_Partitions = Groups
      /\ m_Partitioning'.m_Partitions \in [Groups -> Seq(Rank)]
      /\ SubCoords' = {m_Partitioning'.m_Partitions[g][1] : g \in DOMAIN m_Partitioning'.m_Partitions}
      /\ SubCoords' \subseteq Rank
      /\ \A r \in Rank : \E g \in DOMAIN m_Partitioning'.m_Partitions : r \in Range(m_Partitioning'.m_Partitions[g])
    <2>1. Groups = 1..plan.NumSubFiles
        BY PlanInvGroups DEF TypeInv
    <2>2. GroupsFit'
        BY NextPlanInvFits
    <2>3. QED
        BY <1>1, <2>1, <2>2 DEF GroupsFit
<1>3. m_SubstreamDataPos' \in [Groups -> Nat] /\ start' \in [Groups -> Nat]
    BY <1>1, ReachedType DEF TypeInv, CallTyped
<1>4. CallTyped'
    BY <1>2, <1>3 DEF CallTyped
<1>5. Entry' = Entry
    BY <1>2 DEF Entry, Message, Pos
<1>6. \A r \in Rank : rank[r].m_DataPos \in Nat
    BY ThreadsBefore DEF ThreadType
<1>7. reroutes \in BOOLEAN
    BY DEF Reroutable
<1>8. rank' \in [Rank -> ThreadType(Groups)]
    <2> HIDE DEF reroutes, coordinates, shares
    <2>1. ASSUME NEW r \in Rank
          PROVE  WaitingRank(m_Partitioning', reroutes, r, rank[r].m_DataPos, shares(r) /\ ~coordinates(r))
                    \in ThreadType(Groups)
        BY <1>2, <1>6, <1>7, WaitingRankType
    <2>2. QED
        BY <1>1, <2>1
<1>9. sc' \in [Rank -> CoordinatorType] /\ \A r \in Rank : Expecting(sc'[r])
    <2>1. \A g \in Groups : first(g) \in Rank
        BY <1>2
    <2> HIDE DEF first, shares
    <2>2. pos \in [Groups -> Nat]
        BY <1>3, <1>6, <2>1
    <2> HIDE DEF pos, reroutes
    <2>3. QED
        BY <1>1, <1>2, <1>7, <2>2, CoordinatorsType
<1>10. gc' \in GlobalType(Groups, SubCoords')
    <2> HIDE DEF reroutes
    <2>1. QED
        BY <1>1, <1>2, <1>7, GlobalCoordinatorType
<1>11. QED
    BY <1>1, <1>2, <1>4, <1>5, <1>8, <1>9, <1>10, ThreadsBefore DEF ThreadsTyped

-----------------------------------------------------------------------------

LEMMA NextTypeInv == TypeInv /\ [Next]_vars => TypeInv'
<1> SUFFICES ASSUME TypeInv, [Next]_vars PROVE CallTyped' /\ ThreadsTyped'
    BY NextPlanInv DEF TypeInv
<1>1. ASSUME NEW r \in Rank, Comm(r) PROVE CallTyped' /\ ThreadsTyped'
    BY <1>1, ReceiveType, WorkType DEF Comm, FinishTurn, ProbeNothing
<1>2. ASSUME NEW r \in Rank, Main(r) PROVE CallTyped' /\ ThreadsTyped'
    BY <1>2, WriteVType, FinishWritingType, JoinType, ChainWriteVType, ChainPassType, ChainReturnType DEF Main
<1>3. CASE NextCall
    <2>1. PlanInv'
        BY NextPlanInv DEF TypeInv
    <2>2. QED
        BY <1>3, <2>1, NextCallType
<1>4. CASE UNCHANGED vars
    <2>1. UNCHANGED callVars
        BY <1>4 DEF vars
    <2>2. channel' = channel /\ turn' = turn /\ token' = token /\ rank' = rank /\ sc' = sc /\ gc' = gc
        BY <1>4 DEF vars
    <2>3. QED
        BY <2>1, <2>2, ThreadsBefore, WithinCall
<1>5. CASE Terminated
    BY <1>4, <1>5 DEF Terminated
<1>6. QED
    BY <1>1, <1>2, <1>3, <1>4, <1>5 DEF Next

(* In every state of a run the variables are what their declarations say, and a  *)
(* subcoordinator expects a completion just while it has told somebody to write. *)
(* TypeInv, which is kept, also says that who was told to write was told the     *)
(* index of a group.                                                             *)
THEOREM TypesAreKept == Spec => []TypeOK
<1>1. QED
    BY InitTypeInv, NextTypeInv, TypeInvTypeOK, PTL DEF Spec

-----------------------------------------------------------------------------
(* Sequences: none, or one, of their elements is in a set *)

NotIn(s, S)  == \A i \in 1..Len(s) : s[i] \notin S
OnceIn(s, S) == \E i \in 1..Len(s) : s[i] \in S /\ \A j \in 1..Len(s) : s[j] \in S => j = i

LEMMA TailNotIn ==
    ASSUME NEW V, NEW s \in Seq(V), s # <<>>, NEW S
    PROVE  /\ NotIn(s, S) => NotIn(Tail(s), S)
           /\ OnceIn(s, S) /\ Head(s) \in S => NotIn(Tail(s), S)
           /\ OnceIn(s, S) /\ Head(s) \notin S => OnceIn(Tail(s), S)
<1>1. /\ Tail(s) \in Seq(V) /\ Len(s) \in Nat \ {0} /\ Len(Tail(s)) = Len(s) - 1
      /\ \A i \in 1..(Len(s) - 1) : Tail(s)[i] = s[i + 1]
      /\ Head(s) = s[1]
    OBVIOUS
<1>0. PICK t : t = Tail(s)
    OBVIOUS
<1>2. PICK n \in Nat \ {0} : t = Tail(s) /\ n = Len(s)
    BY <1>0, <1>1
<1>3. NotIn(s, S) => NotIn(t, S)
    BY <1>1, <1>2 DEF NotIn
<1>4. OnceIn(s, S) /\ s[1] \in S => NotIn(t, S)
    BY <1>1, <1>2 DEF NotIn, OnceIn
<1>5. ASSUME OnceIn(s, S), s[1] \notin S PROVE OnceIn(t, S)
    <2>1. PICK i \in 1..n : s[i] \in S /\ \A j \in 1..n : s[j] \in S => j = i
        BY <1>2, <1>5 DEF OnceIn
    <2>2. i # 1
        BY <1>5, <2>1
    <2>3. i - 1 \in 1..(n - 1) /\ t[i - 1] = s[i]
        BY <1>1, <1>2, <2>1, <2>2
    <2>4. \A j \in 1..(n - 1) : t[j] \in S => j = i - 1
        BY <1>1, <1>2, <2>1
    <2>5. QED
        BY <1>1, <1>2, <2>1, <2>3, <2>4 DEF OnceIn
<1>6. QED
    BY <1>1, <1>2, <1>3, <1>4, <1>5

LEMMA ConcatNotIn ==
    ASSUME NEW V, NEW s \in Seq(V), NEW t \in Seq(V), NEW S
    PROVE  /\ NotIn(s, S) /\ NotIn(t, S) => NotIn(s \o t, S)
           /\ OnceIn(s, S) /\ NotIn(t, S) => OnceIn(s \o t, S)
           /\ NotIn(s, S) /\ OnceIn(t, S) => OnceIn(s \o t, S)
<1>1. PICK m \in Nat, n \in Nat : m = Len(s) /\ n = Len(t)
    BY LenProperties
<1>0. PICK u : u = s \o t
    OBVIOUS
<1>2. /\ u \in Seq(V) /\ Len(u) = m + n
      /\ \A i \in 1..m : u[i] = s[i]
      /\ \A i \in (m + 1)..(m + n) : u[i] = t[i - m]
    <2>1. u \in Seq(V) /\ Len(u) = m + n
          /\ \A i \in 1..(m + n) : u[i] = IF i <= m THEN s[i] ELSE t[i - m]
        BY <1>0, <1>1, ConcatProperties
    <2>2. QED
        BY <2>1
<1>3. \A i \in 1..n : u[m + i] = t[i]
    BY <1>2
<1>4. ASSUME NotIn(s, S), NotIn(t, S) PROVE NotIn(u, S)
    <2>1. ASSUME NEW i \in 1..(m + n) PROVE u[i] \notin S
        <3>1. CASE i <= m
            BY <1>1, <1>2, <1>4, <3>1 DEF NotIn
        <3>2. CASE i > m
            <4>1. i - m \in 1..n /\ u[i] = t[i - m]
                BY <1>2, <3>2
            <4>2. QED
                BY <1>1, <1>4, <4>1 DEF NotIn
        <3>3. QED
            BY <3>1, <3>2
    <2>2. QED
        BY <1>2, <2>1 DEF NotIn
<1>5. ASSUME OnceIn(s, S), NotIn(t, S) PROVE OnceIn(u, S)
    <2>1. PICK i \in 1..m : s[i] \in S /\ \A j \in 1..m : s[j] \in S => j = i
        BY <1>1, <1>5 DEF OnceIn
    <2>2. ASSUME NEW j \in 1..(m + n), u[j] \in S PROVE j = i
        <3>1. CASE j <= m
            BY <1>1, <1>2, <2>1, <2>2, <3>1
        <3>2. CASE j > m
            <4>1. j - m \in 1..n /\ u[j] = t[j - m]
                BY <1>2, <3>2
            <4>2. QED
                BY <1>1, <1>5, <2>2, <4>1 DEF NotIn
        <3>3. QED
            BY <3>1, <3>2
    <2>3. i \in 1..(m + n) /\ u[i] \in S
        BY <1>2, <2>1
    <2>4. QED
        BY <1>2, <2>2, <2>3 DEF OnceIn
<1>6. ASSUME NotIn(s, S), OnceIn(t, S) PROVE OnceIn(u, S)
    <2>1. PICK i \in 1..n : t[i] \in S /\ \A j \in 1..n : t[j] \in S => j = i
        BY <1>1, <1>6 DEF OnceIn
    <2>2. ASSUME NEW j \in 1..(m + n), u[j] \in S PROVE j = m + i
        <3>1. CASE j <= m
            BY <1>1, <1>2, <1>6, <2>2, <3>1 DEF NotIn
        <3>2. CASE j > m
            <4>1. j - m \in 1..n /\ u[j] = t[j - m]
                BY <1>2, <3>2
            <4>2. j - m = i
                BY <2>1, <2>2, <4>1
            <4>3. QED
                BY <4>2
        <3>3. QED
            BY <3>1, <3>2
    <2>3. m + i \in 1..(m + n) /\ u[m + i] \in S
        BY <1>3, <2>1
    <2>4. QED
        BY <1>2, <2>2, <2>3 DEF OnceIn
<1>7. QED
    BY <1>0, <1>4, <1>5, <1>6

LEMMA NoneNotIn ==
    ASSUME NEW S, NEW v
    PROVE  /\ NotIn(<<>>, S)
           /\ v \notin S => NotIn(<<v>>, S)
           /\ v \in S => OnceIn(<<v>>, S)
BY DEF NotIn, OnceIn

-----------------------------------------------------------------------------
(* The messages of a channel, without the counts of those that come before *)

Stripped(s) == [i \in 1..Len(s) |-> s[i].msg]
Msgs(c)     == Stripped(channel[c])

LEMMA StrippedType ==
    ASSUME NEW s \in Seq(Entry)
    PROVE  /\ Stripped(s) \in Seq(Message) /\ Len(Stripped(s)) = Len(s)
           /\ \A i \in 1..Len(s) : Stripped(s)[i] = s[i].msg
<1>1. PICK n \in Nat : n = Len(s)
    BY LenProperties
<1>2. \A i \in 1..n : s[i].msg \in Message
    <2>1. \A i \in 1..n : s[i] \in Entry
        BY <1>1, ElementOfSeq
    <2>2. QED
        BY <2>1 DEF Entry
<1>3. Stripped(s) \in [1..n -> Message] /\ \A i \in 1..n : Stripped(s)[i] = s[i].msg
    BY <1>1, <1>2 DEF Stripped
<1>4. QED
    BY <1>1, <1>3, FunctionIsSeq

LEMMA StrippedConcat ==
    ASSUME NEW s \in Seq(Entry), NEW t \in Seq(Entry)
    PROVE  Stripped(s \o t) = Stripped(s) \o Stripped(t)
<1>1. PICK m \in Nat, n \in Nat : m = Len(s) /\ n = Len(t)
    BY LenProperties
<1>2. PICK u : u = s \o t
    OBVIOUS
<1>3. PICK v : v = Stripped(s) \o Stripped(t)
    OBVIOUS
<1>4. u \in Seq(Entry) /\ Len(u) = m + n
      /\ \A i \in 1..(m + n) : u[i] = IF i <= m THEN s[i] ELSE t[i - m]
    BY <1>1, <1>2, ConcatProperties
<1>5. /\ Stripped(s) \in Seq(Message) /\ Len(Stripped(s)) = m /\ \A i \in 1..m : Stripped(s)[i] = s[i].msg
      /\ Stripped(t) \in Seq(Message) /\ Len(Stripped(t)) = n /\ \A i \in 1..n : Stripped(t)[i] = t[i].msg
    BY <1>1, StrippedType
<1>6. v \in Seq(Message) /\ Len(v) = m + n
      /\ \A i \in 1..(m + n) : v[i] = IF i <= m THEN Stripped(s)[i] ELSE Stripped(t)[i - m]
    BY <1>3, <1>5, ConcatProperties
<1>7. ASSUME NEW i \in 1..(m + n) PROVE Stripped(u)[i] = v[i]
    <2>1. Stripped(u)[i] = u[i].msg
        BY <1>4, StrippedType
    <2>2. CASE i <= m
        BY <1>4, <1>5, <1>6, <2>1, <2>2
    <2>3. CASE i > m
        <3>1. i - m \in 1..n
            BY <2>3
        <3>2. Stripped(t)[i - m] = t[i - m].msg
            BY <1>5, <3>1
        <3>3. QED
            BY <1>4, <1>6, <2>1, <2>3, <3>2
    <2>4. QED
        BY <2>2, <2>3
<1>8. Stripped(u) \in Seq(Message) /\ Len(Stripped(u)) = m + n
    BY <1>4, StrippedType
<1>9. Stripped(u) = v
    BY <1>6, <1>7, <1>8, SeqEqual
<1>10. QED
    BY <1>2, <1>3, <1>9

(* Rank r sends out, and receives from q unless that is NoRank. *)
Exchanges(r, q, out) ==
    /\ channel \in [Rank \X Rank -> Seq(Entry)]
    /\ r \in Rank /\ q \in Rank \cup {NoRank} /\ NoRank \notin Rank
    /\ q \in Rank => channel[<<q, r>>] # <<>>
    /\ out \in [Rank -> Seq(Message)]
    /\ channel' = Exchanged(r, q, out)

(* What an exchange does to the messages of a channel: what is left, and what comes *)
RestMsgs(from, to, r, q)   == IF from = q /\ to = r THEN Tail(Msgs(<<from, to>>)) ELSE Msgs(<<from, to>>)
MoreMsgs(from, to, r, out) == IF from = r THEN out[to] ELSE <<>>
MsgsThen(from, to, r, q, out) == RestMsgs(from, to, r, q) \o MoreMsgs(from, to, r, out)

LEMMA ExchangedMsgs ==
    ASSUME NEW r, NEW q, NEW out, Exchanges(r, q, out), NEW from \in Rank, NEW to \in Rank
    PROVE  /\ Msgs(<<from, to>>) \in Seq(Message)
           /\ from = q /\ to = r => Msgs(<<from, to>>) # <<>> /\ Head(Msgs(<<from, to>>)) = First(r, q)
           /\ Stripped(channel'[<<from, to>>]) = MsgsThen(from, to, r, q, out)
<1>e. /\ channel \in [Rank \X Rank -> Seq(Entry)]
      /\ r \in Rank /\ q \in Rank \cup {NoRank} /\ NoRank \notin Rank
      /\ q \in Rank => channel[<<q, r>>] # <<>>
      /\ out \in [Rank -> Seq(Message)]
      /\ channel' = Exchanged(r, q, out)
    BY DEF Exchanges
<1>k. ASSUME NEW d \in Rank \X Rank
       PROVE  /\ Kept(d, r, q) \in Seq(Entry)
              /\ Len(Kept(d, r, q)) = IF d = <<q, r>> THEN Len(channel[d]) - 1 ELSE Len(channel[d])
              /\ \A i \in 1..Len(Kept(d, r, q)) :
                     Kept(d, r, q)[i].msg = IF d = <<q, r>> THEN channel[d][i + 1].msg ELSE channel[d][i].msg
    BY <1>e, KeptType, ZenonT(30)
<1>0. PICK c \in Rank \X Rank : c = <<from, to>>
    <2>1. <<from, to>> \in Rank \X Rank
        OBVIOUS
    <2>2. QED
        BY <2>1, Zenon
<1>1. c = <<from, to>> /\ c[1] = from /\ c[2] = to
    BY <1>0
<1>2. channel[c] \in Seq(Entry)
    BY <1>e
<1>3. PICK n \in Nat : n = Len(channel[c])
    BY <1>2, LenProperties
<1>4. Msgs(c) \in Seq(Message) /\ Len(Msgs(c)) = n /\ \A i \in 1..n : Msgs(c)[i] = channel[c][i].msg
    BY <1>2, <1>3, StrippedType DEF Msgs
<1>5. ASSUME from = q, to = r PROVE Msgs(c) # <<>> /\ Head(Msgs(c)) = First(r, q)
    <2>1. c = <<q, r>> /\ channel[c] # <<>>
        BY <1>e, <1>1, <1>5
    <2>2. n # 0 /\ Head(channel[c]) = channel[c][1]
        BY <1>2, <1>3, <2>1, EmptySeq
    <2>3. Msgs(c) # <<>>
        BY <1>4, <2>2
    <2>4. Head(Msgs(c)) = Msgs(c)[1]
        BY <1>4, <2>3
    <2>5. QED
        <3>1. 1 \in 1..n
            BY <1>3, <2>2
        <3>2. Msgs(c)[1] = Head(channel[<<q, r>>]).msg
            BY <1>4, <2>1, <2>2, <3>1
        <3>3. QED
            BY <2>3, <2>4, <3>2 DEF First
<1>6. PICK k : k = Kept(c, r, q)
    OBVIOUS
<1>7. k \in Seq(Entry) /\ Stripped(k) = IF from = q /\ to = r THEN Tail(Msgs(c)) ELSE Msgs(c)
    <2>1. /\ k \in Seq(Entry) /\ Len(k) = IF c = <<q, r>> THEN n - 1 ELSE n
          /\ \A i \in 1..Len(k) : k[i].msg = IF c = <<q, r>> THEN channel[c][i + 1].msg ELSE channel[c][i].msg
        <3>1. /\ Kept(c, r, q) \in Seq(Entry)
              /\ Len(Kept(c, r, q)) = IF c = <<q, r>> THEN Len(channel[c]) - 1 ELSE Len(channel[c])
              /\ \A i \in 1..Len(Kept(c, r, q)) :
                     Kept(c, r, q)[i].msg = IF c = <<q, r>> THEN channel[c][i + 1].msg ELSE channel[c][i].msg
            BY <1>k, Zenon
        <3>2. QED
            BY <1>3, <1>6, <3>1, Zenon
    <2>2. Stripped(k) \in Seq(Message) /\ Len(Stripped(k)) = Len(k) /\ \A i \in 1..Len(k) : Stripped(k)[i] = k[i].msg
        BY <2>1, StrippedType
    <2>3. CASE c = <<q, r>>
        <3>1. from = q /\ to = r
            BY <1>1, <2>3
        <3>2. Tail(Msgs(c)) \in Seq(Message) /\ Len(Tail(Msgs(c))) = n - 1 /\ \A i \in 1..(n - 1) : Tail(Msgs(c))[i] = Msgs(c)[i + 1]
            BY <1>4, <1>5, <3>1, HeadTailProperties
        <3>3. \A i \in 1..(n - 1) : Tail(Msgs(c))[i] = channel[c][i + 1].msg
            BY <1>4, <3>2
        <3>4. Len(k) = n - 1 /\ \A i \in 1..(n - 1) : Stripped(k)[i] = Tail(Msgs(c))[i]
            <4>1. Len(k) = n - 1 /\ \A i \in 1..Len(k) : k[i].msg = channel[c][i + 1].msg
                BY <2>1, <2>3
            <4>2. QED
                BY <2>2, <3>3, <4>1
        <3>5. Stripped(k) = Tail(Msgs(c))
            BY <2>2, <3>2, <3>4, SeqEqual
        <3>6. QED
            BY <2>1, <3>1, <3>5
    <2>4. CASE c # <<q, r>>
        <3>1. ~(from = q /\ to = r)
            BY <1>1, <2>4
        <3>2. Len(k) = n /\ \A i \in 1..n : Stripped(k)[i] = Msgs(c)[i]
            BY <1>4, <2>1, <2>2, <2>4
        <3>3. Stripped(k) = Msgs(c)
            BY <1>4, <2>2, <3>2, SeqEqual
        <3>4. QED
            BY <2>1, <3>1, <3>3
    <2>5. QED
        BY <2>3, <2>4
<1>8. PICK s : s = IF c[1] = r THEN Sent(r, c[2], out) ELSE <<>>
    OBVIOUS
<1>9. s \in Seq(Entry) /\ Stripped(s) = IF from = r THEN out[to] ELSE <<>>
    <2>1. CASE from = r
        <3>1. s \in Seq(Entry) /\ Len(s) = Len(out[to]) /\ \A i \in 1..Len(out[to]) : s[i].msg = out[to][i]
            BY <1>e, <1>1, <1>8, <2>1, SentType
        <3>2. Stripped(s) \in Seq(Message) /\ Len(Stripped(s)) = Len(s) /\ \A i \in 1..Len(s) : Stripped(s)[i] = s[i].msg
            BY <3>1, StrippedType
        <3>3. out[to] \in Seq(Message)
            BY <1>e
        <3>4. \A i \in 1..Len(s) : Stripped(s)[i] = out[to][i]
            BY <3>1, <3>2
        <3>5. Stripped(s) = out[to]
            BY <3>1, <3>2, <3>3, <3>4, SeqEqual
        <3>6. QED
            BY <2>1, <3>1, <3>5
    <2>2. CASE from # r
        <3>1. s = <<>> /\ <<>> \in Seq(Entry) /\ <<>> \in Seq(Message) /\ Len(<<>>) = 0
            BY <1>1, <1>8, <2>2, EmptySeq
        <3>2. Stripped(s) \in Seq(Message) /\ Len(Stripped(s)) = 0
            BY <3>1, StrippedType
        <3>3. Stripped(s) = <<>>
            BY <3>2
        <3>4. QED
            BY <2>2, <3>1, <3>3
    <2>3. QED
        BY <2>1, <2>2
<1>10. channel'[c] = k \o s
    BY <1>e, <1>6, <1>8 DEF Exchanged
<1>11. Stripped(channel'[c]) = Stripped(k) \o Stripped(s)
    BY <1>7, <1>9, <1>10, StrippedConcat
<1>12. Stripped(k) = RestMsgs(from, to, r, q) /\ Stripped(s) = MoreMsgs(from, to, r, out)
    BY <1>1, <1>7, <1>9, Zenon DEF RestMsgs, MoreMsgs
<1>13. QED
    BY <1>1, <1>4, <1>5, <1>11, <1>12, Zenon DEF MsgsThen

-----------------------------------------------------------------------------
(* Sequences at places: none of their elements, or one, is in its place's set *)

AllNot(X, F, T) == \A x \in X : NotIn(F[x], T[x])
OneOf(X, F, T)  == \E x \in X : OnceIn(F[x], T[x]) /\ \A y \in X \ {x} : NotIn(F[y], T[y])

(* The head is taken at one place. *)
LEMMA HeadTaken ==
    ASSUME NEW V, NEW X, NEW F \in [X -> Seq(V)], NEW G \in [X -> Seq(V)], NEW T,
           NEW p \in X, F[p] # <<>>, G[p] = Tail(F[p]), \A x \in X \ {p} : G[x] = F[x]
    PROVE  /\ AllNot(X, F, T) => AllNot(X, G, T)
           /\ OneOf(X, F, T) /\ Head(F[p]) \in T[p] => AllNot(X, G, T)
           /\ OneOf(X, F, T) /\ Head(F[p]) \notin T[p] => OneOf(X, G, T)
<1>1. /\ NotIn(F[p], T[p]) => NotIn(G[p], T[p])
      /\ OnceIn(F[p], T[p]) /\ Head(F[p]) \in T[p] => NotIn(G[p], T[p])
      /\ OnceIn(F[p], T[p]) /\ Head(F[p]) \notin T[p] => OnceIn(G[p], T[p])
    <2>1. PICK s \in Seq(V) : s = F[p]
        OBVIOUS
    <2>2. s # <<>> /\ G[p] = Tail(s)
        BY <2>1
    <2>3. QED
        BY <2>1, <2>2, TailNotIn
<1>2. \A x \in X : x # p => G[x] = F[x]
    OBVIOUS
<1>3. AllNot(X, F, T) => AllNot(X, G, T)
    BY <1>1, <1>2, Zenon DEF AllNot
<1>4. ASSUME OneOf(X, F, T)
      PROVE  IF Head(F[p]) \in T[p] THEN AllNot(X, G, T) ELSE OneOf(X, G, T)
    <2>1. PICK x \in X : OnceIn(F[x], T[x]) /\ \A y \in X \ {x} : NotIn(F[y], T[y])
        BY <1>4 DEF OneOf
    <2>2. CASE x = p
        <3>1. \A y \in X : y # p => NotIn(G[y], T[y])
            BY <1>2, <2>1, <2>2
        <3>2. CASE Head(F[p]) \in T[p]
            <4>1. NotIn(G[p], T[p])
                BY <1>1, <2>1, <2>2, <3>2
            <4>2. QED
                BY <3>1, <3>2, <4>1, Zenon DEF AllNot
        <3>3. CASE Head(F[p]) \notin T[p]
            <4>1. OnceIn(G[p], T[p])
                BY <1>1, <2>1, <2>2, <3>3
            <4>2. QED
                BY <3>1, <3>3, <4>1 DEF OneOf
        <3>4. QED
            BY <3>2, <3>3
    <2>3. CASE x # p
        <3>1. NotIn(F[p], T[p])
            BY <2>1, <2>3
        <3>2. Head(F[p]) \notin T[p]
            <4>1. Len(F[p]) >= 1 /\ Head(F[p]) = F[p][1]
                OBVIOUS
            <4>2. QED
                BY <3>1, <4>1 DEF NotIn
        <3>3. OnceIn(G[x], T[x])
            BY <1>2, <2>1, <2>3
        <3>4. ASSUME NEW y \in X \ {x} PROVE NotIn(G[y], T[y])
            BY <1>1, <1>2, <2>1, <3>1
        <3>5. QED
            BY <3>2, <3>3, <3>4 DEF OneOf
    <2>4. QED
        BY <2>2, <2>3
<1>5. QED
    BY <1>3, <1>4

(* More is put behind, at any place. *)
LEMMA MorePut ==
    ASSUME NEW V, NEW X, NEW F \in [X -> Seq(V)], NEW O \in [X -> Seq(V)], NEW H, NEW T,
           \A x \in X : H[x] = F[x] \o O[x]
    PROVE  /\ AllNot(X, F, T) /\ AllNot(X, O, T) => AllNot(X, H, T)
           /\ OneOf(X, F, T) /\ AllNot(X, O, T) => OneOf(X, H, T)
           /\ AllNot(X, F, T) /\ OneOf(X, O, T) => OneOf(X, H, T)
<1>1. ASSUME NEW x \in X
      PROVE  /\ NotIn(F[x], T[x]) /\ NotIn(O[x], T[x]) => NotIn(H[x], T[x])
             /\ OnceIn(F[x], T[x]) /\ NotIn(O[x], T[x]) => OnceIn(H[x], T[x])
             /\ NotIn(F[x], T[x]) /\ OnceIn(O[x], T[x]) => OnceIn(H[x], T[x])
    <2>1. PICK s \in Seq(V), t \in Seq(V) : s = F[x] /\ t = O[x]
        OBVIOUS
    <2>2. QED
        BY <2>1, ConcatNotIn
<1>2. AllNot(X, F, T) /\ AllNot(X, O, T) => AllNot(X, H, T)
    BY <1>1, Zenon DEF AllNot
<1>3. ASSUME OneOf(X, F, T), AllNot(X, O, T) PROVE OneOf(X, H, T)
    <2>1. PICK x \in X : OnceIn(F[x], T[x]) /\ \A y \in X \ {x} : NotIn(F[y], T[y])
        BY <1>3 DEF OneOf
    <2>2. OnceIn(H[x], T[x]) /\ \A y \in X \ {x} : NotIn(H[y], T[y])
        BY <1>1, <1>3, <2>1, Zenon DEF AllNot
    <2>3. QED
        BY <2>2 DEF OneOf
<1>4. ASSUME AllNot(X, F, T), OneOf(X, O, T) PROVE OneOf(X, H, T)
    <2>1. PICK x \in X : OnceIn(O[x], T[x]) /\ \A y \in X \ {x} : NotIn(O[y], T[y])
        BY <1>4 DEF OneOf
    <2>2. OnceIn(H[x], T[x]) /\ \A y \in X \ {x} : NotIn(H[y], T[y])
        BY <1>1, <1>4, <2>1, Zenon DEF AllNot
    <2>3. QED
        BY <2>2 DEF OneOf
<1>5. QED
    BY <1>2, <1>3, <1>4

-----------------------------------------------------------------------------
(* The messages of all channels, and a set of messages for each receiver *)

AllMsgs == [c \in Rank \X Rank |-> Msgs(c)]
ByReceiver(S) == [c \in Rank \X Rank |-> S[c[2]]]
MsgsNone(S) == AllNot(Rank \X Rank, AllMsgs, ByReceiver(S))
MsgsOne(S)  == OneOf(Rank \X Rank, AllMsgs, ByReceiver(S))

OutNone(out, S) == \A to \in Rank : NotIn(out[to], S[to])
OutOne(out, S)  == \E to \in Rank : OnceIn(out[to], S[to]) /\ \A x \in Rank \ {to} : NotIn(out[x], S[x])

LEMMA PairOf ==
    ASSUME NEW S, NEW c \in S \X S
    PROVE  \E a, b \in S : c = <<a, b>>
OBVIOUS

LEMMA ExchangeCounts ==
    ASSUME NEW r \in Rank, NEW q, NEW out \in [Rank -> Seq(Message)], Exchanges(r, q, out), NEW S
    PROVE  /\ MsgsNone(S) /\ OutNone(out, S) => MsgsNone(S)'
           /\ MsgsNone(S) /\ OutOne(out, S) => MsgsOne(S)'
           /\ MsgsOne(S) /\ q \in Rank /\ First(r, q) \in S[r] /\ OutNone(out, S) => MsgsNone(S)'
           /\ MsgsOne(S) /\ q \in Rank /\ First(r, q) \in S[r] /\ OutOne(out, S) => MsgsOne(S)'
           /\ MsgsOne(S) /\ (q \in Rank => First(r, q) \notin S[r]) /\ OutNone(out, S) => MsgsOne(S)'
<1> DEFINE X == Rank \X Rank
<1>1. PICK F, T, H : F = AllMsgs /\ T = ByReceiver(S) /\ H = AllMsgs'
    OBVIOUS
<1>2. PICK G : G = [c \in X |-> IF c[1] = q /\ c[2] = r THEN Tail(F[c]) ELSE F[c]]
    OBVIOUS
<1>3. PICK O : O = [c \in X |-> IF c[1] = r THEN out[c[2]] ELSE <<>>]
    OBVIOUS
<1>4. ASSUME NEW from \in Rank, NEW to \in Rank
      PROVE  /\ F[<<from, to>>] \in Seq(Message)
             /\ from = q /\ to = r => F[<<from, to>>] # <<>> /\ Head(F[<<from, to>>]) = First(r, q)
             /\ G[<<from, to>>] = IF from = q /\ to = r THEN Tail(F[<<from, to>>]) ELSE F[<<from, to>>]
             /\ G[<<from, to>>] \in Seq(Message)
             /\ O[<<from, to>>] = IF from = r THEN out[to] ELSE <<>>
             /\ O[<<from, to>>] \in Seq(Message)
             /\ H[<<from, to>>] = G[<<from, to>>] \o O[<<from, to>>]
             /\ T[<<from, to>>] = S[to]
    <2>1. <<from, to>> \in X /\ <<from, to>>[1] = from /\ <<from, to>>[2] = to
        OBVIOUS
    <2>2. F[<<from, to>>] = Msgs(<<from, to>>) /\ H[<<from, to>>] = Msgs(<<from, to>>)' /\ T[<<from, to>>] = S[to]
        BY <1>1, <2>1 DEF AllMsgs, ByReceiver
    <2>3. /\ Msgs(<<from, to>>) \in Seq(Message)
          /\ from = q /\ to = r => Msgs(<<from, to>>) # <<>> /\ Head(Msgs(<<from, to>>)) = First(r, q)
          /\ Msgs(<<from, to>>)' = (IF from = q /\ to = r THEN Tail(Msgs(<<from, to>>)) ELSE Msgs(<<from, to>>))
                                    \o (IF from = r THEN out[to] ELSE <<>>)
        <3>1. Msgs(<<from, to>>) \in Seq(Message)
            BY ExchangedMsgs
        <3>2. from = q /\ to = r => Msgs(<<from, to>>) # <<>> /\ Head(Msgs(<<from, to>>)) = First(r, q)
            BY ExchangedMsgs
        <3>3. Msgs(<<from, to>>)' = (IF from = q /\ to = r THEN Tail(Msgs(<<from, to>>)) ELSE Msgs(<<from, to>>))
                                    \o (IF from = r THEN out[to] ELSE <<>>)
            <4>1. Stripped(channel'[<<from, to>>]) = MsgsThen(from, to, r, q, out)
                BY ExchangedMsgs
            <4>2. Msgs(<<from, to>>)' = Stripped(channel'[<<from, to>>])
                BY DEF Msgs, Stripped
            <4>3. QED
                BY <4>1, <4>2, Zenon DEF MsgsThen, RestMsgs, MoreMsgs
        <3>4. QED
            BY <3>1, <3>2, <3>3, Zenon
    <2>4. G[<<from, to>>] = IF from = q /\ to = r THEN Tail(F[<<from, to>>]) ELSE F[<<from, to>>]
        BY <1>2, <2>1
    <2>5. O[<<from, to>>] = IF from = r THEN out[to] ELSE <<>>
        BY <1>3, <2>1
    <2>6. G[<<from, to>>] \in Seq(Message)
        BY <2>2, <2>3, <2>4, HeadTailProperties
    <2>7. O[<<from, to>>] \in Seq(Message)
        <3>1. out[to] \in Seq(Message) /\ <<>> \in Seq(Message)
            BY EmptySeq
        <3>2. QED
            BY <2>5, <3>1
    <2>8. H[<<from, to>>] = G[<<from, to>>] \o O[<<from, to>>]
        BY <2>2, <2>3, <2>4, <2>5, Zenon
    <2>9. QED
        BY <2>2, <2>3, <2>4, <2>5, <2>6, <2>7, <2>8, Zenon
<1>5. \A c \in X : F[c] \in Seq(Message) /\ G[c] \in Seq(Message) /\ O[c] \in Seq(Message) /\ H[c] = G[c] \o O[c]
    <2>1. ASSUME NEW c \in X
          PROVE  F[c] \in Seq(Message) /\ G[c] \in Seq(Message) /\ O[c] \in Seq(Message) /\ H[c] = G[c] \o O[c]
        <3>1. PICK from \in Rank, to \in Rank : c = <<from, to>>
            BY PairOf
        <3>2. F[c] \in Seq(Message)
            BY <1>4, <3>1
        <3>3. G[c] \in Seq(Message) /\ O[c] \in Seq(Message) /\ H[c] = G[c] \o O[c]
            BY <1>4, <3>1, Zenon
        <3>4. QED
            BY <3>2, <3>3
    <2>2. QED
        BY <2>1
<1>6. F \in [X -> Seq(Message)] /\ G \in [X -> Seq(Message)] /\ O \in [X -> Seq(Message)]
    <2>1. F = [c \in X |-> F[c]]
        BY <1>1 DEF AllMsgs
    <2>2. QED
        BY <1>2, <1>3, <1>5, <2>1
<1>7. /\ AllNot(X, F, T) => AllNot(X, G, T)
      /\ OneOf(X, F, T) /\ q \in Rank /\ First(r, q) \in S[r] => AllNot(X, G, T)
      /\ OneOf(X, F, T) /\ (q \in Rank => First(r, q) \notin S[r]) => OneOf(X, G, T)
    <2>1. CASE q \in Rank
        <3>1. PICK p \in X : p = <<q, r>>
            BY <2>1
        <3>2. F[p] # <<>> /\ Head(F[p]) = First(r, q) /\ G[p] = Tail(F[p]) /\ T[p] = S[r]
            BY <1>4, <2>1, <3>1
        <3>3. \A c \in X \ {p} : G[c] = F[c]
            <4>1. ASSUME NEW from \in Rank, NEW to \in Rank, <<from, to>> # p PROVE G[<<from, to>>] = F[<<from, to>>]
                <5>1. ~(from = q /\ to = r)
                    BY <3>1, <4>1
                <5>2. QED
                    BY <1>4, <5>1
            <4>2. ASSUME NEW c \in X \ {p} PROVE G[c] = F[c]
                <5>1. PICK from \in Rank, to \in Rank : c = <<from, to>>
                    BY PairOf
                <5>2. QED
                    BY <4>1, <5>1
            <4>3. QED
                BY <4>2
        <3> HIDE DEF X
        <3>4. /\ AllNot(X, F, T) => AllNot(X, G, T)
              /\ OneOf(X, F, T) /\ Head(F[p]) \in T[p] => AllNot(X, G, T)
              /\ OneOf(X, F, T) /\ Head(F[p]) \notin T[p] => OneOf(X, G, T)
            BY <1>6, <3>2, <3>3, HeadTaken
        <3>5. QED
            BY <2>1, <3>2, <3>4
    <2>2. CASE q \notin Rank
        <3>1. \A c \in X : G[c] = F[c]
            <4>1. ASSUME NEW from \in Rank, NEW to \in Rank PROVE G[<<from, to>>] = F[<<from, to>>]
                BY <1>4, <2>2
            <4>2. QED
                BY <4>1
        <3>2. G = F
            BY <1>6, <3>1
        <3>3. QED
            BY <2>2, <3>2
    <2>3. QED
        BY <2>1, <2>2
<1>8. (OutNone(out, S) => AllNot(X, O, T)) /\ (OutOne(out, S) => OneOf(X, O, T))
    <2>1. ASSUME NEW from \in Rank, NEW to \in Rank, from # r PROVE NotIn(O[<<from, to>>], T[<<from, to>>])
        <3>1. O[<<from, to>>] = <<>>
            BY <1>4, <2>1
        <3>2. QED
            BY <3>1, NoneNotIn
    <2>2. ASSUME OutNone(out, S) PROVE AllNot(X, O, T)
        <3>1. ASSUME NEW from \in Rank, NEW to \in Rank PROVE NotIn(O[<<from, to>>], T[<<from, to>>])
            <4>1. CASE from = r
                BY <1>4, <2>2, <4>1 DEF OutNone
            <4>2. QED
                BY <2>1, <4>1
        <3>2. \A c \in X : NotIn(O[c], T[c])
            BY <3>1
        <3>3. QED
            BY <3>2 DEF AllNot
    <2>3. ASSUME OutOne(out, S) PROVE OneOf(X, O, T)
        <3>1. PICK to \in Rank : OnceIn(out[to], S[to]) /\ \A x \in Rank \ {to} : NotIn(out[x], S[x])
            BY <2>3 DEF OutOne
        <3>2. OnceIn(O[<<r, to>>], T[<<r, to>>])
            BY <1>4, <3>1
        <3>3. ASSUME NEW from \in Rank, NEW x \in Rank, <<from, x>> # <<r, to>> PROVE NotIn(O[<<from, x>>], T[<<from, x>>])
            <4>1. CASE from = r
                <5>1. x # to
                    BY <3>3, <4>1
                <5>2. O[<<from, x>>] = out[x] /\ T[<<from, x>>] = S[x]
                    BY <1>4, <4>1
                <5>3. NotIn(out[x], S[x])
                    BY <3>1, <5>1
                <5>4. QED
                    BY <5>2, <5>3
            <4>2. QED
                BY <2>1, <4>1
        <3>4. PICK p \in X : p = <<r, to>>
            OBVIOUS
        <3>5. \A c \in X \ {p} : NotIn(O[c], T[c])
            BY <3>3, <3>4
        <3>6. OnceIn(O[p], T[p])
            BY <3>2, <3>4
        <3> HIDE DEF X
        <3>7. QED
            BY <3>5, <3>6 DEF OneOf
    <2>4. QED
        BY <2>2, <2>3
<1>9. /\ AllNot(X, G, T) /\ AllNot(X, O, T) => AllNot(X, H, T)
      /\ OneOf(X, G, T) /\ AllNot(X, O, T) => OneOf(X, H, T)
      /\ AllNot(X, G, T) /\ OneOf(X, O, T) => OneOf(X, H, T)
    <2> HIDE DEF X
    <2>1. \A c \in X : H[c] = G[c] \o O[c]
        BY <1>5
    <2>2. QED
        BY <1>6, <2>1, MorePut
<1>10. /\ MsgsNone(S) = AllNot(X, F, T) /\ MsgsOne(S) = OneOf(X, F, T)
       /\ MsgsNone(S)' = AllNot(X, H, T) /\ MsgsOne(S)' = OneOf(X, H, T)
    BY <1>1, Zenon DEF MsgsNone, MsgsOne, ByReceiver
<1>11. QED
    BY <1>7, <1>8, <1>9, <1>10, Zenon

-----------------------------------------------------------------------------
(* The messages to the rank to that tell of rank w that it is to write *)

Tells(w, to) ==
    [type : {"REROUTE_ACK"}, src : Rank, dest : Rank, rank : {w}]
    \cup [type : {"WRITE_MORE"}, rank : {w}]
    \cup (IF to = w THEN [type : {"DO_WRITE"}, index : Nat, offset : Nat] ELSE {})

LEMMA TellsMessages ==
    ASSUME NEW m \in Message, NEW w \in Rank, NEW to, Groups \subseteq Nat
    PROVE  m \in Tells(w, to) <=> \/ m.type \in {"REROUTE_ACK", "WRITE_MORE"} /\ m.rank = w
                                  \/ m.type = "DO_WRITE" /\ to = w
BY DEF Message, Tells, Pos

TellsOf(w)   == [to \in Rank |-> Tells(w, to)]
NoneTells(w) == MsgsNone(TellsOf(w))
OneTells(w)  == MsgsOne(TellsOf(w))

-----------------------------------------------------------------------------
(* The invariant of the queues *)

(* A rank whose communication thread loops is in a rerouted step and has not  *)
(* returned; one whose main thread goes on was told to write; within a turn,  *)
(* or when a message ended the program, there is a rank that loops.           *)
LoopsInv ==
    /\ \A r \in Rank : rank[r].looping => rerouting /\ rank[r].main # "done"
    /\ \A r \in Rank : rerouting /\ rank[r].main # "wait" => rank[r].m_ReadyToWrite
    /\ turn # NoRank => \E r \in Rank : rank[r].looping
    /\ turn \in Rank => rank[turn].looping

(* Messages to a rank that would put a rank into the queue of one that leads no group *)
Strays(to) ==
    {m \in Message :
        \/ m.type \in {"REROUTE_REQUEST", "REROUTE_ACK"} /\ m.dest \notin SubCoords
        \/ m.type = "WRITE_MORE" /\ to \notin SubCoords}
StraysOf == [to \in Rank |-> Strays(to)]

(* Only those that lead a group have a queue, or are to get one. *)
LedInv ==
    /\ rerouting => MsgsNone(StraysOf)
    /\ \A r \in Rank \ SubCoords : sc[r].writerQueue = <<>>

Queues == [s \in Rank |-> sc[s].writerQueue]
Just(w) == [s \in Rank |-> {w}]
NoneQueues(w) == AllNot(Rank, Queues, Just(w))
OneQueues(w)  == OneOf(Rank, Queues, Just(w))

(* A rank that is to be told is in one queue, or in one message, and one that *)
(* was told in none.                                                           *)
Held(w) ==
    IF rank[w].m_ReadyToWrite \/ ~rerouting THEN NoneQueues(w) /\ NoneTells(w)
    ELSE \/ OneQueues(w) /\ NoneTells(w)
         \/ NoneQueues(w) /\ OneTells(w)

HeldInv == \A w \in Rank : Held(w)

(* No request of an earlier step waits for a rank when a step is rerouted. *)
NoRequestLeft ==
    AllDone /\ (\E s \in (step + 1)..Len(plan.steps) : Reroutable(s)) =>
        \A c \in Rank \X Rank : \A i \in DOMAIN channel[c] : channel[c][i].msg.type # "REROUTE_REQUEST"

-----------------------------------------------------------------------------
(* LoopsInv *)

(* What a handler does to the threads *)
LEMMA ReceiveThreads ==
    ASSUME TypeInv, NEW r \in Rank, NEW q \in Rank, Receive(r, q)
    PROVE  /\ \A x \in Rank : /\ rank'[x].looping = rank[x].looping /\ rank'[x].main = rank[x].main
                              /\ rank[x].m_ReadyToWrite => rank'[x].m_ReadyToWrite
           /\ rank[r].looping /\ turn' \in {r, Aborted} /\ UNCHANGED callVars
<1>0. rank \in [Rank -> ThreadType(Groups)]
    BY ThreadsBefore
<1>1. CASE DoWrite(r, q)
    <2>1. PICK m : m = First(r, q)
        OBVIOUS
    <2>2. rank' = [rank EXCEPT ![r].m_TargetIndex = m.index, ![r].m_DataPos = m.offset,
                               ![r].m_TargetCoordinator = q, ![r].m_ReadyToWrite = TRUE]
        BY <1>1, <2>1 DEF DoWrite
    <2>3. rank[r].looping /\ turn' = r /\ UNCHANGED callVars
        BY <1>1 DEF DoWrite, Received, Arrives
    <2>4. QED
        BY <1>0, <2>2, <2>3 DEF ThreadType
<1>2. CASE GroupClose(r, q)
    <2>1. rank' = [rank EXCEPT ![r].receivedGroupClose = TRUE]
        BY <1>2 DEF GroupClose
    <2>2. rank[r].looping /\ turn' = r /\ UNCHANGED callVars
        BY <1>2 DEF GroupClose, Received, Arrives
    <2>3. QED
        BY <1>0, <2>1, <2>2 DEF ThreadType
<1>3. CASE Misdelivered(r, q)
    BY <1>3 DEF Misdelivered, Arrives
<1>4. ASSUME \/ WriteCompletion(r, q) \/ WriteMore(r, q) \/ GroupCloseAck(r, q) \/ WriterIdle(r, q) \/ WriterCapacity(r, q)
             \/ StatusInquiry(r, q) \/ StatusReply(r, q) \/ RerouteRequest(r, q) \/ RerouteReject(r, q) \/ RerouteAck(r, q)
      PROVE  rank' = rank /\ rank[r].looping /\ turn' = r /\ UNCHANGED callVars
    <2>1. \E type, out : Received(r, q, type, out) /\ rank' = rank
        BY <1>4, Zenon DEF WriteCompletion, WriteMore, GroupCloseAck, WriterIdle, WriterCapacity, StatusInquiry, StatusReply,
                    RerouteRequest, RerouteReject, RerouteAck, CoordinatorReceived
    <2>2. QED
        BY <2>1 DEF Received, Arrives
<1>5. QED
    BY <1>1, <1>2, <1>3, <1>4 DEF Receive

(* What the rest of a turn does to the threads *)
LEMMA WorkThreads ==
    ASSUME TypeInv, NEW r \in Rank, Work(r)
    PROVE  /\ \A x \in Rank : /\ x # r => rank'[x] = rank[x]
                              /\ rank'[x].main = rank[x].main
                              /\ rank'[x].m_ReadyToWrite =
                                     (rank[x].m_ReadyToWrite \/ (x = r /\ Dispatches(r) /\ NextWriter(r) = r))
           /\ turn' = NoRank /\ UNCHANGED callVars
<1>0. rank \in [Rank -> ThreadType(Groups)]
    BY ThreadsBefore
<1>1. PICK told : told = Told(r)
    OBVIOUS
<1>2. told \in ThreadType(Groups) /\ told.main = rank[r].main
      /\ told.m_ReadyToWrite = (rank[r].m_ReadyToWrite \/ (Dispatches(r) /\ NextWriter(r) = r))
    <2>1. told \in ThreadType(Groups)
        BY <1>1, ToldType
    <2>2. CASE Dispatches(r) /\ NextWriter(r) = r
        <3>1. told = [rank[r] EXCEPT !.m_TargetIndex = rank[r].m_SubStreamIndex, !.m_TargetCoordinator = r,
                                     !.m_ReadyToWrite = TRUE, !.m_DataPos = sc[r].currentFilePos]
            BY <1>1, <2>2 DEF Told
        <3>2. QED
            BY <1>0, <2>1, <2>2, <3>1 DEF ThreadType
    <2>3. CASE ~(Dispatches(r) /\ NextWriter(r) = r)
        <3>1. told = rank[r]
            BY <1>1, <2>3 DEF Told
        <3>2. rank[r].m_ReadyToWrite \in BOOLEAN
            BY <1>0 DEF ThreadType
        <3>3. QED
            BY <2>1, <2>3, <3>1, <3>2
    <2>4. QED
        BY <2>2, <2>3
<1>3. PICK sent, closed, keeps, pos :
          rank' = [rank EXCEPT ![r] = [told EXCEPT !.sentFinished = sent, !.receivedGroupClose = closed,
                                                   !.looping = keeps, !.m_DataPos = pos]]
    <2>1. rank' = [rank EXCEPT ![r] =
                     [Told(r) EXCEPT !.sentFinished = @ \/ Notifies(r),
                                     !.receivedGroupClose = @ \/ Closes(r),
                                     !.looping = KeepsGoing(r),
                                     !.m_DataPos = IF r \in SubCoords /\ ~KeepsGoing(r)
                                                   THEN sc[r].currentFilePos ELSE @]]
        BY WorkParts
    <2>2. QED
        BY <1>1, <2>1, Zenon
<1>4. turn' = NoRank /\ UNCHANGED callVars
    BY WorkParts
<1>5. PICK new : new = [told EXCEPT !.sentFinished = sent, !.receivedGroupClose = closed,
                                    !.looping = keeps, !.m_DataPos = pos]
    OBVIOUS
<1>6. new.main = told.main /\ new.m_ReadyToWrite = told.m_ReadyToWrite
    BY <1>2, <1>5 DEF ThreadType
<1>7. \A x \in Rank : rank'[x] = IF x = r THEN new ELSE rank[x]
    BY <1>0, <1>3, <1>5
<1>8. \A x \in Rank : rank[x].m_ReadyToWrite \in BOOLEAN
    BY <1>0 DEF ThreadType
<1>9. QED
    BY <1>2, <1>4, <1>6, <1>7, <1>8

(* What a main thread does to the threads *)
LEMMA MainThreads ==
    ASSUME TypeInv, NEW r \in Rank, Main(r)
    PROVE  /\ \A x \in Rank : /\ x # r => rank'[x] = rank[x]
                              /\ rank'[x].looping = rank[x].looping
                              /\ rank'[x].m_ReadyToWrite = rank[x].m_ReadyToWrite
           /\ rank'[r].main # "wait"
           /\ rerouting => /\ rank[r].main = "wait" => rank[r].m_ReadyToWrite
                           /\ rank'[r].main = "done" => ~rank[r].looping
           /\ UNCHANGED callVars /\ channel' = channel /\ turn' = turn /\ sc' = sc
<1>0. rank \in [Rank -> ThreadType(Groups)]
    BY ThreadsBefore
<1>1. OwnStep /\ UNCHANGED callVars /\ channel' = channel /\ turn' = turn /\ sc' = sc
    BY DEF Main, WriteV, FinishWriting, Join, ChainWriteV, ChainPass, ChainReturn, OwnStep, callVars
<1>2. CASE WriteV(r)
    <2>1. PICK index, from : rank' = [rank EXCEPT ![r] = [rank[r] EXCEPT !.main = "write", !.m_SubStreamIndex = index,
                                                                         !.m_StartDataPos = from]]
        BY <1>2, Zenon DEF WriteV
    <2>2. rank[r].m_ReadyToWrite
        BY <1>2 DEF WriteV
    <2>3. QED
        BY <1>0, <1>1, <2>1, <2>2 DEF ThreadType
<1>3. CASE FinishWriting(r)
    <2>1. PICK to : rank' = [rank EXCEPT ![r] = [rank[r] EXCEPT !.main = "join", !.m_FinishedWriting = TRUE, !.m_DataPos = to]]
        BY <1>3, Zenon DEF FinishWriting
    <2>2. rank[r].main = "write"
        BY <1>3 DEF FinishWriting
    <2>3. QED
        BY <1>0, <1>1, <2>1, <2>2 DEF ThreadType
<1>4. CASE Join(r)
    <2>1. rank' = [rank EXCEPT ![r].main = "done"] /\ rank[r].main = "join" /\ ~rank[r].looping
        BY <1>4 DEF Join
    <2>2. QED
        BY <1>0, <1>1, <2>1 DEF ThreadType
<1>5. CASE ChainWriteV(r)
    <2>1. PICK from, to, shared :
              rank' = [rank EXCEPT ![r] = [rank[r] EXCEPT !.main = "write", !.m_StartDataPos = from,
                                                          !.m_DataPos = to, !.m_DataPosShared = shared]]
        BY <1>5, Zenon DEF ChainWriteV
    <2>2. ~rerouting
        BY <1>5 DEF ChainWriteV
    <2>3. QED
        BY <1>0, <1>1, <2>1, <2>2 DEF ThreadType
<1>6. CASE ChainPass(r)
    <2>1. PICK main \in {"join", "done"} : main = IF IsFirst(r) /\ Len(Chain(r)) > 1 THEN "join" ELSE "done"
        OBVIOUS
    <2>2. rank' = [rank EXCEPT ![r].main = main] /\ ~rerouting
        BY <1>6, <2>1, Zenon DEF ChainPass
    <2>3. QED
        BY <1>0, <1>1, <2>1, <2>2 DEF ThreadType
<1>7. CASE ChainReturn(r)
    <2>1. PICK pos : rank' = [rank EXCEPT ![r].main = "done", ![r].m_DataPos = pos]
        BY <1>7, Zenon DEF ChainReturn
    <2>2. ~rerouting
        BY <1>7 DEF ChainReturn
    <2>3. QED
        BY <1>0, <1>1, <2>1, <2>2 DEF ThreadType
<1>8. QED
    BY <1>2, <1>3, <1>4, <1>5, <1>6, <1>7 DEF Main

LEMMA InitLoopsInv == Init => LoopsInv
<1> SUFFICES ASSUME Init PROVE LoopsInv
    OBVIOUS
<1>1. \A x \in Rank : rank[x].looping = rerouting /\ rank[x].main = "wait"
    BY DEF Init, WaitingRank
<1>2. turn = NoRank
    BY DEF Init
<1>3. NoRank \notin Rank
    BY InitPlanInv, PlanInvCoords
<1>4. QED
    BY <1>1, <1>2, <1>3 DEF LoopsInv

LEMMA NextLoopsInv ==
    ASSUME TypeInv, LoopsInv, [Next]_vars
    PROVE  LoopsInv'
<1>0. /\ \A x \in Rank : rank[x].looping => rerouting /\ rank[x].main # "done"
      /\ \A x \in Rank : rerouting /\ rank[x].main # "wait" => rank[x].m_ReadyToWrite
      /\ turn # NoRank => \E x \in Rank : rank[x].looping
      /\ turn \in Rank => rank[turn].looping
    BY DEF LoopsInv
<1>n. NoRank \notin Rank
    BY PlanInvCoords DEF TypeInv
<1>1. ASSUME NEW r \in Rank, NEW q \in Rank, Receive(r, q) PROVE LoopsInv'
    <2>1. /\ \A x \in Rank : /\ rank'[x].looping = rank[x].looping /\ rank'[x].main = rank[x].main
                             /\ rank[x].m_ReadyToWrite => rank'[x].m_ReadyToWrite
          /\ rank[r].looping /\ turn' \in {r, Aborted} /\ UNCHANGED callVars
        BY <1>1, ReceiveThreads
    <2>2. rerouting' = rerouting /\ Aborted \notin Rank
        BY <2>1, CallKept, PlanInvCoords DEF TypeInv
    <2>3. QED
        BY <1>0, <2>1, <2>2 DEF LoopsInv
<1>2. ASSUME NEW r \in Rank, Work(r), rank[r].looping PROVE LoopsInv'
    <2>1. /\ \A x \in Rank : /\ x # r => rank'[x] = rank[x]
                             /\ rank'[x].main = rank[x].main
                             /\ rank'[x].m_ReadyToWrite =
                                    (rank[x].m_ReadyToWrite \/ (x = r /\ Dispatches(r) /\ NextWriter(r) = r))
          /\ turn' = NoRank /\ UNCHANGED callVars
        BY <1>2, WorkThreads
    <2>2. rerouting' = rerouting
        BY <2>1, CallKept
    <2>3. \A x \in Rank : rank'[x].looping => rank[x].looping
        BY <1>2, <2>1
    <2>4. \A x \in Rank : rank[x].m_ReadyToWrite => rank'[x].m_ReadyToWrite
        BY <2>1
    <2>5. QED
        BY <1>0, <1>n, <2>1, <2>2, <2>3, <2>4 DEF LoopsInv
<1>3. ASSUME NEW r \in Rank, Main(r) PROVE LoopsInv'
    <2>1. /\ \A x \in Rank : /\ x # r => rank'[x] = rank[x]
                             /\ rank'[x].looping = rank[x].looping
                             /\ rank'[x].m_ReadyToWrite = rank[x].m_ReadyToWrite
          /\ rerouting => /\ rank[r].main = "wait" => rank[r].m_ReadyToWrite
                          /\ rank'[r].main = "done" => ~rank[r].looping
          /\ UNCHANGED callVars /\ turn' = turn
        BY <1>3, MainThreads
    <2>2. rerouting' = rerouting
        BY <2>1, CallKept
    <2>3. \A x \in Rank : rank'[x].looping => rerouting /\ rank'[x].main # "done"
        BY <1>0, <2>1
    <2>4. \A x \in Rank : rerouting /\ rank'[x].main # "wait" => rank'[x].m_ReadyToWrite
        BY <1>0, <2>1
    <2>5. QED
        BY <1>0, <2>1, <2>2, <2>3, <2>4 DEF LoopsInv
<1>4. CASE NextCall
    <2>1. turn = NoRank
        BY <1>0, <1>4 DEF NextCall, AllDone
    <2>2. \A x \in Rank : rank'[x].main = "wait" /\ rank'[x].looping = Reroutable(step')
        BY <1>4 DEF NextCall, WaitingRank
    <2>3. rerouting' = Reroutable(step') /\ turn' = turn
        <3>1. plan' = plan /\ turn' = turn
            BY <1>4 DEF NextCall
        <3>2. QED
            BY <3>1 DEF rerouting, Reroutable
    <2>4. QED
        BY <1>n, <2>1, <2>2, <2>3 DEF LoopsInv
<1>5. CASE UNCHANGED vars
    <2>1. rank' = rank /\ turn' = turn /\ UNCHANGED callVars
        BY <1>5 DEF vars
    <2>2. rerouting' = rerouting
        BY <2>1, CallKept
    <2>3. QED
        BY <1>0, <2>1, <2>2 DEF LoopsInv
<1>6. ASSUME NEW r \in Rank, Comm(r) PROVE LoopsInv'
    <2>1. CASE \E q \in Rank : Receive(r, q)
        BY <1>1, <2>1
    <2>2. CASE FinishTurn(r)
        BY <1>0, <1>2, <2>2 DEF FinishTurn
    <2>3. CASE ProbeNothing(r)
        BY <1>2, <2>3 DEF ProbeNothing
    <2>4. QED
        BY <1>6, <2>1, <2>2, <2>3 DEF Comm
<1>7. QED
    BY <1>3, <1>4, <1>5, <1>6 DEF Next, Terminated

-----------------------------------------------------------------------------
(* What is sent *)

LEMMA NothingNone == ASSUME NEW S PROVE OutNone(Nothing, S)
BY NoneNotIn DEF OutNone, Nothing

LEMMA ToNone ==
    ASSUME NEW D, NEW m, NEW S, \A to \in Rank : to \in D => m \notin S[to]
    PROVE  OutNone(To(D, m), S)
<1>1. ASSUME NEW to \in Rank PROVE NotIn(To(D, m)[to], S[to])
    <2>1. CASE to \in D
        <3>1. To(D, m)[to] = <<m>> /\ m \notin S[to]
            BY <2>1 DEF To
        <3>2. QED
            BY <3>1, NoneNotIn
    <2>2. CASE to \notin D
        <3>1. To(D, m)[to] = <<>>
            BY <2>2 DEF To
        <3>2. QED
            BY <3>1, NoneNotIn
    <2>3. QED
        BY <2>1, <2>2
<1>2. QED
    BY <1>1 DEF OutNone

LEMMA ToOne ==
    ASSUME NEW d \in Rank, NEW m, NEW S, m \in S[d]
    PROVE  OutOne(To({d}, m), S)
<1>1. To({d}, m)[d] = <<m>> /\ \A x \in Rank \ {d} : To({d}, m)[x] = <<>>
    BY DEF To
<1>2. OnceIn(To({d}, m)[d], S[d]) /\ \A x \in Rank \ {d} : NotIn(To({d}, m)[x], S[x])
    BY <1>1, NoneNotIn
<1>3. QED
    BY <1>2 DEF OutOne

(* Messages that tell nobody to write and put nobody into a queue *)
Quiet(m) == m \in Message /\ m.type \notin {"REROUTE_REQUEST", "REROUTE_ACK", "WRITE_MORE", "DO_WRITE"}

LEMMA GroupsNat == PlanInv => Groups \subseteq Nat
BY PlanInvGroups

LEMMA QuietNot ==
    ASSUME PlanInv, NEW m, Quiet(m), NEW to \in Rank
    PROVE  m \notin StraysOf[to] /\ \A w \in Rank : m \notin TellsOf(w)[to]
<1>1. m \in Message /\ m.type \notin {"REROUTE_REQUEST", "REROUTE_ACK", "WRITE_MORE", "DO_WRITE"}
    BY DEF Quiet
<1>2. \A w \in Rank : m \notin Tells(w, to)
    BY <1>1, GroupsNat, TellsMessages
<1>3. m \notin Strays(to)
    BY <1>1 DEF Strays
<1>4. QED
    BY <1>2, <1>3 DEF StraysOf, TellsOf

QuietOut(out) == OutNone(out, StraysOf) /\ \A w \in Rank : OutNone(out, TellsOf(w))

LEMMA ToQuiet ==
    ASSUME PlanInv, NEW D, NEW m, Quiet(m)
    PROVE  QuietOut(To(D, m)) /\ QuietOut(Nothing)
BY QuietNot, ToNone, NothingNone DEF QuietOut

(* The first message of a channel that has none of some *)
LEMMA FirstNot ==
    ASSUME TypeInv, NEW r \in Rank, NEW q \in Rank, channel[<<q, r>>] # <<>>, NEW S, MsgsNone(S)
    PROVE  First(r, q) \notin S[r]
<1>1. PICK c \in Rank \X Rank : c = <<q, r>>
    <2>1. <<q, r>> \in Rank \X Rank
        OBVIOUS
    <2>2. QED
        BY <2>1, Zenon
<1>2. c[2] = r
    BY <1>1
<1>3. channel[c] \in Seq(Entry) /\ channel[c] # <<>>
    BY <1>1, ThreadsBefore
<1>4. Head(channel[c]) = channel[c][1] /\ Len(channel[c]) \in Nat \ {0}
    BY <1>3, EmptySeq
<1>5. Len(Msgs(c)) = Len(channel[c]) /\ Msgs(c)[1] = channel[c][1].msg
    BY <1>3, <1>4, StrippedType DEF Msgs
<1>6. NotIn(AllMsgs[c], ByReceiver(S)[c])
    BY DEF MsgsNone, AllNot
<1>7. AllMsgs[c] = Msgs(c) /\ ByReceiver(S)[c] = S[r]
    BY <1>2 DEF AllMsgs, ByReceiver
<1>8. First(r, q) = Msgs(c)[1]
    BY <1>1, <1>4, <1>5 DEF First
<1>9. QED
    BY <1>4, <1>5, <1>6, <1>7, <1>8 DEF NotIn

LEMMA ReceivedExchanges ==
    ASSUME TypeInv, NEW r \in Rank, NEW q \in Rank, NEW type, NEW out \in [Rank -> Seq(Message)],
           Received(r, q, type, out)
    PROVE  /\ Exchanges(r, q, out) /\ UNCHANGED callVars
           /\ First(r, q) \in Message /\ First(r, q).type = type /\ channel[<<q, r>>] # <<>>
           /\ rank[r].looping
<1>1. Arrives(r, q) /\ First(r, q).type = type /\ channel' = Exchanged(r, q, out) /\ UNCHANGED callVars
    BY DEF Received
<1>2. First(r, q) \in Message /\ channel[<<q, r>>] # <<>> /\ q \in Rank \cup {NoRank}
    BY <1>1, FirstType
<1>3. channel \in [Rank \X Rank -> Seq(Entry)] /\ NoRank \notin Rank
    BY ThreadsBefore, PlanInvCoords DEF TypeInv
<1>4. QED
    BY <1>1, <1>2, <1>3 DEF Exchanges, Arrives

LEMMA WorkExchanges ==
    ASSUME TypeInv, NEW r \in Rank, Work(r)
    PROVE  \E idle, writing \in Groups :
              /\ Exchanges(r, NoRank, Output(r, idle, writing))
              /\ Dispatch(r) /\ UNCHANGED callVars
<1>1. PICK idle \in Groups, writing \in Groups :
          /\ channel' = Exchanged(r, NoRank, Output(r, idle, writing))
          /\ Dispatch(r) /\ UNCHANGED callVars
    BY WorkParts
<1>2. Output(r, idle, writing) \in [Rank -> Seq(Message)]
    BY OutputType
<1>3. channel \in [Rank \X Rank -> Seq(Entry)] /\ NoRank \notin Rank /\ NoRank \in Rank \cup {NoRank}
    BY ThreadsBefore, PlanInvCoords DEF TypeInv
<1>4. Exchanges(r, NoRank, Output(r, idle, writing))
    BY <1>1, <1>2, <1>3 DEF Exchanges
<1>5. QED
    BY <1>1, <1>4

-----------------------------------------------------------------------------
(* The queues *)

LEMMA QueuesType ==
    ASSUME TypeInv
    PROVE  Queues \in [Rank -> Seq(Rank)] /\ \A s \in Rank : Queues[s] = sc[s].writerQueue
<1>1. \A s \in Rank : sc[s].writerQueue \in Seq(Rank)
    BY ThreadsBefore DEF CoordinatorType
<1>2. QED
    BY <1>1 DEF Queues

LEMMA QueuesSame ==
    ASSUME \A s \in Rank : sc'[s].writerQueue = sc[s].writerQueue
    PROVE  /\ Queues' = Queues
           /\ \A w \in Rank : NoneQueues(w)' = NoneQueues(w) /\ OneQueues(w)' = OneQueues(w)
<1>1. Queues' = Queues
    BY DEF Queues
<1>2. ASSUME NEW w \in Rank PROVE NoneQueues(w)' = NoneQueues(w) /\ OneQueues(w)' = OneQueues(w)
    BY <1>1, Zenon DEF NoneQueues, OneQueues, Just
<1>3. QED
    BY <1>1, <1>2

(* The head of r's queue is taken. *)
LEMMA QueueTaken ==
    ASSUME TypeInv, NEW r \in Rank, sc[r].writerQueue # <<>>,
           sc'[r].writerQueue = Tail(sc[r].writerQueue),
           \A s \in Rank \ {r} : sc'[s].writerQueue = sc[s].writerQueue, NEW w \in Rank
    PROVE  /\ NoneQueues(w) => NoneQueues(w)' /\ Head(sc[r].writerQueue) # w
           /\ OneQueues(w) /\ Head(sc[r].writerQueue) = w => NoneQueues(w)'
           /\ OneQueues(w) /\ Head(sc[r].writerQueue) # w => OneQueues(w)'
<1>1. PICK F, G, T : F = Queues /\ G = Queues' /\ T = Just(w)
    OBVIOUS
<1>2. F \in [Rank -> Seq(Rank)] /\ \A s \in Rank : F[s] = sc[s].writerQueue
    BY <1>1, QueuesType
<1>3. G = [s \in Rank |-> sc'[s].writerQueue]
    BY <1>1 DEF Queues
<1>4. F[r] # <<>> /\ G[r] = Tail(F[r]) /\ \A s \in Rank \ {r} : G[s] = F[s]
    BY <1>2, <1>3
<1>5. G \in [Rank -> Seq(Rank)]
    <2>1. Tail(F[r]) \in Seq(Rank)
        BY <1>2, <1>4, HeadTailProperties
    <2>2. \A s \in Rank : G[s] \in Seq(Rank)
        BY <1>2, <1>4, <2>1
    <2>3. QED
        BY <1>3, <2>2
<1>6. T[r] = {w}
    BY <1>1 DEF Just
<1>7. /\ AllNot(Rank, F, T) => AllNot(Rank, G, T)
      /\ OneOf(Rank, F, T) /\ Head(F[r]) \in T[r] => AllNot(Rank, G, T)
      /\ OneOf(Rank, F, T) /\ Head(F[r]) \notin T[r] => OneOf(Rank, G, T)
    BY <1>2, <1>4, <1>5, HeadTaken
<1>8. AllNot(Rank, F, T) => Head(F[r]) \notin T[r]
    <2>1. Len(F[r]) >= 1 /\ Head(F[r]) = F[r][1]
        BY <1>2, <1>4, EmptySeq
    <2>2. QED
        BY <2>1 DEF AllNot, NotIn
<1>9. /\ NoneQueues(w) = AllNot(Rank, F, T) /\ OneQueues(w) = OneOf(Rank, F, T)
      /\ NoneQueues(w)' = AllNot(Rank, G, T) /\ OneQueues(w)' = OneOf(Rank, G, T)
    BY <1>1, Zenon DEF NoneQueues, OneQueues, Just
<1>10. QED
    BY <1>2, <1>6, <1>7, <1>8, <1>9

(* A rank is put behind r's queue. *)
LEMMA QueuePut ==
    ASSUME TypeInv, NEW r \in Rank, NEW v \in Rank,
           sc'[r].writerQueue = Append(sc[r].writerQueue, v),
           \A s \in Rank \ {r} : sc'[s].writerQueue = sc[s].writerQueue, NEW w \in Rank
    PROVE  /\ NoneQueues(w) /\ v = w => OneQueues(w)'
           /\ NoneQueues(w) /\ v # w => NoneQueues(w)'
           /\ OneQueues(w) /\ v # w => OneQueues(w)'
<1>1. PICK F, G, T : F = Queues /\ G = Queues' /\ T = Just(w)
    OBVIOUS
<1>2. F \in [Rank -> Seq(Rank)] /\ \A s \in Rank : F[s] = sc[s].writerQueue
    BY <1>1, QueuesType
<1>3. G = [s \in Rank |-> sc'[s].writerQueue]
    BY <1>1 DEF Queues
<1>4. PICK O : O = [s \in Rank |-> IF s = r THEN <<v>> ELSE <<>>]
    OBVIOUS
<1>5. O \in [Rank -> Seq(Rank)] /\ O[r] = <<v>> /\ \A s \in Rank \ {r} : O[s] = <<>>
    BY <1>4
<1>6. \A s \in Rank : G[s] = F[s] \o O[s]
    <2>1. ASSUME NEW s \in Rank PROVE G[s] = F[s] \o O[s]
        <3>1. PICK queue \in Seq(Rank) : queue = F[s]
            BY <1>2
        <3>2. CASE s = r
            <4>1. G[s] = Append(queue, v)
                BY <1>2, <1>3, <3>1, <3>2
            <4>2. Append(queue, v) = queue \o <<v>>
                OBVIOUS
            <4>3. QED
                BY <1>5, <3>1, <3>2, <4>1, <4>2
        <3>3. CASE s # r
            <4>1. G[s] = queue
                BY <1>2, <1>3, <3>1, <3>3
            <4>2. queue \o <<>> = queue
                BY ConcatEmptySeq
            <4>3. QED
                BY <1>5, <3>1, <3>3, <4>1, <4>2
        <3>4. QED
            BY <3>2, <3>3
    <2>2. QED
        BY <2>1
<1>7. /\ AllNot(Rank, F, T) /\ AllNot(Rank, O, T) => AllNot(Rank, G, T)
      /\ OneOf(Rank, F, T) /\ AllNot(Rank, O, T) => OneOf(Rank, G, T)
      /\ AllNot(Rank, F, T) /\ OneOf(Rank, O, T) => OneOf(Rank, G, T)
    BY <1>2, <1>5, <1>6, MorePut
<1>8. \A s \in Rank : T[s] = {w}
    BY <1>1 DEF Just
<1>9. \A s \in Rank \ {r} : NotIn(O[s], T[s])
    BY <1>5, NoneNotIn
<1>10. v # w => AllNot(Rank, O, T)
    <2>1. v # w => NotIn(O[r], T[r])
        BY <1>5, <1>8, NoneNotIn
    <2>2. QED
        BY <1>9, <2>1 DEF AllNot
<1>11. v = w => OneOf(Rank, O, T)
    <2>1. v = w => OnceIn(O[r], T[r])
        BY <1>5, <1>8, NoneNotIn
    <2>2. QED
        BY <1>9, <2>1 DEF OneOf
<1>12. /\ NoneQueues(w) = AllNot(Rank, F, T) /\ OneQueues(w) = OneOf(Rank, F, T)
       /\ NoneQueues(w)' = AllNot(Rank, G, T) /\ OneQueues(w)' = OneOf(Rank, G, T)
    BY <1>1, Zenon DEF NoneQueues, OneQueues, Just
<1>13. QED
    BY <1>7, <1>10, <1>11, <1>12

-----------------------------------------------------------------------------
(* The steps of the communication threads keep LedInv and HeldInv. *)

QueueInv == LoopsInv /\ LedInv /\ HeldInv

(* A step within a call leaves what the sets of messages are about. *)
LEMMA StraysKept ==
    ASSUME UNCHANGED callVars
    PROVE  StraysOf' = StraysOf /\ rerouting' = rerouting /\ SubCoords' = SubCoords
<1>1. SubCoords' = SubCoords /\ Message' = Message /\ rerouting' = rerouting
    BY CallKept
<1>2. StraysOf' = StraysOf
    BY <1>1, Zenon DEF StraysOf, Strays
<1>3. QED
    BY <1>1, <1>2

LEMMA LedKept ==
    ASSUME TypeInv, LedInv, rerouting, UNCHANGED callVars, NEW r \in Rank, NEW q, NEW out \in [Rank -> Seq(Message)],
           Exchanges(r, q, out), OutNone(out, StraysOf),
           \A s \in Rank \ SubCoords : sc'[s].writerQueue = <<>>
    PROVE  LedInv'
<1>1. PICK S : S = StraysOf
    OBVIOUS
<1>2. MsgsNone(S) => MsgsNone(S)'
    BY <1>1, ExchangeCounts
<1>3. MsgsNone(S)
    BY <1>1 DEF LedInv
<1>4. S = StraysOf'
    BY <1>1, StraysKept
<1>5. MsgsNone(StraysOf)'
    BY <1>2, <1>3, <1>4, Zenon DEF MsgsNone
<1>6. SubCoords' = SubCoords
    BY StraysKept
<1>7. QED
    BY <1>5, <1>6 DEF LedInv

(* A rank of which nothing was received or sent *)
LEMMA HeldKept ==
    ASSUME UNCHANGED callVars, NEW r \in Rank, NEW q, NEW out \in [Rank -> Seq(Message)], Exchanges(r, q, out),
           NEW w \in Rank, Held(w),
           q \in Rank => First(r, q) \notin TellsOf(w)[r], OutNone(out, TellsOf(w)),
           rank'[w].m_ReadyToWrite = rank[w].m_ReadyToWrite,
           NoneQueues(w) => NoneQueues(w)', OneQueues(w) => OneQueues(w)'
    PROVE  Held(w)'
<1>1. PICK S : S = TellsOf(w)
    OBVIOUS
<1>2. (MsgsNone(S) => MsgsNone(S)') /\ (MsgsOne(S) => MsgsOne(S)')
    BY <1>1, ExchangeCounts
<1>3. /\ NoneTells(w) = MsgsNone(S) /\ NoneTells(w)' = MsgsNone(S)'
      /\ OneTells(w) = MsgsOne(S) /\ OneTells(w)' = MsgsOne(S)'
    BY <1>1, Zenon DEF NoneTells, OneTells, TellsOf
<1>4. rerouting' = rerouting
    BY CallKept
<1>5. QED
    BY <1>2, <1>3, <1>4 DEF Held

(* A rank that is told of by a message is not ready, and in no queue. *)
LEMMA HeldFirst ==
    ASSUME TypeInv, NEW r \in Rank, NEW q \in Rank, channel[<<q, r>>] # <<>>,
           NEW w \in Rank, Held(w), First(r, q) \in TellsOf(w)[r]
    PROVE  ~rank[w].m_ReadyToWrite /\ rerouting /\ NoneQueues(w) /\ OneTells(w) /\ ~NoneTells(w)
<1>1. ~NoneTells(w)
    BY FirstNot DEF NoneTells
<1>2. QED
    BY <1>1 DEF Held

(* The handlers of messages that are not about who is to write *)
LEMMA QuietReceive ==
    ASSUME TypeInv, QueueInv, NEW r \in Rank, NEW q \in Rank, NEW type, NEW out \in [Rank -> Seq(Message)],
           Received(r, q, type, out), type \notin {"REROUTE_ACK", "WRITE_MORE", "DO_WRITE"}, QuietOut(out),
           \A s \in Rank : sc'[s].writerQueue = sc[s].writerQueue,
           \A w \in Rank : rank'[w].m_ReadyToWrite = rank[w].m_ReadyToWrite
    PROVE  LedInv' /\ HeldInv'
<1>1. /\ Exchanges(r, q, out) /\ UNCHANGED callVars /\ First(r, q) \in Message /\ First(r, q).type = type
      /\ rank[r].looping
    BY ReceivedExchanges
<1>2. rerouting
    BY <1>1 DEF QueueInv, LoopsInv
<1>3. LedInv'
    BY <1>1, <1>2, LedKept DEF QueueInv, LedInv, QuietOut
<1>4. ASSUME NEW w \in Rank PROVE Held(w)'
    <2>1. First(r, q) \notin TellsOf(w)[r]
        <3>1. First(r, q) \notin Tells(w, r)
            BY <1>1, GroupsNat, TellsMessages DEF TypeInv
        <3>2. QED
            BY <3>1 DEF TellsOf
    <2>2. Held(w) /\ OutNone(out, TellsOf(w))
        BY DEF QueueInv, HeldInv, QuietOut
    <2>3. (NoneQueues(w) => NoneQueues(w)') /\ (OneQueues(w) => OneQueues(w)')
        BY QueuesSame
    <2>4. QED
        BY <1>1, <2>1, <2>2, <2>3, HeldKept
<1>5. QED
    BY <1>3, <1>4 DEF HeldInv

LEMMA QuietHandlers ==
    ASSUME TypeInv, QueueInv, NEW r \in Rank, NEW q \in Rank,
           \/ WriteCompletion(r, q) \/ GroupClose(r, q) \/ GroupCloseAck(r, q)
           \/ WriterIdle(r, q) \/ WriterCapacity(r, q)
           \/ StatusInquiry(r, q) \/ StatusReply(r, q) \/ RerouteReject(r, q)
    PROVE  LedInv' /\ HeldInv'
<1>0. PlanInv /\ rank \in [Rank -> ThreadType(Groups)] /\ sc \in [Rank -> CoordinatorType]
    BY ThreadsBefore DEF TypeInv
<1>n. Nothing \in [Rank -> Seq(Message)] /\ QuietOut(Nothing)
    <2>1. QuietOut(Nothing)
        BY <1>0, NothingNone DEF QuietOut
    <2>2. QED
        BY <2>1, NothingType
<1>1. CASE WriteCompletion(r, q)
    <2>1. Received(r, q, "WRITE_COMPLETION", Nothing) /\ rank' = rank
          /\ sc' = [sc EXCEPT ![r] = WriterDone(sc[r], First(r, q).offset)]
        BY <1>1 DEF WriteCompletion
    <2>2. WriterDone(sc[r], First(r, q).offset).writerQueue = sc[r].writerQueue
        BY <1>0 DEF WriterDone, Completed, CoordinatorType
    <2>3. \A s \in Rank : sc'[s].writerQueue = sc[s].writerQueue
        BY <1>0, <2>1, <2>2
    <2>4. \A w \in Rank : rank'[w].m_ReadyToWrite = rank[w].m_ReadyToWrite
        BY <2>1
    <2>5. QED
        BY <1>n, <2>1, <2>3, <2>4, QuietReceive
<1>2. CASE GroupClose(r, q)
    <2>1. PICK m : m = [type |-> "GROUP_CLOSE_ACK", index |-> rank[r].m_SubStreamIndex]
        OBVIOUS
    <2>2. Received(r, q, "GROUP_CLOSE", To({GlobalCoord}, m)) /\ sc' = sc
          /\ rank' = [rank EXCEPT ![r].receivedGroupClose = TRUE]
        BY <1>2, <2>1 DEF GroupClose
    <2>3. m \in Message
        BY <1>0, <2>1 DEF Message, ThreadType
    <2>4. Quiet(m)
        BY <2>1, <2>3 DEF Quiet
    <2>5. To({GlobalCoord}, m) \in [Rank -> Seq(Message)] /\ QuietOut(To({GlobalCoord}, m))
        BY <1>0, <2>3, <2>4, ToType, ToQuiet
    <2>6. \A w \in Rank : rank'[w].m_ReadyToWrite = rank[w].m_ReadyToWrite
        BY <1>0, <2>2 DEF ThreadType
    <2>7. PICK out \in [Rank -> Seq(Message)] : out = To({GlobalCoord}, m)
        BY <2>5
    <2>8. QuietOut(out) /\ Received(r, q, "GROUP_CLOSE", out) /\ \A s \in Rank : sc'[s].writerQueue = sc[s].writerQueue
        BY <2>2, <2>5, <2>7
    <2>9. QED
        BY <2>6, <2>8, QuietReceive
<1>3. CASE WriterIdle(r, q)
    <2>1. PICK m : m = [type |-> "STATUS_INQUIRY"]
        OBVIOUS
    <2>2. m \in Message /\ Quiet(m)
        BY <2>1 DEF Message, Quiet
    <2>3. Inquiries(q) \in [Rank -> Seq(Message)] /\ QuietOut(Inquiries(q))
        BY <1>0, <2>1, <2>2, ToType, ToQuiet DEF Inquiries
    <2>4. PICK out : out = IF gc.firstIdleMsg THEN Inquiries(q) ELSE Nothing
        OBVIOUS
    <2>5. out \in [Rank -> Seq(Message)] /\ QuietOut(out)
        BY <1>n, <2>3, <2>4
    <2>6. Received(r, q, "WRITER_IDLE", out) /\ rank' = rank /\ sc' = sc
        BY <1>3, <2>4 DEF WriterIdle, CoordinatorReceived
    <2>7. QED
        BY <2>5, <2>6, QuietReceive
<1>4. CASE StatusInquiry(r, q)
    <2>1. PICK m : m = [type |-> "STATUS_REPLY", index |-> rank[r].m_SubStreamIndex, size |-> Len(sc[r].writerQueue)]
        OBVIOUS
    <2>2. Received(r, q, "STATUS_INQUIRY", To({GlobalCoord}, m)) /\ rank' = rank /\ sc' = sc
        BY <1>4, <2>1 DEF StatusInquiry
    <2>3. m \in Message
        <3>1. Len(sc[r].writerQueue) \in Nat
            BY <1>0, LenProperties DEF CoordinatorType
        <3>2. rank[r].m_SubStreamIndex \in Groups
            BY <1>0 DEF ThreadType
        <3>3. QED
            BY <2>1, <3>1, <3>2 DEF Message
    <2>4. Quiet(m)
        BY <2>1, <2>3 DEF Quiet
    <2>5. To({GlobalCoord}, m) \in [Rank -> Seq(Message)] /\ QuietOut(To({GlobalCoord}, m))
        BY <1>0, <2>3, <2>4, ToType, ToQuiet
    <2>6. PICK out \in [Rank -> Seq(Message)] : out = To({GlobalCoord}, m)
        BY <2>5
    <2>7. /\ QuietOut(out) /\ Received(r, q, "STATUS_INQUIRY", out)
          /\ \A s \in Rank : sc'[s].writerQueue = sc[s].writerQueue
          /\ \A w \in Rank : rank'[w].m_ReadyToWrite = rank[w].m_ReadyToWrite
        BY <2>2, <2>5, <2>6
    <2>8. QED
        BY <2>7, QuietReceive
<1>5. ASSUME GroupCloseAck(r, q) \/ WriterCapacity(r, q) \/ StatusReply(r, q) \/ RerouteReject(r, q)
      PROVE  LedInv' /\ HeldInv'
    <2>1. PICK type \in {"GROUP_CLOSE_ACK", "WRITER_CAPACITY", "STATUS_REPLY", "REROUTE_REJECT"} :
              Received(r, q, type, Nothing) /\ rank' = rank /\ sc' = sc
        BY <1>5 DEF GroupCloseAck, WriterCapacity, StatusReply, RerouteReject, CoordinatorReceived
    <2>2. PICK out \in [Rank -> Seq(Message)] : out = Nothing
        BY <1>n
    <2>3. QuietOut(out) /\ Received(r, q, type, out)
        BY <1>n, <2>1, <2>2
    <2>4. /\ \A s \in Rank : sc'[s].writerQueue = sc[s].writerQueue
          /\ \A w \in Rank : rank'[w].m_ReadyToWrite = rank[w].m_ReadyToWrite
        BY <2>1
    <2>5. type \notin {"REROUTE_ACK", "WRITE_MORE", "DO_WRITE"}
        BY <2>1
    <2>6. QED
        BY <2>3, <2>4, <2>5, QuietReceive
<1>6. QED
    BY <1>1, <1>2, <1>3, <1>4, <1>5

-----------------------------------------------------------------------------
(* The handlers of the messages that tell who is to write, and of requests *)

(* What an exchange does to the messages that tell of w *)
LEMMA TellsThen ==
    ASSUME NEW r \in Rank, NEW q, NEW out \in [Rank -> Seq(Message)], Exchanges(r, q, out), NEW w
    PROVE  /\ NoneTells(w) /\ OutNone(out, TellsOf(w)) => NoneTells(w)'
           /\ NoneTells(w) /\ OutOne(out, TellsOf(w)) => OneTells(w)'
           /\ OneTells(w) /\ q \in Rank /\ First(r, q) \in TellsOf(w)[r] /\ OutNone(out, TellsOf(w)) => NoneTells(w)'
           /\ OneTells(w) /\ q \in Rank /\ First(r, q) \in TellsOf(w)[r] /\ OutOne(out, TellsOf(w)) => OneTells(w)'
<1>1. PICK S : S = TellsOf(w)
    OBVIOUS
<1>2. /\ MsgsNone(S) /\ OutNone(out, S) => MsgsNone(S)'
      /\ MsgsNone(S) /\ OutOne(out, S) => MsgsOne(S)'
      /\ MsgsOne(S) /\ q \in Rank /\ First(r, q) \in S[r] /\ OutNone(out, S) => MsgsNone(S)'
      /\ MsgsOne(S) /\ q \in Rank /\ First(r, q) \in S[r] /\ OutOne(out, S) => MsgsOne(S)'
    BY ExchangeCounts
<1>3. /\ NoneTells(w) = MsgsNone(S) /\ NoneTells(w)' = MsgsNone(S)'
      /\ OneTells(w) = MsgsOne(S) /\ OneTells(w)' = MsgsOne(S)'
    BY <1>1, Zenon DEF NoneTells, OneTells, TellsOf
<1>4. QED
    BY <1>1, <1>2, <1>3, Zenon

(* Which ranks a message tells of *)
LEMMA TellsWhom ==
    ASSUME PlanInv, NEW m \in Message, NEW w \in Rank, NEW to \in Rank
    PROVE  m \in TellsOf(w)[to] <=> \/ m.type \in {"REROUTE_ACK", "WRITE_MORE"} /\ m.rank = w
                                    \/ m.type = "DO_WRITE" /\ to = w
<1>1. TellsOf(w)[to] = Tells(w, to)
    BY DEF TellsOf
<1>2. QED
    BY <1>1, GroupsNat, TellsMessages

LEMMA StraysWhich ==
    ASSUME NEW m \in Message, NEW to \in Rank
    PROVE  m \in StraysOf[to] <=> \/ m.type \in {"REROUTE_REQUEST", "REROUTE_ACK"} /\ m.dest \notin SubCoords
                                  \/ m.type = "WRITE_MORE" /\ to \notin SubCoords
BY DEF StraysOf, Strays

(* A step that leaves messages, queues and who was told *)
LEMMA QueuesKept ==
    ASSUME QueueInv, UNCHANGED callVars, channel' = channel,
           \A s \in Rank : sc'[s].writerQueue = sc[s].writerQueue,
           \A w \in Rank : rank'[w].m_ReadyToWrite = rank[w].m_ReadyToWrite
    PROVE  LedInv' /\ HeldInv'
<1>1. /\ StraysOf' = StraysOf /\ rerouting' = rerouting /\ SubCoords' = SubCoords
      /\ \A w \in Rank : NoneQueues(w)' = NoneQueues(w) /\ OneQueues(w)' = OneQueues(w)
    BY StraysKept, QueuesSame
<1>2. AllMsgs' = AllMsgs
    BY Zenon DEF AllMsgs, Msgs
<1>3. MsgsNone(StraysOf)' = MsgsNone(StraysOf)
    BY <1>1, <1>2, Zenon DEF MsgsNone, ByReceiver
<1>4. \A w \in Rank : NoneTells(w)' = NoneTells(w) /\ OneTells(w)' = OneTells(w)
    BY <1>2, Zenon DEF NoneTells, OneTells, MsgsNone, MsgsOne, ByReceiver, TellsOf
<1>5. LedInv'
    BY <1>1, <1>3 DEF QueueInv, LedInv
<1>6. HeldInv'
    BY <1>1, <1>4 DEF QueueInv, HeldInv, Held
<1>7. QED
    BY <1>5, <1>6

LEMMA DoWriteQueues ==
    ASSUME TypeInv, QueueInv, NEW r \in Rank, NEW q \in Rank, DoWrite(r, q)
    PROVE  LedInv' /\ HeldInv'
<1>1. PICK out \in [Rank -> Seq(Message)] : out = Nothing
    BY NothingType
<1>2. PICK m : m = First(r, q)
    OBVIOUS
<1>3. /\ Received(r, q, "DO_WRITE", out) /\ sc' = sc
      /\ rank' = [rank EXCEPT ![r].m_TargetIndex = m.index, ![r].m_DataPos = m.offset,
                              ![r].m_TargetCoordinator = q, ![r].m_ReadyToWrite = TRUE]
    BY <1>1, <1>2 DEF DoWrite
<1>4. /\ Exchanges(r, q, out) /\ UNCHANGED callVars /\ m \in Message /\ m.type = "DO_WRITE"
      /\ channel[<<q, r>>] # <<>> /\ rank[r].looping
    BY <1>2, <1>3, ReceivedExchanges
<1>5. rerouting /\ PlanInv /\ \A w \in Rank : Held(w)
    BY <1>4 DEF QueueInv, LoopsInv, HeldInv, TypeInv
<1>6. OutNone(out, StraysOf) /\ \A w \in Rank : OutNone(out, TellsOf(w))
    BY <1>1, NothingNone
<1>7. rank'[r].m_ReadyToWrite /\ \A w \in Rank \ {r} : rank'[w].m_ReadyToWrite = rank[w].m_ReadyToWrite
    BY <1>3, ThreadsBefore DEF ThreadType
<1>8. LedInv'
    BY <1>3, <1>4, <1>5, <1>6, LedKept DEF QueueInv, LedInv
<1>9. Held(r)'
    <2>1. First(r, q) \in TellsOf(r)[r]
        BY <1>2, <1>4, <1>5, TellsWhom
    <2>2. NoneQueues(r) /\ OneTells(r)
        BY <1>4, <1>5, <2>1, HeldFirst
    <2>3. NoneTells(r)'
        BY <1>4, <1>6, <2>1, <2>2, TellsThen
    <2>4. NoneQueues(r)'
        BY <1>3, <2>2, QueuesSame
    <2>5. QED
        BY <1>7, <2>3, <2>4 DEF Held
<1>10. ASSUME NEW w \in Rank \ {r} PROVE Held(w)'
    <2>1. First(r, q) \notin TellsOf(w)[r]
        BY <1>2, <1>4, <1>5, TellsWhom
    <2>2. (NoneQueues(w) => NoneQueues(w)') /\ (OneQueues(w) => OneQueues(w)')
        BY <1>3, QueuesSame
    <2>3. w \in Rank /\ Held(w) /\ OutNone(out, TellsOf(w)) /\ rank'[w].m_ReadyToWrite = rank[w].m_ReadyToWrite
        BY <1>5, <1>6, <1>7
    <2>4. QED
        BY <1>4, <2>1, <2>2, <2>3, HeldKept
<1>11. QED
    BY <1>8, <1>9, <1>10 DEF HeldInv

LEMMA WriteMoreQueues ==
    ASSUME TypeInv, QueueInv, NEW r \in Rank, NEW q \in Rank, WriteMore(r, q)
    PROVE  LedInv' /\ HeldInv'
<1>1. PICK out \in [Rank -> Seq(Message)] : out = Nothing
    BY NothingType
<1>2. PICK m : m = First(r, q)
    OBVIOUS
<1>3. /\ Received(r, q, "WRITE_MORE", out) /\ rank' = rank
      /\ sc' = [sc EXCEPT ![r].writerQueue = Append(@, m.rank), ![r].sentIdle = FALSE,
                          ![r].writeMoreCount = @ + 1]
    BY <1>1, <1>2 DEF WriteMore
<1>4. /\ Exchanges(r, q, out) /\ UNCHANGED callVars /\ m \in Message /\ m.type = "WRITE_MORE"
      /\ channel[<<q, r>>] # <<>> /\ rank[r].looping
    BY <1>2, <1>3, ReceivedExchanges
<1>5. PICK v \in Rank : v = m.rank
    BY <1>4, MessageFields
<1>6. rerouting /\ PlanInv /\ MsgsNone(StraysOf) /\ \A w \in Rank : Held(w)
    BY <1>4 DEF QueueInv, LoopsInv, LedInv, HeldInv, TypeInv
<1>7. OutNone(out, StraysOf) /\ \A w \in Rank : OutNone(out, TellsOf(w))
    BY <1>1, NothingNone
<1>8. r \in SubCoords
    <2>1. PICK S : S = StraysOf
        OBVIOUS
    <2>2. m \notin S[r]
        BY <1>2, <1>4, <1>6, <2>1, FirstNot
    <2>3. QED
        BY <1>4, <2>1, <2>2, StraysWhich
<1>9. /\ sc'[r].writerQueue = Append(sc[r].writerQueue, v)
      /\ \A s \in Rank \ {r} : sc'[s].writerQueue = sc[s].writerQueue
    BY <1>3, <1>5, ThreadsBefore DEF CoordinatorType
<1>10. LedInv'
    BY <1>4, <1>6, <1>7, <1>8, <1>9, LedKept DEF QueueInv, LedInv
<1>11. ASSUME NEW w \in Rank
       PROVE  /\ NoneQueues(w) /\ v = w => OneQueues(w)'
              /\ NoneQueues(w) /\ v # w => NoneQueues(w)'
              /\ OneQueues(w) /\ v # w => OneQueues(w)'
    BY <1>9, QueuePut
<1>12. Held(v)'
    <2>1. First(r, q) \in TellsOf(v)[r]
        BY <1>2, <1>4, <1>5, <1>6, TellsWhom
    <2>2. ~rank[v].m_ReadyToWrite /\ NoneQueues(v) /\ OneTells(v)
        BY <1>4, <1>6, <2>1, HeldFirst
    <2>3. NoneTells(v)'
        BY <1>4, <1>7, <2>1, <2>2, TellsThen
    <2>4. OneQueues(v)'
        BY <1>11, <2>2
    <2>5. rerouting' = rerouting /\ ~rank'[v].m_ReadyToWrite
        BY <1>3, <1>4, <2>2, CallKept
    <2>6. QED
        BY <1>6, <2>3, <2>4, <2>5 DEF Held
<1>13. ASSUME NEW w \in Rank \ {v} PROVE Held(w)'
    <2>1. First(r, q) \notin TellsOf(w)[r]
        BY <1>2, <1>4, <1>5, <1>6, TellsWhom
    <2>2. (NoneQueues(w) => NoneQueues(w)') /\ (OneQueues(w) => OneQueues(w)')
        BY <1>11
    <2>3. w \in Rank /\ Held(w) /\ OutNone(out, TellsOf(w)) /\ rank'[w].m_ReadyToWrite = rank[w].m_ReadyToWrite
        BY <1>3, <1>6, <1>7
    <2>4. QED
        BY <1>4, <2>1, <2>2, <2>3, HeldKept
<1>14. QED
    BY <1>10, <1>12, <1>13 DEF HeldInv

LEMMA RerouteAckQueues ==
    ASSUME TypeInv, QueueInv, NEW r \in Rank, NEW q \in Rank, RerouteAck(r, q)
    PROVE  LedInv' /\ HeldInv'
<1>1. PICK m : m = First(r, q)
    OBVIOUS
<1>2. PICK more : more = [type |-> "WRITE_MORE", rank |-> m.rank]
    OBVIOUS
<1>3. Received(r, q, "REROUTE_ACK", To({m.dest}, more)) /\ rank' = rank /\ sc' = sc
    BY <1>1, <1>2 DEF RerouteAck, CoordinatorReceived
<1>4. First(r, q) \in Message /\ channel[<<q, r>>] # <<>> /\ m.type = "REROUTE_ACK"
    BY <1>1, <1>3, FirstType DEF Received
<1>5. PICK v \in Rank, d \in Rank : v = m.rank /\ d = m.dest
    BY <1>1, <1>4, MessageFields
<1>6. more \in Message /\ more.type = "WRITE_MORE" /\ more.rank = v
    BY <1>2, <1>5 DEF Message
<1>7. PICK out \in [Rank -> Seq(Message)] : out = To({d}, more)
    BY <1>6, ToType
<1>8. Received(r, q, "REROUTE_ACK", out)
    BY <1>3, <1>5, <1>7
<1>9. Exchanges(r, q, out) /\ UNCHANGED callVars /\ rank[r].looping
    BY <1>8, ReceivedExchanges
<1>10. rerouting /\ PlanInv /\ MsgsNone(StraysOf) /\ \A w \in Rank : Held(w)
    BY <1>9 DEF QueueInv, LoopsInv, LedInv, HeldInv, TypeInv
<1>11. d \in SubCoords
    <2>1. PICK S : S = StraysOf
        OBVIOUS
    <2>2. m \notin S[r]
        BY <1>1, <1>4, <1>10, <2>1, FirstNot
    <2>3. QED
        BY <1>1, <1>4, <1>5, <2>1, <2>2, StraysWhich
<1>12. OutNone(out, StraysOf)
    <2>1. PICK S : S = StraysOf
        OBVIOUS
    <2>2. \A to \in Rank : to \in {d} => more \notin S[to]
        BY <1>6, <1>11, <2>1, StraysWhich
    <2>3. QED
        BY <1>7, <2>1, <2>2, ToNone
<1>13. LedInv'
    BY <1>3, <1>9, <1>10, <1>12, LedKept DEF QueueInv, LedInv
<1>14. Held(v)'
    <2>1. PICK S : S = TellsOf(v)
        OBVIOUS
    <2>2. First(r, q) \in S[r] /\ more \in S[d]
        BY <1>1, <1>4, <1>5, <1>6, <1>10, <2>1, TellsWhom
    <2>3. ~rank[v].m_ReadyToWrite /\ NoneQueues(v) /\ OneTells(v)
        BY <1>4, <1>10, <2>1, <2>2, HeldFirst
    <2>4. OutOne(out, S)
        BY <1>7, <2>2, ToOne
    <2>5. OneTells(v)'
        BY <1>9, <2>1, <2>2, <2>3, <2>4, TellsThen
    <2>6. NoneQueues(v)'
        BY <1>3, <2>3, QueuesSame
    <2>7. rerouting' = rerouting /\ ~rank'[v].m_ReadyToWrite
        BY <1>3, <1>9, <2>3, CallKept
    <2>8. QED
        BY <1>10, <2>5, <2>6, <2>7 DEF Held
<1>15. ASSUME NEW w \in Rank \ {v} PROVE Held(w)'
    <2>1. PICK S : S = TellsOf(w)
        OBVIOUS
    <2>2. First(r, q) \notin S[r]
        BY <1>1, <1>4, <1>5, <1>10, <2>1, TellsWhom
    <2>3. \A to \in Rank : to \in {d} => more \notin S[to]
        BY <1>6, <1>10, <2>1, TellsWhom
    <2>4. OutNone(out, S)
        BY <1>7, <2>3, ToNone
    <2>5. (NoneQueues(w) => NoneQueues(w)') /\ (OneQueues(w) => OneQueues(w)')
        BY <1>3, QueuesSame
    <2>6. w \in Rank /\ Held(w) /\ rank'[w].m_ReadyToWrite = rank[w].m_ReadyToWrite
        BY <1>3, <1>10
    <2>7. QED
        BY <1>9, <2>1, <2>2, <2>4, <2>5, <2>6, HeldKept
<1>16. QED
    BY <1>13, <1>14, <1>15 DEF HeldInv

LEMMA RerouteRequestQueues ==
    ASSUME TypeInv, QueueInv, NEW r \in Rank, NEW q \in Rank, RerouteRequest(r, q)
    PROVE  LedInv' /\ HeldInv'
<1>1. PICK m : m = First(r, q)
    OBVIOUS
<1>2. PICK answer : answer = IF sc[r].writerQueue = <<>> THEN [m EXCEPT !.type = "REROUTE_REJECT"]
                             ELSE [m EXCEPT !.type = "REROUTE_ACK", !.rank = Head(sc[r].writerQueue)]
    OBVIOUS
<1>3. /\ Received(r, q, "REROUTE_REQUEST", To({GlobalCoord}, answer)) /\ rank' = rank
      /\ sc' = [sc EXCEPT ![r].writerQueue = TakeRerouted(r)]
    BY <1>1, <1>2, Zenon DEF RerouteRequest
<1>4. m \in Message /\ channel[<<q, r>>] # <<>> /\ m.type = "REROUTE_REQUEST"
    BY <1>1, <1>3, FirstType DEF Received
<1>5. sc[r].writerQueue \in Seq(Rank) /\ sc'[r].writerQueue = TakeRerouted(r)
      /\ \A s \in Rank \ {r} : sc'[s].writerQueue = sc[s].writerQueue
    BY <1>3, ThreadsBefore DEF CoordinatorType
<1>6. sc[r].writerQueue # <<>> => Head(sc[r].writerQueue) \in Rank
    BY <1>5, HeadTailProperties
<1>7. answer \in Message
    BY <1>2, <1>4, <1>6, AnswerTypes
<1>8. PICK gcr \in SubCoords : gcr = GlobalCoord /\ gcr \in Rank /\ PlanInv
    BY PlanInvCoords DEF TypeInv
<1>9. PICK out \in [Rank -> Seq(Message)] : out = To({gcr}, answer)
    BY <1>7, ToType
<1>10. Received(r, q, "REROUTE_REQUEST", out)
    BY <1>3, <1>8, <1>9
<1>11. Exchanges(r, q, out) /\ UNCHANGED callVars /\ rank[r].looping
    BY <1>10, ReceivedExchanges
<1>12. rerouting /\ MsgsNone(StraysOf) /\ \A w \in Rank : Held(w)
    BY <1>11 DEF QueueInv, LoopsInv, LedInv, HeldInv
<1>13. CASE sc[r].writerQueue = <<>>
    <2>1. answer = [m EXCEPT !.type = "REROUTE_REJECT"]
        BY <1>2, <1>13
    <2>2. answer.type = "REROUTE_REJECT"
        BY <1>4, <2>1 DEF Message
    <2>3. Quiet(answer)
        BY <1>7, <2>2 DEF Quiet
    <2>4. QuietOut(out)
        BY <1>8, <1>9, <2>3, ToQuiet
    <2>5. \A s \in Rank : sc'[s].writerQueue = sc[s].writerQueue
        BY <1>5, <1>13 DEF TakeRerouted
    <2>6. QED
        BY <1>3, <1>10, <2>4, <2>5, QuietReceive
<1>14. CASE sc[r].writerQueue # <<>>
    <2>1. PICK v \in Rank : v = Head(sc[r].writerQueue)
        BY <1>6, <1>14
    <2>2. answer = [m EXCEPT !.type = "REROUTE_ACK", !.rank = v]
        BY <1>2, <1>14, <2>1
    <2>3. answer.type = "REROUTE_ACK" /\ answer.rank = v /\ answer.dest = m.dest
        BY <1>4, <2>2 DEF Message
    <2>4. sc'[r].writerQueue = Tail(sc[r].writerQueue)
        BY <1>5, <1>14 DEF TakeRerouted
    <2>5. ASSUME NEW w \in Rank
          PROVE  /\ NoneQueues(w) => NoneQueues(w)' /\ v # w
                 /\ OneQueues(w) /\ v = w => NoneQueues(w)'
                 /\ OneQueues(w) /\ v # w => OneQueues(w)'
        BY <1>5, <1>14, <2>1, <2>4, QueueTaken
    <2>6. OutNone(out, StraysOf)
        <3>1. PICK S : S = StraysOf
            OBVIOUS
        <3>2. m \notin S[r]
            BY <1>1, <1>4, <1>12, <3>1, FirstNot
        <3>3. m.dest \in SubCoords
            BY <1>4, <3>1, <3>2, StraysWhich
        <3>4. \A to \in Rank : to \in {gcr} => answer \notin S[to]
            BY <1>7, <2>3, <3>1, <3>3, StraysWhich
        <3>5. QED
            BY <1>9, <3>1, <3>4, ToNone
    <2>7. LedInv'
        <3>1. \A s \in Rank \ SubCoords : sc'[s].writerQueue = <<>>
            BY <1>5, <1>14 DEF QueueInv, LedInv
        <3>2. QED
            BY <1>11, <1>12, <2>6, <3>1, LedKept DEF QueueInv
    <2>8. Held(v)'
        <3>1. PICK S : S = TellsOf(v)
            OBVIOUS
        <3>2. ~rank[v].m_ReadyToWrite /\ OneQueues(v) /\ NoneTells(v)
            BY <1>12, <2>5 DEF Held
        <3>3. answer \in S[gcr]
            BY <1>7, <1>8, <2>3, <3>1, TellsWhom
        <3>4. OutOne(out, S)
            BY <1>8, <1>9, <3>3, ToOne
        <3>5. OneTells(v)'
            BY <1>11, <3>1, <3>2, <3>4, TellsThen
        <3>6. rerouting' = rerouting /\ ~rank'[v].m_ReadyToWrite
            BY <1>3, <1>11, <3>2, CallKept
        <3>7. QED
            BY <1>12, <2>5, <3>2, <3>5, <3>6 DEF Held
    <2>9. ASSUME NEW w \in Rank \ {v} PROVE Held(w)'
        <3>1. PICK S : S = TellsOf(w)
            OBVIOUS
        <3>2. First(r, q) \notin S[r]
            BY <1>1, <1>4, <1>8, <3>1, TellsWhom
        <3>3. \A to \in Rank : to \in {gcr} => answer \notin S[to]
            BY <1>7, <1>8, <2>3, <3>1, TellsWhom
        <3>4. OutNone(out, S)
            BY <1>9, <3>3, ToNone
        <3>5. w \in Rank /\ Held(w) /\ rank'[w].m_ReadyToWrite = rank[w].m_ReadyToWrite
              /\ (NoneQueues(w) => NoneQueues(w)') /\ (OneQueues(w) => OneQueues(w)')
            BY <1>3, <1>12, <2>5
        <3>6. QED
            BY <1>11, <3>1, <3>2, <3>4, <3>5, HeldKept
    <2>10. QED
        BY <2>7, <2>8, <2>9 DEF HeldInv
<1>15. QED
    BY <1>13, <1>14

(* All that is received *)
LEMMA ReceiveQueues ==
    ASSUME TypeInv, QueueInv, NEW r \in Rank, NEW q \in Rank, Receive(r, q)
    PROVE  LedInv' /\ HeldInv'
<1>1. CASE Misdelivered(r, q)
    <2>1. UNCHANGED callVars /\ channel' = channel /\ sc' = sc /\ rank' = rank
        BY <1>1 DEF Misdelivered, callVars
    <2>2. /\ \A s \in Rank : sc'[s].writerQueue = sc[s].writerQueue
          /\ \A w \in Rank : rank'[w].m_ReadyToWrite = rank[w].m_ReadyToWrite
        BY <2>1
    <2>3. QED
        BY <2>1, <2>2, QueuesKept
<1>2. QED
    BY <1>1, DoWriteQueues, WriteMoreQueues, RerouteAckQueues, RerouteRequestQueues, QuietHandlers DEF Receive

-----------------------------------------------------------------------------
(* The rest of a turn *)

(* The three parts of what a turn sends *)
LEMMA PartsNone ==
    ASSUME NEW a \in [Rank -> Seq(Message)], NEW b \in [Rank -> Seq(Message)], NEW c \in [Rank -> Seq(Message)],
           NEW out, \A to \in Rank : out[to] = a[to] \o b[to] \o c[to], NEW S, OutNone(a, S), OutNone(c, S)
    PROVE  (OutNone(b, S) => OutNone(out, S)) /\ (OutOne(b, S) => OutOne(out, S))
<1>1. ASSUME NEW to \in Rank
      PROVE  /\ NotIn(b[to], S[to]) => NotIn(out[to], S[to])
             /\ OnceIn(b[to], S[to]) => OnceIn(out[to], S[to])
    <2>1. PICK x \in Seq(Message), y \in Seq(Message), z \in Seq(Message) : x = a[to] /\ y = b[to] /\ z = c[to]
        OBVIOUS
    <2>2. NotIn(x, S[to]) /\ NotIn(z, S[to])
        BY <2>1 DEF OutNone
    <2>3. PICK xy \in Seq(Message) : xy = x \o y
        BY ConcatProperties
    <2>4. (NotIn(y, S[to]) => NotIn(xy, S[to])) /\ (OnceIn(y, S[to]) => OnceIn(xy, S[to]))
        BY <2>2, <2>3, ConcatNotIn
    <2>5. (NotIn(xy, S[to]) => NotIn(xy \o z, S[to])) /\ (OnceIn(xy, S[to]) => OnceIn(xy \o z, S[to]))
        BY <2>2, ConcatNotIn
    <2>6. out[to] = xy \o z
        BY <2>1, <2>3
    <2>7. QED
        BY <2>1, <2>4, <2>5, <2>6, Zenon
<1>2. OutNone(b, S) => OutNone(out, S)
    BY <1>1, Zenon DEF OutNone
<1>3. ASSUME OutOne(b, S) PROVE OutOne(out, S)
    <2>1. PICK to \in Rank : OnceIn(b[to], S[to]) /\ \A x \in Rank \ {to} : NotIn(b[x], S[x])
        BY <1>3 DEF OutOne
    <2>2. OnceIn(out[to], S[to]) /\ \A x \in Rank \ {to} : NotIn(out[x], S[x])
        BY <1>1, <2>1
    <2>3. QED
        BY <2>2 DEF OutOne
<1>4. QED
    BY <1>2, <1>3

LEMMA CompletionQuiet ==
    ASSUME TypeInv, NEW r \in Rank
    PROVE  QuietOut(Completion(r))
<1>1. PICK m : m = [type |-> "WRITE_COMPLETION", offset |-> rank[r].m_DataPos]
    OBVIOUS
<1>2. rank[r].m_DataPos \in Nat
    BY ThreadsBefore DEF ThreadType
<1>3. Quiet(m)
    BY <1>1, <1>2 DEF Quiet, Message, Pos
<1>4. PICK D : D = IF Notifies(r) THEN {rank[r].m_TargetCoordinator} ELSE {}
    OBVIOUS
<1>5. QuietOut(To(D, m))
    BY <1>3, ToQuiet DEF TypeInv
<1>6. Completion(r) = To(D, m)
    BY <1>1, <1>4 DEF Completion
<1>7. QED
    BY <1>5, <1>6

LEMMA CoordinationQuiet ==
    ASSUME TypeInv, NEW r \in Rank, NEW idle \in Groups, NEW writing \in Groups
    PROVE  QuietOut(Coordination(r, idle, writing))
<1>1. CASE Reroutes(r)
    <2>1. PICK m : m = [type |-> "REROUTE_REQUEST", src |-> SubCoord(writing), dest |-> SubCoord(idle), rank |-> NoRank]
        OBVIOUS
    <2>2. SubCoord(writing) \in Rank /\ SubCoord(idle) \in Rank /\ SubCoord(idle) \in SubCoords /\ PlanInv
        BY PlanInvCoords DEF TypeInv
    <2>3. m \in Message /\ m.type = "REROUTE_REQUEST" /\ m.dest \in SubCoords
        BY <2>1, <2>2 DEF Message
    <2>4. PICK out, D : out = To(D, m) /\ D = {SubCoord(writing)}
        OBVIOUS
    <2>5. ASSUME NEW to \in Rank PROVE m \notin StraysOf[to] /\ \A w \in Rank : m \notin TellsOf(w)[to]
        BY <2>2, <2>3, StraysWhich, TellsWhom
    <2>6. OutNone(out, StraysOf)
        BY <2>4, <2>5, ToNone
    <2>7. ASSUME NEW w \in Rank PROVE OutNone(out, TellsOf(w))
        BY <2>4, <2>5, ToNone
    <2>8. Coordination(r, idle, writing) = out
        BY <1>1, <2>1, <2>4 DEF Coordination
    <2>9. QED
        BY <2>6, <2>7, <2>8 DEF QuietOut
<1>2. CASE ~Reroutes(r)
    <2>1. PICK m : m = [type |-> "GROUP_CLOSE"]
        OBVIOUS
    <2>2. Quiet(m)
        BY <2>1 DEF Quiet, Message
    <2>3. PICK D : D = SubCoords \ {r}
        OBVIOUS
    <2>4. QuietOut(To(D, m)) /\ QuietOut(Nothing)
        BY <2>2, ToQuiet DEF TypeInv
    <2>5. Coordination(r, idle, writing) \in {To(D, m), Nothing}
        BY <1>2, <2>1, <2>3 DEF Coordination
    <2>6. QED
        BY <2>4, <2>5
<1>3. QED
    BY <1>1, <1>2

(* Who is told to write: the next writer, unless it is the subcoordinator itself *)
LEMMA OrdersTell ==
    ASSUME TypeInv, NEW r \in Rank
    PROVE  /\ OutNone(Orders(r), StraysOf)
           /\ ~Dispatches(r) => QuietOut(Orders(r))
           /\ Dispatches(r) => \A w \in Rank : IF w = NextWriter(r) /\ w # r THEN OutOne(Orders(r), TellsOf(w))
                                               ELSE OutNone(Orders(r), TellsOf(w))
<1>1. CASE Dispatches(r)
    <2>1. PICK v \in Rank : v = NextWriter(r)
        BY <1>1, NextWriterType
    <2>2. PICK m : m = [type |-> "DO_WRITE", index |-> rank[r].m_SubStreamIndex, offset |-> sc[r].currentFilePos]
        OBVIOUS
    <2>3. rank[r].m_SubStreamIndex \in Groups /\ sc[r].currentFilePos \in Nat /\ PlanInv
        BY ThreadsBefore DEF ThreadType, CoordinatorType, TypeInv
    <2>4. m \in Message /\ m.type = "DO_WRITE"
        BY <2>2, <2>3 DEF Message, Pos
    <2>5. PICK D, out : D = {v} \ {r} /\ out = To(D, m)
        OBVIOUS
    <2>6. Orders(r) = out
        BY <1>1, <2>1, <2>2, <2>5 DEF Orders
    <2>7. OutNone(out, StraysOf)
        <3>1. \A to \in Rank : m \notin StraysOf[to]
            BY <2>4, StraysWhich
        <3>2. QED
            BY <2>5, <3>1, ToNone
    <2>8. ASSUME NEW w \in Rank
          PROVE  IF w = v /\ w # r THEN OutOne(out, TellsOf(w)) ELSE OutNone(out, TellsOf(w))
        <3>1. PICK S : S = TellsOf(w)
            OBVIOUS
        <3>2. \A to \in Rank : m \in S[to] <=> to = w
            BY <2>3, <2>4, <3>1, TellsWhom
        <3>3. CASE w = v /\ w # r
            <4>1. D = {w} /\ m \in S[w]
                BY <2>5, <3>2, <3>3
            <4>2. QED
                BY <2>5, <3>1, <3>3, <4>1, ToOne
        <3>4. CASE ~(w = v /\ w # r)
            <4>1. \A to \in Rank : to \in D => m \notin S[to]
                BY <2>5, <3>2, <3>4
            <4>2. QED
                BY <2>5, <3>1, <3>4, <4>1, ToNone
        <3>5. QED
            BY <3>3, <3>4
    <2>9. QED
        BY <1>1, <2>1, <2>6, <2>7, <2>8
<1>2. CASE ~Dispatches(r)
    <2>1. PICK m : m = [type |-> Reports(r), index |-> rank[r].m_SubStreamIndex]
        OBVIOUS
    <2>2. rank[r].m_SubStreamIndex \in Groups /\ Reports(r) \in {"WRITER_CAPACITY", "WRITER_IDLE"}
        BY ThreadsBefore DEF ThreadType, Reports
    <2>3. Quiet(m)
        BY <2>1, <2>2 DEF Quiet, Message
    <2>4. PICK D : D = {GlobalCoord}
        OBVIOUS
    <2>5. QuietOut(To(D, m)) /\ QuietOut(Nothing)
        BY <2>3, ToQuiet DEF TypeInv
    <2>6. Orders(r) \in {To(D, m), Nothing}
        BY <1>2, <2>1, <2>4 DEF Orders
    <2>7. QuietOut(Orders(r))
        BY <2>5, <2>6
    <2>8. QED
        BY <1>2, <2>7 DEF QuietOut
<1>3. QED
    BY <1>1, <1>2

LEMMA WorkQueues ==
    ASSUME TypeInv, QueueInv, NEW r \in Rank, rank[r].looping, Work(r)
    PROVE  LedInv' /\ HeldInv'
<1>1. PICK idle \in Groups, writing \in Groups :
          /\ Exchanges(r, NoRank, Output(r, idle, writing))
          /\ Dispatch(r) /\ UNCHANGED callVars
    BY WorkExchanges
<1>2. PICK out \in [Rank -> Seq(Message)] : out = Output(r, idle, writing)
    BY OutputType
<1>3. Exchanges(r, NoRank, out) /\ NoRank \notin Rank
    BY <1>1, <1>2, PlanInvCoords DEF TypeInv
<1>4. rerouting /\ \A w \in Rank : Held(w)
    BY DEF QueueInv, LoopsInv, HeldInv
<1>5. ASSUME NEW S, OutNone(Completion(r), S), OutNone(Coordination(r, idle, writing), S)
      PROVE  (OutNone(Orders(r), S) => OutNone(out, S)) /\ (OutOne(Orders(r), S) => OutOne(out, S))
    <2>1. PICK a \in [Rank -> Seq(Message)], b \in [Rank -> Seq(Message)], c \in [Rank -> Seq(Message)] :
              a = Completion(r) /\ b = Orders(r) /\ c = Coordination(r, idle, writing)
        BY CompletionType, OrdersType, CoordinationType
    <2>2. \A to \in Rank : out[to] = a[to] \o b[to] \o c[to]
        BY <1>2, <2>1 DEF Output
    <2>3. OutNone(a, S) /\ OutNone(c, S)
        BY <1>5, <2>1
    <2>4. (OutNone(b, S) => OutNone(out, S)) /\ (OutOne(b, S) => OutOne(out, S))
        BY <2>2, <2>3, PartsNone
    <2>5. QED
        BY <2>1, <2>4
<1>6. OutNone(out, StraysOf)
    BY <1>5, CompletionQuiet, CoordinationQuiet, OrdersTell DEF QuietOut
<1>7. ASSUME NEW w \in Rank
      PROVE  /\ OutNone(Orders(r), TellsOf(w)) => OutNone(out, TellsOf(w))
             /\ OutOne(Orders(r), TellsOf(w)) => OutOne(out, TellsOf(w))
    BY <1>5, CompletionQuiet, CoordinationQuiet DEF QuietOut
<1>8. \A w \in Rank : rank'[w].m_ReadyToWrite =
                          (rank[w].m_ReadyToWrite \/ (w = r /\ Dispatches(r) /\ NextWriter(r) = r))
    BY WorkThreads
<1>9. \A w \in Rank : rank[w].m_ReadyToWrite \in BOOLEAN
    BY ThreadsBefore DEF ThreadType
<1>10. CASE Dispatches(r)
    <2>1. PICK v \in Rank : v = NextWriter(r)
        BY <1>10, NextWriterType
    <2>2. r \in SubCoords /\ sc[r].writerQueue # <<>> /\ v = Head(sc[r].writerQueue)
        BY <1>10, <2>1 DEF Dispatches, NobodyWrites, NextWriter
    <2>3. /\ sc'[r].writerQueue = Tail(sc[r].writerQueue)
          /\ \A s \in Rank \ {r} : sc'[s].writerQueue = sc[s].writerQueue
        <3>1. PICK queue : queue = Tail(sc[r].writerQueue)
            OBVIOUS
        <3>2. sc' = [sc EXCEPT ![r] = [sc[r] EXCEPT !.writingRank = v, !.writerQueue = queue,
                                                    !.expectingWriteCompletion = TRUE]]
            BY <1>1, <1>10, <2>1, <3>1, Zenon DEF Dispatch
        <3>3. QED
            BY <3>1, <3>2, ThreadsBefore DEF CoordinatorType
    <2>4. ASSUME NEW w \in Rank
          PROVE  /\ NoneQueues(w) => NoneQueues(w)' /\ v # w
                 /\ OneQueues(w) /\ v = w => NoneQueues(w)'
                 /\ OneQueues(w) /\ v # w => OneQueues(w)'
        BY <2>2, <2>3, QueueTaken
    <2>5. LedInv'
        <3>1. \A s \in Rank \ SubCoords : sc'[s].writerQueue = <<>>
            BY <2>2, <2>3 DEF QueueInv, LedInv
        <3>2. QED
            BY <1>1, <1>3, <1>4, <1>6, <3>1, LedKept DEF QueueInv
    <2>6. Held(v)'
        <3>1. ~rank[v].m_ReadyToWrite /\ OneQueues(v) /\ NoneTells(v)
            BY <1>4, <2>4 DEF Held
        <3>2. NoneQueues(v)'
            BY <2>4, <3>1
        <3>3. rerouting' = rerouting
            BY <1>1, CallKept
        <3>4. CASE v = r
            <4>1. OutNone(out, TellsOf(v))
                BY <1>7, <1>10, <2>1, <3>4, OrdersTell
            <4>2. NoneTells(v)'
                BY <1>3, <3>1, <4>1, TellsThen
            <4>3. rank'[v].m_ReadyToWrite
                BY <1>8, <1>10, <2>1, <3>4
            <4>4. QED
                BY <3>2, <4>2, <4>3 DEF Held
        <3>5. CASE v # r
            <4>1. OutOne(out, TellsOf(v))
                BY <1>7, <1>10, <2>1, <3>5, OrdersTell
            <4>2. OneTells(v)'
                BY <1>3, <3>1, <4>1, TellsThen
            <4>3. ~rank'[v].m_ReadyToWrite
                BY <1>8, <3>1, <3>5
            <4>4. QED
                BY <1>4, <3>2, <3>3, <4>2, <4>3 DEF Held
        <3>6. QED
            BY <3>4, <3>5
    <2>7. ASSUME NEW w \in Rank \ {v} PROVE Held(w)'
        <3>1. OutNone(out, TellsOf(w))
            BY <1>7, <1>10, <2>1, OrdersTell
        <3>2. rank'[w].m_ReadyToWrite = rank[w].m_ReadyToWrite
            BY <1>8, <1>9, <2>1
        <3>3. w \in Rank /\ Held(w) /\ (NoneQueues(w) => NoneQueues(w)') /\ (OneQueues(w) => OneQueues(w)')
            BY <1>4, <2>4
        <3>4. QED
            BY <1>1, <1>3, <3>1, <3>2, <3>3, HeldKept
    <2>8. QED
        BY <2>5, <2>6, <2>7 DEF HeldInv
<1>11. CASE ~Dispatches(r)
    <2>1. \A s \in Rank : sc'[s].writerQueue = sc[s].writerQueue
        <3>1. PICK idles : sc' = [sc EXCEPT ![r] = [sc[r] EXCEPT !.sentIdle = idles]]
            BY <1>1, <1>11, Zenon DEF Dispatch
        <3>2. QED
            BY <3>1, ThreadsBefore DEF CoordinatorType
    <2>2. \A w \in Rank : OutNone(out, TellsOf(w))
        BY <1>7, <1>11, OrdersTell DEF QuietOut
    <2>3. LedInv'
        BY <1>1, <1>3, <1>4, <1>6, <2>1, LedKept DEF QueueInv, LedInv
    <2>4. ASSUME NEW w \in Rank PROVE Held(w)'
        <3>1. (NoneQueues(w) => NoneQueues(w)') /\ (OneQueues(w) => OneQueues(w)')
            BY <2>1, QueuesSame
        <3>2. rank'[w].m_ReadyToWrite = rank[w].m_ReadyToWrite
            BY <1>8, <1>9, <1>11
        <3>3. QED
            BY <1>1, <1>3, <1>4, <2>2, <3>1, <3>2, HeldKept
    <2>5. QED
        BY <2>3, <2>4 DEF HeldInv
<1>12. QED
    BY <1>10, <1>11

-----------------------------------------------------------------------------
(* The start of a call: the queues are the groups. *)

Dealt == \E pos : sc = SubCoordinators(m_Partitioning, rerouting, pos)
DealtOnce ==
    /\ \A w \in Rank : IF rerouting THEN OneQueues(w) ELSE NoneQueues(w)
    /\ \A s \in Rank \ SubCoords : sc[s].writerQueue = <<>>

LEMMA DealtQueues == PlanInv /\ Dealt => DealtOnce
<1> SUFFICES ASSUME PlanInv, Dealt PROVE DealtOnce
    OBVIOUS
<1>1. PICK pos : sc = SubCoordinators(m_Partitioning, rerouting, pos)
    BY DEF Dealt
<1>2. /\ \A g, h \in Groups : \A i \in 1..Len(Partition(g)), j \in 1..Len(Partition(h)) :
             Partition(g)[i] = Partition(h)[j] => g = h /\ i = j
      /\ \A g \in Groups : Partition(g) \in Seq(Rank) /\ Len(Partition(g)) > 0
      /\ \A w \in Rank : \E g \in Groups : \E i \in 1..Len(Partition(g)) : Partition(g)[i] = w
    BY PlanInvGroups DEF InGroups, Partition
<1>c. ASSUME NEW g \in Groups, NEW h \in Groups, NEW i \in 1..Len(Partition(g)), NEW j \in 1..Len(Partition(h)),
             Partition(g)[i] = Partition(h)[j]
      PROVE  g = h /\ i = j
    BY <1>2, <1>c
<1>3. ASSUME NEW g \in Groups
      PROVE  SubCoord(g) = Partition(g)[1] /\ SubCoord(g) \in Rank /\ 1 \in 1..Len(Partition(g))
    <2>1. Partition(g) \in Seq(Rank) /\ Len(Partition(g)) > 0
        BY <1>2
    <2>2. Len(Partition(g)) \in Nat
        BY <2>1, LenProperties
    <2>3. QED
        BY <2>1, <2>2, PlanInvCoords DEF SubCoord
<1>4. ASSUME NEW s \in Rank, ~rerouting \/ s \notin SubCoords
      PROVE  sc[s].writerQueue = <<>>
    <2>1. {g \in DOMAIN m_Partitioning.m_Partitions : rerouting /\ m_Partitioning.m_Partitions[g][1] = s} = {}
        BY <1>4 DEF SubCoords, SubCoord, Partition, Groups
    <2>2. sc[s] = Coordinator(<<>>, 0)
        BY <1>1, <2>1 DEF SubCoordinators
    <2>3. QED
        BY <2>2 DEF Coordinator
<1>5. ASSUME NEW g \in Groups, rerouting
      PROVE  sc[SubCoord(g)].writerQueue = Partition(g)
    <2>1. PICK s \in Rank : s = SubCoord(g)
        BY <1>3
    <2>2. PICK led : led = {h \in DOMAIN m_Partitioning.m_Partitions : rerouting /\ m_Partitioning.m_Partitions[h][1] = s}
        OBVIOUS
    <2>3. led = {g}
        <3>1. led = {h \in Groups : SubCoord(h) = s}
            BY <1>5, <2>2 DEF SubCoord, Partition, Groups
        <3>2. ASSUME NEW h \in Groups, SubCoord(h) = s PROVE h = g
            BY <1>c, <1>3, <2>1, <3>2
        <3>3. QED
            BY <2>1, <3>1, <3>2
    <2>4. PICK h : h = CHOOSE x \in led : TRUE
        OBVIOUS
    <2>5. h = g
        BY <2>3, <2>4
    <2>6. sc[s] = Coordinator(m_Partitioning.m_Partitions[h], pos[h])
        <3>1. sc[s] = IF led = {} THEN Coordinator(<<>>, 0)
                      ELSE Coordinator(m_Partitioning.m_Partitions[CHOOSE x \in led : TRUE], pos[CHOOSE x \in led : TRUE])
            BY <1>1, <2>2 DEF SubCoordinators
        <3>2. QED
            BY <2>3, <2>4, <3>1
    <2>7. QED
        BY <2>1, <2>5, <2>6 DEF Coordinator, Partition
<1>6. \A s \in Rank : Queues[s] = sc[s].writerQueue /\ \A w : Just(w)[s] = {w}
    BY DEF Queues, Just
<1>7. ASSUME NEW w \in Rank PROVE IF rerouting THEN OneQueues(w) ELSE NoneQueues(w)
    <2>1. CASE ~rerouting
        <3>1. \A s \in Rank : NotIn(Queues[s], Just(w)[s])
            BY <1>4, <1>6, <2>1, NoneNotIn
        <3>2. QED
            BY <2>1, <3>1 DEF NoneQueues, AllNot
    <2>2. CASE rerouting
        <3>1. PICK g \in Groups : \E i \in 1..Len(Partition(g)) : Partition(g)[i] = w
            BY <1>2
        <3>2. PICK i \in 1..Len(Partition(g)) : Partition(g)[i] = w
            BY <3>1
        <3>3. PICK s \in Rank : s = SubCoord(g)
            BY <1>3
        <3>4. OnceIn(Queues[s], Just(w)[s])
            <4>1. Queues[s] = Partition(g) /\ Just(w)[s] = {w}
                BY <1>5, <1>6, <2>2, <3>3
            <4>2. ASSUME NEW j \in 1..Len(Partition(g)), Partition(g)[j] = w PROVE j = i
                BY <1>c, <3>2, <4>2
            <4>3. QED
                BY <3>2, <4>1, <4>2 DEF OnceIn
        <3>5. ASSUME NEW t \in Rank \ {s} PROVE NotIn(Queues[t], Just(w)[t])
            <4>1. CASE t \notin SubCoords
                <5>1. Queues[t] = <<>>
                    BY <1>4, <1>6, <4>1
                <5>2. QED
                    BY <5>1, NoneNotIn
            <4>2. CASE t \in SubCoords
                <5>1. PICK h \in Groups : t = SubCoord(h)
                    BY <4>2 DEF SubCoords
                <5>2. h # g
                    BY <3>3, <3>5, <5>1
                <5>3. Queues[t] = Partition(h) /\ Just(w)[t] = {w}
                    BY <1>5, <1>6, <2>2, <5>1
                <5>4. ASSUME NEW j \in 1..Len(Partition(h)), Partition(h)[j] = w PROVE FALSE
                    BY <1>c, <3>2, <5>2, <5>4
                <5>5. QED
                    BY <5>3, <5>4 DEF NotIn
            <4>3. QED
                BY <4>1, <4>2
        <3>6. QED
            BY <2>2, <3>4, <3>5 DEF OneQueues, OneOf
    <2>3. QED
        BY <2>1, <2>2
<1>8. QED
    BY <1>4, <1>7 DEF DealtOnce

LEMMA NextDealtQueues == PlanInv' /\ Dealt' => DealtOnce'
BY DealtQueues, PTL

LEMMA InitQueueInv == Init => QueueInv
<1> SUFFICES ASSUME Init PROVE QueueInv
    OBVIOUS
<1>1. PlanInv
    BY InitPlanInv
<1>2. DealtOnce
    <2>1. Dealt
        BY DEF Init, Dealt
    <2>2. QED
        BY <1>1, <2>1, DealtQueues
<1>3. ASSUME NEW S PROVE MsgsNone(S)
    <2>1. ASSUME NEW c \in Rank \X Rank PROVE NotIn(AllMsgs[c], ByReceiver(S)[c])
        <3>1. channel[c] = <<>>
            BY DEF Init
        <3>2. AllMsgs[c] = Stripped(<<>>)
            BY <3>1, Zenon DEF AllMsgs, Msgs
        <3>3. Len(Stripped(<<>>)) = 0
            <4>1. PICK e \in Seq(Entry) : e = <<>>
                BY EmptySeq
            <4>2. Len(Stripped(e)) = 0
                BY <4>1, StrippedType, EmptySeq
            <4>3. QED
                BY <4>1, <4>2
        <3>4. QED
            BY <3>2, <3>3 DEF NotIn
    <2>2. QED
        BY <2>1 DEF MsgsNone, AllNot
<1>4. LedInv
    BY <1>2, <1>3 DEF LedInv, DealtOnce
<1>5. ASSUME NEW w \in Rank PROVE Held(w)
    <2>1. NoneTells(w)
        BY <1>3 DEF NoneTells
    <2>2. ~rank[w].m_ReadyToWrite
        BY DEF Init, WaitingRank
    <2>3. QED
        BY <1>2, <2>1, <2>2 DEF Held, DealtOnce
<1>6. QED
    BY <1>4, <1>5, InitLoopsInv DEF QueueInv, HeldInv

(* When all have returned, no message tells of a rank. *)
LEMMA DoneTells ==
    ASSUME QueueInv, AllDone, NEW w \in Rank
    PROVE  NoneTells(w)
<1>1. rank[w].m_ReadyToWrite \/ ~rerouting
    BY DEF QueueInv, LoopsInv, AllDone
<1>2. QED
    BY <1>1 DEF QueueInv, HeldInv, Held

LEMMA NextCallQueues ==
    ASSUME TypeInv, QueueInv, NoRequestLeft, PlanInv', NextCall
    PROVE  LedInv' /\ HeldInv'
<1>1. /\ AllDone /\ channel' = channel /\ plan' = plan
      /\ step' = IF block = Len(plan.steps[step]) THEN step + 1 ELSE step
      /\ ~(block = Len(plan.steps[step]) /\ step = Len(plan.steps))
      /\ \A r \in Rank : ~rank'[r].m_ReadyToWrite
    BY DEF NextCall, WaitingRank
<1>2. rerouting' = Reroutable(step')
    BY <1>1 DEF rerouting, Reroutable
<1>3. DealtOnce'
    <2>1. PICK pos : sc' = SubCoordinators(m_Partitioning', Reroutable(step'), pos)
        BY Zenon DEF NextCall
    <2>2. Dealt'
        BY <1>2, <2>1 DEF Dealt
    <2>3. QED
        BY <2>2, NextDealtQueues
<1>4. ASSUME NEW w \in Rank PROVE NoneTells(w) /\ NoneTells(w)'
    <2>1. NoneTells(w)
        BY <1>1, DoneTells
    <2>2. AllMsgs' = AllMsgs
        BY <1>1, Zenon DEF AllMsgs, Msgs
    <2>3. NoneTells(w)' = NoneTells(w)
        BY <2>2, Zenon DEF NoneTells, MsgsNone, ByReceiver, TellsOf
    <2>4. QED
        BY <2>1, <2>3
<1>5. HeldInv'
    BY <1>1, <1>3, <1>4 DEF HeldInv, Held, DealtOnce
<1>6. ASSUME rerouting' PROVE MsgsNone(StraysOf)'
    <2>1. step' \in (step + 1)..Len(plan.steps) /\ Reroutable(step')
        <3>1. Reroutable(step') /\ Len(plan.steps[step']) = 1
            BY <1>1, <1>2, <1>6 DEF Reroutable
        <3>2. /\ step \in 1..Len(plan.steps) /\ block \in 1..Len(plan.steps[step]) /\ Len(plan.steps) \in Nat
              /\ Len(plan.steps[step]) \in Nat
            <4>1. plan.steps \in Seq(Seq([Rank -> Nat])) /\ step \in 1..Len(plan.steps) /\ block \in 1..Len(plan.steps[step])
                BY PlansAssumption DEF TypeInv, PlanInv
            <4>2. plan.steps[step] \in Seq([Rank -> Nat])
                BY <4>1
            <4>3. QED
                BY <4>1, <4>2
        <3>3. CASE block = Len(plan.steps[step])
            <4>1. step' = step + 1 /\ step # Len(plan.steps)
                BY <1>1, <3>3
            <4>2. QED
                BY <3>1, <3>2, <4>1
        <3>4. CASE block # Len(plan.steps[step])
            <4>1. step' = step
                BY <1>1, <3>4
            <4>2. Len(plan.steps[step]) = 1
                BY <3>1, <4>1
            <4>3. QED
                BY <3>2, <3>4, <4>2
        <3>5. QED
            BY <3>3, <3>4
    <2>2. \A c \in Rank \X Rank : \A i \in DOMAIN channel[c] : channel[c][i].msg.type # "REROUTE_REQUEST"
        BY <1>1, <2>1 DEF NoRequestLeft
    <2>3. ASSUME NEW c \in Rank \X Rank PROVE NotIn(AllMsgs'[c], ByReceiver(StraysOf)'[c])
        <3>1. channel[c] \in Seq(Entry)
            BY ThreadsBefore
        <3>2. AllMsgs'[c] = Msgs(c) /\ AllMsgs[c] = Msgs(c)
            BY <1>1 DEF AllMsgs, Msgs
        <3>3. Msgs(c) \in Seq(Message) /\ Len(Msgs(c)) = Len(channel[c])
              /\ \A i \in 1..Len(channel[c]) : Msgs(c)[i] = channel[c][i].msg
            BY <3>1, StrippedType DEF Msgs
        <3>4. PICK to \in Rank : to = c[2]
            OBVIOUS
        <3>5. ByReceiver(StraysOf)'[c] = StraysOf'[to]
            BY <3>4 DEF ByReceiver
        <3>6. ASSUME NEW i \in 1..Len(channel[c]) PROVE Msgs(c)[i] \notin StraysOf'[to]
            <4>1. PICK m \in Message : m = Msgs(c)[i]
                BY <3>3
            <4>2. m.type # "REROUTE_REQUEST"
                BY <2>2, <3>1, <3>3, <4>1
            <4>3. m.type \notin {"REROUTE_ACK", "WRITE_MORE"}
                <5>1. SUFFICES ASSUME m.type \in {"REROUTE_ACK", "WRITE_MORE"} PROVE FALSE
                    OBVIOUS
                <5>2. PICK w \in Rank : w = m.rank
                    BY <5>1, MessageFields
                <5>3. m \in TellsOf(w)[to]
                    BY <5>1, <5>2, TellsWhom DEF TypeInv
                <5>4. NotIn(AllMsgs[c], ByReceiver(TellsOf(w))[c])
                    BY <1>4 DEF NoneTells, MsgsNone, AllNot
                <5>5. ByReceiver(TellsOf(w))[c] = TellsOf(w)[to]
                    BY <3>4 DEF ByReceiver
                <5>6. QED
                    BY <3>2, <3>3, <4>1, <5>3, <5>4, <5>5 DEF NotIn
            <4>4. StraysOf'[to] = Strays(to)'
                BY DEF StraysOf
            <4>5. m \notin Strays(to)'
                BY <4>2, <4>3 DEF Strays
            <4>6. QED
                BY <4>1, <4>4, <4>5
        <3>7. QED
            BY <3>2, <3>3, <3>5, <3>6 DEF NotIn
    <2>4. QED
        BY <2>3 DEF MsgsNone, AllNot
<1>7. LedInv'
    BY <1>3, <1>6 DEF LedInv, DealtOnce
<1>8. QED
    BY <1>5, <1>7

-----------------------------------------------------------------------------
(* QueueInv is kept, and implies QueuedOnce. *)

LEMMA NextQueueInv ==
    ASSUME TypeInv, QueueInv, NoRequestLeft, [Next]_vars
    PROVE  QueueInv'
<1>0. LoopsInv'
    BY NextLoopsInv DEF QueueInv
<1>1. ASSUME NEW r \in Rank, Comm(r) PROVE LedInv' /\ HeldInv'
    <2>1. CASE \E q \in Rank : Receive(r, q)
        BY <2>1, ReceiveQueues
    <2>2. CASE FinishTurn(r)
        BY <2>2, WorkQueues DEF FinishTurn, QueueInv, LoopsInv
    <2>3. CASE ProbeNothing(r)
        BY <2>3, WorkQueues DEF ProbeNothing
    <2>4. QED
        BY <1>1, <2>1, <2>2, <2>3 DEF Comm
<1>2. ASSUME NEW r \in Rank, Main(r) PROVE LedInv' /\ HeldInv'
    <2>1. /\ UNCHANGED callVars /\ channel' = channel /\ sc' = sc
          /\ \A x \in Rank : rank'[x].m_ReadyToWrite = rank[x].m_ReadyToWrite
        BY <1>2, MainThreads
    <2>2. QED
        BY <2>1, QueuesKept
<1>3. ASSUME NextCall PROVE LedInv' /\ HeldInv'
    <2>1. PlanInv'
        BY NextPlanInv DEF TypeInv
    <2>2. QED
        BY <1>3, <2>1, NextCallQueues
<1>4. ASSUME UNCHANGED vars PROVE LedInv' /\ HeldInv'
    <2>1. UNCHANGED callVars /\ channel' = channel /\ sc' = sc /\ rank' = rank
        BY <1>4 DEF vars
    <2>2. /\ \A s \in Rank : sc'[s].writerQueue = sc[s].writerQueue
          /\ \A w \in Rank : rank'[w].m_ReadyToWrite = rank[w].m_ReadyToWrite
        BY <2>1
    <2>3. QED
        BY <2>1, <2>2, QueuesKept
<1>5. LedInv' /\ HeldInv'
    BY <1>1, <1>2, <1>3, <1>4 DEF Next, Terminated
<1>6. QED
    BY <1>0, <1>5 DEF QueueInv

(* How often a rank is in a queue, and told of by a message *)
LEMMA QueuedCount ==
    ASSUME TypeInv, LedInv, NEW w \in Rank
    PROVE  /\ NoneQueues(w) => Cardinality(Queued(w)) = 0
           /\ OneQueues(w) => Cardinality(Queued(w)) = 1
<1>1. \A s \in Rank : Queues[s] = sc[s].writerQueue /\ Just(w)[s] = {w} /\ sc[s].writerQueue \in Seq(Rank)
    BY ThreadsBefore DEF Queues, Just, CoordinatorType
<1>2. ASSUME NEW at \in Queued(w)
      PROVE  \E s \in SubCoords : \E i \in 1..Len(sc[s].writerQueue) : at = <<s, i>> /\ sc[s].writerQueue[i] = w
    <2>1. PICK s \in SubCoords : at \in {s} \X DOMAIN sc[s].writerQueue
        BY <1>2 DEF Queued
    <2>2. PICK i \in DOMAIN sc[s].writerQueue : at = <<s, i>>
        BY <2>1
    <2>3. sc[s].writerQueue[i] = w
        BY <1>2, <2>2 DEF Queued
    <2>4. sc[s].writerQueue \in Seq(Rank)
        BY <1>1, PlanInvCoords DEF TypeInv
    <2>5. QED
        BY <2>2, <2>3, <2>4
<1>3. ASSUME NoneQueues(w) PROVE Cardinality(Queued(w)) = 0
    <2>1. \A s \in Rank : \A i \in 1..Len(sc[s].writerQueue) : sc[s].writerQueue[i] # w
        BY <1>1, <1>3 DEF NoneQueues, AllNot, NotIn
    <2>2. SubCoords \subseteq Rank
        BY PlanInvCoords DEF TypeInv
    <2>3. Queued(w) = {}
        BY <1>2, <2>1, <2>2
    <2>4. QED
        BY <2>3, FS_EmptySet
<1>4. ASSUME OneQueues(w) PROVE Cardinality(Queued(w)) = 1
    <2>1. PICK s \in Rank : OnceIn(Queues[s], Just(w)[s]) /\ \A t \in Rank \ {s} : NotIn(Queues[t], Just(w)[t])
        BY <1>4 DEF OneQueues, OneOf
    <2>2. PICK i \in 1..Len(sc[s].writerQueue) :
              sc[s].writerQueue[i] = w /\ \A j \in 1..Len(sc[s].writerQueue) : sc[s].writerQueue[j] = w => j = i
        BY <1>1, <2>1 DEF OnceIn
    <2>3. ASSUME NEW t \in Rank, t # s, NEW j \in 1..Len(sc[t].writerQueue) PROVE sc[t].writerQueue[j] # w
        <3>1. NotIn(sc[t].writerQueue, {w})
            BY <1>1, <2>1, <2>3
        <3>2. QED
            BY <3>1 DEF NotIn
    <2>4. s \in SubCoords /\ i \in DOMAIN sc[s].writerQueue
        <3>1. sc[s].writerQueue \in Seq(Rank) /\ sc[s].writerQueue # <<>>
            BY <1>1, <2>2
        <3>2. QED
            BY <2>2, <3>1 DEF LedInv
    <2>5. <<s, i>> \in Queued(w)
        <3>1. <<s, i>> \in {s} \X DOMAIN sc[s].writerQueue
            BY <2>4
        <3>2. <<s, i>> \in UNION {{t} \X DOMAIN sc[t].writerQueue : t \in SubCoords}
            BY <2>4, <3>1
        <3>3. QED
            BY <2>2, <3>2 DEF Queued
    <2>6. ASSUME NEW at \in Queued(w) PROVE at = <<s, i>>
        <3>0. PICK t \in SubCoords : \E j \in 1..Len(sc[t].writerQueue) : at = <<t, j>> /\ sc[t].writerQueue[j] = w
            BY <1>2
        <3>1. PICK j \in 1..Len(sc[t].writerQueue) : at = <<t, j>> /\ sc[t].writerQueue[j] = w
            BY <3>0
        <3>2. t \in Rank
            BY PlanInvCoords DEF TypeInv
        <3>3. t = s
            BY <2>3, <3>1, <3>2
        <3>4. QED
            BY <2>2, <3>1, <3>3
    <2>7. Queued(w) = {<<s, i>>}
        BY <2>5, <2>6
    <2>8. QED
        BY <2>7, FS_Singleton
<1>5. QED
    BY <1>3, <1>4

LEMMA TellingCount ==
    ASSUME TypeInv, NEW w \in Rank
    PROVE  /\ NoneTells(w) => Cardinality(Telling(w)) = 0
           /\ OneTells(w) => Cardinality(Telling(w)) = 1
<1> DEFINE tells(c, i) == LET m == channel[c][i].msg
                          IN  \/ m.type \in {"REROUTE_ACK", "WRITE_MORE"} /\ m.rank = w
                              \/ m.type = "DO_WRITE" /\ c[2] = w
<1>1. ASSUME NEW c \in Rank \X Rank
      PROVE  /\ channel[c] \in Seq(Entry) /\ Len(AllMsgs[c]) = Len(channel[c])
             /\ \A i \in 1..Len(channel[c]) : AllMsgs[c][i] \in ByReceiver(TellsOf(w))[c] <=> tells(c, i)
    <2>1. channel[c] \in Seq(Entry)
        BY ThreadsBefore
    <2>2. Msgs(c) \in Seq(Message) /\ Len(Msgs(c)) = Len(channel[c])
          /\ \A i \in 1..Len(channel[c]) : Msgs(c)[i] = channel[c][i].msg
        BY <2>1, StrippedType DEF Msgs
    <2>3. PICK to \in Rank : to = c[2]
        OBVIOUS
    <2>4. AllMsgs[c] = Msgs(c) /\ ByReceiver(TellsOf(w))[c] = TellsOf(w)[to]
        BY <2>3 DEF AllMsgs, ByReceiver
    <2>5. ASSUME NEW i \in 1..Len(channel[c])
          PROVE  AllMsgs[c][i] \in ByReceiver(TellsOf(w))[c] <=> tells(c, i)
        <3>1. PICK m \in Message : m = Msgs(c)[i]
            BY <2>2
        <3>2. m = channel[c][i].msg
            BY <2>2, <3>1
        <3>3. m \in TellsOf(w)[to] <=> \/ m.type \in {"REROUTE_ACK", "WRITE_MORE"} /\ m.rank = w
                                       \/ m.type = "DO_WRITE" /\ to = w
            BY TellsWhom DEF TypeInv
        <3>4. QED
            BY <2>3, <2>4, <3>1, <3>2, <3>3
    <2>6. QED
        BY <2>1, <2>2, <2>4, <2>5
<1> HIDE DEF tells
<1>2. Telling(w) = {at \in UNION {{c} \X DOMAIN channel[c] : c \in Rank \X Rank} : tells(at[1], at[2])}
    BY DEF Telling, tells
<1>3. ASSUME NEW at \in Telling(w)
      PROVE  \E c \in Rank \X Rank : \E i \in 1..Len(channel[c]) : at = <<c, i>> /\ tells(c, i)
    <2>1. PICK c \in Rank \X Rank : at \in {c} \X DOMAIN channel[c]
        BY <1>2, <1>3
    <2>2. PICK i \in DOMAIN channel[c] : at = <<c, i>>
        BY <2>1
    <2>3. at[1] = c /\ at[2] = i
        BY <2>2
    <2>4. tells(c, i)
        BY <1>2, <1>3, <2>3
    <2>5. DOMAIN channel[c] = 1..Len(channel[c])
        BY <1>1
    <2>6. QED
        BY <2>2, <2>4, <2>5
<1>4. ASSUME NoneTells(w) PROVE Cardinality(Telling(w)) = 0
    <2>1. \A c \in Rank \X Rank : NotIn(AllMsgs[c], ByReceiver(TellsOf(w))[c])
        BY <1>4 DEF NoneTells, MsgsNone, AllNot
    <2>2. \A c \in Rank \X Rank : \A i \in 1..Len(channel[c]) : ~tells(c, i)
        BY <1>1, <2>1 DEF NotIn
    <2>3. Telling(w) = {}
        BY <1>3, <2>2
    <2>4. QED
        BY <2>3, FS_EmptySet
<1>5. ASSUME OneTells(w) PROVE Cardinality(Telling(w)) = 1
    <2>1. PICK c \in Rank \X Rank : /\ OnceIn(AllMsgs[c], ByReceiver(TellsOf(w))[c])
                                    /\ \A d \in (Rank \X Rank) \ {c} : NotIn(AllMsgs[d], ByReceiver(TellsOf(w))[d])
        BY <1>5 DEF OneTells, MsgsOne, OneOf
    <2>2. PICK i \in 1..Len(channel[c]) : tells(c, i) /\ \A j \in 1..Len(channel[c]) : tells(c, j) => j = i
        BY <1>1, <2>1 DEF OnceIn
    <2>3. ASSUME NEW d \in Rank \X Rank, d # c, NEW j \in 1..Len(channel[d]) PROVE ~tells(d, j)
        BY <1>1, <2>1, <2>3 DEF NotIn
    <2>4. <<c, i>> \in Telling(w)
        <3>1. i \in DOMAIN channel[c]
            BY <1>1, <2>2
        <3>2. PICK at : at = <<c, i>>
            OBVIOUS
        <3>3. at \in {c} \X DOMAIN channel[c] /\ at[1] = c /\ at[2] = i
            BY <3>1, <3>2
        <3>4. at \in UNION {{d} \X DOMAIN channel[d] : d \in Rank \X Rank}
            BY <3>3
        <3>5. QED
            BY <1>2, <2>2, <3>2, <3>3, <3>4
    <2>5. ASSUME NEW at \in Telling(w) PROVE at = <<c, i>>
        <3>0. PICK d \in Rank \X Rank : \E j \in 1..Len(channel[d]) : at = <<d, j>> /\ tells(d, j)
            BY <1>3
        <3>1. PICK j \in 1..Len(channel[d]) : at = <<d, j>> /\ tells(d, j)
            BY <3>0
        <3>2. d = c
            BY <2>3, <3>1
        <3>3. QED
            BY <2>2, <3>1, <3>2
    <2>6. Telling(w) = {<<c, i>>}
        BY <2>4, <2>5
    <2>7. QED
        BY <2>6, FS_Singleton
<1>6. QED
    BY <1>4, <1>5

LEMMA QueueInvQueuedOnce == TypeInv /\ QueueInv => QueuedOnce
<1> SUFFICES ASSUME TypeInv, QueueInv, NEW w \in Rank
             PROVE  Cardinality(Queued(w)) + Cardinality(Telling(w)) =
                        IF rank[w].m_ReadyToWrite \/ ~rerouting THEN 0 ELSE 1
    BY DEF QueuedOnce
<1>1. Held(w)
    BY DEF QueueInv, HeldInv
<1>2. QED
    BY <1>1, QueuedCount, TellingCount DEF Held, QueueInv

(* The handlers of RerouteRequest, RerouteAck and WriteMore give a rank from one *)
(* queue to another by messages, and Dispatch tells it to write: on this way it   *)
(* is neither lost nor doubled, as long as no request of an earlier step is left  *)
(* over.                                                                          *)
THEOREM NoneLostOrDoubled == Spec /\ []NoRequestLeft => []QueuedOnce
<1>1. TypeInv /\ QueueInv /\ NoRequestLeft /\ [Next]_vars => TypeInv' /\ QueueInv'
    BY NextTypeInv, NextQueueInv
<1>2. Init => TypeInv /\ QueueInv
    BY InitTypeInv, InitQueueInv
<1>3. QED
    BY <1>1, <1>2, QueueInvQueuedOnce, PTL DEF Spec

-----------------------------------------------------------------------------
(* Runs that reroute one step at most need no assumption: before that step    *)
(* nothing is sent.                                                            *)

ReroutesOnce ==
    \A p \in Plans : p.EnableWriterRerouting =>
        \A s, t \in DOMAIN p.steps : Len(p.steps[s]) = 1 /\ Len(p.steps[t]) = 1 => s = t

NothingSentInv == (\A s \in 1..step : ~Reroutable(s)) => \A c \in Rank \X Rank : channel[c] = <<>>

LEMMA NextNothingSent ==
    ASSUME TypeInv, QueueInv, NothingSentInv, [Next]_vars
    PROVE  NothingSentInv'
<1>0. step \in Nat \ {0} /\ step \in 1..step
    <2>1. plan.steps \in Seq(Seq([Rank -> Nat])) /\ step \in 1..Len(plan.steps)
        BY PlansAssumption DEF TypeInv, PlanInv
    <2>2. QED
        BY <2>1
<1>1. ASSUME NEW r \in Rank, rank[r].looping, UNCHANGED callVars PROVE NothingSentInv'
    <2>1. Reroutable(step) /\ step' = step /\ plan' = plan
        BY <1>1, CallKept DEF QueueInv, LoopsInv, rerouting
    <2>2. Reroutable(step)'
        BY <2>1 DEF Reroutable
    <2>3. QED
        BY <1>0, <2>1, <2>2 DEF NothingSentInv
<1>2. ASSUME channel' = channel, UNCHANGED callVars PROVE NothingSentInv'
    <2>1. step' = step /\ plan' = plan
        BY <1>2, CallKept
    <2>2. \A s : Reroutable(s)' = Reroutable(s)
        BY <2>1 DEF Reroutable
    <2>3. QED
        BY <1>2, <2>1, <2>2 DEF NothingSentInv
<1>3. ASSUME NEW r \in Rank, Comm(r) PROVE NothingSentInv'
    <2>1. CASE \E q \in Rank : Receive(r, q)
        BY <1>1, <2>1, ReceiveThreads
    <2>2. CASE FinishTurn(r)
        BY <1>1, <2>2, WorkThreads DEF FinishTurn, QueueInv, LoopsInv
    <2>3. CASE ProbeNothing(r)
        BY <1>1, <2>3, WorkThreads DEF ProbeNothing
    <2>4. QED
        BY <1>3, <2>1, <2>2, <2>3 DEF Comm
<1>4. ASSUME NEW r \in Rank, Main(r) PROVE NothingSentInv'
    BY <1>2, <1>4, MainThreads
<1>5. ASSUME NextCall PROVE NothingSentInv'
    <2>1. channel' = channel /\ plan' = plan /\ step' \in {step, step + 1}
        BY <1>5 DEF NextCall
    <2>2. \A s : Reroutable(s)' = Reroutable(s)
        BY <2>1 DEF Reroutable
    <2>3. 1..step \subseteq 1..step'
        BY <1>0, <2>1
    <2>4. QED
        BY <2>1, <2>2, <2>3 DEF NothingSentInv
<1>6. ASSUME UNCHANGED vars PROVE NothingSentInv'
    BY <1>2, <1>6 DEF vars
<1>7. QED
    BY <1>3, <1>4, <1>5, <1>6 DEF Next, Terminated

LEMMA NothingSentNoRequest ==
    ASSUME ReroutesOnce, TypeInv, NothingSentInv
    PROVE  NoRequestLeft
<1>1. SUFFICES ASSUME NEW s \in (step + 1)..Len(plan.steps), Reroutable(s)
               PROVE  \A c \in Rank \X Rank : \A i \in DOMAIN channel[c] : channel[c][i].msg.type # "REROUTE_REQUEST"
    BY DEF NoRequestLeft
<1>2. plan \in Plans /\ plan.steps \in Seq(Seq([Rank -> Nat])) /\ step \in 1..Len(plan.steps) /\ Len(plan.steps) \in Nat
    <2>1. plan \in Plans /\ plan.steps \in Seq(Seq([Rank -> Nat])) /\ step \in 1..Len(plan.steps)
        BY PlansAssumption DEF TypeInv, PlanInv
    <2>2. QED
        BY <2>1
<1>3. ASSUME NEW t \in 1..step, Reroutable(t) PROVE FALSE
    <2>1. s \in DOMAIN plan.steps /\ t \in DOMAIN plan.steps /\ s # t
        BY <1>1, <1>2
    <2>2. QED
        BY <1>1, <1>2, <1>3, <2>1 DEF Reroutable, ReroutesOnce
<1>4. \A c \in Rank \X Rank : channel[c] = <<>>
    BY <1>3 DEF NothingSentInv
<1>5. QED
    BY <1>4

(* The same, without an assumption about behaviours, of all runs that reroute *)
(* one step at most, however many steps they write without rerouting.         *)
THEOREM NoneLostOrDoubledInOneStep == ReroutesOnce /\ Spec => []QueuedOnce
<1>1. Init => TypeInv /\ QueueInv /\ NothingSentInv
    BY InitTypeInv, InitQueueInv DEF Init, NothingSentInv
<1>2. ReroutesOnce /\ TypeInv /\ QueueInv /\ NothingSentInv /\ [Next]_vars => TypeInv' /\ QueueInv' /\ NothingSentInv'
    BY NextTypeInv, NextQueueInv, NextNothingSent, NothingSentNoRequest
<1>3. SUFFICES ASSUME ReroutesOnce PROVE Spec => []QueuedOnce
    OBVIOUS
<1>4. TypeInv /\ QueueInv /\ NothingSentInv /\ [Next]_vars => TypeInv' /\ QueueInv' /\ NothingSentInv'
    BY <1>2, <1>3
<1>5. QED
    BY <1>1, <1>4, QueueInvQueuedOnce, PTL DEF Spec
=============================================================================
