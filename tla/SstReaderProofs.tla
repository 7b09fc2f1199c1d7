-------------------------- MODULE SstReaderProofs ---------------------------
(* The reader, for every number of ranks and steps and every configuration.  *)
(* First the types of its variables, and what the walks over the timestep    *)
(* queue, its lists of selected entries and its smallest and largest steps   *)
(* come to.  Then its queue of steps: the step in use stays queued, what has *)
(* arrived is queued, in use or released, nothing is released twice but what *)
(* came late, formats are complete and attributes come in the order of their *)
(* steps.                                                                    *)
EXTENDS SstReaderProps, SequenceTheorems, WellFoundedInduction, TLAPS

-----------------------------------------------------------------------------
(* Operators: sets of steps and lists of entries *)

Less == {ss \in Nat \X Nat : ss[1] < ss[2]}

(* No sequence of step numbers descends for ever. *)
LEMMA LessWellFounded == IsWellFoundedOn(Less, Nat)
  BY NatLessThanWellFounded, Zenon DEF OpToRel, Less

(* Induction on step numbers for a set: one that holds 0 and, with a       *)
(* number, the next holds them all.  The walks over the timestep queue are *)
(* reasoned about with it.                                                 *)
LEMMA SetInduction ==
  ASSUME NEW S, 0 \in S, \A n \in Nat : n \in S => n + 1 \in S
  PROVE  Nat \subseteq S
<1> SUFFICES ASSUME Nat \ S # {} PROVE FALSE
  OBVIOUS
<1>1. PICK x \in Nat \ S : \A y \in Nat \ S : ~(<<y, x>> \in Less)
  BY LessWellFounded, WFMin
<1>2. \A y \in Nat \ S : ~(y < x)
  BY <1>1 DEF Less
<1>3. x # 0 /\ x - 1 \in Nat
  OBVIOUS
<1> QED
  BY <1>2, <1>3

(* f collects the entries of q at positions in I, one position at a time. *)
Collects(f, q, I) ==
    /\ f[0] = <<>>
    /\ \A n \in 1..Len(q) : f[n] = IF n \in I THEN Append(f[n - 1], q[n]) ELSE f[n - 1]
    /\ Selected(q, I) = f[Len(q)]

(* The recursive function of Selected is defined. *)
LEMMA SelectedUpTo ==
  ASSUME NEW T, NEW q \in Seq(T), NEW I
  PROVE  \E f \in [0..Len(q) -> Seq(T)] : Collects(f, q, I)
<1> DEFINE Def(f, k) == f = [n \in 0..k |-> IF n = 0 THEN <<>>
                          ELSE IF n \in I THEN Append(f[n - 1], q[n]) ELSE f[n - 1]]
           S == {k \in Nat : k <= Len(q) => \E f \in [0..k -> Seq(T)] : Def(f, k)}
<1>0. Len(q) \in Nat /\ \A n \in 1..Len(q) : q[n] \in T
  OBVIOUS
<1>1. 0 \in S
  <2>1. [n \in 0..0 |-> <<>>] \in [0..0 -> Seq(T)]
    OBVIOUS
  <2>2. Def([n \in 0..0 |-> <<>>], 0)
    OBVIOUS
  <2> QED BY <2>1, <2>2
<1>2. ASSUME NEW k \in Nat, k \in S PROVE k + 1 \in S
  <2> SUFFICES ASSUME k + 1 <= Len(q)
               PROVE  \E f \in [0..(k + 1) -> Seq(T)] : Def(f, k + 1)
    <3> HIDE DEF Def
    <3> QED OBVIOUS
  <2>1. PICK f \in [0..k -> Seq(T)] : Def(f, k)
    <3> HIDE DEF Def
    <3> QED BY <1>0, <1>2
  <2> DEFINE last == IF k + 1 \in I THEN Append(f[k], q[k + 1]) ELSE f[k]
             g == [n \in 0..(k + 1) |-> IF n = k + 1 THEN last ELSE f[n]]
  <2>2. last \in Seq(T)
    BY <1>0
  <2>3. g \in [0..(k + 1) -> Seq(T)]
    BY <2>2
  <2> HIDE DEF last
  <2>5. ASSUME NEW n \in 0..(k + 1)
        PROVE  g[n] = IF n = 0 THEN <<>>
                      ELSE IF n \in I THEN Append(g[n - 1], q[n]) ELSE g[n - 1]
    <3>1. CASE n = k + 1
      BY <3>1 DEF last
    <3>2. CASE n # k + 1
      <4>1. n \in 0..k /\ g[n] = f[n]
        BY <3>2
      <4>2. n # 0 => g[n - 1] = f[n - 1]
        BY <4>1
      <4>3. f[n] = IF n = 0 THEN <<>>
                   ELSE IF n \in I THEN Append(f[n - 1], q[n]) ELSE f[n - 1]
        BY <2>1, <4>1
      <4> QED BY <4>1, <4>2, <4>3
    <3> QED BY <3>1, <3>2
  <2>6. Def(g, k + 1)
    BY <2>5
  <2> HIDE DEF g
  <2> QED BY <2>3, <2>6
<1>3. Nat \subseteq S
  <2> HIDE DEF S
  <2> QED BY <1>1, <1>2, SetInduction
<1>4. \E f \in [0..Len(q) -> Seq(T)] : Def(f, Len(q))
  <2> HIDE DEF Def
  <2> QED BY <1>0, <1>3
<1> DEFINE g == CHOOSE f : Def(f, Len(q))
<1>5. Def(g, Len(q))
  <2> HIDE DEF Def
  <2> QED BY <1>4
<1>6. Selected(q, I) = g[Len(q)]
  BY DEF Selected
<1> HIDE DEF g
<1> DEFINE V == {k \in Nat : k <= Len(q) => g[k] \in Seq(T)}
<1> DEFINE next(n) == IF n \in I THEN Append(g[n - 1], q[n]) ELSE g[n - 1]
           body(n) == IF n = 0 THEN <<>> ELSE next(n)
<1>a. g = [n \in 0..Len(q) |-> body(n)]
  BY <1>5
<1>b. \A n \in 0..Len(q) : g[n] = body(n)
  <2> HIDE DEF body
  <2> QED BY <1>a
<1>c. DOMAIN g = 0..Len(q)
  <2> HIDE DEF body
  <2> QED BY <1>a
<1>7. /\ g = [n \in 0..Len(q) |-> g[n]]
      /\ g[0] = <<>>
      /\ \A n \in 1..Len(q) : g[n] = next(n)
  <2>1. g = [n \in 0..Len(q) |-> g[n]]
    <3> HIDE DEF body
    <3> QED BY <1>a, <1>b
  <2>2. g[0] = <<>>
    BY <1>0, <1>b
  <2>3. \A n \in 1..Len(q) : g[n] = next(n)
    <3> HIDE DEF next
    <3> QED BY <1>0, <1>b
  <2> QED BY <2>1, <2>2, <2>3
<1>8. 0 \in V
  BY <1>7
<1>9. ASSUME NEW k \in Nat, k \in V PROVE k + 1 \in V
  <2> SUFFICES ASSUME k + 1 <= Len(q) PROVE g[k + 1] \in Seq(T)
    OBVIOUS
  <2>1. g[k] \in Seq(T) /\ q[k + 1] \in T
    BY <1>0, <1>9
  <2>2. g[k + 1] = IF k + 1 \in I THEN Append(g[k], q[k + 1]) ELSE g[k]
    <3>1. k + 1 \in 1..Len(q) /\ (k + 1) - 1 = k
      BY <1>0
    <3> QED BY <1>7, <3>1
  <2> QED BY <2>1, <2>2
<1>10. \A k \in 0..Len(q) : g[k] \in Seq(T)
  <2>1. Nat \subseteq V
    <3> HIDE DEF V
    <3> QED BY <1>8, <1>9, SetInduction
  <2> QED BY <2>1, <1>0
<1> QED
  BY <1>0, <1>6, <1>7, <1>10 DEF Collects

(* An order-preserving numbering of the positions of q that are in I *)
Selects(m, s, q, I) ==
    /\ m \in [1..Len(s) -> 1..Len(q)]
    /\ \A k \in 1..Len(s) : m[k] \in I /\ s[k] = q[m[k]]
    /\ \A j, k \in 1..Len(s) : j < k => m[j] < m[k]
    /\ \A i \in 1..Len(q) : i \in I => \E k \in 1..Len(s) : m[k] = i

(* Selected, the entries of a queue that a walk over it keeps: a sequence   *)
(* of the same kind, in which every entry of the queue that is kept appears *)
(* once and in the same order.                                              *)
LEMMA SelectedMap ==
  ASSUME NEW T, NEW q \in Seq(T), NEW I
  PROVE  /\ Selected(q, I) \in Seq(T)
         /\ \E m : Selects(m, Selected(q, I), q, I)
<1>0. Len(q) \in Nat /\ \A n \in 1..Len(q) : q[n] \in T
  OBVIOUS
<1>1. PICK f \in [0..Len(q) -> Seq(T)] : Collects(f, q, I)
  BY SelectedUpTo
<1>a. /\ f[0] = <<>>
      /\ \A n \in 1..Len(q) : f[n] = IF n \in I THEN Append(f[n - 1], q[n]) ELSE f[n - 1]
      /\ Selected(q, I) = f[Len(q)]
  BY <1>1 DEF Collects
<1> DEFINE Numbers(m, n) ==
             /\ m \in [1..Len(f[n]) -> 1..n]
             /\ \A k \in 1..Len(f[n]) : m[k] \in I /\ f[n][k] = q[m[k]]
             /\ \A j, k \in 1..Len(f[n]) : j < k => m[j] < m[k]
             /\ \A i \in 1..n : i \in I => \E k \in 1..Len(f[n]) : m[k] = i
           S == {n \in Nat : n <= Len(q) => \E m : Numbers(m, n)}
<1>2. 0 \in S
  <2>1. Len(f[0]) = 0
    BY <1>a
  <2>2. Numbers(<<>>, 0)
    BY <1>1, <1>a, <2>1
  <2> QED BY <2>2
<1>3. ASSUME NEW n \in Nat, n \in S PROVE n + 1 \in S
  <2> SUFFICES ASSUME n + 1 <= Len(q) PROVE \E m : Numbers(m, n + 1)
    <3> HIDE DEF Numbers
    <3> QED OBVIOUS
  <2>1. PICK m : Numbers(m, n)
    <3> HIDE DEF Numbers
    <3> QED BY <1>0, <1>3
  <2>2. n + 1 \in 1..Len(q) /\ (n + 1) - 1 = n /\ n \in 0..Len(q)
    BY <1>0
  <2>3. f[n] \in Seq(T) /\ q[n + 1] \in T /\ Len(f[n]) \in Nat
    BY <1>0, <2>2
  <2>4. CASE n + 1 \in I
    <3>1. f[n + 1] = Append(f[n], q[n + 1])
      BY <1>1, <1>a, <2>2, <2>4
    <3> DEFINE l == Len(f[n])
               mm == [k \in 1..(l + 1) |-> IF k = l + 1 THEN n + 1 ELSE m[k]]
    <3>2. /\ Len(f[n + 1]) = l + 1
          /\ f[n + 1][l + 1] = q[n + 1]
          /\ \A k \in 1..l : f[n + 1][k] = f[n][k]
      BY <2>3, <3>1
    <3>3. Numbers(mm, n + 1)
      <4>0. l \in Nat /\ l + 1 \in 1..(l + 1)
        BY <2>3
      <4>a. m \in [1..l -> 1..n]
        BY <2>1
      <4>1. /\ mm[l + 1] = n + 1
            /\ \A k \in 1..l : mm[k] = m[k] /\ m[k] \in 1..n
        <5> HIDE DEF l
        <5> QED BY <4>0, <4>a
      <4>2. mm \in [1..(l + 1) -> 1..(n + 1)]
        BY <2>1, <2>3
      <4> HIDE DEF mm
      <4>3. \A k \in 1..(l + 1) : mm[k] \in I /\ f[n + 1][k] = q[mm[k]]
        <5>1. \A k \in 1..l : m[k] \in I /\ f[n][k] = q[m[k]]
          BY <2>1
        <5> HIDE DEF l
        <5> QED BY <5>1, <2>4, <3>2, <4>0, <4>1
      <4>4. \A j, k \in 1..(l + 1) : j < k => mm[j] < mm[k]
        <5>1. \A j, k \in 1..l : j < k => m[j] < m[k]
          BY <2>1
        <5> HIDE DEF l
        <5> TAKE j, k \in 1..(l + 1)
        <5> HAVE j < k
        <5>2. j \in 1..l
          BY <4>0
        <5>3. CASE k = l + 1
          BY <5>2, <5>3, <4>0, <4>1
        <5>4. CASE k \in 1..l
          BY <5>1, <5>2, <5>4, <4>1
        <5> QED BY <5>3, <5>4, <4>0
      <4>5. \A i \in 1..(n + 1) : i \in I => \E k \in 1..(l + 1) : mm[k] = i
        <5>1. \A i \in 1..n : i \in I => \E k \in 1..l : m[k] = i
          BY <2>1
        <5> HIDE DEF l
        <5> TAKE i \in 1..(n + 1)
        <5>2. i = n + 1 => mm[l + 1] = i
          BY <4>1
        <5>3. CASE i = n + 1
          BY <5>2, <5>3, <4>0
        <5>4. CASE i # n + 1
          <6> SUFFICES ASSUME i \in I PROVE \E k \in 1..(l + 1) : mm[k] = i
            OBVIOUS
          <6>1. i \in 1..n
            BY <5>4
          <6>2. PICK k \in 1..l : m[k] = i
            BY <5>1, <6>1
          <6>3. k \in 1..(l + 1) /\ mm[k] = i
            BY <6>2, <4>0, <4>1
          <6> QED BY <6>3
        <5> QED BY <5>3, <5>4
      <4> QED BY <3>2, <4>2, <4>3, <4>4, <4>5
    <3> HIDE DEF Numbers
    <3> QED BY <3>3
  <2>5. CASE n + 1 \notin I
    <3>1. f[n + 1] = f[n]
      BY <1>1, <1>a, <2>2, <2>5
    <3>2. Numbers(m, n + 1)
      <4>1. m \in [1..Len(f[n]) -> 1..(n + 1)]
        BY <2>1, <2>3
      <4>2. \A i \in 1..(n + 1) : i \in I => i \in 1..n
        BY <2>5
      <4> QED BY <2>1, <3>1, <4>1, <4>2
    <3> HIDE DEF Numbers
    <3> QED BY <3>2
  <2> QED BY <2>4, <2>5
<1>4. Nat \subseteq S
  <2> HIDE DEF S
  <2> QED BY <1>2, <1>3, SetInduction
<1>5. \E m : Numbers(m, Len(q))
  <2> HIDE DEF Numbers
  <2> QED BY <1>0, <1>4
<1>6. Selected(q, I) \in Seq(T)
  BY <1>0, <1>a
<1>7. \E m : Selects(m, Selected(q, I), q, I)
  <2>1. PICK m : Numbers(m, Len(q))
    BY <1>5
  <2>2. Selects(m, f[Len(q)], q, I)
    BY <2>1 DEF Selects
  <2> QED BY <1>a, <2>2
<1> QED
  BY <1>6, <1>7

-----------------------------------------------------------------------------
(* The queue: entries in the order of their steps *)

Entries(N) == [Timestep : 0 .. N - 1, Metadata : BOOLEAN]

Sorted(q) == \A i, j \in DOMAIN q : i < j => q[i].Timestep < q[j].Timestep

Items(q) == {q[i] : i \in DOMAIN q}

(* The elements of a sequence are of its type. *)
LEMMA ListElements ==
  ASSUME NEW T, NEW q \in Seq(T)
  PROVE  DOMAIN q = 1..Len(q) /\ Len(q) \in Nat /\ \A i \in DOMAIN q : q[i] \in T
  OBVIOUS

(* The entries of a timestep queue carry step numbers. *)
LEMMA QueueElements ==
  ASSUME NEW N \in Nat, NEW q \in Seq(Entries(N))
  PROVE  /\ DOMAIN q = 1..Len(q) /\ Len(q) \in Nat
         /\ \A i \in DOMAIN q :
               q[i] \in Entries(N) /\ q[i].Timestep \in 0 .. N - 1 /\ q[i].Timestep \in Int
<1>1. DOMAIN q = 1..Len(q) /\ Len(q) \in Nat /\ \A i \in DOMAIN q : q[i] \in Entries(N)
  BY ListElements, Zenon
<1> QED
  BY <1>1 DEF Entries

(* What is selected from a queue is a queue of the entries selected. *)
LEMMA SelectedQueue ==
  ASSUME NEW N \in Nat, NEW q \in Seq(Entries(N)), Sorted(q), NEW I
  PROVE  /\ Selected(q, I) \in Seq(Entries(N))
         /\ Sorted(Selected(q, I))
         /\ Items(Selected(q, I)) = {q[i] : i \in {j \in DOMAIN q : j \in I}}
         /\ Steps(Selected(q, I)) = {q[i].Timestep : i \in {j \in DOMAIN q : j \in I}}
<1> DEFINE s == Selected(q, I)
<1>1. s \in Seq(Entries(N))
  BY SelectedMap
<1>2. PICK m : Selects(m, s, q, I)
  BY SelectedMap
<1> HIDE DEF s
<1>3. /\ DOMAIN q = 1..Len(q) /\ Len(q) \in Nat
      /\ DOMAIN s = 1..Len(s) /\ Len(s) \in Nat
      /\ \A i \in DOMAIN q : q[i].Timestep \in Int
  <2>1. DOMAIN s = 1..Len(s) /\ Len(s) \in Nat
    BY <1>1, ListElements, Zenon
  <2> QED BY <2>1, QueueElements
<1>4. /\ \A k \in DOMAIN s : m[k] \in DOMAIN q /\ m[k] \in I /\ s[k] = q[m[k]]
      /\ \A j, k \in DOMAIN s : j < k => m[j] < m[k]
      /\ \A i \in DOMAIN q : i \in I => \E k \in DOMAIN s : m[k] = i
  BY <1>2, <1>3 DEF Selects
<1>5. Sorted(s)
  BY <1>4 DEF Sorted
<1>6. Items(s) = {q[i] : i \in {j \in DOMAIN q : j \in I}}
  BY <1>4 DEF Items
<1>7. Steps(s) = {q[i].Timestep : i \in {j \in DOMAIN q : j \in I}}
  BY <1>4 DEF Steps
<1> QED
  BY <1>1, <1>5, <1>6, <1>7 DEF s

(* FreeTimestep takes one entry out of the queue: the rest stays, in order. *)
LEMMA WithoutQueue ==
  ASSUME NEW N \in Nat, NEW q \in Seq(Entries(N)), Sorted(q), NEW t
  PROVE  /\ Without(q, t) \in Seq(Entries(N))
         /\ Sorted(Without(q, t))
         /\ Items(Without(q, t)) = {e \in Items(q) : e.Timestep # t}
         /\ Steps(Without(q, t)) = Steps(q) \ {t}
<1> DEFINE I == {i \in DOMAIN q : q[i].Timestep # t}
           s == Selected(q, I)
<1>1. /\ s \in Seq(Entries(N))
      /\ Sorted(s)
      /\ Items(s) = {q[i] : i \in {j \in DOMAIN q : j \in I}}
      /\ Steps(s) = {q[i].Timestep : i \in {j \in DOMAIN q : j \in I}}
  <2> HIDE DEF I
  <2> QED BY SelectedQueue
<1>2. Without(q, t) = s
  BY DEF Without
<1> HIDE DEF s
<1>3. Items(s) = {e \in Items(q) : e.Timestep # t}
  BY <1>1 DEF Items
<1>4. Steps(s) = Steps(q) \ {t}
  BY <1>1 DEF Steps
<1> QED
  BY <1>1, <1>2, <1>3, <1>4

(* TimestepMetadata appends to the queue: when what arrives is newer than *)
(* all that is queued, the queue stays in order.                          *)
LEMMA AppendQueue ==
  ASSUME NEW N \in Nat, NEW q \in Seq(Entries(N)), Sorted(q), NEW e \in Entries(N), \A t \in Steps(q) : t < e.Timestep
  PROVE  /\ Append(q, e) \in Seq(Entries(N))
         /\ Sorted(Append(q, e))
         /\ Items(Append(q, e)) = Items(q) \cup {e}
         /\ Steps(Append(q, e)) = Steps(q) \cup {e.Timestep}
<1> DEFINE s == Append(q, e)
<1>1. /\ s \in Seq(Entries(N))
      /\ DOMAIN q = 1..Len(q) /\ Len(q) \in Nat
      /\ DOMAIN s = 1..(Len(q) + 1)
      /\ s[Len(q) + 1] = e
      /\ \A i \in DOMAIN q : s[i] = q[i]
  OBVIOUS
<1>2. \A i \in DOMAIN q : q[i].Timestep < e.Timestep
  BY DEF Steps
<1> HIDE DEF s
<1>3. \A i \in DOMAIN s : i \in DOMAIN q \/ i = Len(q) + 1
  BY <1>1
<1>4. Sorted(s)
  <2> SUFFICES ASSUME NEW i \in DOMAIN s, NEW j \in DOMAIN s, i < j
               PROVE  s[i].Timestep < s[j].Timestep
    BY DEF Sorted
  <2>1. i \in DOMAIN q /\ s[i] = q[i]
    BY <1>1
  <2>2. CASE j \in DOMAIN q
    BY <1>1, <2>1, <2>2 DEF Sorted
  <2>3. CASE j = Len(q) + 1
    BY <1>1, <1>2, <2>1, <2>3
  <2> QED BY <1>3, <2>2, <2>3
<1>5. Items(s) = Items(q) \cup {e}
  BY <1>1, <1>3 DEF Items
<1>6. Steps(s) = Steps(q) \cup {e.Timestep}
  BY <1>1, <1>3 DEF Steps
<1> QED
  BY <1>1, <1>4, <1>5, <1>6 DEF s

(* The head of a queue is its smallest step. *)
LEMMA HeadOfQueue ==
  ASSUME NEW N \in Nat, NEW q \in Seq(Entries(N)), Sorted(q)
  PROVE  /\ Head0(q) \in -1 .. N - 1
         /\ IF Head0(q) = -1 THEN Steps(q) = {} ELSE Head0(q) \in Steps(q)
         /\ \A t \in Steps(q) : Head0(q) <= t
         /\ q = <<>> <=> Steps(q) = {}
<1>1. /\ DOMAIN q = 1..Len(q) /\ Len(q) \in Nat
      /\ \A i \in DOMAIN q : q[i].Timestep \in 0 .. N - 1
  BY QueueElements
<1>2. CASE q = <<>>
  BY <1>2 DEF Head0, Steps, Nothing
<1>3. CASE q # <<>>
  <2>1. 1 \in DOMAIN q
    BY <1>1, <1>3
  <2>2. Head0(q) = q[1].Timestep /\ q[1].Timestep \in Steps(q)
    BY <1>3, <2>1 DEF Head0, Steps
  <2>3. \A i \in DOMAIN q : q[1].Timestep <= q[i].Timestep
    BY <1>1, <2>1 DEF Sorted
  <2>4. \A t \in Steps(q) : Head0(q) <= t
    BY <2>2, <2>3 DEF Steps
  <2> QED BY <1>1, <1>3, <2>1, <2>2, <2>4
<1> QED
  BY <1>2, <1>3

(* Following finds the next greater step. *)
LEMMA FollowingInQueue ==
  ASSUME NEW N \in Nat, NEW q \in Seq(Entries(N)), Sorted(q), NEW t \in Steps(q)
  PROVE  /\ Following(q, t) \in -1 .. N - 1
         /\ Following(q, t) = -1 => \A u \in Steps(q) : u <= t
         /\ Following(q, t) # -1 =>
               /\ Following(q, t) \in Steps(q) /\ t < Following(q, t)
               /\ \A u \in Steps(q) : u <= t \/ Following(q, t) <= u
<1>1. /\ DOMAIN q = 1..Len(q) /\ Len(q) \in Nat
      /\ \A i \in DOMAIN q : q[i].Timestep \in 0 .. N - 1
  BY QueueElements
<1> DEFINE p == Position(q, t)
           s == SubSeq(q, p + 1, Len(q))
<1>2. p \in DOMAIN q /\ q[p].Timestep = t
  BY DEF Position, Steps
<1>3. Following(q, t) = Head0(s)
  BY DEF Following
<1> HIDE DEF p
<1>4. \A i \in DOMAIN q : i <= p => q[i].Timestep <= t
  BY <1>1, <1>2 DEF Sorted
<1>5. CASE p = Len(q)
  <2>1. s = <<>>
    BY <1>1, <1>2, <1>5
  <2>2. Following(q, t) = -1
    BY <1>3, <2>1 DEF Head0, Nothing
  <2>3. \A u \in Steps(q) : u <= t
    BY <1>1, <1>4, <1>5 DEF Steps
  <2> QED BY <2>2, <2>3
<1>6. CASE p < Len(q)
  <2>1. s # <<>> /\ s[1] = q[p + 1] /\ p + 1 \in DOMAIN q
    <3>1. p + 1 \in DOMAIN q
      BY <1>1, <1>2, <1>6
    <3>2. Len(s) = Len(q) - p /\ s[1] = q[p + 1]
      <4>1. Len(q) - p \in Nat \ {0} /\ p + 1 \in 1..Len(q) + 1 /\ p \in Nat
        BY <1>1, <1>2, <1>6
      <4>2. /\ p + 1 \in Int /\ Len(q) \in Int
            /\ \A i \in (p + 1) .. Len(q) : q[i] \in Entries(N)
        BY <1>1, <1>2, QueueElements
      <4>3. /\ Len(s) = IF p + 1 <= Len(q) THEN Len(q) - (p + 1) + 1 ELSE 0
            /\ \A i \in 1 .. Len(q) - (p + 1) + 1 : s[i] = q[(p + 1) + i - 1]
        BY ONLY <4>2, SubSeqProperties
      <4>4. 1 \in 1 .. Len(q) - (p + 1) + 1 /\ (p + 1) + 1 - 1 = p + 1
        BY <1>1, <1>2, <1>6
      <4>5. s[1] = q[p + 1]
        BY ONLY <4>3, <4>4
      <4> QED BY <1>1, <1>2, <1>6, <4>3, <4>5
    <3> QED BY <1>1, <1>2, <1>6, <3>1, <3>2
  <2>2. Following(q, t) = q[p + 1].Timestep
    BY <1>3, <2>1 DEF Head0
  <2>a. \A i, j \in DOMAIN q : i < j => q[i].Timestep < q[j].Timestep
    BY DEF Sorted
  <2>3. Following(q, t) \in Steps(q) /\ t < Following(q, t) /\ Following(q, t) \in 0 .. N - 1
    <3>1. q[p].Timestep < q[p + 1].Timestep
      BY <1>1, <1>2, <2>1, <2>a
    <3> QED BY <1>1, <1>2, <2>1, <2>2, <3>1 DEF Steps
  <2>4. \A i \in DOMAIN q : i <= p \/ q[p + 1].Timestep <= q[i].Timestep
    <3> SUFFICES ASSUME NEW i \in DOMAIN q, ~(i <= p)
                 PROVE  q[p + 1].Timestep <= q[i].Timestep
      OBVIOUS
    <3>1. i = p + 1 \/ p + 1 < i
      BY <1>1, <1>2
    <3>2. q[p + 1].Timestep \in Int
      BY <1>1, <2>1
    <3>3. CASE i = p + 1
      BY <3>2, <3>3
    <3>4. CASE p + 1 < i
      <4>1. q[p + 1].Timestep < q[i].Timestep
        BY <2>1, <2>a, <3>4
      <4> QED BY <1>1, <3>2, <4>1
    <3> QED BY <3>1, <3>3, <3>4
  <2>5. \A u \in Steps(q) : u <= t \/ Following(q, t) <= u
    BY <1>4, <2>2, <2>4 DEF Steps
  <2> QED BY <2>3, <2>5
<1> QED
  BY <1>1, <1>2, <1>5, <1>6

-----------------------------------------------------------------------------
(* Smallest and greatest elements *)

(* A nonempty set of step numbers has a smallest, which is what *)
(* NextQueuedMetadata looks for.                                *)
LEMMA SmallestExists ==
  ASSUME NEW S \in SUBSET Nat, S # {}
  PROVE  \E x \in S : \A y \in S : x <= y
<1>1. PICK x \in S : \A y \in S : ~(<<y, x>> \in Less)
  <2>1. S \subseteq Nat /\ S # {}
    OBVIOUS
  <2> QED BY <2>1, LessWellFounded, WFMin
<1>2. \A y \in S : ~(y < x)
  BY <1>1 DEF Less
<1> QED
  BY <1>2

(* The same where -1, no step, may be among the numbers: the smallest of *)
(* what the ranks have gathered.                                         *)
LEMMA MinimumExists ==
  ASSUME NEW N \in Nat, NEW S \in SUBSET (-1 .. N), S # {}
  PROVE  \E x \in S : \A y \in S : x <= y
<1> DEFINE U == {n \in Nat : n - 1 \in S}
<1>1. U \in SUBSET Nat /\ U # {}
  <2>1. PICK x \in S : TRUE
    OBVIOUS
  <2>2. x + 1 \in Nat /\ (x + 1) - 1 = x
    BY <2>1
  <2> QED BY <2>2
<1>2. PICK n \in U : \A y \in U : n <= y
  <2> HIDE DEF U
  <2> QED BY <1>1, SmallestExists
<1>3. \A y \in S : y + 1 \in Nat /\ (y + 1) - 1 = y
  OBVIOUS
<1>4. \A y \in S : n <= y + 1
  BY <1>2, <1>3
<1> QED
  BY <1>2, <1>4

(* The largest of what the ranks have gathered exists. *)
LEMMA MaximumExists ==
  ASSUME NEW N \in Nat, NEW S \in SUBSET (-1 .. N), S # {}
  PROVE  \E x \in S : \A y \in S : y <= x
<1> DEFINE U == {n \in Nat : N - n \in S}
<1>1. U \in SUBSET Nat /\ U # {}
  <2>1. PICK x \in S : TRUE
    OBVIOUS
  <2>2. N - x \in Nat /\ N - (N - x) = x
    BY <2>1
  <2> QED BY <2>2
<1>2. PICK n \in U : \A y \in U : n <= y
  <2> HIDE DEF U
  <2> QED BY <1>1, SmallestExists
<1>3. \A y \in S : N - y \in Nat /\ N - (N - y) = y
  OBVIOUS
<1>4. \A y \in S : n <= N - y
  BY <1>2, <1>3
<1> QED
  BY <1>2, <1>4

(* The steps of what is dropped, for InstallPrecious *)
Increasing(s) == \A i, j \in DOMAIN s : i < j => s[i] < s[j]

(* The steps of some of the entries of a queue that is in order are in *)
(* order: what rank 0 lists of the steps it skips.                     *)
LEMMA SelectedSteps ==
  ASSUME NEW N \in Nat, NEW q \in Seq(Entries(N)), Sorted(q), NEW I
  PROVE  /\ Selected([i \in DOMAIN q |-> q[i].Timestep], I) \in Seq(0 .. N - 1)
         /\ Increasing(Selected([i \in DOMAIN q |-> q[i].Timestep], I))
         /\ ToSet(Selected([i \in DOMAIN q |-> q[i].Timestep], I))
               = {q[i].Timestep : i \in {j \in DOMAIN q : j \in I}}
<1> DEFINE p == [i \in DOMAIN q |-> q[i].Timestep]
           ts == Selected(p, I)
<1>1. /\ DOMAIN q = 1..Len(q) /\ Len(q) \in Nat
      /\ \A i \in DOMAIN q : q[i].Timestep \in 0 .. N - 1
  BY QueueElements
<1>2. p \in Seq(0 .. N - 1) /\ Len(p) = Len(q) /\ \A i \in DOMAIN q : p[i] = q[i].Timestep
  BY <1>1
<1> HIDE DEF p
<1>3. ts \in Seq(0 .. N - 1)
  BY <1>2, SelectedMap
<1>4. PICK m : Selects(m, ts, p, I)
  BY <1>2, SelectedMap
<1> HIDE DEF ts
<1>5. DOMAIN ts = 1..Len(ts) /\ Len(ts) \in Nat
  BY <1>3, ListElements, Zenon
<1>6. /\ \A k \in DOMAIN ts : m[k] \in DOMAIN q /\ m[k] \in I /\ ts[k] = q[m[k]].Timestep
      /\ \A j, k \in DOMAIN ts : j < k => m[j] < m[k]
      /\ \A i \in DOMAIN q : i \in I => \E k \in DOMAIN ts : m[k] = i
  BY <1>1, <1>2, <1>4, <1>5 DEF Selects
<1>7. Increasing(ts)
  BY <1>6 DEF Increasing, Sorted
<1>8. ToSet(ts) = {q[i].Timestep : i \in {j \in DOMAIN q : j \in I}}
  BY <1>6 DEF ToSet
<1> QED
  BY <1>3, <1>7, <1>8 DEF ts, p

-----------------------------------------------------------------------------
(* The type invariant, part by part and action by action *)

MainPcs == {"opening", "wait_peers", "user", "gather", "bcast", "timedwait", "walk", "next",
            "get_attributes", "install", "end_barrier", "send_release", "close_barrier",
            "linger", "done"}
Statuses == {"NotOpen", "Established", "PeerClosed", "PeerFailed", "Destroyed"}
StepNo  == 0 .. MaxSteps - 1
Pointer == Nothing .. MaxSteps - 1
Queues  == Seq(Entries(MaxSteps))
Message == [kind : {"step", "notice", "close"}, Timestep : Pointer]
Walkers == [next : Pointer, last : Pointer, latest : Pointer]
Decisions == {v \in Results : v.status = "OK" => v.step # Nothing}

TypesWriter ==
    /\ config \in Configs
    /\ log \in Seq(Message)
    /\ writerUp \in BOOLEAN /\ response \in BOOLEAN
    /\ arrived \in [Rank -> Nat]
    /\ CMconn \in [Rank -> {"none", "up", "watched", "lost"}]
TypesStatus ==
    /\ Status \in [Rank -> Statuses]
    /\ FinalTimestep \in [Rank -> Nothing .. Infinity]
TypesQueue ==
    /\ Timesteps \in [Rank -> Queues]
    /\ DiscardPriorTimestep \in [Rank -> Pointer]
    /\ ReaderTimestep \in [Rank -> Pointer]
    /\ CurrentWorkingTimestep \in [Rank -> Pointer]
TypesInfo ==
    /\ formats \in [Rank -> SUBSET StepNo]
    /\ InternalAttrDataInfo \in [Rank -> Seq(StepNo)]
    /\ AttrsRetrieved \in [Rank -> BOOLEAN]
TypesThreads ==
    /\ pc \in [Rank -> MainPcs]
    /\ npc \in [Rank -> {"idle", "walk"}]
    /\ walk \in [Rank -> [{"main", "net"} -> Walkers]]
TypesColl ==
    /\ contribution \in [Rank -> {<<>>} \cup {<<t>> : t \in Pointer}]
    /\ decision \in [Rank -> Seq(Decisions)]
TypesOut ==
    /\ inStep \in [Rank -> BOOLEAN]
    /\ results \in [Rank -> Seq(Results)]
    /\ released \in [Rank -> [StepNo -> Nat]]
    /\ freedTouched \subseteq {"entry", "attributes"}
Types == /\ TypesWriter /\ TypesStatus /\ TypesQueue /\ TypesInfo /\ TypesThreads
         /\ TypesColl /\ TypesOut

LogOrdered ==
    \A i \in DOMAIN log :
        IF log[i].kind = "close" THEN i = Len(log) /\ i <= MaxSteps + 1
        ELSE log[i].Timestep = i - 1 /\ i <= MaxSteps

(* What depends on the parameters of the stream alone does not change. *)
LEMMA Fixed ==
  ASSUME config' = config
  PROVE  /\ CPCommPattern' = CPCommPattern
         /\ AlwaysProvideLatestTimestep' = AlwaysProvideLatestTimestep
         /\ StepDistributionMode' = StepDistributionMode
         /\ Timeout' = Timeout
         /\ MaxSteps' = MaxSteps /\ MaxCalls' = MaxCalls
         /\ Peered' = Peered /\ Infinity' = Infinity
         /\ Special' = Special /\ MayComeLate' = MayComeLate
         /\ StepNo' = StepNo /\ Pointer' = Pointer /\ Queues' = Queues
         /\ Message' = Message /\ Walkers' = Walkers
         /\ Results' = Results /\ Decisions' = Decisions
  BY DEF CPCommPattern, AlwaysProvideLatestTimestep, StepDistributionMode, Timeout, MaxSteps,
         MaxCalls, Peered, Infinity, Special, MayComeLate, StepNo, Pointer, Queues, Message,
         Walkers, Results, Decisions

(* What a configuration that can be opened says: the pattern, the timeout *)
(* and which ranks have a connection to the writer.                       *)
LEMMA Parameters ==
  ASSUME config \in Configs
  PROVE  /\ MaxSteps \in Nat /\ MaxCalls \in Nat
         /\ CPCommPattern \in {"Min", "Peer"}
         /\ AlwaysProvideLatestTimestep \in BOOLEAN
         /\ Timeout \in {"none", "zero", "some"}
         /\ CohortSize \in Nat \ {0} /\ 0 \in Rank /\ Rank \subseteq Nat
         /\ Peered \subseteq Rank /\ 0 \in Peered
         /\ CPCommPattern = "Peer" => Peered = Rank
         /\ CPCommPattern = "Min" => Peered = {0}
<1>1. config \in Configuration
  BY ReaderAssumption
<1>2. CohortSize \in Nat \ {0} /\ 0 \in Rank /\ Rank \subseteq Nat
  BY ReaderAssumption DEF Rank
<1>3. /\ MaxSteps \in Nat /\ MaxCalls \in Nat
      /\ CPCommPattern \in {"Min", "Peer"}
      /\ AlwaysProvideLatestTimestep \in BOOLEAN
      /\ Timeout \in {"none", "zero", "some"}
  BY <1>1 DEF Configuration, MaxSteps, MaxCalls, CPCommPattern, AlwaysProvideLatestTimestep, Timeout
<1> QED
  BY <1>2, <1>3 DEF Peered

(* SstReaderOpen starts with variables of their types. *)
LEMMA InitTypes == Init => Types
<1> SUFFICES ASSUME Init PROVE Types
  OBVIOUS
<1>1. config \in Configs
  BY DEF Init
<1>2. MaxSteps \in Nat
  BY <1>1, Parameters
<1>3. Nothing \in Pointer /\ Nothing = -1 /\ Infinity = MaxSteps
  BY <1>2 DEF Pointer, Nothing, Infinity
<1>4. TypesWriter
  <2>1. config \in Configs /\ writerUp \in BOOLEAN /\ response \in BOOLEAN
    BY DEF Init
  <2>3. log \in Seq(Message)
    <3> HIDE DEF Message
    <3> QED BY DEF Init
  <2>4. arrived \in [Rank -> Nat]
    BY DEF Init
  <2>2. CMconn \in [Rank -> {"none", "up", "watched", "lost"}]
    BY DEF Init
  <2> QED BY <2>1, <2>2, <2>3, <2>4 DEF TypesWriter
<1>5. TypesStatus
  BY <1>2, <1>3 DEF Init, TypesStatus, Statuses
<1>6. TypesQueue
  BY <1>3 DEF Init, TypesQueue, Queues
<1>7. TypesInfo
  BY DEF Init, TypesInfo
<1>8. TypesThreads
  BY <1>3 DEF Init, TypesThreads, MainPcs, Resting, Walker, Walkers
<1>9. TypesColl
  BY DEF Init, TypesColl
<1>10. TypesOut
  BY DEF Init, TypesOut, StepNo
<1> QED
  BY <1>4, <1>5, <1>6, <1>7, <1>8, <1>9, <1>10 DEF Types

-----------------------------------------------------------------------------
(* What the helpers of the actions return *)

(* MaxQueuedMetadata and NextQueuedMetadata name a step of the queue, or no *)
(* step when it is empty.                                                   *)
LEMMA QueueBounds ==
  ASSUME Types, NEW r \in Rank, Sorted(Timesteps[r])
  PROVE  /\ Timesteps[r] \in Seq(Entries(MaxSteps))
         /\ Steps(Timesteps[r]) \subseteq StepNo
         /\ MaxQueuedMetadata(r) \in Steps(Timesteps[r]) \cup {Nothing}
         /\ NextQueuedMetadata(r) \in Steps(Timesteps[r]) \cup {Nothing}
         /\ MaxQueuedMetadata(r) \in Pointer /\ NextQueuedMetadata(r) \in Pointer
         /\ MaxQueuedMetadata(r) = Nothing <=> Timesteps[r] = <<>>
         /\ NextQueuedMetadata(r) = Nothing <=> Timesteps[r] = <<>>
<1> DEFINE q == Timesteps[r]
           m == MaxQueuedMetadata(r)
           n == NextQueuedMetadata(r)
<1>1. MaxSteps \in Nat
  BY Parameters DEF Types, TypesWriter
<1>2. q \in Seq(Entries(MaxSteps))
  BY DEF Types, TypesQueue, Queues
<1>3. Steps(q) \subseteq StepNo /\ Nothing \notin Steps(q) /\ StepNo \subseteq Pointer /\ Nothing \in Pointer
  BY <1>1, <1>2, QueueElements DEF Steps, StepNo, Pointer, Nothing
<1>4. q = <<>> <=> Steps(q) = {}
  BY <1>1, <1>2, HeadOfQueue
<1>5. CASE q = <<>>
  BY <1>2, <1>3, <1>4, <1>5 DEF MaxQueuedMetadata, NextQueuedMetadata
<1>6. CASE q # <<>>
  <2>1. Steps(q) \in SUBSET (-1 .. MaxSteps) /\ Steps(q) # {}
    BY <1>1, <1>3, <1>4, <1>6 DEF StepNo
  <2>2. m \in Steps(q)
    <3>1. \E x \in Steps(q) : \A y \in Steps(q) : y <= x
      BY <1>1, <2>1, MaximumExists
    <3> QED BY <1>6, <3>1 DEF MaxQueuedMetadata
  <2>3. n \in Steps(q)
    <3>1. \E x \in Steps(q) : \A y \in Steps(q) : x <= y
      BY <1>1, <2>1, MinimumExists
    <3> QED BY <1>6, <3>1 DEF NextQueuedMetadata
  <2> QED BY <1>2, <1>3, <1>6, <2>2, <2>3
<1> QED
  BY <1>5, <1>6

(* The biggest and the smallest of what the ranks have gathered are steps *)
(* or no step, and when there is a smallest step there is a biggest.      *)
LEMMA GatheredBounds ==
  ASSUME Types, CPCommPattern = "Peer", Gathered
  PROVE  Biggest \in Pointer /\ Smallest \in Pointer /\ (Smallest = Nothing \/ Biggest # Nothing)
<1>1. MaxSteps \in Nat /\ 0 \in Rank
  BY Parameters DEF Types, TypesWriter
<1> DEFINE all == {contribution[q][1] : q \in Rank}
<1>2. \A q \in Rank : contribution[q][1] \in Pointer
  BY DEF Gathered, Types, TypesColl
<1>3. all \in SUBSET (-1 .. MaxSteps) /\ all # {} /\ all \subseteq Pointer
  BY <1>1, <1>2 DEF Pointer, Nothing
<1>4. \E x \in all : \A y \in all : y <= x
  <2> HIDE DEF all
  <2> QED BY <1>1, <1>3, MaximumExists
<1>5. \E x \in all : \A y \in all : x <= y
  <2> HIDE DEF all
  <2> QED BY <1>1, <1>3, MinimumExists
<1>6. Biggest \in all /\ \A y \in all : y <= Biggest
  BY <1>4 DEF Biggest
<1>7. Smallest \in all
  BY <1>5 DEF Smallest
<1> HIDE DEF all
<1>8. Smallest <= Biggest
  BY <1>6, <1>7
<1> QED
  BY <1>1, <1>3, <1>6, <1>7, <1>8 DEF Pointer, Nothing

(* A rank that says OK has found a step. *)
LEMMA OutcomeKind ==
  ASSUME NEW r \in Rank, NEW t
  PROVE  /\ Outcome(r, t) \in {"OK", "Timeout", "EndOfStream", "FatalError"}
         /\ Outcome(r, t) = "OK" => t # Nothing
  BY DEF Outcome

-----------------------------------------------------------------------------
(* Type correctness, action by action *)

(* Each part of the type invariant reads its own variables only. *)
LEMMA Untouched ==
  ASSUME Types, config' = config
  PROVE  /\ UNCHANGED <<writerVars, arrived, CMconn>> => TypesWriter'
         /\ UNCHANGED statusVars => TypesStatus'
         /\ UNCHANGED <<queueVars, stepVars>> => TypesQueue'
         /\ UNCHANGED infoVars => TypesInfo'
         /\ UNCHANGED <<pc, npc, walk>> => TypesThreads'
         /\ UNCHANGED collVars => TypesColl'
         /\ UNCHANGED <<outVars, freedTouched>> => TypesOut'
<1> USE Fixed DEF Types
<1>1. UNCHANGED <<writerVars, arrived, CMconn>> => TypesWriter'
  BY DEF TypesWriter, writerVars
<1>2. UNCHANGED statusVars => TypesStatus'
  BY DEF TypesStatus, statusVars
<1>3. UNCHANGED <<queueVars, stepVars>> => TypesQueue'
  BY DEF TypesQueue, queueVars, stepVars
<1>4. UNCHANGED infoVars => TypesInfo'
  BY DEF TypesInfo, infoVars
<1>5. UNCHANGED <<pc, npc, walk>> => TypesThreads'
  BY DEF TypesThreads
<1>6. UNCHANGED collVars => TypesColl'
  BY DEF TypesColl, collVars
<1>7. UNCHANGED <<outVars, freedTouched>> => TypesOut'
  BY DEF TypesOut, outVars
<1> QED
  BY <1>1, <1>2, <1>3, <1>4, <1>5, <1>6, <1>7

(* A thread of a rank that moves on is in the next statement. *)
LEMMA GotoTypes ==
  ASSUME Types, config' = config, NEW r \in Rank, NEW p \in MainPcs, Goto(r, p),
         UNCHANGED <<npc, walk>>
  PROVE  TypesThreads'
  BY Fixed DEF Goto, Types, TypesThreads

(* SstAdvanceStep returns one of its status codes to the engine. *)
LEMMA FinishTypes ==
  ASSUME Types, config' = config, NEW r \in Rank,
         NEW status \in {"OK", "Timeout", "EndOfStream", "FatalError", "NoStream"},
         NEW t \in Pointer, Finish(r, status, t)
  PROVE  /\ inStep' \in [Rank -> BOOLEAN]
         /\ results' \in [Rank -> Seq(Results)]
         /\ UNCHANGED <<npc, walk>> => TypesThreads'
         /\ UNCHANGED <<released, requests, freedTouched>> => TypesOut'
<1>1. [status |-> status, step |-> t] \in Results
  BY DEF Results, Pointer
<1>2. inStep' \in [Rank -> BOOLEAN]
  BY DEF Finish, Types, TypesOut
<1>3. results' \in [Rank -> Seq(Results)]
  <2> DEFINE v == [status |-> status, step |-> t]
  <2>1. results' = [results EXCEPT ![r] = Append(@, v)]
    BY DEF Finish
  <2> HIDE DEF v
  <2> QED BY <1>1, <2>1 DEF v, Types, TypesOut
<1>4. UNCHANGED <<npc, walk>> => TypesThreads'
  BY GotoTypes DEF Finish, MainPcs
<1>5. UNCHANGED <<released, requests, freedTouched>> => TypesOut'
  BY <1>2, <1>3, Fixed DEF Types, TypesOut
<1> QED
  BY <1>2, <1>3, <1>4, <1>5

(* A broadcast adds a message of its type to what each rank has yet to *)
(* receive.                                                            *)
LEMMA DistributeTypes ==
  ASSUME Types, config' = config, NEW v \in Decisions, Distribute(v)
  PROVE  /\ decision' \in [Rank -> Seq(Decisions)]
         /\ UNCHANGED contribution => TypesColl'
<1>1. decision' \in [Rank -> Seq(Decisions)]
  <2>1. \A q \in Rank : (IF q = 0 THEN <<>> ELSE Append(decision[q], v)) \in Seq(Decisions)
    BY DEF Types, TypesColl
  <2> QED BY <2>1 DEF Distribute
<1> QED
  BY <1>1, Fixed DEF Types, TypesColl

(* Installing the formats of the precious steps keeps the sets of steps *)
(* whose formats a rank has.                                            *)
LEMMA InstallPreciousTypes ==
  ASSUME Types, config' = config, NEW r \in Rank, NEW ts \in Seq(StepNo), InstallPrecious(r, ts)
  PROVE  TypesInfo'
<1>1. ToSet(ts) \subseteq StepNo
  BY ListElements DEF ToSet
<1>2. formats' \in [Rank -> SUBSET StepNo]
  BY <1>1 DEF InstallPrecious, Types, TypesInfo
<1>3. InternalAttrDataInfo' \in [Rank -> Seq(StepNo)]
  <2>1. InternalAttrDataInfo[r] \in Seq(StepNo) /\ InternalAttrDataInfo[r] \o ts \in Seq(StepNo)
    BY DEF Types, TypesInfo
  <2> QED BY <2>1 DEF InstallPrecious, Types, TypesInfo
<1>4. AttrsRetrieved' \in [Rank -> BOOLEAN]
  BY DEF InstallPrecious, Types, TypesInfo
<1> QED
  BY <1>2, <1>3, <1>4, Fixed DEF TypesInfo

(* sendOneToEachWriterRank counts one more release of a step. *)
LEMMA ReleaseTypes ==
  ASSUME Types, config' = config, NEW r \in Rank, NEW t \in StepNo, Release(r, t)
  PROVE  released' \in [Rank -> [StepNo -> Nat]]
  BY DEF Release, Types, TypesOut

(* A thread enters releasePriorTimesteps with pointers to entries, or none. *)
LEMMA WalkerTypes ==
  ASSUME Types, NEW n \in Pointer, NEW l \in Pointer
  PROVE  Walker(n, l) \in Walkers /\ Resting \in Walkers
<1>1. Nothing \in Pointer
  BY Parameters DEF Pointer, Nothing, Types, TypesWriter
<1> QED
  BY <1>1 DEF Walker, Resting, Walkers

(* A pointer into the queue is a step number or none. *)
LEMMA PointerTypes ==
  ASSUME Types
  PROVE  /\ Nothing \in Pointer /\ StepNo \subseteq Pointer /\ StepNo = Pointer \ {Nothing}
         /\ Pointer \subseteq Int /\ StepNo \subseteq Nat
         /\ MaxSteps \in Nat
  BY Parameters DEF Pointer, StepNo, Nothing, Types, TypesWriter

(* The head of the queue is a pointer. *)
LEMMA HeadTypes ==
  ASSUME Types, NEW q \in Queues
  PROVE  Head0(q) \in Pointer
<1>1. MaxSteps \in Nat /\ q \in Seq(Entries(MaxSteps))
  BY PointerTypes DEF Queues
<1>2. CASE q = <<>>
  BY <1>2, PointerTypes DEF Head0
<1>3. CASE q # <<>>
  <2>1. 1 \in DOMAIN q
    BY <1>1, <1>3, QueueElements
  <2>2. q[1].Timestep \in StepNo
    BY <1>1, <2>1, QueueElements DEF StepNo
  <2> QED BY <1>3, <2>2, PointerTypes DEF Head0
<1> QED
  BY <1>2, <1>3

(* Settling on a step and starting to release what came before it keeps the *)
(* types.                                                                   *)
LEMMA AdoptTypes ==
  ASSUME Types, config' = config, NEW r \in Rank, NEW t \in Pointer, Adopt(r, t),
         Sorted(Timesteps[r]), UNCHANGED npc
  PROVE  /\ TypesThreads'
         /\ UNCHANGED <<Timesteps, stepVars>> => TypesQueue'
         /\ UNCHANGED <<released, requests, freedTouched>> => TypesOut'
<1>1. Walker(Head0(Timesteps[r]), t) \in Walkers
  BY HeadTypes, WalkerTypes DEF Types, TypesQueue
<1>2. pc' \in [Rank -> MainPcs]
  BY DEF Adopt, Goto, Types, TypesThreads, MainPcs
<1>3. walk' \in [Rank -> [{"main", "net"} -> Walkers]]
  <2> DEFINE w == Walker(Head0(Timesteps[r]), t)
  <2>1. walk' = [walk EXCEPT ![r]["main"] = w] \/ walk' = walk
    BY DEF Adopt
  <2> HIDE DEF w
  <2> QED BY <1>1, <2>1 DEF Types, TypesThreads, w
<1>4. UNCHANGED <<Timesteps, stepVars>> => TypesQueue'
  BY Fixed DEF Adopt, Types, TypesQueue, stepVars
<1>5. UNCHANGED <<released, requests, freedTouched>> => TypesOut'
  BY Fixed DEF Adopt, Types, TypesOut
<1> QED
  BY <1>2, <1>3, <1>4, <1>5, Fixed DEF Types, TypesThreads

(* The status a rank takes over from the decision is a stream status. *)
LEMMA AdoptStatusTypes ==
  ASSUME Types, config' = config, NEW r \in Rank, NEW status, AdoptStatus(r, status),
         UNCHANGED FinalTimestep
  PROVE  TypesStatus'
<1>1. Status' \in [Rank -> Statuses]
  BY DEF AdoptStatus, Types, TypesStatus, Statuses
<1> QED
  BY <1>1, Fixed DEF Types, TypesStatus

(* What rank 0 decides in SstAdvanceStepMin or Peer, and broadcasts, has *)
(* its type.                                                             *)
LEMMA DecideTypes ==
  ASSUME Types, config' = config, NEW r \in Rank, NEW t \in Pointer, Decide(r, t),
         Sorted(Timesteps[r]),
         UNCHANGED <<Timesteps, stepVars, FinalTimestep, npc, released, requests, freedTouched>>
  PROVE  TypesStatus' /\ TypesQueue' /\ TypesThreads' /\ TypesColl' /\ TypesOut'
<1> DEFINE status == Outcome(r, t)
<1>1. status \in {"OK", "Timeout", "EndOfStream", "FatalError"} /\ (status = "OK" => t # Nothing)
  BY OutcomeKind
<1>2. TypesStatus'
  BY AdoptStatusTypes DEF Decide
<1>3. ASSUME status = "OK" PROVE TypesQueue' /\ TypesThreads' /\ TypesOut'
  <2>1. Adopt(r, t)
    BY <1>3 DEF Decide
  <2> QED BY <2>1, AdoptTypes
<1>4. ASSUME status # "OK" PROVE TypesQueue' /\ TypesThreads' /\ TypesOut'
  <2>1. GiveUp(r, status)
    BY <1>4 DEF Decide
  <2>2. Nothing \in Pointer
    BY PointerTypes
  <2>3. TypesThreads' /\ TypesOut'
    BY <1>1, <2>1, <2>2, FinishTypes DEF GiveUp
  <2>4. TypesQueue'
    BY <2>1, Untouched DEF GiveUp, queueVars
  <2> QED BY <2>3, <2>4
<1>5. TypesColl'
  <2>1. contribution' \in [Rank -> {<<>>} \cup {<<u>> : u \in Pointer}]
    BY DEF Decide
  <2>2. decision' \in [Rank -> Seq(Decisions)]
    <3>1. CASE status = "OK" /\ CPCommPattern = "Min"
      BY <3>1 DEF Decide, Types, TypesColl
    <3>2. CASE ~(status = "OK" /\ CPCommPattern = "Min")
      <4>1. [status |-> status, step |-> t] \in Decisions
        BY <1>1 DEF Decisions, Results, Pointer
      <4>2. Distribute([status |-> status, step |-> t])
        BY <3>2 DEF Decide
      <4> HIDE DEF status
      <4> QED BY <4>1, <4>2, DistributeTypes
    <3> QED BY <3>1, <3>2
  <2> QED BY <2>1, <2>2, Fixed DEF TypesColl
<1> QED
  BY <1>2, <1>3, <1>4, <1>5

(* The actions of the main thread *)
LEMMA OpenTypes ==
  ASSUME Types, config' = config, NEW r \in Rank, OpenResponse(r) \/ OpenEstablish(r)
  PROVE  Types'
<1>1. CASE OpenResponse(r)
  <2>1. TypesThreads'
    BY <1>1, GotoTypes DEF OpenResponse, MainPcs
  <2>2. TypesOut'
    <3> DEFINE v == [status |-> "NoStream", step |-> Nothing]
    <3>1. v \in Results
      BY PointerTypes DEF Results, Pointer
    <3>2. results' = results \/ results' = [results EXCEPT ![r] = Append(@, v)]
      BY <1>1 DEF OpenResponse
    <3> HIDE DEF v
    <3>3. results' \in [Rank -> Seq(Results)]
      <4>1. CASE results' = results
        BY <4>1 DEF Types, TypesOut
      <4>2. CASE results' = [results EXCEPT ![r] = Append(@, v)]
        BY <3>1, <4>2 DEF Types, TypesOut
      <4> QED BY <3>2, <4>1, <4>2
    <3> QED BY <1>1, <3>3, Fixed DEF OpenResponse, Types, TypesOut
  <2> QED BY <1>1, <2>1, <2>2, Untouched DEF OpenResponse, Types, streamVars
<1>2. CASE OpenEstablish(r)
  <2>1. TypesThreads'
    BY <1>2, GotoTypes DEF OpenEstablish, MainPcs
  <2>2. TypesStatus'
    BY <1>2, Fixed DEF OpenEstablish, Types, TypesStatus, Statuses
  <2>3. TypesWriter'
    BY <1>2, Fixed DEF OpenEstablish, Types, TypesWriter, writerVars
  <2> QED BY <1>2, <2>1, <2>2, <2>3, Untouched DEF OpenEstablish, Types, outVars
<1> QED
  BY <1>1, <1>2

(* SstAdvanceStep's entry keeps the types. *)
LEMMA BeginStepTypes ==
  ASSUME Types, config' = config, NEW r \in Rank, BeginStep(r), Sorted(Timesteps[r])
  PROVE  Types'
<1>0. Nothing \in Pointer
  BY PointerTypes
<1>1. TypesThreads'
  <2>1. \/ Goto(r, "gather") \/ Goto(r, "bcast") \/ Goto(r, "next") \/ Goto(r, "user")
    BY DEF BeginStep, Finish
  <2> QED BY <2>1, GotoTypes DEF BeginStep, MainPcs
<1>2. TypesColl'
  <2>1. CASE contribution' = [contribution EXCEPT ![r] = <<MaxQueuedMetadata(r)>>] /\ UNCHANGED decision
    BY <2>1, QueueBounds, Fixed DEF Types, TypesColl
  <2>2. CASE UNCHANGED <<contribution, decision>>
    BY <2>2, Untouched DEF collVars
  <2>3. CASE UNCHANGED contribution /\ Distribute([status |-> "FatalError", step |-> Nothing])
    <3>1. [status |-> "FatalError", step |-> Nothing] \in Decisions
      BY <1>0 DEF Decisions, Results, Pointer
    <3> QED BY <2>3, <3>1, DistributeTypes
  <2> QED BY <2>1, <2>2, <2>3 DEF BeginStep
<1>3. TypesOut'
  <2>1. CASE UNCHANGED <<inStep, results>>
    BY <2>1, Fixed DEF BeginStep, Types, TypesOut
  <2>2. CASE Finish(r, "FatalError", Nothing)
    <3>1. inStep' \in [Rank -> BOOLEAN] /\ results' \in [Rank -> Seq(Results)]
      BY <1>0, <2>2, FinishTypes
    <3> QED BY <3>1, Fixed DEF BeginStep, Types, TypesOut
  <2> QED BY <2>1, <2>2 DEF BeginStep
<1> QED
  BY <1>1, <1>2, <1>3, Untouched DEF BeginStep, Types, streamVars

(* The decision rank 0 takes from what it gathered keeps the types. *)
LEMMA GatherDecideTypes ==
  ASSUME Types, config' = config, GatherDecide(0), Sorted(Timesteps[0])
  PROVE  Types'
<1>0. 0 \in Rank /\ CPCommPattern \in {"Min", "Peer"}
  BY Parameters DEF Types, TypesWriter
<1>1. TypesWriter' /\ TypesInfo'
  BY Untouched DEF GatherDecide
<1>2. CASE AllQueuesEmpty(0) /\ Timeout # "zero"
  <2>1. TypesThreads'
    BY <1>0, <1>2, GotoTypes DEF GatherDecide, MainPcs
  <2> QED BY <1>1, <1>2, <2>1, Untouched DEF GatherDecide, Types, statusVars, queueVars, outVars
<1>3. CASE ~(AllQueuesEmpty(0) /\ Timeout # "zero")
  <2> DEFINE t == IF AllQueuesEmpty(0) THEN Nothing ELSE Chosen(0)
  <2>1. t \in Pointer
    BY <1>0, PointerTypes, QueueBounds, GatheredBounds DEF Chosen, GatherDecide, Gathered
  <2>2. Decide(0, t)
    BY <1>3 DEF GatherDecide
  <2> HIDE DEF t
  <2>3. TypesStatus' /\ TypesQueue' /\ TypesThreads' /\ TypesColl' /\ TypesOut'
    BY <1>0, <2>1, <2>2, DecideTypes DEF GatherDecide
  <2> QED BY <1>1, <2>3 DEF Types
<1> QED
  BY <1>2, <1>3

(* A wait in SstAdvanceStep that ends, with a step or a timeout, keeps the *)
(* types.                                                                  *)
LEMMA TimedWaitTypes ==
  ASSUME Types, config' = config, NEW r \in Rank, TimedWait(r), Sorted(Timesteps[r])
  PROVE  Types'
<1>1. TypesWriter' /\ TypesInfo'
  BY Untouched DEF TimedWait
<1>2. CASE WaitOver(r)
  <2>1. MaxQueuedMetadata(r) \in Pointer
    BY QueueBounds
  <2>2. Decide(r, MaxQueuedMetadata(r))
    BY <1>2 DEF TimedWait
  <2>3. TypesStatus' /\ TypesQueue' /\ TypesThreads' /\ TypesColl' /\ TypesOut'
    BY <2>1, <2>2, DecideTypes DEF TimedWait
  <2> QED BY <1>1, <2>3 DEF Types
<1>3. CASE ~WaitOver(r)
  BY <1>1, <1>3, Untouched DEF TimedWait, Types, statusVars, queueVars, outVars
<1> QED
  BY <1>2, <1>3

-----------------------------------------------------------------------------
(* One turn of releasePriorTimesteps *)

(* What the queue holds from an entry on: the steps that are not older than *)
(* its, in order.                                                           *)
LEMMA AheadInQueue ==
  ASSUME NEW N \in Nat, NEW q \in Seq(Entries(N)), Sorted(q), NEW t \in Steps(q)
  PROVE  LET s == SubSeq(q, Position(q, t), Len(q))
         IN  /\ s \in Seq(Entries(N)) /\ Sorted(s)
             /\ Steps(s) = {u \in Steps(q) : t <= u}
<1>1. /\ DOMAIN q = 1..Len(q) /\ Len(q) \in Nat
      /\ \A i \in DOMAIN q : q[i] \in Entries(N) /\ q[i].Timestep \in Int
  BY QueueElements
<1> DEFINE p == Position(q, t)
           s == SubSeq(q, p, Len(q))
<1>2. p \in DOMAIN q /\ q[p].Timestep = t
  BY DEF Position, Steps
<1> HIDE DEF p
<1>3. /\ s \in Seq(Entries(N))
      /\ Len(s) = Len(q) - p + 1
      /\ \A i \in 1 .. Len(q) - p + 1 : s[i] = q[p + i - 1]
  <2>1. p \in Int /\ Len(q) \in Int /\ \A i \in p .. Len(q) : q[i] \in Entries(N)
    BY <1>1, <1>2
  <2> QED BY <1>1, <1>2, <2>1, SubSeqProperties
<1> HIDE DEF s
<1>4. DOMAIN s = 1 .. Len(q) - p + 1
  BY <1>3, ListElements
<1>5. \A i \in DOMAIN s : p + i - 1 \in DOMAIN q /\ s[i] = q[p + i - 1] /\ i \in Int
  BY <1>1, <1>2, <1>3, <1>4
<1>6. \A j \in DOMAIN q : p <= j => j - p + 1 \in DOMAIN s /\ p + (j - p + 1) - 1 = j
  BY <1>1, <1>2, <1>4
<1>7. Sorted(s)
  <2>1. \A i, j \in DOMAIN s : i < j => p + i - 1 < p + j - 1
    BY <1>1, <1>2, <1>5
  <2> QED BY <1>5, <2>1 DEF Sorted
<1>8. \A j \in DOMAIN q : p <= j <=> t <= q[j].Timestep
  <2>1. \A i, j \in DOMAIN q : i < j => q[i].Timestep < q[j].Timestep
    BY DEF Sorted
  <2> SUFFICES ASSUME NEW j \in DOMAIN q PROVE p <= j <=> t <= q[j].Timestep
    OBVIOUS
  <2>2. CASE j < p
    <3>1. q[j].Timestep < t
      BY <1>2, <2>1, <2>2
    <3> QED BY <1>1, <1>2, <2>2, <3>1
  <2>3. CASE j = p
    BY <1>1, <1>2, <2>3
  <2>4. CASE p < j
    <3>1. t < q[j].Timestep
      BY <1>2, <2>1, <2>4
    <3> QED BY <1>1, <1>2, <2>4, <3>1
  <2> QED BY <1>1, <1>2, <2>2, <2>3, <2>4
<1>9. Steps(s) = {u \in Steps(q) : t <= u}
  <2>1. ASSUME NEW i \in DOMAIN s PROVE s[i].Timestep \in {u \in Steps(q) : t <= u}
    <3>1. p + i - 1 \in DOMAIN q /\ p <= p + i - 1
      BY <1>1, <1>2, <1>4, <1>5
    <3> QED BY <1>5, <1>8, <3>1 DEF Steps
  <2>2. ASSUME NEW j \in DOMAIN q, t <= q[j].Timestep PROVE q[j].Timestep \in Steps(s)
    <3>1. j - p + 1 \in DOMAIN s /\ p + (j - p + 1) - 1 = j
      BY <1>6, <1>8, <2>2
    <3>2. s[j - p + 1] = q[j]
      BY <1>5, <3>1
    <3> QED BY <3>1, <3>2 DEF Steps
  <2> QED BY <2>1, <2>2 DEF Steps
<1> QED
  BY <1>3, <1>7, <1>9 DEF s, p

WalkEnds(r, th) ==
    /\ walk' = [walk EXCEPT ![r][th] = Resting]
    /\ UNCHANGED <<Timesteps, infoVars, released>>
    /\ \/ freedTouched' = freedTouched \cup {"entry"}
       \/ /\ freedTouched' = freedTouched
          /\ walk[r][th].next # Nothing =>
                \A t \in Steps(Timesteps[r]) :
                    walk[r][th].next <= t => ~Releasable(r, t, walk[r][th].latest)

WalkRemoves(r, th, this, last) ==
    /\ walk[r][th].next # Nothing /\ walk[r][th].next <= this
    /\ this \in Steps(Timesteps[r]) /\ Releasable(r, this, walk[r][th].latest)
    /\ \A t \in Steps(Timesteps[r]) :
           walk[r][th].next <= t /\ t < this => ~Releasable(r, t, walk[r][th].latest)
    /\ walk' = [walk EXCEPT ![r][th] = [@ EXCEPT !.next = Following(Timesteps[r], this),
                                                 !.last = last]]
    /\ Timesteps' = [Timesteps EXCEPT ![r] = Without(Timesteps[r], this)]
    /\ InstallPrecious(r, <<this>>)
    /\ Release(r, this)
    /\ freedTouched \subseteq freedTouched'
    /\ freedTouched' \subseteq freedTouched \cup {"entry", "attributes"}

(* A turn in releasePriorTimesteps either ends the walk or takes one entry *)
(* out of the queue and leaves two pointers to entries.                    *)
LEMMA WalkEffect ==
  ASSUME Types, NEW r \in Rank, NEW th \in {"main", "net"}, Sorted(Timesteps[r]), WalkTurn(r, th)
  PROVE  WalkEnds(r, th) \/ \E this \in StepNo, last \in Pointer : WalkRemoves(r, th, this, last)
<1> DEFINE q == Timesteps[r]
           w == walk[r][th]
           ahead == IF w.next = Nothing \/ Dangling(r, w) THEN <<>>
                    ELSE SubSeq(q, Position(q, w.next), Len(q))
           stops == {i \in DOMAIN ahead : Releasable(r, ahead[i].Timestep, w.latest)}
           i == CHOOSE i \in stops : \A j \in stops : i <= j
           this == ahead[i].Timestep
           last == IF i = 1 THEN w.last ELSE ahead[i - 1].Timestep
<1>1. /\ MaxSteps \in Nat /\ q \in Seq(Entries(MaxSteps))
      /\ w \in Walkers /\ w.next \in Pointer /\ w.last \in Pointer /\ w.latest \in Pointer
  BY PointerTypes DEF Types, TypesQueue, Queues, TypesThreads, Walkers
<1>2. CASE stops = {}
  <2>1. /\ walk' = [walk EXCEPT ![r][th] = Resting]
        /\ UNCHANGED <<Timesteps, infoVars, released>>
        /\ freedTouched' = freedTouched \cup (IF Dangling(r, w) THEN {"entry"} ELSE {})
    BY <1>2 DEF WalkTurn
  <2>2. CASE Dangling(r, w)
    BY <2>1, <2>2 DEF WalkEnds
  <2>3. CASE ~Dangling(r, w)
    <3>1. w.next # Nothing => \A t \in Steps(q) : w.next <= t => ~Releasable(r, t, w.latest)
      <4> SUFFICES ASSUME w.next # Nothing, NEW t \in Steps(q), w.next <= t
                   PROVE  ~Releasable(r, t, w.latest)
        OBVIOUS
      <4>1. w.next \in Steps(q)
        BY <2>3 DEF Dangling
      <4>2. ahead = SubSeq(q, Position(q, w.next), Len(q))
        BY <2>3
      <4>3. t \in Steps(ahead)
        BY <1>1, <4>1, <4>2, AheadInQueue
      <4>4. PICK k \in DOMAIN ahead : ahead[k].Timestep = t
        BY <4>3 DEF Steps
      <4> QED BY <1>2, <4>4
    <3> QED BY <2>1, <2>3, <3>1 DEF WalkEnds
  <2> QED BY <2>2, <2>3
<1>3. CASE stops # {}
  <2>1. w.next # Nothing /\ ~Dangling(r, w)
    BY <1>3
  <2>2. w.next \in Steps(q) /\ ahead = SubSeq(q, Position(q, w.next), Len(q))
    BY <2>1 DEF Dangling
  <2>3. ahead \in Seq(Entries(MaxSteps)) /\ Sorted(ahead) /\ Steps(ahead) = {u \in Steps(q) : w.next <= u}
    BY <1>1, <2>2, AheadInQueue
  <2>4. /\ walk' = [walk EXCEPT ![r][th] = [@ EXCEPT !.next = Following(q, this), !.last = last]]
        /\ freedTouched' = freedTouched \cup FreedBy(r, th)
                    \cup (IF last \in Steps(q) \cup {Nothing} THEN {} ELSE {"entry"})
        /\ Timesteps' = [Timesteps EXCEPT ![r] = Without(q, this)]
        /\ InstallPrecious(r, <<this>>)
        /\ Release(r, this)
    BY <1>3 DEF WalkTurn
  <2> HIDE DEF ahead
  <2>5. /\ DOMAIN ahead = 1..Len(ahead) /\ Len(ahead) \in Nat
        /\ \A k \in DOMAIN ahead : ahead[k].Timestep \in 0 .. MaxSteps - 1
    BY <1>1, <2>3, QueueElements
  <2>6. i \in stops /\ \A j \in stops : i <= j
    <3>1. stops \in SUBSET Nat
      BY <2>5
    <3>2. \E x \in stops : \A y \in stops : x <= y
      <4> HIDE DEF stops
      <4> QED BY <1>3, <3>1, SmallestExists
    <3> HIDE DEF stops
    <3> QED BY <3>2
  <2> HIDE DEF i
  <2>7. this \in StepNo /\ this \in Steps(q) /\ w.next <= this /\ Releasable(r, this, w.latest)
    <3>1. this \in Steps(ahead)
      BY <2>6 DEF Steps
    <3> QED BY <2>3, <2>5, <2>6, <3>1 DEF StepNo
  <2>8. last \in Pointer
    <3>1. CASE i = 1
      BY <1>1, <3>1
    <3>2. CASE i # 1
      <4>1. i - 1 \in DOMAIN ahead
        BY <2>5, <2>6, <3>2
      <4> QED BY <2>5, <3>2, <4>1, PointerTypes DEF StepNo
    <3> QED BY <3>1, <3>2
  <2>9. \A t \in Steps(q) : w.next <= t /\ t < this => ~Releasable(r, t, w.latest)
    <3> SUFFICES ASSUME NEW t \in Steps(q), w.next <= t, t < this PROVE ~Releasable(r, t, w.latest)
      OBVIOUS
    <3>1. t \in Steps(ahead)
      BY <2>3
    <3>2. PICK k \in DOMAIN ahead : ahead[k].Timestep = t
      BY <3>1 DEF Steps
    <3>3. k < i
      <4>1. \A a, b \in DOMAIN ahead : a < b => ahead[a].Timestep < ahead[b].Timestep
        BY <2>3 DEF Sorted
      <4>2. ~(i < k) /\ i # k
        BY <2>5, <2>6, <3>2, <4>1
      <4> QED BY <2>5, <2>6, <4>2
    <3> QED BY <2>5, <2>6, <3>2, <3>3
  <2>10. /\ freedTouched \subseteq freedTouched'
         /\ freedTouched' \subseteq freedTouched \cup {"entry", "attributes"}
    BY <2>4 DEF FreedBy
  <2> HIDE DEF this, last
  <2>11. WalkRemoves(r, th, this, last)
    BY <2>1, <2>4, <2>7, <2>9, <2>10 DEF WalkRemoves
  <2> QED BY <2>7, <2>8, <2>11
<1> QED
  BY <1>2, <1>3

(* A turn in releasePriorTimesteps keeps the types. *)
LEMMA WalkTypes ==
  ASSUME Types, config' = config, NEW r \in Rank, NEW th \in {"main", "net"}, Sorted(Timesteps[r]),
         WalkTurn(r, th)
  PROVE  /\ UNCHANGED <<DiscardPriorTimestep, stepVars>> => TypesQueue'
         /\ TypesInfo'
         /\ walk' \in [Rank -> [{"main", "net"} -> Walkers]]
         /\ released' \in [Rank -> [StepNo -> Nat]]
         /\ freedTouched' \subseteq {"entry", "attributes"}
<1> DEFINE Goal == /\ UNCHANGED <<DiscardPriorTimestep, stepVars>> => TypesQueue'
                   /\ TypesInfo'
                   /\ walk' \in [Rank -> [{"main", "net"} -> Walkers]]
                   /\ released' \in [Rank -> [StepNo -> Nat]]
                   /\ freedTouched' \subseteq {"entry", "attributes"}
<1>1. CASE WalkEnds(r, th)
  <2>1. walk' \in [Rank -> [{"main", "net"} -> Walkers]]
    <3>1. Resting \in Walkers
      BY PointerTypes, WalkerTypes
    <3> QED BY <1>1, <3>1 DEF WalkEnds, Types, TypesThreads
  <2>2. UNCHANGED <<DiscardPriorTimestep, stepVars>> => TypesQueue'
    BY <1>1, Untouched DEF WalkEnds, queueVars
  <2>3. TypesInfo'
    BY <1>1, Untouched DEF WalkEnds
  <2>4. released' \in [Rank -> [StepNo -> Nat]] /\ freedTouched' \subseteq {"entry", "attributes"}
    BY <1>1 DEF WalkEnds, Types, TypesOut
  <2> QED BY <2>1, <2>2, <2>3, <2>4
<1>2. ASSUME NEW this \in StepNo, NEW last \in Pointer, WalkRemoves(r, th, this, last) PROVE Goal
  <2> DEFINE q == Timesteps[r]
             n == Following(q, this)
             u == Without(q, this)
  <2>1. MaxSteps \in Nat /\ q \in Seq(Entries(MaxSteps)) /\ this \in Steps(q)
    BY <1>2, PointerTypes DEF Types, TypesQueue, Queues, WalkRemoves
  <2>2. n \in Pointer
    BY <2>1, FollowingInQueue DEF Pointer, Nothing
  <2>3. u \in Queues
    BY <2>1, WithoutQueue DEF Queues
  <2> HIDE DEF n, u
  <2>4. walk' \in [Rank -> [{"main", "net"} -> Walkers]]
    <3>1. [walk[r][th] EXCEPT !.next = n, !.last = last] \in Walkers
      <4>1. walk[r][th] \in Walkers
        BY DEF Types, TypesThreads
      <4> HIDE DEF q
      <4> QED BY <2>2, <4>1 DEF Walkers
    <3>2. walk' = [walk EXCEPT ![r][th] = [@ EXCEPT !.next = n, !.last = last]]
      BY <1>2 DEF WalkRemoves, n
    <3> QED BY <3>1, <3>2 DEF Types, TypesThreads
  <2>5. UNCHANGED <<DiscardPriorTimestep, stepVars>> => TypesQueue'
    <3>1. Timesteps' = [Timesteps EXCEPT ![r] = u]
      BY <1>2 DEF WalkRemoves, u
    <3> QED BY <2>3, <3>1, Fixed DEF Types, TypesQueue, stepVars
  <2>6. TypesInfo'
    <3>1. <<this>> \in Seq(StepNo)
      OBVIOUS
    <3> QED BY <1>2, <3>1, InstallPreciousTypes DEF WalkRemoves
  <2>7. released' \in [Rank -> [StepNo -> Nat]]
    BY <1>2, ReleaseTypes DEF WalkRemoves
  <2>8. freedTouched' \subseteq {"entry", "attributes"}
    BY <1>2 DEF WalkRemoves, Types, TypesOut
  <2> QED BY <2>4, <2>5, <2>6, <2>7, <2>8
<1> QED
  BY <1>1, <1>2, WalkEffect

(* A turn of the engine's thread in releasePriorTimesteps keeps the types. *)
LEMMA WalkMainTypes ==
  ASSUME Types, config' = config, NEW r \in Rank, WalkMain(r), Sorted(Timesteps[r])
  PROVE  Types'
<1>0. WalkTurn(r, "main") /\ Nothing \in Pointer
  BY PointerTypes DEF WalkMain
<1>1. TypesWriter' /\ TypesStatus'
  BY Untouched DEF WalkMain
<1>2. /\ TypesQueue' /\ TypesInfo'
      /\ walk' \in [Rank -> [{"main", "net"} -> Walkers]]
      /\ released' \in [Rank -> [StepNo -> Nat]]
      /\ freedTouched' \subseteq {"entry", "attributes"}
  BY <1>0, WalkTypes DEF WalkMain
<1>3. pc' \in [Rank -> MainPcs]
  <2>1. UNCHANGED pc \/ Goto(r, "next") \/ Goto(r, "user")
    BY DEF WalkMain, Finish
  <2> QED BY <2>1 DEF Goto, Types, TypesThreads, MainPcs
<1>4. inStep' \in [Rank -> BOOLEAN] /\ results' \in [Rank -> Seq(Results)]
  <2>1. UNCHANGED <<inStep, results>> \/ Finish(r, "FatalError", Nothing)
    BY DEF WalkMain
  <2> QED BY <1>0, <2>1, FinishTypes DEF Types, TypesOut
<1>5. TypesColl'
  <2>1. CASE UNCHANGED decision
    BY <2>1, Untouched DEF WalkMain, collVars
  <2>2. CASE Distribute([status |-> "FatalError", step |-> Nothing])
    <3>1. [status |-> "FatalError", step |-> Nothing] \in Decisions
      BY <1>0 DEF Decisions, Results, Pointer
    <3> QED BY <2>2, <3>1, DistributeTypes DEF WalkMain
  <2> QED BY <2>1, <2>2 DEF WalkMain
<1>6. TypesThreads'
  BY <1>2, <1>3, Fixed DEF WalkMain, Types, TypesThreads
<1>7. TypesOut'
  BY <1>2, <1>4, Fixed DEF TypesOut
<1> QED
  BY <1>1, <1>2, <1>5, <1>6, <1>7 DEF Types

(* A turn of the network thread in releasePriorTimesteps keeps the types. *)
LEMMA WalkNetTypes ==
  ASSUME Types, config' = config, NEW r \in Rank, WalkNet(r), Sorted(Timesteps[r])
  PROVE  Types'
<1>0. WalkTurn(r, "net")
  BY DEF WalkNet
<1>1. TypesWriter' /\ TypesStatus' /\ TypesColl'
  BY Untouched DEF WalkNet
<1>2. /\ TypesQueue' /\ TypesInfo'
      /\ walk' \in [Rank -> [{"main", "net"} -> Walkers]]
      /\ released' \in [Rank -> [StepNo -> Nat]]
      /\ freedTouched' \subseteq {"entry", "attributes"}
  BY <1>0, WalkTypes DEF WalkNet
<1>3. TypesThreads'
  BY <1>2, Fixed DEF WalkNet, Types, TypesThreads
<1>4. TypesOut'
  BY <1>2, Fixed DEF WalkNet, Types, TypesOut
<1> QED
  BY <1>1, <1>2, <1>3, <1>4 DEF Types

-----------------------------------------------------------------------------
(* waitForNextMetadata: the steps D are dropped, and their formats and *)
(* attributes installed, with those of the step that is found.          *)
Drops(r, D) ==
    \E nq \in Queues :
        /\ Sorted(nq) /\ Items(nq) \subseteq Items(Timesteps[r])
        /\ Steps(nq) = Steps(Timesteps[r]) \ D
        /\ Timesteps' = [Timesteps EXCEPT ![r] = nq]

Droppable(r, D) ==
    \A u \in D : /\ u \in Steps(Timesteps[r])
                 /\ \/ [Timestep |-> u, Metadata |-> FALSE] \in Items(Timesteps[r])
                    \/ u < DiscardPriorTimestep[r]

Installs(r, D) ==
    \E ts \in Seq(StepNo) : Increasing(ts) /\ ToSet(ts) = D /\ InstallPrecious(r, ts)

NextFound(r, t, D) ==
    /\ [Timestep |-> t, Metadata |-> TRUE] \in Items(Timesteps[r])
    /\ t \in Steps(Timesteps[r]) /\ ReaderTimestep[r] < t /\ DiscardPriorTimestep[r] <= t
    /\ Droppable(r, D) /\ (\A u \in D : u < t)
    /\ \A u \in Steps(Timesteps[r]) : u < t => u \in D \/ u <= ReaderTimestep[r]
    /\ Drops(r, D) /\ Installs(r, D \cup {t})
    /\ CurrentWorkingTimestep' = [CurrentWorkingTimestep EXCEPT ![r] = t]
    /\ ReaderTimestep' = [ReaderTimestep EXCEPT ![r] = t]
    /\ Tell([status |-> "OK", step |-> t])
    /\ Goto(r, "get_attributes")
    /\ UNCHANGED <<inStep, results>>

NextNone(r, D) ==
    /\ Droppable(r, D)
    /\ \A u \in Steps(Timesteps[r]) : u \in D \/ u <= ReaderTimestep[r]
    /\ Drops(r, D) /\ Installs(r, D)
    /\ UNCHANGED ReaderTimestep
    /\ \/ /\ CurrentWorkingTimestep' = [CurrentWorkingTimestep EXCEPT ![r] = Nothing]
          /\ Tell([status |-> FinalStatus(r), step |-> Nothing])
          /\ Finish(r, FinalStatus(r), Nothing)
       \/ UNCHANGED <<CurrentWorkingTimestep, pc, decision, inStep, results>>

(* waitForNextMetadata either finds a step, taking older entries that carry *)
(* no data out of the queue, or finds that there will be none.              *)
LEMMA NextEffect ==
  ASSUME Types, NEW r \in Rank, Sorted(Timesteps[r]), NextMetadata(r)
  PROVE  \/ \E t \in StepNo, D \in SUBSET StepNo : NextFound(r, t, D)
         \/ \E D \in SUBSET StepNo : NextNone(r, D)
<1> DEFINE q == Timesteps[r]
           found == {i \in DOMAIN q : Wanted(r, q[i])}
           at == IF found = {} THEN Len(q) + 1 ELSE CHOOSE i \in found : \A j \in found : i <= j
           dropped == {i \in DOMAIN q : i < at /\ Discardable(r, q[i])}
           kept == DOMAIN q \ dropped
           D == {q[i].Timestep : i \in dropped}
           precious == Selected([i \in DOMAIN q |-> q[i].Timestep], dropped)
           nq == Selected(q, kept)
<1>1. /\ MaxSteps \in Nat /\ q \in Seq(Entries(MaxSteps))
      /\ DOMAIN q = 1..Len(q) /\ Len(q) \in Nat
      /\ \A i \in DOMAIN q : /\ q[i] \in Entries(MaxSteps)
                             /\ q[i].Timestep \in StepNo /\ q[i].Timestep \in Int
                             /\ q[i] = [Timestep |-> q[i].Timestep, Metadata |-> q[i].Metadata]
                             /\ q[i].Metadata \in BOOLEAN
  <2>1. MaxSteps \in Nat /\ q \in Seq(Entries(MaxSteps))
    BY PointerTypes DEF Types, TypesQueue, Queues
  <2>2. /\ DOMAIN q = 1..Len(q) /\ Len(q) \in Nat
        /\ \A i \in DOMAIN q : q[i] \in Entries(MaxSteps)
    BY <2>1, QueueElements
  <2> HIDE DEF q
  <2> QED BY <2>1, <2>2 DEF Entries, StepNo
<1>a. \A i \in DOMAIN q : i \in Int /\ q[i].Timestep \in Int
  <2>1. \A i \in DOMAIN q : q[i].Timestep \in Int
    BY <1>1
  <2>2. \A i \in 1..Len(q) : i \in Int
    BY <1>1
  <2> QED BY <1>1, <2>1, <2>2
<1>2. /\ ReaderTimestep[r] \in Int /\ DiscardPriorTimestep[r] \in Int
  BY PointerTypes DEF Types, TypesQueue
<1>3. found # {} => at \in found /\ \A j \in found : at <= j
  <2>1. found \in SUBSET Nat
    BY <1>1
  <2> HIDE DEF found
  <2> QED BY <2>1, SmallestExists
<1>4. /\ Timesteps' = [Timesteps EXCEPT ![r] = nq]
      /\ IF found # {}
         THEN /\ CurrentWorkingTimestep' = [CurrentWorkingTimestep EXCEPT ![r] = q[at].Timestep]
              /\ ReaderTimestep' = [ReaderTimestep EXCEPT ![r] = q[at].Timestep]
              /\ InstallPrecious(r, Append(precious, q[at].Timestep))
              /\ Tell([status |-> "OK", step |-> q[at].Timestep])
              /\ Goto(r, "get_attributes")
              /\ UNCHANGED <<inStep, results>>
         ELSE /\ InstallPrecious(r, precious)
              /\ UNCHANGED ReaderTimestep
              /\ \/ /\ CurrentWorkingTimestep' = [CurrentWorkingTimestep EXCEPT ![r] = Nothing]
                    /\ Tell([status |-> FinalStatus(r), step |-> Nothing])
                    /\ Finish(r, FinalStatus(r), Nothing)
                 \/ UNCHANGED <<CurrentWorkingTimestep, pc, decision, inStep, results>>
  BY DEF NextMetadata
<1> HIDE DEF at
<1>5. dropped \subseteq DOMAIN q /\ D \in SUBSET StepNo
  BY <1>1
<1>6. /\ nq \in Queues /\ Sorted(nq)
      /\ Items(nq) = {q[i] : i \in {j \in DOMAIN q : j \in kept}}
      /\ Steps(nq) = {q[i].Timestep : i \in {j \in DOMAIN q : j \in kept}}
  <2> HIDE DEF kept
  <2> QED BY <1>1, SelectedQueue DEF Queues
<1>7. \A i, j \in DOMAIN q : q[i].Timestep = q[j].Timestep => i = j
  <2>1. \A i, j \in DOMAIN q : i < j => q[i].Timestep < q[j].Timestep
    BY DEF Sorted
  <2> SUFFICES ASSUME NEW i \in DOMAIN q, NEW j \in DOMAIN q, q[i].Timestep = q[j].Timestep
               PROVE  i = j
    OBVIOUS
  <2>2. i \in Int /\ j \in Int /\ q[i].Timestep \in Int
    BY <1>a
  <2>3. ~(i < j) /\ ~(j < i)
    BY <2>1, <2>2
  <2> QED BY <2>2, <2>3
<1>8. Drops(r, D)
  <2> HIDE DEF nq
  <2>1. Items(nq) \subseteq Items(q)
    BY <1>6 DEF Items
  <2>2. Steps(nq) = Steps(q) \ D
    BY <1>5, <1>6, <1>7 DEF Steps
  <2> QED BY <1>4, <1>6, <2>1, <2>2 DEF Drops
<1>9. Droppable(r, D)
  <2>1. \A i \in dropped : /\ q[i].Timestep \in Steps(q) /\ q[i] \in Items(q)
                           /\ q[i].Metadata = FALSE \/ q[i].Timestep < DiscardPriorTimestep[r]
    BY <1>1 DEF Discardable, Steps, Items
  <2> QED BY <1>1, <2>1 DEF Droppable
<1>10. precious \in Seq(StepNo) /\ Increasing(precious) /\ ToSet(precious) = D
  <2>1. {j \in DOMAIN q : j \in dropped} = dropped
    BY <1>5
  <2>2. /\ precious \in Seq(0 .. MaxSteps - 1) /\ Increasing(precious)
        /\ ToSet(precious) = {q[i].Timestep : i \in {j \in DOMAIN q : j \in dropped}}
    <3> HIDE DEF dropped
    <3>1. MaxSteps \in Nat /\ q \in Seq(Entries(MaxSteps)) /\ Sorted(q)
      BY <1>1
    <3> HIDE DEF q
    <3> QED BY ONLY <3>1, SelectedSteps
  <2> HIDE DEF dropped, precious
  <2> QED BY <2>1, <2>2 DEF StepNo
<1>11. CASE found # {}
  <2> DEFINE t == q[at].Timestep
  <2>1. at \in DOMAIN q /\ Wanted(r, q[at]) /\ \A j \in found : at <= j
    BY <1>3, <1>11
  <2>2. t \in StepNo /\ t \in Steps(q) /\ [Timestep |-> t, Metadata |-> TRUE] \in Items(q)
        /\ ReaderTimestep[r] < t /\ DiscardPriorTimestep[r] <= t
    <3>1. t \in StepNo /\ t \in Steps(q) /\ q[at] \in Items(q)
      BY <1>1, <2>1 DEF Steps, Items
    <3>2. q[at].Metadata /\ ReaderTimestep[r] < t /\ ~(t < DiscardPriorTimestep[r])
      BY <2>1 DEF Wanted, Discardable
    <3>3. q[at] = [Timestep |-> t, Metadata |-> TRUE]
      BY <1>1, <2>1, <3>2
    <3>4. t \in Int
      BY <1>1, <2>1
    <3> HIDE DEF t
    <3> QED BY <1>2, <3>1, <3>2, <3>3, <3>4
  <2>3. \A u \in D : u < t
    <3>1. \A i \in dropped : q[i].Timestep < t
      BY <1>1, <2>1 DEF Sorted
    <3> QED BY <3>1
  <2>4. \A u \in Steps(q) : u < t => u \in D \/ u <= ReaderTimestep[r]
    <3> SUFFICES ASSUME NEW i \in DOMAIN q, q[i].Timestep < t
                 PROVE  i \in dropped \/ q[i].Timestep <= ReaderTimestep[r]
      BY DEF Steps
    <3>1. \A j, k \in DOMAIN q : j < k => q[j].Timestep < q[k].Timestep
      BY DEF Sorted
    <3>2. i < at
      <4>1. t \in Int /\ q[i].Timestep \in Int /\ at \in Int /\ i \in Int
        <5>1. at \in DOMAIN q /\ i \in DOMAIN q
          BY <2>1
        <5> QED BY <1>a, <5>1
      <4>2. at < i => t < q[i].Timestep
        BY <2>1, <3>1
      <4>3. at # i
        BY <4>1
      <4> HIDE DEF t
      <4> QED BY <4>1, <4>2, <4>3
    <3>3. ~Wanted(r, q[i])
      BY <1>1, <2>1, <3>2
    <3>4. Discardable(r, q[i]) \/ ~(q[i].Timestep > ReaderTimestep[r])
      BY <3>3 DEF Wanted
    <3>5. q[i].Timestep \in Int
      BY <1>1
    <3> QED BY <1>2, <3>2, <3>4, <3>5
  <2>5. Installs(r, D \cup {t})
    <3> DEFINE ts == Append(precious, t)
    <3>1. /\ ts \in Seq(StepNo) /\ Len(ts) = Len(precious) + 1 /\ ts[Len(precious) + 1] = t
          /\ DOMAIN precious = 1..Len(precious) /\ Len(precious) \in Nat
          /\ \A i \in DOMAIN precious : ts[i] = precious[i]
      <4> HIDE DEF precious, t
      <4> QED BY <1>10, <2>2
    <3> HIDE DEF precious
    <3>2. \A i \in DOMAIN precious : precious[i] < t
      <4>1. \A i \in DOMAIN precious : precious[i] \in D
        BY <1>10 DEF ToSet
      <4> QED BY <2>3, <4>1
    <3> HIDE DEF ts, t, D
    <3>a. DOMAIN ts = 1..(Len(precious) + 1)
      BY <3>1, ListElements
    <3>b. \A i \in DOMAIN ts : i \in DOMAIN precious \/ i = Len(precious) + 1
      BY <3>1, <3>a
    <3>3. Increasing(ts)
      <4> SUFFICES ASSUME NEW i \in DOMAIN ts, NEW j \in DOMAIN ts, i < j PROVE ts[i] < ts[j]
        BY DEF Increasing
      <4>1. i \in DOMAIN precious
        BY <3>1, <3>a, <3>b
      <4>2. CASE j \in DOMAIN precious
        BY <1>10, <3>1, <4>1, <4>2 DEF Increasing
      <4>3. CASE j = Len(precious) + 1
        BY <3>1, <3>2, <4>1, <4>3
      <4> QED BY <3>b, <4>2, <4>3
    <3>4. ToSet(ts) = D \cup {t}
      BY <1>10, <3>1, <3>a, <3>b DEF ToSet
    <3>5. InstallPrecious(r, ts)
      BY <1>4, <1>11 DEF ts, t
    <3> QED BY <3>1, <3>3, <3>4, <3>5 DEF Installs
  <2>6. NextFound(r, t, D)
    <3>1. /\ CurrentWorkingTimestep' = [CurrentWorkingTimestep EXCEPT ![r] = t]
          /\ ReaderTimestep' = [ReaderTimestep EXCEPT ![r] = t]
          /\ Tell([status |-> "OK", step |-> t])
          /\ Goto(r, "get_attributes")
          /\ UNCHANGED <<inStep, results>>
      BY <1>4, <1>11
    <3> HIDE DEF t, D
    <3> QED BY <1>8, <1>9, <2>2, <2>3, <2>4, <2>5, <3>1 DEF NextFound
  <2> QED BY <1>5, <2>2, <2>6
<1>12. CASE found = {}
  <2>1. \A u \in Steps(q) : u \in D \/ u <= ReaderTimestep[r]
    <3> SUFFICES ASSUME NEW i \in DOMAIN q
                 PROVE  i \in dropped \/ q[i].Timestep <= ReaderTimestep[r]
      BY DEF Steps
    <3>1. i < at
      BY <1>1, <1>12 DEF at
    <3>2. ~Wanted(r, q[i])
      BY <1>12
    <3>3. Discardable(r, q[i]) \/ ~(q[i].Timestep > ReaderTimestep[r])
      BY <3>2 DEF Wanted
    <3>4. q[i].Timestep \in Int
      BY <1>1
    <3> QED BY <1>2, <3>1, <3>3, <3>4
  <2>2. Installs(r, D)
    BY <1>4, <1>10, <1>12 DEF Installs
  <2>3. NextNone(r, D)
    <3> HIDE DEF D
    <3> QED BY <1>4, <1>8, <1>9, <1>12, <2>1, <2>2 DEF NextNone
  <2> QED BY <1>5, <2>3
<1> QED
  BY <1>11, <1>12

-----------------------------------------------------------------------------

(* waitForNextMetadata keeps the types. *)
LEMMA NextMetadataTypes ==
  ASSUME Types, config' = config, NEW r \in Rank, NextMetadata(r), Sorted(Timesteps[r])
  PROVE  Types'
<1>0. Nothing \in Pointer /\ StepNo = Pointer \ {Nothing}
      /\ FinalStatus(r) \in {"EndOfStream", "FatalError"}
  BY PointerTypes DEF FinalStatus
<1>1. TypesWriter' /\ TypesStatus'
  BY Untouched DEF NextMetadata
<1>2. UNCHANGED <<DiscardPriorTimestep, npc, walk, contribution, released, requests, freedTouched>>
  BY DEF NextMetadata
<1>3. ASSUME NEW D \in SUBSET StepNo, Drops(r, D)
      PROVE  Timesteps' \in [Rank -> Queues]
  BY <1>3 DEF Drops, Types, TypesQueue
<1>4. ASSUME NEW D \in SUBSET StepNo, Installs(r, D)
      PROVE  TypesInfo'
  BY <1>4, InstallPreciousTypes DEF Installs
<1>5. ASSUME NEW v \in Decisions, Tell(v)
      PROVE  TypesColl'
  BY <1>2, <1>5, DistributeTypes, Untouched DEF Tell, collVars
<1>6. ASSUME NEW t \in StepNo, NEW D \in SUBSET StepNo, NextFound(r, t, D) PROVE Types'
  <2>1. TypesQueue'
    BY <1>0, <1>2, <1>3, <1>6, Fixed DEF NextFound, Types, TypesQueue
  <2>2. TypesInfo'
    BY <1>4, <1>6 DEF NextFound
  <2>3. TypesThreads'
    BY <1>2, <1>6, GotoTypes DEF NextFound, MainPcs
  <2>4. TypesColl'
    <3>1. [status |-> "OK", step |-> t] \in Decisions
      BY <1>0 DEF Decisions, Results, Pointer
    <3> QED BY <1>5, <1>6, <3>1 DEF NextFound
  <2>5. TypesOut'
    BY <1>2, <1>6, Untouched DEF NextFound, outVars
  <2> QED BY <1>1, <2>1, <2>2, <2>3, <2>4, <2>5 DEF Types
<1>7. ASSUME NEW D \in SUBSET StepNo, NextNone(r, D) PROVE Types'
  <2>1. TypesQueue'
    <3>1. UNCHANGED CurrentWorkingTimestep
            \/ CurrentWorkingTimestep' = [CurrentWorkingTimestep EXCEPT ![r] = Nothing]
      BY <1>7 DEF NextNone
    <3> QED BY <1>0, <1>2, <1>3, <1>7, <3>1, Fixed DEF NextNone, Types, TypesQueue
  <2>2. TypesInfo'
    BY <1>4, <1>7 DEF NextNone
  <2>3. CASE UNCHANGED <<CurrentWorkingTimestep, pc, decision, inStep, results>>
    BY <1>1, <1>2, <2>1, <2>2, <2>3, Untouched DEF Types, collVars, outVars
  <2>4. CASE Tell([status |-> FinalStatus(r), step |-> Nothing]) /\ Finish(r, FinalStatus(r), Nothing)
    <3>1. TypesThreads' /\ TypesOut'
      BY <1>0, <1>2, <2>4, FinishTypes
    <3>2. [status |-> FinalStatus(r), step |-> Nothing] \in Decisions
      BY <1>0 DEF Decisions, Results, Pointer
    <3> QED BY <1>1, <1>5, <2>1, <2>2, <2>4, <3>1, <3>2 DEF Types
  <2> QED BY <1>7, <2>3, <2>4 DEF NextNone
<1> QED
  BY <1>6, <1>7, NextEffect

(* A rank that follows the decision rank 0 broadcast keeps the types. *)
LEMMA FollowTypes ==
  ASSUME Types, config' = config, NEW r \in Rank, Follow(r), Sorted(Timesteps[r])
  PROVE  Types'
<1> DEFINE v == decision[r][1]
<1>0. Nothing \in Pointer /\ StepNo = Pointer \ {Nothing}
  BY PointerTypes
<1>1. /\ v \in Decisions /\ v \in Results
      /\ v.status \in {"OK", "Timeout", "EndOfStream", "FatalError", "NoStream"}
      /\ v.step \in Pointer
      /\ v.status = "OK" => v.step \in StepNo
  <2>1. decision[r] \in Seq(Decisions) /\ decision[r] # <<>>
    BY DEF Follow, Types, TypesColl
  <2>2. v \in Decisions
    <3>1. 1 \in DOMAIN decision[r]
      BY <2>1, ListElements
    <3> QED BY <2>1, <3>1, ListElements
  <2> HIDE DEF v
  <2>3. v \in Results /\ (v.status = "OK" => v.step # Nothing)
    BY <2>2 DEF Decisions
  <2> QED BY <1>0, <2>2, <2>3 DEF Results, Pointer
<1>2. TypesWriter'
  BY Untouched DEF Follow
<1>3. TypesColl'
  <2>1. Tail(decision[r]) \in Seq(Decisions)
    BY DEF Follow, Types, TypesColl
  <2>2. decision' = [decision EXCEPT ![r] = Tail(@)] /\ UNCHANGED contribution
    BY DEF Follow
  <2> QED BY <2>1, <2>2, Fixed DEF Types, TypesColl
<1>4. UNCHANGED <<Timesteps, FinalTimestep, npc, released, requests, freedTouched>>
  BY DEF Follow
<1> HIDE DEF v
<1>5. CASE CPCommPattern = "Peer"
  <2>1. /\ IF v.status = "OK" THEN Adopt(r, v.step) ELSE GiveUp(r, v.status)
        /\ AdoptStatus(r, v.status)
        /\ UNCHANGED <<infoVars, stepVars>>
    BY <1>5 DEF Follow, v
  <2>2. TypesStatus' /\ TypesInfo'
    BY <1>4, <2>1, AdoptStatusTypes, Untouched
  <2>3. CASE v.status = "OK"
    <3>1. TypesThreads' /\ TypesQueue' /\ TypesOut'
      BY <1>1, <1>4, <2>1, <2>3, AdoptTypes
    <3> QED BY <1>2, <1>3, <2>2, <3>1 DEF Types
  <2>4. CASE v.status # "OK"
    <3>1. GiveUp(r, v.status)
      BY <2>1, <2>4
    <3>2. TypesThreads' /\ TypesOut'
      BY <1>0, <1>1, <1>4, <3>1, FinishTypes DEF GiveUp
    <3>3. TypesQueue'
      BY <1>4, <2>1, <3>1, Untouched DEF GiveUp, queueVars
    <3> QED BY <1>2, <1>3, <2>2, <3>2, <3>3 DEF Types
  <2> QED BY <2>3, <2>4
<1>6. CASE CPCommPattern = "Min" /\ v.status = "OK"
  <2>1. /\ InstallPrecious(r, <<v.step>>)
        /\ ReaderTimestep' = [ReaderTimestep EXCEPT ![r] = v.step]
        /\ CurrentWorkingTimestep' = [CurrentWorkingTimestep EXCEPT ![r] = v.step]
        /\ Goto(r, "get_attributes")
        /\ UNCHANGED <<Status, lock, walk, DiscardPriorTimestep, inStep, results>>
    BY <1>6 DEF Follow, v
  <2>2. TypesInfo'
    <3>1. <<v.step>> \in Seq(StepNo)
      BY <1>1, <1>6
    <3> QED BY <2>1, <3>1, InstallPreciousTypes
  <2>3. TypesQueue'
    BY <1>1, <1>4, <2>1, Fixed DEF Types, TypesQueue
  <2>4. TypesThreads'
    BY <1>4, <2>1, GotoTypes DEF MainPcs
  <2> QED BY <1>2, <1>3, <1>4, <2>1, <2>2, <2>3, <2>4, Untouched DEF Types, statusVars, outVars
<1>7. CASE CPCommPattern = "Min" /\ v.status # "OK"
  <2>1. /\ Finish(r, v.status, Nothing)
        /\ UNCHANGED <<Status, lock, walk, DiscardPriorTimestep, infoVars, stepVars>>
    BY <1>7 DEF Follow, v
  <2>2. TypesThreads' /\ TypesOut'
    BY <1>0, <1>1, <1>4, <2>1, FinishTypes
  <2> QED BY <1>2, <1>3, <1>4, <2>1, <2>2, Untouched DEF Types, statusVars, queueVars
<1> QED
  BY <1>5, <1>6, <1>7 DEF Follow, v

(* Getting the attribute data of the steps that were skipped, and *)
(* installing it, keeps the types.                                *)
LEMMA AttributesTypes ==
  ASSUME Types, config' = config, NEW r \in Rank, SstGetAttributeData(r) \/ InstallAttributes(r)
  PROVE  Types'
<1>1. CASE SstGetAttributeData(r)
  <2>1. TypesThreads'
    BY <1>1, GotoTypes DEF SstGetAttributeData, MainPcs
  <2>2. TypesInfo'
    BY <1>1, Fixed DEF SstGetAttributeData, Types, TypesInfo
  <2> QED BY <1>1, <2>1, <2>2, Untouched DEF SstGetAttributeData, Types
<1>2. CASE InstallAttributes(r)
  <2>1. ReaderTimestep[r] \in Pointer
    BY DEF Types, TypesQueue
  <2>2. TypesThreads' /\ TypesOut'
    BY <1>2, <2>1, FinishTypes DEF InstallAttributes
  <2> QED BY <1>2, <2>2, Untouched DEF InstallAttributes, Types, streamVars
<1> QED
  BY <1>1, <1>2

(* SstReleaseStep's entry keeps the types. *)
LEMMA EndStepTypes ==
  ASSUME Types, config' = config, NEW r \in Rank, EndStep(r), Sorted(Timesteps[r])
  PROVE  Types'
<1>1. TypesThreads'
  BY GotoTypes DEF EndStep, MainPcs
<1>2. TypesQueue' /\ TypesOut'
  <2>1. CASE UNCHANGED <<Timesteps, freedTouched>>
    BY <2>1, Untouched DEF EndStep, queueVars
  <2>2. CASE /\ Timesteps' = [Timesteps EXCEPT ![r] = Without(@, ReaderTimestep[r])]
             /\ freedTouched' = freedTouched \cup (IF Timesteps[r] = <<>> THEN {"entry"} ELSE {})
    <3>1. MaxSteps \in Nat /\ Timesteps[r] \in Seq(Entries(MaxSteps))
      BY PointerTypes DEF Types, TypesQueue, Queues
    <3>2. Without(Timesteps[r], ReaderTimestep[r]) \in Queues
      BY <3>1, WithoutQueue DEF Queues
    <3>3. TypesQueue'
      BY <2>2, <3>2, Fixed DEF EndStep, stepVars, Types, TypesQueue
    <3>4. TypesOut'
      BY <2>2, Fixed DEF EndStep, outVars, Types, TypesOut
    <3> QED BY <3>3, <3>4
  <2> QED BY <2>1, <2>2 DEF EndStep
<1> QED
  BY <1>1, <1>2, Untouched DEF EndStep, Types

(* SstReleaseStep sends the release of the step in use, which is a step. *)
LEMMA SendReleaseTypes ==
  ASSUME Types, config' = config, NEW r \in Rank, SendRelease(r), ReaderTimestep[r] # Nothing \/ r \notin Peered
  PROVE  Types'
<1>1. TypesThreads'
  BY GotoTypes DEF SendRelease, MainPcs
<1>2. released' \in [Rank -> [StepNo -> Nat]]
  <2>1. CASE r \in Peered
    BY <2>1, ReleaseTypes, PointerTypes DEF SendRelease, Types, TypesQueue
  <2>2. CASE r \notin Peered
    BY <2>2 DEF SendRelease, Types, TypesOut
  <2> QED BY <2>1, <2>2
<1>3. TypesOut'
  BY <1>2, Fixed DEF SendRelease, Types, TypesOut
<1> QED
  BY <1>1, <1>3, Untouched DEF SendRelease, Types, streamVars

(* SstReaderClose and SstStreamDestroy keep the types. *)
LEMMA CloseTypes ==
  ASSUME Types, config' = config, NEW r \in Rank, SstReaderClose(r) \/ SstStreamDestroy(r)
  PROVE  Types'
<1>1. CASE SstReaderClose(r)
  <2>1. TypesThreads'
    BY <1>1, GotoTypes DEF SstReaderClose, MainPcs
  <2> QED BY <1>1, <2>1, Untouched DEF SstReaderClose, Types, streamVars
<1>2. CASE SstStreamDestroy(r)
  <2>1. TypesThreads'
    BY <1>2, GotoTypes DEF SstStreamDestroy, MainPcs
  <2>2. TypesStatus'
    BY <1>2, Fixed DEF SstStreamDestroy, Types, TypesStatus, Statuses
  <2>3. TypesWriter'
    BY <1>2, Fixed DEF SstStreamDestroy, Types, TypesWriter, writerVars
  <2>4. TypesQueue'
    <3>1. <<>> \in Queues
      BY DEF Queues
    <3> QED BY <1>2, <3>1, Fixed DEF SstStreamDestroy, Types, TypesQueue, stepVars
  <2> QED BY <1>2, <2>1, <2>2, <2>3, <2>4, Untouched DEF SstStreamDestroy, Types
<1> QED
  BY <1>1, <1>2

(* The barriers of SstReleaseStep and SstReaderClose keep the types. *)
LEMMA BarrierTypes ==
  ASSUME Types, Barrier
  PROVE  Types'
<1>1. config' = config
  BY DEF Barrier
<1>2. TypesThreads'
  BY <1>1, Fixed DEF Barrier, Types, TypesThreads, MainPcs
<1> QED
  BY <1>1, <1>2, Untouched DEF Barrier, Types, streamVars

(* The actions of the network thread and of the writer *)
LEMMA LogTypes ==
  ASSUME Types, LogOrdered
  PROVE  /\ DOMAIN log = 1..Len(log) /\ Len(log) \in Nat
         /\ \A i \in DOMAIN log :
               /\ log[i].kind \in {"step", "notice", "close"} /\ log[i].Timestep \in Pointer
               /\ log[i].kind # "close" => log[i].Timestep \in StepNo /\ log[i].Timestep = i - 1
<1>1. log \in Seq(Message) /\ MaxSteps \in Nat
  BY PointerTypes DEF Types, TypesWriter
<1>2. DOMAIN log = 1..Len(log) /\ Len(log) \in Nat /\ \A i \in DOMAIN log : log[i] \in Message
  BY <1>1, ListElements, Zenon
<1>3. \A i \in DOMAIN log : log[i].kind \in {"step", "notice", "close"} /\ log[i].Timestep \in Pointer
  BY <1>2 DEF Message
<1>4. \A i \in DOMAIN log : log[i].kind # "close" => log[i].Timestep \in StepNo /\ log[i].Timestep = i - 1
  <2> SUFFICES ASSUME NEW i \in DOMAIN log, log[i].kind # "close"
               PROVE  log[i].Timestep \in StepNo /\ log[i].Timestep = i - 1
    OBVIOUS
  <2>1. log[i].Timestep = i - 1 /\ i <= MaxSteps
    BY DEF LogOrdered
  <2>2. i \in 1..Len(log)
    BY <1>2
  <2> QED BY <1>1, <1>2, <2>1, <2>2 DEF StepNo
<1> QED
  BY <1>2, <1>3, <1>4

(* The next message of the writer is the one after those that arrived, and *)
(* a step's number counts the messages before it.                          *)
LEMMA IncomingTypes ==
  ASSUME Types, LogOrdered, config' = config, NEW r \in Rank, NEW kinds, Incoming(r, kinds)
  PROVE  /\ arrived' \in [Rank -> Nat]
         /\ UNCHANGED <<writerVars, CMconn>> => TypesWriter'
         /\ arrived[r] + 1 \in DOMAIN log /\ arrived[r] \in Nat
         /\ log[arrived[r] + 1].kind \in kinds
         /\ log[arrived[r] + 1].Timestep \in Pointer
         /\ log[arrived[r] + 1].kind # "close" =>
               log[arrived[r] + 1].Timestep \in StepNo /\ log[arrived[r] + 1].Timestep = arrived[r]
<1>1. arrived[r] \in Nat /\ arrived[r] < Len(log) /\ arrived' = [arrived EXCEPT ![r] = @ + 1]
      /\ log[arrived[r] + 1].kind \in kinds
  BY DEF Incoming, Types, TypesWriter
<1>2. arrived[r] + 1 \in DOMAIN log
  BY <1>1, LogTypes
<1>3. arrived' \in [Rank -> Nat]
  BY <1>1 DEF Types, TypesWriter
<1>4. UNCHANGED <<writerVars, CMconn>> => TypesWriter'
  BY <1>3, Fixed DEF Types, TypesWriter, writerVars
<1>5. (arrived[r] + 1) - 1 = arrived[r]
  BY <1>1
<1> QED
  BY <1>1, <1>2, <1>3, <1>4, <1>5, LogTypes

(* The handlers of the connection, of the writer's close and of a discard *)
(* keep the types.                                                        *)
LEMMA NetTypes ==
  ASSUME Types, LogOrdered, config' = config, NEW r \in Rank,
         \/ CP_PeerSetupHandler(r) \/ DiscardNotice(r) \/ CP_WriterCloseHandler(r)
         \/ ReaderConnCloseHandler(r) \/ triggerDataCondition(r)
  PROVE  Types'
<1>1. CASE CP_PeerSetupHandler(r)
  <2>1. TypesWriter'
    BY <1>1, Fixed DEF CP_PeerSetupHandler, Types, TypesWriter, writerVars
  <2> QED BY <1>1, <2>1, Untouched DEF CP_PeerSetupHandler, Types, streamVars
<1>2. CASE DiscardNotice(r)
  <2> DEFINE t == log[arrived[r] + 1].Timestep
  <2>1. TypesWriter' /\ t \in StepNo
    BY <1>2, IncomingTypes DEF DiscardNotice
  <2>2. InstallPrecious(r, <<t>>)
    BY <1>2 DEF DiscardNotice
  <2> HIDE DEF t
  <2>3. TypesInfo'
    <3>1. <<t>> \in Seq(StepNo)
      BY <2>1
    <3> QED BY <2>2, <3>1, InstallPreciousTypes
  <2>4. TypesOut'
    BY <1>2, Fixed DEF DiscardNotice, FreedBy, outVars, Types, TypesOut
  <2> QED BY <1>2, <2>1, <2>3, <2>4, Untouched DEF DiscardNotice, Types
<1>3. CASE CP_WriterCloseHandler(r)
  <2> DEFINE t == log[arrived[r] + 1].Timestep
  <2>1. TypesWriter' /\ t \in Pointer
    BY <1>3, IncomingTypes DEF CP_WriterCloseHandler
  <2>2. t \in Nothing .. Infinity
    <3> HIDE DEF t
    <3> QED BY <2>1, PointerTypes DEF Pointer, Infinity, Nothing
  <2>3. /\ FinalTimestep' = [FinalTimestep EXCEPT ![r] = t]
        /\ Status' = [Status EXCEPT ![r] = "PeerClosed"]
    BY <1>3 DEF CP_WriterCloseHandler
  <2> HIDE DEF t
  <2>4. TypesStatus'
    BY <2>2, <2>3, Fixed DEF Types, TypesStatus, Statuses
  <2> QED BY <1>3, <2>1, <2>4, Untouched DEF CP_WriterCloseHandler, Types
<1>4. CASE ReaderConnCloseHandler(r)
  <2>1. TypesWriter'
    BY <1>4, Fixed DEF ReaderConnCloseHandler, Types, TypesWriter, writerVars
  <2>2. TypesStatus'
    BY <1>4, Fixed DEF ReaderConnCloseHandler, Types, TypesStatus, Statuses
  <2> QED BY <1>4, <2>1, <2>2, Untouched DEF ReaderConnCloseHandler, Types
<1>5. CASE triggerDataCondition(r)
  BY <1>5, Untouched DEF triggerDataCondition, Types, streamVars
<1> QED
  BY <1>1, <1>2, <1>3, <1>4, <1>5

(* queueTimestepMetadataMsgAndNotify keeps the types. *)
LEMMA TimestepMetadataTypes ==
  ASSUME Types, LogOrdered, config' = config, NEW r \in Rank, TimestepMetadata(r)
  PROVE  Types'
<1> DEFINE t == log[arrived[r] + 1].Timestep
           e == [Timestep |-> t, Metadata |-> log[arrived[r] + 1].kind = "step"]
           q == Append(Timesteps[r], e)
<1>1. TypesWriter' /\ t \in StepNo
  BY IncomingTypes DEF TimestepMetadata
<1>2. Timesteps' = [Timesteps EXCEPT ![r] = q]
  BY DEF TimestepMetadata
<1>3. released' = released \/ Release(r, t)
  BY DEF TimestepMetadata
<1>4. UNCHANGED <<npc, walk>>
        \/ /\ npc' = [npc EXCEPT ![r] = "walk"]
           /\ walk' = [walk EXCEPT ![r]["net"] = Walker(Head0(Timesteps'[r]), t)]
  BY DEF TimestepMetadata
<1>5. q \in Queues
  <2>1. Timesteps[r] \in Seq(Entries(MaxSteps))
    BY DEF Types, TypesQueue, Queues
  <2>2. e \in Entries(MaxSteps)
    BY <1>1 DEF Entries, StepNo
  <2> HIDE DEF e
  <2> QED BY <2>1, <2>2 DEF Queues
<1> HIDE DEF t, q
<1>6. TypesQueue'
  BY <1>2, <1>5, Fixed DEF TimestepMetadata, stepVars, Types, TypesQueue
<1>7. TypesThreads'
  <2>1. Timesteps'[r] = q
    BY <1>2 DEF Types, TypesQueue
  <2>2. Walker(Head0(q), t) \in Walkers
    BY <1>1, <1>5, HeadTypes, WalkerTypes, PointerTypes
  <2>3. CASE UNCHANGED <<npc, walk>>
    BY <2>3, Untouched DEF TimestepMetadata
  <2>4. CASE /\ npc' = [npc EXCEPT ![r] = "walk"]
             /\ walk' = [walk EXCEPT ![r]["net"] = Walker(Head0(Timesteps'[r]), t)]
    <3> DEFINE w == Walker(Head0(q), t)
    <3>1. walk' = [walk EXCEPT ![r]["net"] = w]
      BY <2>1, <2>4
    <3> HIDE DEF w
    <3>2. walk' \in [Rank -> [{"main", "net"} -> Walkers]]
      BY <2>2, <3>1 DEF w, Types, TypesThreads
    <3> QED BY <2>4, <3>2, Fixed DEF TimestepMetadata, Types, TypesThreads
  <2> QED BY <1>4, <2>3, <2>4
<1>8. TypesOut'
  BY <1>1, <1>3, ReleaseTypes, Fixed DEF TimestepMetadata, Types, TypesOut
<1> QED
  BY <1>1, <1>6, <1>7, <1>8, Untouched DEF TimestepMetadata, Types

(* What the writer does keeps the types, and its messages stay numbered in *)
(* order.                                                                  *)
LEMMA WriterTypes ==
  ASSUME Types, LogOrdered, Writer
  PROVE  Types' /\ LogOrdered' /\ config' = config
<1>1. config' = config
  BY DEF Writer, WriterResponds, WriterProvides, WriterCloses, WriterDies, writerOnly
<1>2. /\ TypesStatus' /\ TypesQueue' /\ TypesInfo' /\ TypesThreads' /\ TypesColl' /\ TypesOut'
      /\ UNCHANGED <<arrived, CMconn>>
  <2>1. UNCHANGED writerOnly
    BY DEF Writer, WriterResponds, WriterProvides, WriterCloses, WriterDies
  <2> QED BY <1>1, <2>1, Untouched DEF writerOnly, streamVars, threadVars
<1>3. log \in Seq(Message) /\ MaxSteps \in Nat /\ DOMAIN log = 1..Len(log) /\ Len(log) \in Nat
  BY LogTypes, PointerTypes DEF Types, TypesWriter
<1>4. CASE UNCHANGED log
  <2>1. writerUp' \in BOOLEAN /\ response' \in BOOLEAN
    BY DEF Writer, WriterResponds, WriterProvides, WriterCloses, WriterDies, Types, TypesWriter
  <2>2. TypesWriter'
    BY <1>1, <1>2, <1>4, <2>1, Fixed DEF Types, TypesWriter
  <2>3. LogOrdered'
    BY <1>1, <1>4, Fixed DEF LogOrdered
  <2> QED BY <1>1, <1>2, <2>2, <2>3 DEF Types
<1>5. ASSUME NEW m \in Message, ~Closed, log' = Append(log, m),
             UNCHANGED <<writerUp, response>>,
             IF m.kind = "close" THEN Len(log) + 1 <= MaxSteps + 1
             ELSE m.Timestep = Len(log) /\ Len(log) + 1 <= MaxSteps
      PROVE  TypesWriter' /\ LogOrdered'
  <2>1. /\ log' \in Seq(Message) /\ DOMAIN log' = 1..(Len(log) + 1) /\ Len(log') = Len(log) + 1
        /\ log'[Len(log) + 1] = m /\ \A i \in DOMAIN log : log'[i] = log[i]
    BY <1>3, <1>5
  <2>2. TypesWriter'
    BY <1>1, <1>2, <1>5, <2>1, Fixed DEF Types, TypesWriter
  <2>3. LogOrdered'
    <3> SUFFICES ASSUME NEW i \in DOMAIN log'
                 PROVE  IF log'[i].kind = "close" THEN i = Len(log') /\ i <= MaxSteps + 1
                        ELSE log'[i].Timestep = i - 1 /\ i <= MaxSteps
      BY <1>1, Fixed DEF LogOrdered
    <3>1. CASE i \in DOMAIN log
      <4>1. log[i].kind # "close"
        BY <1>5, <3>1 DEF Closed
      <4> QED BY <2>1, <3>1, <4>1 DEF LogOrdered
    <3>2. CASE i = Len(log) + 1
      <4>1. i - 1 = Len(log)
        BY <1>3, <3>2
      <4> QED BY <1>5, <2>1, <3>2, <4>1
    <3> QED BY <1>3, <2>1, <3>1, <3>2
  <2> QED BY <2>2, <2>3
<1>6. ASSUME NEW kind \in {"step", "notice"}, WriterProvides(kind) PROVE TypesWriter' /\ LogOrdered'
  <2> DEFINE m == [kind |-> kind, Timestep |-> Len(log)]
  <2>1. m \in Message
    BY <1>3, <1>6 DEF WriterProvides, Message, Pointer, Nothing
  <2>2. ~Closed /\ log' = Append(log, m) /\ UNCHANGED <<writerUp, response>> /\ Len(log) < MaxSteps
    BY <1>6 DEF WriterProvides
  <2>3. m.kind # "close" /\ m.Timestep = Len(log) /\ Len(log) + 1 <= MaxSteps
    BY <1>3, <2>2
  <2> HIDE DEF m
  <2> QED BY <1>5, <2>1, <2>2, <2>3
<1>7. ASSUME WriterCloses PROVE TypesWriter' /\ LogOrdered'
  <2> DEFINE m == [kind |-> "close", Timestep |-> FinalStep]
  <2>1. ~Closed /\ log' = Append(log, m) /\ UNCHANGED <<writerUp, response>>
    BY <1>7 DEF WriterCloses
  <2>2. Len(log) <= MaxSteps
    <3>1. CASE Len(log) = 0
      BY <1>3, <3>1
    <3>2. CASE Len(log) # 0
      <4>1. Len(log) \in DOMAIN log
        BY <1>3, <3>2
      <4>2. log[Len(log)].kind # "close"
        BY <2>1, <4>1 DEF Closed
      <4> QED BY <4>1, <4>2 DEF LogOrdered
    <3> QED BY <3>1, <3>2
  <2>3. m \in Message
    BY <1>3, <2>2 DEF Message, FinalStep, Pointer, Nothing
  <2>4. m.kind = "close" /\ Len(log) + 1 <= MaxSteps + 1
    BY <1>3, <2>2
  <2> HIDE DEF m
  <2> QED BY <1>5, <2>1, <2>3, <2>4
<1>8. UNCHANGED log \/ (\E kind \in {"step", "notice"} : WriterProvides(kind)) \/ WriterCloses
  BY DEF Writer, WriterResponds, WriterDies
<1> QED
  BY <1>1, <1>2, <1>4, <1>6, <1>7, <1>8 DEF Types

-----------------------------------------------------------------------------
(* The inductive invariant, rank by rank *)

IsStep(t, kinds) == t + 1 \in DOMAIN log /\ log[t + 1].kind \in kinds

Q(r) == Steps(Timesteps[r])

(* The queue is in order, and what is in it has arrived. *)
Queue(r) ==
    /\ Sorted(Timesteps[r])
    /\ arrived[r] <= Len(log)
    /\ \A e \in Items(Timesteps[r]) :
           /\ e.Timestep < arrived[r]
           /\ log[e.Timestep + 1].kind = IF e.Metadata THEN "step" ELSE "notice"

(* Where a rank is, and which ranks have a queue *)
Place(r) ==
    /\ Status[r] = "Destroyed" => pc[r] = "done"
    /\ inStep[r] => pc[r] \in {"user", "end_barrier", "send_release"}
    /\ r \notin Peered => /\ Timesteps[r] = <<>> /\ CMconn[r] \in {"none", "lost"}
                          /\ pc[r] \notin {"gather", "timedwait", "walk", "next"}

(* The step in use is the smallest in the queue, and nothing older is. *)
InUse(r) ==
    /\ CurrentWorkingTimestep[r] \in {ReaderTimestep[r], Nothing}
    /\ ReaderTimestep[r] < arrived[r]
    /\ Unreleased(r) => CurrentWorkingTimestep[r] = ReaderTimestep[r] /\ ReaderTimestep[r] # Nothing
    /\ Working(r) => ReaderTimestep[r] \in Q(r)
    /\ \A t \in Q(r) : t > ReaderTimestep[r] \/ (Working(r) /\ t = ReaderTimestep[r])

(* A thread in releasePriorTimesteps has left only the step in use behind. *)
Passed(r) ==
    \A th \in {"main", "net"} : walk[r][th].next # Nothing =>
        /\ walk[r][th].next < arrived[r]
        /\ \A t \in Q(r) : t < walk[r][th].next => Working(r) /\ t = ReaderTimestep[r]

(* Between the decision for a step and its delivery, steps may come late. *)
Settled(r) ==
    /\ pc[r] \notin {"walk", "next", "close_barrier", "linger", "done"}
    /\ ~(pc[r] = "user" /\ ~inStep[r] /\ Ended(r))

Late(r) ==
    /\ ~AlwaysProvideLatestTimestep => DiscardPriorTimestep[r] = Nothing
    /\ CPCommPattern = "Min" => DiscardPriorTimestep[r] < arrived[r]
    /\ Settled(r) => /\ DiscardPriorTimestep[r] <= arrived[r]
                     /\ \A t \in Q(r) : t >= DiscardPriorTimestep[r]

(* A step that was released and is still queued came late. *)
Released(r) ==
    /\ \A t \in StepNo : released[r][t] > 0 => t < arrived[r]
    /\ \A t \in Q(r) : released[r][t] > 0 =>
           MayComeLate /\ t < DiscardPriorTimestep[r] /\ released[r][t] = 1
    /\ Unreleased(r) => released[r][ReaderTimestep[r]] = 0
    /\ \A t \in StepNo : released[r][t] <= IF MayComeLate THEN 2 ELSE 1

(* A step that has arrived is queued, in use or released. *)
Accounted(r) ==
    Status[r] # "Destroyed" =>
        \A t \in StepNo : t < arrived[r] /\ IsStep(t, {"step"}) =>
            \/ t \in Q(r) \/ released[r][t] > 0 \/ (Unreleased(r) /\ t = ReaderTimestep[r])

Ahead(r, t) ==
    pc[r] = "walk" /\ walk[r]["main"].next # Nothing /\ t >= walk[r]["main"].next

(* What the queue holds from before the step that was settled on is released, *)
(* or the walk is still to come to it.                                        *)
Pending(r) ==
    freedTouched = {} =>
        /\ pc[r] = "walk" => walk[r]["main"].latest = DiscardPriorTimestep[r]
        /\ \A t \in Q(r) : IsStep(t, {"step"}) /\ t < DiscardPriorTimestep[r] =>
               released[r][t] > 0 \/ Ahead(r, t)

(* The formats of a step that has arrived are installed, or in the queue. *)
Informed(r) ==
    /\ Status[r] # "Destroyed" =>
          \A t \in StepNo : t < arrived[r] /\ IsStep(t, {"step", "notice"}) => t \in formats[r] \cup Q(r)
    /\ Working(r) => ReaderTimestep[r] \in formats[r]

PeerInv(r) ==
    /\ InUse(r) /\ Passed(r) /\ Late(r) /\ Released(r) /\ Accounted(r) /\ Pending(r) /\ Informed(r)

RankInv(r) == Queue(r) /\ Place(r) /\ (r \in Peered => PeerInv(r))

ReaderInv == Types /\ LogOrdered /\ \A r \in Rank : RankInv(r)

-----------------------------------------------------------------------------
(* A rank that does not take part in a step *)

Same(r) ==
    /\ arrived'[r] = arrived[r] /\ CMconn'[r] = CMconn[r] /\ Status'[r] = Status[r]
    /\ Timesteps'[r] = Timesteps[r] /\ DiscardPriorTimestep'[r] = DiscardPriorTimestep[r]
    /\ ReaderTimestep'[r] = ReaderTimestep[r]
    /\ CurrentWorkingTimestep'[r] = CurrentWorkingTimestep[r]
    /\ formats'[r] = formats[r] /\ pc'[r] = pc[r] /\ walk'[r] = walk[r]
    /\ inStep'[r] = inStep[r] /\ results'[r] = results[r] /\ released'[r] = released[r]

Others(r) == \A s \in Rank \ {r} : Same(s)

(* A step that touches none of a rank's variables keeps its invariant, when *)
(* the writer sends nothing.                                                *)
LEMMA Bystander ==
  ASSUME config' = config, NEW r \in Rank, Same(r), RankInv(r), UNCHANGED log,
         freedTouched \subseteq freedTouched'
  PROVE  RankInv(r)'
<1> USE Fixed DEF Same
<1>1. Queue(r)' /\ Place(r)' /\ Q(r)' = Q(r)
  BY DEF RankInv, Queue, Place, Q
<1>2. /\ Working(r)' = Working(r) /\ Unreleased(r)' = Unreleased(r) /\ Settled(r)' = Settled(r)
      /\ \A t : IsStep(t, {"step"})' = IsStep(t, {"step"})
      /\ \A t : IsStep(t, {"step", "notice"})' = IsStep(t, {"step", "notice"})
      /\ \A t : Ahead(r, t)' = Ahead(r, t)
  BY DEF Working, Unreleased, Settled, Ended, IsStep, Ahead
<1>3. ASSUME r \in Peered PROVE PeerInv(r)'
  <2>0. PeerInv(r)
    BY <1>3 DEF RankInv
  <2>1. InUse(r)'
    BY <1>1, <1>2, <2>0 DEF PeerInv, InUse
  <2>2. Passed(r)'
    BY <1>1, <1>2, <2>0 DEF PeerInv, Passed
  <2>3. Late(r)'
    BY <1>1, <1>2, <2>0 DEF PeerInv, Late
  <2>4. Released(r)'
    BY <1>1, <1>2, <2>0 DEF PeerInv, Released
  <2>5. Accounted(r)'
    BY <1>1, <1>2, <2>0 DEF PeerInv, Accounted
  <2>6. Pending(r)'
    BY <1>1, <1>2, <2>0 DEF PeerInv, Pending
  <2>7. Informed(r)'
    BY <1>1, <1>2, <2>0 DEF PeerInv, Informed
  <2> QED BY <2>1, <2>2, <2>3, <2>4, <2>5, <2>6, <2>7 DEF PeerInv
<1> QED
  BY <1>1, <1>3 DEF RankInv

(* A step of a rank that leaves its queue and its walks alone *)
Calm(r) ==
    /\ arrived'[r] = arrived[r]
    /\ Timesteps'[r] = Timesteps[r] /\ DiscardPriorTimestep'[r] = DiscardPriorTimestep[r]
    /\ ReaderTimestep'[r] = ReaderTimestep[r]
    /\ CurrentWorkingTimestep'[r] = CurrentWorkingTimestep[r]
    /\ formats'[r] = formats[r] /\ walk'[r] = walk[r] /\ released'[r] = released[r]
    /\ Status'[r] = "Destroyed" <=> Status[r] = "Destroyed"
    /\ pc'[r] = "walk" <=> pc[r] = "walk"
    /\ Working(r)' <=> Working(r)
    /\ Unreleased(r)' <=> Unreleased(r)
    /\ Settled(r)' => Settled(r)

(* Neither does a step in which the rank only moves on in its code, *)
(* releasing and settling on nothing.                               *)
LEMMA CalmStep ==
  ASSUME config' = config, NEW r \in Rank, Calm(r), PeerInv(r), UNCHANGED log,
         freedTouched \subseteq freedTouched'
  PROVE  PeerInv(r)'
<1> USE Fixed DEF Calm
<1>1. Q(r)' = Q(r)
  BY DEF Q
<1>2. /\ \A t : IsStep(t, {"step"})' = IsStep(t, {"step"})
      /\ \A t : IsStep(t, {"step", "notice"})' = IsStep(t, {"step", "notice"})
      /\ \A t : Ahead(r, t)' <=> Ahead(r, t)
  BY DEF IsStep, Ahead
<1>3. InUse(r)'
  BY <1>1, <1>2 DEF PeerInv, InUse
<1>4. Passed(r)'
  BY <1>1, <1>2 DEF PeerInv, Passed
<1>5. Late(r)'
  BY <1>1, <1>2 DEF PeerInv, Late
<1>6. Released(r)'
  BY <1>1, <1>2 DEF PeerInv, Released
<1>7. Accounted(r)'
  BY <1>1, <1>2 DEF PeerInv, Accounted
<1>8. Pending(r)'
  BY <1>1, <1>2 DEF PeerInv, Pending
<1>9. Informed(r)'
  BY <1>1, <1>2 DEF PeerInv, Informed
<1> QED
  BY <1>3, <1>4, <1>5, <1>6, <1>7, <1>8, <1>9 DEF PeerInv

(* A queue that no handler and no walk touches stays in order. *)
LEMMA QueueKept ==
  ASSUME config' = config, NEW r \in Rank, Queue(r), UNCHANGED log,
         arrived'[r] = arrived[r], Timesteps'[r] = Timesteps[r]
  PROVE  Queue(r)'
  BY DEF Queue

(* An action of one rank has only that rank's invariant to keep. *)
LEMMA OneRank ==
  ASSUME config' = config, NEW r \in Rank, Others(r), UNCHANGED log,
         freedTouched \subseteq freedTouched', \A s \in Rank : RankInv(s), RankInv(r)'
  PROVE  \A s \in Rank : RankInv(s)'
<1> TAKE s \in Rank
<1>1. CASE s = r
  BY <1>1
<1>2. CASE s # r
  BY <1>2, Bystander DEF Others
<1> QED
  BY <1>1, <1>2

(* An action in which a rank only moves on in its code keeps the invariant *)
(* when it arrives in a place it may be in.                                *)
LEMMA CalmAction ==
  ASSUME config' = config, NEW r \in Rank, Others(r), UNCHANGED log,
         freedTouched \subseteq freedTouched', \A s \in Rank : RankInv(s), Calm(r), Place(r)'
  PROVE  \A s \in Rank : RankInv(s)'
<1>1. Queue(r)'
  BY QueueKept DEF RankInv, Calm
<1>2. r \in Peered => PeerInv(r)'
  BY CalmStep DEF RankInv
<1>3. RankInv(r)'
  BY <1>1, <1>2, Fixed DEF RankInv
<1> QED
  BY <1>3, OneRank

(* Every rank has each of the variables. *)
LEMMA Domains ==
  ASSUME Types
  PROVE  /\ DOMAIN arrived = Rank /\ DOMAIN CMconn = Rank /\ DOMAIN Status = Rank
         /\ DOMAIN Timesteps = Rank /\ DOMAIN DiscardPriorTimestep = Rank
         /\ DOMAIN ReaderTimestep = Rank /\ DOMAIN CurrentWorkingTimestep = Rank
         /\ DOMAIN formats = Rank /\ DOMAIN pc = Rank /\ DOMAIN walk = Rank
         /\ DOMAIN inStep = Rank /\ DOMAIN results = Rank /\ DOMAIN released = Rank
         /\ DOMAIN InternalAttrDataInfo = Rank /\ DOMAIN decision = Rank
         /\ \A r \in Rank : DOMAIN walk[r] = {"main", "net"} /\ DOMAIN released[r] = StepNo
  BY DEF Types, TypesWriter, TypesStatus, TypesQueue, TypesInfo, TypesThreads, TypesColl, TypesOut

-----------------------------------------------------------------------------
(* The actions that are calm *)

(* SstReaderOpen starts with an empty queue and nothing released. *)
LEMMA InitInv == Init => \A r \in Rank : RankInv(r)
<1> SUFFICES ASSUME Init, NEW r \in Rank PROVE RankInv(r)
  OBVIOUS
<1>0. Types /\ MaxSteps \in Nat /\ (r \notin Peered => CPCommPattern = "Min" /\ r # 0)
  BY InitTypes, Parameters DEF Types, TypesWriter
<1>1. /\ log = <<>> /\ arrived[r] = 0 /\ Status[r] = "NotOpen" /\ Timesteps[r] = <<>>
      /\ DiscardPriorTimestep[r] = -1 /\ ReaderTimestep[r] = -1 /\ CurrentWorkingTimestep[r] = -1
      /\ pc[r] = "opening" /\ inStep[r] = FALSE /\ formats[r] = {}
      /\ \A th \in {"main", "net"} : walk[r][th].next = -1
      /\ \A t \in StepNo : released[r][t] = 0
      /\ CMconn[r] = IF CPCommPattern = "Min" /\ r = 0 THEN "up" ELSE "none"
  BY DEF Init, Resting, Walker, Nothing, StepNo
<1>2. Q(r) = {} /\ Items(Timesteps[r]) = {} /\ Sorted(Timesteps[r])
  BY <1>1 DEF Q, Steps, Items, Sorted
<1>3. ~Working(r) /\ ~Unreleased(r)
  BY <1>1 DEF Working, Unreleased
<1>4. Queue(r) /\ Place(r)
  BY <1>0, <1>1, <1>2 DEF Queue, Place
<1>5. InUse(r) /\ Passed(r) /\ Late(r)
  BY <1>1, <1>2, <1>3 DEF InUse, Passed, Late, Nothing
<1>6. Pending(r)
  BY <1>1, <1>2 DEF Pending
<1>7. \A t \in StepNo : ~(t < arrived[r])
  BY <1>0, <1>1 DEF StepNo
<1>8. Informed(r) /\ Accounted(r)
  BY <1>3, <1>7 DEF Informed, Accounted
<1>9. Released(r)
  BY <1>1, <1>2, <1>3 DEF Released
<1> QED
  BY <1>4, <1>5, <1>6, <1>8, <1>9 DEF RankInv, PeerInv

(* The two halves of SstReaderOpen keep the ranks' invariants. *)
LEMMA OpenInv ==
  ASSUME ReaderInv, config' = config, NEW r \in Rank, OpenResponse(r) \/ OpenEstablish(r)
  PROVE  \A s \in Rank : RankInv(s)'
<1> USE Domains DEF ReaderInv
<1>1. Others(r)
  BY DEF OpenResponse, OpenEstablish, Goto, Others, Same, streamVars, queueVars, infoVars,
         statusVars, stepVars, outVars
<1>2. UNCHANGED <<log, freedTouched>>
  BY DEF OpenResponse, OpenEstablish, writerVars
<1>3. Calm(r)
  BY DEF OpenResponse, OpenEstablish, Goto, Calm, streamVars, queueVars, infoVars,
         statusVars, stepVars, outVars, Working, Unreleased, Settled, Ended, RankInv, Place
<1>4. Place(r)'
  <2>1. Place(r) /\ Peered' = Peered /\ 0 \in Peered
    BY Fixed, Parameters DEF RankInv, Types, TypesWriter
  <2>2. CASE OpenResponse(r)
    BY <2>1, <2>2 DEF OpenResponse, Goto, Place, streamVars, queueVars, statusVars
  <2>3. CASE OpenEstablish(r)
    <3>1. /\ pc[r] = "wait_peers" /\ pc'[r] = "user" /\ Status'[r] = "Established"
          /\ inStep' = inStep /\ Timesteps' = Timesteps /\ (r # 0 => CMconn' = CMconn)
      BY <2>3 DEF OpenEstablish, Goto, queueVars, outVars
    <3> QED BY <2>1, <3>1 DEF Place
  <2> QED BY <2>2, <2>3
<1> QED
  BY <1>1, <1>2, <1>3, <1>4, CalmAction

(* SstAdvanceStep's entry keeps the ranks' invariants: no step is in use *)
(* when it starts.                                                       *)
LEMMA BeginStepInv ==
  ASSUME ReaderInv, config' = config, NEW r \in Rank, BeginStep(r)
  PROVE  \A s \in Rank : RankInv(s)'
<1> USE Domains DEF ReaderInv
<1>1. /\ pc[r] = "user" /\ ~inStep[r] /\ ~Ended(r)
      /\ UNCHANGED <<log, freedTouched, arrived, CMconn, Status, Timesteps, DiscardPriorTimestep,
                     ReaderTimestep, CurrentWorkingTimestep, formats, walk, released>>
  BY DEF BeginStep, writerVars, streamVars, queueVars, infoVars, statusVars, stepVars
<1>2. \/ Goto(r, "gather") /\ UNCHANGED <<inStep, results>> /\ r \in Peered
      \/ Goto(r, "bcast") /\ UNCHANGED <<inStep, results>>
      \/ Goto(r, "next") /\ UNCHANGED <<inStep, results>> /\ r \in Peered
      \/ Finish(r, "FatalError", Nothing)
  <2>1. r = 0 \/ CPCommPattern = "Peer" => r \in Peered
    BY Parameters DEF Types, TypesWriter
  <2> QED BY <2>1 DEF BeginStep
<1>3. Others(r)
  BY <1>1, <1>2 DEF Goto, Finish, Others, Same
<1>4. Calm(r)
  BY <1>1, <1>2 DEF Goto, Finish, Calm, Working, Unreleased, Settled
<1>5. Place(r)'
  <2>1. Place(r) /\ Peered' = Peered
    BY Fixed DEF RankInv
  <2>2. ~inStep'[r] /\ pc'[r] \in {"gather", "bcast", "next", "user"} /\ (r \notin Peered => pc'[r] \in {"bcast", "user"})
    BY <1>1, <1>2 DEF Goto, Finish, Types, TypesOut
  <2> QED BY <1>1, <2>1, <2>2 DEF Place
<1> QED
  BY <1>1, <1>3, <1>4, <1>5, CalmAction

(* A rank that settles on a step it has received starts its walk at the *)
(* head of the queue, with all that is older still to come to.          *)
LEMMA AdoptInv ==
  ASSUME ReaderInv, config' = config, NEW r \in Peered, NEW t \in Pointer, Adopt(r, t),
         pc[r] \in {"gather", "timedwait", "bcast"}, CPCommPattern = "Min" => t < arrived[r],
         \A s \in Rank \ {r} : Status'[s] = Status[s],
         Status'[r] = "Destroyed" <=> Status[r] = "Destroyed",
         UNCHANGED <<log, freedTouched, arrived, CMconn, Timesteps, ReaderTimestep,
                     CurrentWorkingTimestep, formats, released>>
  PROVE  \A s \in Rank : RankInv(s)'
<1> USE Domains DEF ReaderInv
<1>0. r \in Rank /\ MaxSteps \in Nat
  BY Parameters DEF Types, TypesWriter
<1>1. Others(r)
  BY <1>0 DEF Adopt, Goto, Others, Same
<1>2. Place(r)'
  <2>1. Place(r) /\ Peered' = Peered
    BY <1>0, Fixed DEF RankInv
  <2>2. inStep'[r] = inStep[r] /\ ~inStep[r] /\ Status'[r] # "Destroyed"
    BY <2>1 DEF Adopt, Place
  <2> QED BY <2>1, <2>2 DEF Place
<1>3. CASE ~AlwaysProvideLatestTimestep
  <2>1. Calm(r)
    BY <1>0, <1>3 DEF Adopt, Goto, Calm, Working, Unreleased, Settled
  <2> QED BY <1>0, <1>1, <1>2, <2>1, CalmAction
<1>4. CASE AlwaysProvideLatestTimestep
  <2> DEFINE h == Head0(Timesteps[r])
  <2>1. /\ DiscardPriorTimestep'[r] = t /\ pc'[r] = "walk" /\ inStep'[r] = inStep[r]
        /\ walk'[r]["main"].next = h /\ walk'[r]["main"].latest = t
        /\ walk'[r]["net"] = walk[r]["net"]
    BY <1>0, <1>4 DEF Adopt, Goto, Walker
  <2>2. Queue(r)' /\ PeerInv(r)
    BY <1>0, QueueKept DEF RankInv
  <2>3. /\ Q(r)' = Q(r) /\ ~Working(r) /\ ~Unreleased(r) /\ ~Working(r)' /\ ~Unreleased(r)'
        /\ ~Settled(r)'
    <3>1. ~inStep[r]
      BY <1>0 DEF RankInv, Place
    <3> QED BY <2>1, <3>1 DEF Q, Working, Unreleased, Settled
  <2>4. /\ h = Nothing => Q(r) = {}
        /\ h # Nothing => h \in Q(r)
        /\ \A u \in Q(r) : h <= u /\ u \in Int
    <3>1. Timesteps[r] \in Seq(Entries(MaxSteps)) /\ Sorted(Timesteps[r])
      BY <1>0 DEF Types, TypesQueue, Queues, RankInv, Queue
    <3>2. \A u \in Q(r) : u \in Int
      BY <1>0, <3>1, QueueElements DEF Q, Steps
    <3> QED BY <1>0, <3>1, <3>2, HeadOfQueue DEF Q, Nothing
  <2>5. \A u \in Q(r) : u < arrived[r]
    BY <1>0 DEF RankInv, Queue, Q, Steps, Items
  <2> HIDE DEF h
  <2>6. InUse(r)'
    BY <2>2, <2>3 DEF PeerInv, InUse
  <2>7. Passed(r)'
    <3> SUFFICES ASSUME NEW th \in {"main", "net"}, walk'[r][th].next # Nothing
                 PROVE  /\ walk'[r][th].next < arrived[r]
                        /\ \A u \in Q(r) : ~(u < walk'[r][th].next)
      BY <2>3 DEF Passed, Nothing
    <3>1. CASE th = "main"
      <4>1. h \in Int
        BY <2>1, <2>4, <3>1
      <4> QED BY <2>1, <2>4, <2>5, <3>1, <4>1
    <3>2. CASE th = "net"
      BY <2>1, <2>2, <2>3, <3>2 DEF PeerInv, Passed
    <3> QED BY <3>1, <3>2
  <2>8. Late(r)'
    BY <1>4, <2>1, <2>3, Fixed DEF Late
  <2>9. Released(r)'
    <3>1. \A u \in Q(r) : ~(u < DiscardPriorTimestep[r])
      <4>1. Settled(r)
        BY DEF Settled
      <4>2. DiscardPriorTimestep[r] \in Int
        BY <1>0, PointerTypes DEF Types, TypesQueue
      <4> QED BY <2>2, <2>4, <4>1, <4>2 DEF PeerInv, Late
    <3> QED BY <2>2, <2>3, <3>1, Fixed DEF PeerInv, Released
  <2>10. Accounted(r)'
    BY <2>2, <2>3, Fixed DEF PeerInv, Accounted, IsStep
  <2>11. Pending(r)'
    <3>1. \A u \in Q(r) : Ahead(r, u)'
      <4>1. \A u \in Q(r) : u >= h /\ h # Nothing
        <5>1. \A u \in Q(r) : h \in Int
          BY <2>4
        <5> QED BY <2>4, <5>1
      <4> QED BY <2>1, <2>3, <4>1 DEF Ahead, Nothing
    <3> QED BY <2>1, <2>3, <3>1 DEF Pending
  <2>12. Informed(r)'
    BY <2>2, <2>3, Fixed DEF PeerInv, Informed, IsStep
  <2>13. RankInv(r)'
    BY <1>2, <2>2, <2>6, <2>7, <2>8, <2>9, <2>10, <2>11, <2>12 DEF RankInv, PeerInv
  <2> QED BY <1>0, <1>1, <2>13, OneRank
<1> QED
  BY <1>0, <1>3, <1>4, Parameters DEF Types, TypesWriter

(* A rank that returns from SstAdvanceStep without a step keeps the *)
(* invariants: it settled on nothing.                               *)
LEMMA GiveUpInv ==
  ASSUME ReaderInv, config' = config, NEW r \in Rank,
         NEW status \in {"Timeout", "EndOfStream", "FatalError", "NoStream"},
         Finish(r, status, Nothing),
         pc[r] \in {"gather", "timedwait", "bcast"},
         \A s \in Rank \ {r} : Status'[s] = Status[s],
         Status'[r] = "Destroyed" <=> Status[r] = "Destroyed",
         UNCHANGED <<log, freedTouched, arrived, CMconn, Timesteps, ReaderTimestep, walk,
                     DiscardPriorTimestep, CurrentWorkingTimestep, formats, released>>
  PROVE  \A s \in Rank : RankInv(s)'
<1> USE Domains DEF ReaderInv
<1>1. Others(r)
  BY DEF Finish, Goto, Others, Same
<1>2. pc'[r] = "user" /\ ~inStep'[r] /\ ~inStep[r] /\ Status[r] # "Destroyed" /\ Place(r)
  BY DEF Finish, Goto, RankInv, Place
<1>3. Calm(r)
  BY <1>2 DEF Calm, Working, Unreleased, Settled
<1>4. Place(r)'
  BY <1>2, Fixed DEF Place
<1> QED
  BY <1>1, <1>3, <1>4, CalmAction

(* Rank 0's decision keeps the ranks' invariants, with a step and without. *)
LEMMA DecideInv ==
  ASSUME ReaderInv, config' = config, NEW r \in Rank, NEW t \in Pointer, Decide(r, t),
         pc[r] \in {"gather", "timedwait"}, CPCommPattern = "Min" => t < arrived[r],
         UNCHANGED <<log, freedTouched, arrived, CMconn, Timesteps, ReaderTimestep,
                     CurrentWorkingTimestep, formats, released>>
  PROVE  \A s \in Rank : RankInv(s)'
<1> DEFINE status == Outcome(r, t)
<1>1. status \in {"OK", "Timeout", "EndOfStream", "FatalError"}
  BY OutcomeKind
<1>2. /\ \A s \in Rank \ {r} : Status'[s] = Status[s]
      /\ Status'[r] = "Destroyed" <=> Status[r] = "Destroyed"
  <2>1. Status[r] # "Destroyed"
    BY DEF ReaderInv, RankInv, Place
  <2> QED BY <2>1, Domains DEF ReaderInv, Decide, AdoptStatus
<1>3. r \in Peered
  BY DEF ReaderInv, RankInv, Place
<1>4. CASE status = "OK"
  <2>1. Adopt(r, t)
    BY <1>4 DEF Decide
  <2> QED BY <1>2, <1>3, <2>1, AdoptInv
<1>5. CASE status # "OK"
  <2>1. GiveUp(r, status)
    BY <1>5 DEF Decide
  <2> HIDE DEF status
  <2> QED BY <1>1, <1>2, <1>5, <2>1, GiveUpInv DEF GiveUp
<1> QED
  BY <1>4, <1>5

(* All that is queued has arrived, and so has what MaxQueuedMetadata and *)
(* NextQueuedMetadata name.                                              *)
LEMMA QueuedArrived ==
  ASSUME ReaderInv, NEW r \in Rank
  PROVE  /\ Sorted(Timesteps[r]) /\ Timesteps[r] \in Seq(Entries(MaxSteps))
         /\ \A t \in Q(r) : t < arrived[r] /\ t \in StepNo
         /\ \A t \in Q(r) \cup {Nothing} : t < arrived[r]
         /\ MaxQueuedMetadata(r) \in Pointer /\ MaxQueuedMetadata(r) < arrived[r]
         /\ NextQueuedMetadata(r) \in Pointer /\ NextQueuedMetadata(r) < arrived[r]
<1>1. Sorted(Timesteps[r]) /\ Types
  BY DEF ReaderInv, RankInv, Queue
<1>2. \A t \in Q(r) : t < arrived[r]
  BY DEF ReaderInv, RankInv, Queue, Q, Steps, Items
<1>3. Nothing < arrived[r]
  BY <1>1 DEF Types, TypesWriter, Nothing
<1> QED
  BY <1>1, <1>2, <1>3, QueueBounds DEF Q

(* The decision from what the ranks gathered keeps their invariants. *)
LEMMA GatherDecideInv ==
  ASSUME ReaderInv, config' = config, GatherDecide(0)
  PROVE  \A s \in Rank : RankInv(s)'
<1> USE Domains DEF ReaderInv
<1>0. 0 \in Rank /\ CPCommPattern \in {"Min", "Peer"}
  BY Parameters DEF Types, TypesWriter
<1>1. /\ pc[0] = "gather" /\ Gathered
      /\ UNCHANGED <<log, freedTouched, arrived, CMconn, Timesteps, ReaderTimestep,
                     CurrentWorkingTimestep, formats, released>>
  BY DEF GatherDecide, writerVars, infoVars, stepVars
<1>2. CASE AllQueuesEmpty(0) /\ Timeout # "zero"
  <2>1. Goto(0, "timedwait") /\ UNCHANGED <<walk, DiscardPriorTimestep, Status, inStep, results>>
    BY <1>2 DEF GatherDecide
  <2>2. Others(0)
    BY <1>0, <1>1, <2>1 DEF Goto, Others, Same
  <2>3. Calm(0)
    BY <1>0, <1>1, <2>1 DEF Goto, Calm, Working, Unreleased, Settled
  <2>4. Place(0)'
    <3>1. Place(0) /\ 0 \in Peered' /\ pc'[0] = "timedwait"
      BY <1>0, <2>1, Fixed, Parameters DEF Goto, RankInv, Types, TypesWriter
    <3> QED BY <1>1, <2>1, <3>1 DEF Place
  <2> QED BY <1>0, <1>1, <2>2, <2>3, <2>4, CalmAction
<1>3. CASE ~(AllQueuesEmpty(0) /\ Timeout # "zero")
  <2> DEFINE t == IF AllQueuesEmpty(0) THEN Nothing ELSE Chosen(0)
  <2>1. Decide(0, t)
    BY <1>3 DEF GatherDecide
  <2>2. t \in Pointer
    BY <1>0, <1>1, PointerTypes, QueuedArrived, GatheredBounds DEF Chosen, Gathered
  <2>3. CPCommPattern = "Min" => t < arrived[0]
    <3>1. Nothing < arrived[0]
      BY <1>0, QueuedArrived
    <3> QED BY <1>0, <3>1, QueuedArrived DEF Chosen
  <2> HIDE DEF t
  <2> QED BY <1>0, <1>1, <2>1, <2>2, <2>3, DecideInv
<1> QED
  BY <1>2, <1>3

(* A wait that ends keeps the ranks' invariants. *)
LEMMA TimedWaitInv ==
  ASSUME ReaderInv, config' = config, NEW r \in Rank, TimedWait(r)
  PROVE  \A s \in Rank : RankInv(s)'
<1> USE Domains DEF ReaderInv
<1>1. /\ pc[r] = "timedwait"
      /\ UNCHANGED <<log, freedTouched, arrived, CMconn, Timesteps, ReaderTimestep,
                     CurrentWorkingTimestep, formats, released>>
  BY DEF TimedWait, writerVars, infoVars, stepVars
<1>2. CASE WaitOver(r)
  <2>1. Decide(r, MaxQueuedMetadata(r))
    BY <1>2 DEF TimedWait
  <2> QED BY <1>1, <2>1, QueuedArrived, DecideInv
<1>3. CASE ~WaitOver(r)
  <2>1. UNCHANGED <<pc, walk, DiscardPriorTimestep, Status, inStep, results>>
    BY <1>3 DEF TimedWait
  <2>2. Others(r) /\ Calm(r)
    BY <1>1, <2>1 DEF Others, Same, Calm, Working, Unreleased, Settled, Ended
  <2>3. Place(r)'
    BY <1>1, <2>1, Fixed DEF Place, RankInv
  <2> QED BY <1>1, <2>2, <2>3, CalmAction
<1> QED
  BY <1>2, <1>3

(* A rank that follows rank 0's decision keeps the invariants; in the Peer *)
(* pattern the step it is told of need not have arrived yet.               *)
LEMMA FollowInv ==
  ASSUME ReaderInv, config' = config, NEW r \in Rank, r # 0, Follow(r)
  PROVE  \A s \in Rank : RankInv(s)'
<1> USE Domains DEF ReaderInv
<1> DEFINE v == decision[r][1]
<1>1. /\ v \in Decisions
      /\ v.status \in {"OK", "Timeout", "EndOfStream", "FatalError", "NoStream"}
      /\ v.step \in Pointer
  <2>1. decision[r] \in Seq(Decisions) /\ decision[r] # <<>>
    BY DEF Follow, Types, TypesColl
  <2>2. v \in Decisions
    <3>1. 1 \in DOMAIN decision[r]
      BY <2>1, ListElements
    <3> QED BY <2>1, <3>1, ListElements
  <2> HIDE DEF v
  <2>3. v \in Results
    BY <2>2 DEF Decisions
  <2> QED BY <2>2, <2>3 DEF Results, Pointer
<1>2. /\ pc[r] = "bcast"
      /\ UNCHANGED <<log, freedTouched, arrived, CMconn, Timesteps, released>>
      /\ Status[r] # "Destroyed" /\ Place(r) /\ ~inStep[r]
  BY DEF Follow, writerVars, RankInv, Place
<1> HIDE DEF v
<1>3. CASE CPCommPattern = "Peer"
  <2>1. /\ IF v.status = "OK" THEN Adopt(r, v.step) ELSE GiveUp(r, v.status)
        /\ AdoptStatus(r, v.status)
        /\ UNCHANGED <<infoVars, stepVars>>
    BY <1>3 DEF Follow, v
  <2>2. /\ \A s \in Rank \ {r} : Status'[s] = Status[s]
        /\ Status'[r] = "Destroyed" <=> Status[r] = "Destroyed"
    BY <1>2, <2>1 DEF AdoptStatus
  <2>3. r \in Peered /\ CPCommPattern # "Min"
    BY <1>3, Parameters DEF Types, TypesWriter
  <2>4. UNCHANGED <<ReaderTimestep, CurrentWorkingTimestep, formats>>
    BY <2>1 DEF infoVars, stepVars
  <2>5. CASE v.status = "OK"
    BY <1>1, <1>2, <2>1, <2>2, <2>3, <2>4, <2>5, AdoptInv
  <2>6. CASE v.status # "OK"
    BY <1>1, <1>2, <2>1, <2>2, <2>4, <2>6, GiveUpInv DEF GiveUp
  <2> QED BY <2>5, <2>6
<1>4. CASE CPCommPattern = "Min"
  <2>1. r \notin Peered /\ r \notin Peered'
    BY <1>4, Fixed, Parameters DEF Types, TypesWriter
  <2>2. /\ UNCHANGED <<Status, walk, DiscardPriorTimestep>>
        /\ \A s \in Rank \ {r} : formats'[s] = formats[s] /\ ReaderTimestep'[s] = ReaderTimestep[s]
              /\ CurrentWorkingTimestep'[s] = CurrentWorkingTimestep[s] /\ pc'[s] = pc[s]
              /\ inStep'[s] = inStep[s] /\ results'[s] = results[s]
        /\ (pc'[r] = "get_attributes" /\ inStep'[r] = inStep[r]) \/ pc'[r] = "user"
    BY <1>4 DEF Follow, InstallPrecious, Goto, Finish, infoVars, stepVars
  <2>3. Others(r)
    BY <1>2, <2>2 DEF Others, Same
  <2>4. Place(r)'
    BY <1>2, <2>1, <2>2 DEF Place
  <2>5. Queue(r)'
    BY <1>2, QueueKept DEF RankInv
  <2>6. RankInv(r)'
    BY <2>1, <2>4, <2>5 DEF RankInv
  <2> QED BY <1>2, <2>3, <2>6, OneRank
<1> QED
  BY <1>3, <1>4, Parameters DEF Types, TypesWriter

(* The attribute data of the steps that were skipped are got before the *)
(* step is delivered: the invariants stay.                              *)
LEMMA AttributesInv ==
  ASSUME ReaderInv, config' = config, NEW r \in Rank, SstGetAttributeData(r) \/ InstallAttributes(r)
  PROVE  \A s \in Rank : RankInv(s)'
<1> USE Domains DEF ReaderInv
<1>1. UNCHANGED <<log, freedTouched, arrived, CMconn, Status, Timesteps, DiscardPriorTimestep,
                  ReaderTimestep, CurrentWorkingTimestep, formats, walk, released>>
  BY DEF SstGetAttributeData, InstallAttributes, writerVars, streamVars, queueVars, infoVars,
         statusVars, stepVars, outVars
<1>2. Place(r) /\ ~inStep[r] /\ Status[r] # "Destroyed"
  BY DEF SstGetAttributeData, InstallAttributes, RankInv, Place
<1>3. CASE SstGetAttributeData(r)
  <2>1. pc[r] = "get_attributes" /\ Goto(r, "install") /\ UNCHANGED <<inStep, results>>
    BY <1>3 DEF SstGetAttributeData, outVars
  <2>2. Others(r) /\ Calm(r)
    BY <1>1, <2>1 DEF Goto, Others, Same, Calm, Working, Unreleased, Settled, Ended
  <2>3. Place(r)'
    BY <1>1, <1>2, <2>1, Fixed DEF Goto, Place
  <2> QED BY <1>1, <2>2, <2>3, CalmAction
<1>4. CASE InstallAttributes(r)
  <2>1. pc[r] = "install" /\ Finish(r, "OK", ReaderTimestep[r])
    BY <1>4 DEF InstallAttributes
  <2>2. pc'[r] = "user" /\ inStep'[r] = TRUE
    BY <2>1 DEF Finish, Goto
  <2>3. Others(r)
    BY <1>1, <2>1 DEF Finish, Goto, Others, Same
  <2>4. Calm(r)
    BY <1>1, <1>2, <2>1, <2>2 DEF Calm, Working, Unreleased, Settled
  <2>5. Place(r)'
    BY <1>1, <1>2, <2>2, Fixed DEF Place
  <2> QED BY <1>1, <2>3, <2>4, <2>5, CalmAction
<1> QED
  BY <1>3, <1>4

(* SstReaderClose keeps the ranks' invariants. *)
LEMMA SstReaderCloseInv ==
  ASSUME ReaderInv, config' = config, NEW r \in Rank, SstReaderClose(r)
  PROVE  \A s \in Rank : RankInv(s)'
<1> USE Domains DEF ReaderInv
<1>1. /\ pc[r] = "user" /\ ~inStep[r] /\ Goto(r, "close_barrier")
      /\ UNCHANGED <<log, freedTouched, arrived, CMconn, Status, Timesteps, DiscardPriorTimestep,
                     ReaderTimestep, CurrentWorkingTimestep, formats, walk, released, inStep, results>>
  BY DEF SstReaderClose, writerVars, streamVars, queueVars, infoVars, statusVars, stepVars, outVars
<1>2. Others(r) /\ Calm(r)
  BY <1>1 DEF Goto, Others, Same, Calm, Working, Unreleased, Settled
<1>3. Place(r)'
  BY <1>1, Fixed DEF Goto, Place, RankInv
<1> QED
  BY <1>1, <1>2, <1>3, CalmAction

(* The barriers keep the ranks' invariants. *)
LEMMA BarrierInv ==
  ASSUME ReaderInv, Barrier
  PROVE  \A s \in Rank : RankInv(s)'
<1> USE Domains DEF ReaderInv
<1> TAKE r \in Rank
<1>1. /\ UNCHANGED <<config, log, freedTouched, arrived, CMconn, Status, Timesteps,
                     DiscardPriorTimestep, ReaderTimestep, CurrentWorkingTimestep, formats, walk,
                     released, inStep, results>>
      /\ pc[r] \in {"end_barrier", "close_barrier"}
      /\ pc'[r] = IF pc[r] = "end_barrier" THEN "send_release" ELSE "linger"
  BY DEF Barrier, Barriers, writerVars, streamVars, queueVars, infoVars, statusVars, stepVars, outVars
<1>2. Calm(r)
  BY <1>1 DEF Calm, Working, Unreleased, Settled
<1>3. Place(r)'
  BY <1>1, Fixed DEF Place, RankInv
<1>4. Queue(r)'
  BY <1>1, QueueKept DEF RankInv
<1>5. r \in Peered => PeerInv(r)'
  BY <1>1, <1>2, CalmStep DEF RankInv
<1> QED
  BY <1>1, <1>3, <1>4, <1>5, Fixed DEF RankInv

(* The handlers of the connection keep the ranks' invariants. *)
LEMMA NetInv ==
  ASSUME ReaderInv, config' = config, NEW r \in Rank,
         \/ CP_PeerSetupHandler(r) \/ ReaderConnCloseHandler(r) \/ triggerDataCondition(r)
  PROVE  \A s \in Rank : RankInv(s)'
<1> USE Domains DEF ReaderInv
<1>1. UNCHANGED <<log, freedTouched, arrived, Timesteps, DiscardPriorTimestep, pc, inStep, results,
                  ReaderTimestep, CurrentWorkingTimestep, formats, walk, released>>
  BY DEF CP_PeerSetupHandler, ReaderConnCloseHandler, triggerDataCondition, writerVars, streamVars,
         queueVars, infoVars, statusVars, stepVars, outVars
<1>2. /\ \A s \in Rank \ {r} : CMconn'[s] = CMconn[s] /\ Status'[s] = Status[s]
      /\ Status'[r] = "Destroyed" <=> Status[r] = "Destroyed"
      /\ r \notin Peered => CMconn'[r] \in {CMconn[r], "lost"}
  BY Parameters DEF CP_PeerSetupHandler, ReaderConnCloseHandler, triggerDataCondition, streamVars,
         statusVars, Types, TypesWriter
<1>3. Others(r) /\ Calm(r)
  BY <1>1, <1>2 DEF Others, Same, Calm, Working, Unreleased, Settled, Ended
<1>4. Place(r)'
  BY <1>1, <1>2, Fixed DEF Place, RankInv
<1> QED
  BY <1>1, <1>3, <1>4, CalmAction

-----------------------------------------------------------------------------
(* A message arrives *)

(* What arrives next at a rank is the message after those it has received. *)
LEMMA ArrivalFacts ==
  ASSUME ReaderInv, NEW r \in Rank, NEW kinds, Incoming(r, kinds), config' = config
  PROVE  /\ r \in Peered /\ PeerInv(r) /\ Place(r) /\ Queue(r)
         /\ arrived[r] \in Nat /\ arrived'[r] = arrived[r] + 1 /\ arrived'[r] <= Len(log)
         /\ \A s \in Rank \ {r} : arrived'[s] = arrived[s]
         /\ arrived[r] + 1 \in DOMAIN log /\ log[arrived[r] + 1].kind \in kinds
         /\ log[arrived[r] + 1].kind # "close" =>
               log[arrived[r] + 1].Timestep = arrived[r] /\ arrived[r] \in StepNo
<1> USE DEF ReaderInv
<1>1. r \in Peered /\ PeerInv(r) /\ Place(r) /\ Queue(r)
  BY DEF Incoming, RankInv, Place
<1>2. /\ arrived[r] \in Nat /\ arrived'[r] = arrived[r] + 1 /\ arrived'[r] <= Len(log)
      /\ \A s \in Rank \ {r} : arrived'[s] = arrived[s]
  BY LogTypes DEF Incoming, Types, TypesWriter
<1> QED
  BY <1>1, <1>2, IncomingTypes

(* ... which leaves the queue as it is *)
LEMMA PassingMessage ==
  ASSUME ReaderInv, config' = config, NEW r \in Rank,
         Incoming(r, {"notice", "close"}),
         UNCHANGED <<log, CMconn, Timesteps, DiscardPriorTimestep, ReaderTimestep,
                     CurrentWorkingTimestep, pc, walk, inStep, results, released>>,
         freedTouched \subseteq freedTouched',
         \A s \in Rank \ {r} : Status'[s] = Status[s] /\ formats'[s] = formats[s],
         Status'[r] # "Destroyed", formats[r] \subseteq formats'[r],
         log[arrived[r] + 1].kind = "notice" => arrived[r] \in formats'[r]
  PROVE  \A s \in Rank : RankInv(s)'
<1> USE Fixed DEF ReaderInv
<1> DEFINE a == arrived[r]
<1>1. /\ r \in Peered /\ PeerInv(r) /\ Place(r) /\ Queue(r)
      /\ a \in Nat /\ arrived'[r] = a + 1 /\ a + 1 <= Len(log)
      /\ \A s \in Rank \ {r} : arrived'[s] = arrived[s]
      /\ a + 1 \in DOMAIN log /\ log[a + 1].kind \in {"notice", "close"}
      /\ Status[r] # "Destroyed"
  <2>1. Status[r] # "Destroyed"
    BY DEF Incoming
  <2> QED BY <2>1, ArrivalFacts
<1> HIDE DEF a
<1>2. Others(r)
  BY <1>1 DEF Others, Same
<1>3. Q(r)' = Q(r) /\ (\A u \in Q(r) : u < a /\ u \in Int) /\ Queue(r)'
  <2>1. \A e \in Items(Timesteps[r]) : e.Timestep < a /\ e.Timestep \in Int
    <3>1. MaxSteps \in Nat /\ Timesteps[r] \in Seq(Entries(MaxSteps))
      BY PointerTypes DEF Types, TypesQueue, Queues
    <3> QED BY <1>1, <3>1, QueueElements DEF Queue, Items, a
  <2> QED BY <1>1, <2>1 DEF Q, Steps, Items, Queue, a
<1>4. /\ Working(r)' = Working(r) /\ Unreleased(r)' = Unreleased(r) /\ Settled(r)' = Settled(r)
      /\ \A t : IsStep(t, {"step"})' = IsStep(t, {"step"})
      /\ \A t : IsStep(t, {"step", "notice"})' = IsStep(t, {"step", "notice"})
      /\ \A t : Ahead(r, t)' = Ahead(r, t)
  BY DEF Working, Unreleased, Settled, Ended, IsStep, Ahead
<1>5. Place(r)'
  BY <1>1 DEF Place
<1>6. \A n \in Int : (n < a => n < a + 1) /\ (n <= a => n <= a + 1) /\ (n < a + 1 => n < a \/ n = a)
  BY <1>1
<1>7. /\ ReaderTimestep[r] \in Int /\ DiscardPriorTimestep[r] \in Int /\ StepNo \subseteq Int
      /\ \A th \in {"main", "net"} : walk[r][th].next \in Int
  BY PointerTypes DEF Types, TypesQueue, TypesThreads, Walkers
<1>8. InUse(r)'
  BY <1>1, <1>3, <1>4, <1>6, <1>7 DEF PeerInv, InUse, a
<1>9. Passed(r)'
  BY <1>1, <1>3, <1>4, <1>6, <1>7 DEF PeerInv, Passed, a
<1>10. Late(r)'
  BY <1>1, <1>3, <1>4, <1>6, <1>7 DEF PeerInv, Late, a
<1>11. Released(r)'
  <2>0. Released(r)
    BY <1>1 DEF PeerInv
  <2>1. \A t \in StepNo : released[r][t] > 0 => t < a + 1
    BY <1>6, <1>7, <2>0 DEF Released, a
  <2> QED BY <1>1, <1>3, <1>4, <2>0, <2>1 DEF Released, a
<1>12. Accounted(r)'
  <2>1. ~IsStep(a, {"step"})
    BY <1>1 DEF IsStep
  <2> QED BY <1>1, <1>3, <1>4, <1>6, <1>7, <2>1 DEF PeerInv, Accounted, a
<1>13. Pending(r)'
  BY <1>1, <1>3, <1>4 DEF PeerInv, Pending
<1>14. Informed(r)'
  <2>1. IsStep(a, {"step", "notice"}) => a \in formats'[r]
    BY <1>1 DEF IsStep, a
  <2> QED BY <1>1, <1>3, <1>4, <1>6, <1>7, <2>1 DEF PeerInv, Informed, a
<1>15. RankInv(r)'
  BY <1>3, <1>5, <1>8, <1>9, <1>10, <1>11, <1>12, <1>13, <1>14 DEF RankInv, PeerInv
<1> QED
  BY <1>2, <1>15, OneRank

(* A discard notice and the writer's close change the queue of no rank. *)
LEMMA PassingInv ==
  ASSUME ReaderInv, config' = config, NEW r \in Rank, DiscardNotice(r) \/ CP_WriterCloseHandler(r)
  PROVE  \A s \in Rank : RankInv(s)'
<1> USE Domains DEF ReaderInv
<1>1. UNCHANGED <<log, CMconn, Timesteps, DiscardPriorTimestep, ReaderTimestep,
                  CurrentWorkingTimestep, pc, walk, inStep, results, released>>
  BY DEF DiscardNotice, CP_WriterCloseHandler, writerVars, queueVars, stepVars, outVars
<1>2. CASE DiscardNotice(r)
  <2>1. Incoming(r, {"notice"}) /\ Incoming(r, {"notice", "close"})
    BY <1>2 DEF DiscardNotice, Incoming
  <2>2. log[arrived[r] + 1].Timestep = arrived[r]
    BY <2>1, ArrivalFacts
  <2>3. formats' = [formats EXCEPT ![r] = @ \cup ToSet(<<arrived[r]>>)] /\ UNCHANGED Status
    BY <1>2, <2>2 DEF DiscardNotice, InstallPrecious, statusVars
  <2>4. arrived[r] \in ToSet(<<arrived[r]>>)
    BY DEF ToSet
  <2>5. formats'[r] = formats[r] \cup ToSet(<<arrived[r]>>)
        /\ \A s \in Rank \ {r} : formats'[s] = formats[s]
    BY <2>3
  <2>6. Status[r] # "Destroyed" /\ freedTouched \subseteq freedTouched'
    BY <1>2 DEF DiscardNotice, Incoming
  <2> QED BY <1>1, <2>1, <2>3, <2>4, <2>5, <2>6, PassingMessage
<1>3. CASE CP_WriterCloseHandler(r)
  <2>1. Incoming(r, {"close"}) /\ Incoming(r, {"notice", "close"})
    BY <1>3 DEF CP_WriterCloseHandler, Incoming
  <2>2. /\ Status' = [Status EXCEPT ![r] = "PeerClosed"] /\ UNCHANGED <<formats, freedTouched>>
        /\ log[arrived[r] + 1].kind # "notice"
    BY <1>3, <2>1 DEF CP_WriterCloseHandler, infoVars, Incoming
  <2> QED BY <1>1, <2>1, <2>2, PassingMessage
<1> QED
  BY <1>2, <1>3

(* queueTimestepMetadataMsgAndNotify keeps the ranks' invariants: what it *)
(* queues is newer than all that is queued, and what it releases at once, *)
(* since a later step was settled on, is released for the first time.     *)
LEMMA TimestepMetadataInv ==
  ASSUME ReaderInv, config' = config, NEW r \in Rank, TimestepMetadata(r)
  PROVE  \A s \in Rank : RankInv(s)'
<1> USE Fixed DEF ReaderInv
<1> DEFINE a == arrived[r]
           data == log[a + 1].kind = "step"
           e == [Timestep |-> a, Metadata |-> data]
           q == Append(Timesteps[r], e)
<1>1. /\ r \in Peered /\ PeerInv(r) /\ Place(r) /\ Queue(r)
      /\ a \in Nat /\ arrived'[r] = a + 1 /\ a + 1 <= Len(log)
      /\ \A s \in Rank \ {r} : arrived'[s] = arrived[s]
      /\ a + 1 \in DOMAIN log /\ log[a + 1].kind \in {"step", "notice"}
      /\ log[a + 1].Timestep = a /\ a \in StepNo
  <2>1. Incoming(r, {"step", "notice"})
    BY DEF TimestepMetadata
  <2> QED BY <2>1, ArrivalFacts
<1>2. /\ UNCHANGED <<log, freedTouched, CMconn, Status, DiscardPriorTimestep, ReaderTimestep,
                     CurrentWorkingTimestep, formats, pc, inStep, results>>
      /\ Timesteps' = [Timesteps EXCEPT ![r] = q]
      /\ IF a < DiscardPriorTimestep[r] /\ data THEN Release(r, a) ELSE UNCHANGED released
      /\ UNCHANGED walk \/ walk' = [walk EXCEPT ![r]["net"] = Walker(Head0(Timesteps'[r]), a)]
  BY <1>1 DEF TimestepMetadata, LateRelease, writerVars, infoVars, statusVars, stepVars
<1>3. /\ MaxSteps \in Nat /\ Timesteps[r] \in Seq(Entries(MaxSteps))
      /\ Sorted(Timesteps[r]) /\ e \in Entries(MaxSteps) /\ e.Timestep = a
      /\ \A u \in Q(r) : u < a /\ u \in Int
  <2>1. MaxSteps \in Nat /\ Timesteps[r] \in Seq(Entries(MaxSteps)) /\ Sorted(Timesteps[r])
    BY <1>1, PointerTypes DEF Types, TypesQueue, Queues, Queue
  <2>2. e \in Entries(MaxSteps)
    <3> HIDE DEF data
    <3>1. data \in BOOLEAN
      BY DEF data
    <3> QED BY <1>1, <3>1 DEF Entries, StepNo
  <2>3. \A u \in Q(r) : u < a /\ u \in Int
    BY <1>1, <2>1, QueueElements DEF Queue, Items, Q, Steps
  <2> QED BY <2>1, <2>2, <2>3
<1> HIDE DEF e
<1>4. q \in Seq(Entries(MaxSteps)) /\ Sorted(q) /\ Items(q) = Items(Timesteps[r]) \cup {e}
      /\ Steps(q) = Q(r) \cup {a}
  <2> HIDE DEF a
  <2> QED BY <1>3, AppendQueue DEF Q
<1> HIDE DEF q
<1>5. /\ Timesteps'[r] = q /\ \A s \in Rank \ {r} : Timesteps'[s] = Timesteps[s]
      /\ Q(r)' = Q(r) \cup {a}
  <2>1. Timesteps'[r] = q /\ \A s \in Rank \ {r} : Timesteps'[s] = Timesteps[s]
    BY <1>2, Domains
  <2> QED BY <1>4, <2>1 DEF Q
<1>6. /\ \A s \in Rank \ {r} : released'[s] = released[s] /\ walk'[s] = walk[s]
      /\ \A t \in StepNo \ {a} : released'[r][t] = released[r][t]
      /\ released'[r][a] = released[r][a] + (IF a < DiscardPriorTimestep[r] /\ data THEN 1 ELSE 0)
      /\ \A t \in StepNo : released[r][t] \in Nat
      /\ walk'[r]["main"] = walk[r]["main"]
      /\ walk'[r]["net"].next \in {walk[r]["net"].next, Head0(q)}
  <2>1. /\ \A s \in Rank \ {r} : released'[s] = released[s]
        /\ \A t \in StepNo \ {a} : released'[r][t] = released[r][t]
        /\ released'[r][a] = released[r][a] + (IF a < DiscardPriorTimestep[r] /\ data THEN 1 ELSE 0)
        /\ \A t \in StepNo : released[r][t] \in Nat
    <3> HIDE DEF a, data
    <3>1. \A t \in StepNo : released[r][t] \in Nat
      BY DEF Types, TypesOut
    <3>2. CASE a < DiscardPriorTimestep[r] /\ data
      BY <1>1, <1>2, <3>1, <3>2, Domains DEF Release
    <3>3. CASE ~(a < DiscardPriorTimestep[r] /\ data)
      BY <1>1, <1>2, <3>1, <3>3
    <3> QED BY <3>2, <3>3
  <2>2. /\ \A s \in Rank \ {r} : walk'[s] = walk[s]
        /\ walk'[r]["main"] = walk[r]["main"]
        /\ walk'[r]["net"].next \in {walk[r]["net"].next, Head0(q)}
    <3> HIDE DEF a
    <3> QED BY <1>2, <1>5, Domains DEF Walker
  <2> QED BY <2>1, <2>2
<1>7. Others(r)
  BY <1>1, <1>2, <1>5, <1>6 DEF Others, Same
<1>8. /\ Working(r)' = Working(r) /\ Unreleased(r)' = Unreleased(r) /\ Settled(r)' = Settled(r)
      /\ \A t : IsStep(t, {"step"})' = IsStep(t, {"step"})
      /\ \A t : IsStep(t, {"step", "notice"})' = IsStep(t, {"step", "notice"})
      /\ \A t : Ahead(r, t)' = Ahead(r, t)
  BY <1>2, <1>6 DEF Working, Unreleased, Settled, Ended, IsStep, Ahead
<1>9. IsStep(a, {"step"}) <=> data
  BY <1>1 DEF IsStep
<1>10. Place(r)'
  BY <1>1, <1>2 DEF Place
<1>11. /\ ReaderTimestep[r] \in Int /\ DiscardPriorTimestep[r] \in Int /\ StepNo \subseteq Int
       /\ \A th \in {"main", "net"} : walk[r][th].next \in Int
       /\ Nothing = -1
  BY PointerTypes DEF Types, TypesQueue, TypesThreads, Walkers, Nothing
<1>12. Queue(r)'
  <2>1. \A f \in Items(Timesteps[r]) \cup {e} :
           /\ f.Timestep < a + 1
           /\ log[f.Timestep + 1].kind = IF f.Metadata THEN "step" ELSE "notice"
    <3>1. e.Metadata = data /\ e.Timestep = a
      BY DEF e
    <3>2. \A f \in Items(Timesteps[r]) : f.Timestep \in Int
      BY <1>3, QueueElements DEF Items
    <3>3. a < a + 1 /\ \A n \in Int : n < a => n < a + 1
      BY <1>1
    <3> QED BY <1>1, <3>1, <3>2, <3>3 DEF Queue
  <2> QED BY <1>1, <1>2, <1>4, <1>5, <2>1 DEF Queue
<1> HIDE DEF a, data
<1>13. InUse(r)'
  <2>1. ReaderTimestep[r] < a /\ ReaderTimestep[r] < a + 1 /\ a > ReaderTimestep[r]
    BY <1>1, <1>11 DEF PeerInv, InUse, a
  <2> QED BY <1>1, <1>2, <1>5, <1>8, <2>1 DEF PeerInv, InUse
<1>14. Passed(r)'
  <2> SUFFICES ASSUME NEW th \in {"main", "net"}, walk'[r][th].next # Nothing
               PROVE  /\ walk'[r][th].next < a + 1
                      /\ \A u \in Q(r) \cup {a} : u < walk'[r][th].next =>
                            Working(r) /\ u = ReaderTimestep[r]
    BY <1>1, <1>2, <1>5, <1>8 DEF Passed, Nothing
  <2>1. CASE walk'[r][th].next = walk[r][th].next
    <3>1. walk[r][th].next < a /\ \A u \in Q(r) : u < walk[r][th].next => Working(r) /\ u = ReaderTimestep[r]
      BY <1>1, <2>1 DEF PeerInv, Passed, a
    <3> QED BY <1>1, <1>11, <2>1, <3>1
  <2>2. CASE walk'[r][th].next = Head0(q)
    <3>0. /\ Head0(q) \in -1 .. MaxSteps - 1
          /\ IF Head0(q) = -1 THEN Steps(q) = {} ELSE Head0(q) \in Steps(q)
          /\ \A u \in Steps(q) : Head0(q) <= u
      BY <1>3, <1>4, HeadOfQueue
    <3>1. Head0(q) \in Int /\ Head0(q) \in Q(r) \cup {a} /\ \A u \in Q(r) \cup {a} : Head0(q) <= u
      BY <1>3, <1>4, <3>0
    <3> QED BY <1>1, <1>3, <2>2, <3>1
  <2> QED BY <1>6, <2>1, <2>2
<1>15. Late(r)'
  <2>1. Late(r)
    BY <1>1 DEF PeerInv
  <2> QED BY <1>1, <1>2, <1>5, <1>8, <1>11, <2>1 DEF Late, a
<1>16. released[r][a] = 0
  <2>1. ~(released[r][a] > 0)
    BY <1>1 DEF PeerInv, Released, a
  <2> QED BY <1>1, <1>6, <2>1
<1>17. a < DiscardPriorTimestep[r] => MayComeLate
  <2>1. Late(r) /\ CPCommPattern \in {"Min", "Peer"}
    BY <1>1, Parameters DEF PeerInv, Types, TypesWriter
  <2> QED BY <1>1, <1>11, <2>1 DEF Late, MayComeLate, a
<1>18. Released(r)'
  <2>0. Released(r) /\ ReaderTimestep[r] < a
    BY <1>1 DEF PeerInv, InUse, a
  <2>1. \A t \in StepNo : released'[r][t] > 0 => t < arrived'[r]
    <3> TAKE t \in StepNo
    <3>1. CASE t = a
      BY <1>1, <3>1
    <3>2. CASE t # a
      BY <1>1, <1>6, <1>11, <2>0, <3>2 DEF Released, a
    <3> QED BY <3>1, <3>2
  <2>2. \A t \in Q(r)' : released'[r][t] > 0 =>
           MayComeLate /\ t < DiscardPriorTimestep[r] /\ released'[r][t] = 1
    <3> TAKE t \in Q(r)'
    <3>1. CASE t = a
      BY <1>1, <1>6, <1>16, <1>17, <3>1
    <3>2. CASE t # a
      <4>1. t \in Q(r) /\ t \in StepNo
        BY <1>3, <1>5, <3>2, QueuedArrived
      <4> QED BY <1>6, <2>0, <3>2, <4>1 DEF Released
    <3> QED BY <3>1, <3>2
  <2>3. Unreleased(r)' => released'[r][ReaderTimestep[r]] = 0
    <3>1. ASSUME Unreleased(r) PROVE ReaderTimestep[r] \in StepNo /\ ReaderTimestep[r] # a
      BY <1>1, <1>11, <2>0, <3>1, PointerTypes DEF PeerInv, InUse, Types, TypesQueue
    <3> QED BY <1>6, <1>8, <2>0, <3>1 DEF Released
  <2>4. \A t \in StepNo : released'[r][t] <= IF MayComeLate THEN 2 ELSE 1
    <3> TAKE t \in StepNo
    <3>1. CASE t = a
      BY <1>1, <1>6, <1>16, <1>17, <3>1
    <3>2. CASE t # a
      BY <1>6, <2>0, <3>2 DEF Released
    <3> QED BY <3>1, <3>2
  <2> QED BY <1>2, <2>1, <2>2, <2>3, <2>4 DEF Released
<1>19. \A t \in StepNo : released[r][t] > 0 => released'[r][t] > 0
  <2> TAKE t \in StepNo
  <2>1. CASE t = a
    BY <1>16, <2>1
  <2>2. CASE t # a
    BY <1>6, <2>2
  <2> QED BY <2>1, <2>2
<1>20. \A t \in StepNo : t < a + 1 => t < a \/ t = a
  BY <1>1, <1>11
<1>21. Accounted(r)'
  <2>1. Accounted(r)
    BY <1>1 DEF PeerInv
  <2> QED BY <1>1, <1>2, <1>5, <1>8, <1>19, <1>20, <2>1 DEF Accounted, a
<1>22. Pending(r)'
  <2>1. Pending(r)
    BY <1>1 DEF PeerInv
  <2>2. ASSUME IsStep(a, {"step"}), a < DiscardPriorTimestep[r] PROVE released'[r][a] > 0
    BY <1>6, <1>9, <1>16, <2>2
  <2> QED BY <1>2, <1>3, <1>5, <1>6, <1>8, <1>19, <2>1, <2>2, QueuedArrived DEF Pending
<1>23. Informed(r)'
  <2>1. Informed(r)
    BY <1>1 DEF PeerInv
  <2> QED BY <1>1, <1>2, <1>5, <1>8, <1>20, <2>1 DEF Informed, a
<1>24. RankInv(r)'
  BY <1>10, <1>12, <1>13, <1>14, <1>15, <1>18, <1>21, <1>22, <1>23 DEF RankInv, PeerInv
<1> QED
  BY <1>2, <1>7, <1>24, OneRank

-----------------------------------------------------------------------------
(* ... in the actions that release steps and in the one that finds the next *)

(* What is left of a queue is in order. *)
LEMMA ShrunkQueue ==
  ASSUME NEW r \in Rank, UNCHANGED log, arrived'[r] = arrived[r], Queue(r),
         Sorted(Timesteps'[r]), Items(Timesteps'[r]) \subseteq Items(Timesteps[r])
  PROVE  Queue(r)'
  BY DEF Queue

(* What a rank's invariant gives a proof that changes it *)
LEMMA RankFacts ==
  ASSUME ReaderInv, NEW r \in Rank
  PROVE  /\ Types /\ Queue(r) /\ Place(r) /\ (r \in Peered => PeerInv(r))
         /\ MaxSteps \in Nat /\ Nothing = -1
         /\ Timesteps[r] \in Seq(Entries(MaxSteps)) /\ Sorted(Timesteps[r])
         /\ arrived[r] \in Nat
         /\ \A t \in Q(r) : t \in StepNo /\ t \in Int /\ t < arrived[r]
         /\ StepNo \subseteq Int
         /\ ReaderTimestep[r] \in Int /\ DiscardPriorTimestep[r] \in Int
         /\ CurrentWorkingTimestep[r] \in Int
         /\ ReaderTimestep[r] # Nothing => ReaderTimestep[r] \in StepNo
         /\ \A th \in {"main", "net"} : walk[r][th].next \in Int /\ walk[r][th].latest \in Int
         /\ \A t \in StepNo : released[r][t] \in Nat
<1>1. Types /\ Queue(r) /\ Place(r) /\ (r \in Peered => PeerInv(r))
  BY DEF ReaderInv, RankInv
<1>2. /\ MaxSteps \in Nat /\ StepNo \subseteq Int /\ Pointer \subseteq Int /\ StepNo = Pointer \ {Nothing}
  BY <1>1, PointerTypes
<1>3. /\ Timesteps[r] \in Seq(Entries(MaxSteps)) /\ Sorted(Timesteps[r])
      /\ \A t \in Q(r) : t \in StepNo /\ t \in Int /\ t < arrived[r]
  BY <1>2, QueuedArrived
<1>4. /\ ReaderTimestep[r] \in Pointer /\ DiscardPriorTimestep[r] \in Pointer
      /\ CurrentWorkingTimestep[r] \in Pointer
      /\ arrived[r] \in Nat
      /\ \A t \in StepNo : released[r][t] \in Nat
  BY <1>1 DEF Types, TypesQueue, TypesWriter, TypesOut
<1>5. \A th \in {"main", "net"} : walk[r][th].next \in Pointer /\ walk[r][th].latest \in Pointer
  BY <1>1 DEF Types, TypesThreads, Walkers
<1> QED
  BY <1>1, <1>2, <1>3, <1>4, <1>5 DEF Nothing

(* SstStreamDestroy keeps the ranks' invariants. *)
LEMMA DestroyInv ==
  ASSUME ReaderInv, config' = config, NEW r \in Rank, SstStreamDestroy(r)
  PROVE  \A s \in Rank : RankInv(s)'
<1> USE Domains, Fixed DEF ReaderInv
<1>1. /\ pc[r] = "linger" /\ Goto(r, "done")
      /\ Status' = [Status EXCEPT ![r] = "Destroyed"]
      /\ Timesteps' = [Timesteps EXCEPT ![r] = <<>>]
      /\ CMconn' = [CMconn EXCEPT ![r] = "lost"]
      /\ UNCHANGED <<log, freedTouched, arrived, DiscardPriorTimestep, ReaderTimestep,
                     CurrentWorkingTimestep, formats, walk, released, inStep, results>>
  BY DEF SstStreamDestroy, writerVars, infoVars, stepVars, outVars
<1>2. Others(r)
  BY <1>1 DEF Goto, Others, Same
<1>3. /\ pc'[r] = "done" /\ Status'[r] = "Destroyed" /\ Timesteps'[r] = <<>> /\ CMconn'[r] = "lost"
      /\ ~inStep[r]
  BY <1>1 DEF Goto, RankInv, Place
<1>4. Place(r)'
  BY <1>1, <1>3 DEF Place
<1>5. Sorted(Timesteps'[r]) /\ Items(Timesteps'[r]) = {} /\ Q(r)' = {}
  BY <1>3 DEF Sorted, Items, Q, Steps
<1>6. Queue(r)'
  BY <1>1, <1>5, ShrunkQueue DEF RankInv
<1>7. ~Working(r)' /\ ~Unreleased(r)' /\ ~Settled(r)'
  BY <1>3 DEF Working, Unreleased, Settled
<1>8. ASSUME r \in Peered PROVE PeerInv(r)'
  <2>0. PeerInv(r)
    BY <1>8 DEF RankInv
  <2>1. InUse(r)' /\ Passed(r)' /\ Late(r)'
    BY <1>1, <1>5, <1>7, <2>0 DEF PeerInv, InUse, Passed, Late
  <2>2. Released(r)'
    BY <1>1, <1>5, <1>7, <2>0 DEF PeerInv, Released
  <2>3. Accounted(r)' /\ Pending(r)' /\ Informed(r)'
    BY <1>3, <1>5, <1>7 DEF Accounted, Pending, Informed
  <2> QED BY <2>1, <2>2, <2>3 DEF PeerInv
<1>9. RankInv(r)'
  BY <1>4, <1>6, <1>8 DEF RankInv
<1> QED
  BY <1>1, <1>2, <1>9, OneRank

(* SstReleaseStep takes the entry of the step in use out of the queue, and *)
(* nothing else.                                                           *)
LEMMA EndStepInv ==
  ASSUME ReaderInv, config' = config, NEW r \in Rank, EndStep(r)
  PROVE  \A s \in Rank : RankInv(s)'
<1> USE Domains, Fixed DEF ReaderInv
<1> DEFINE rt == ReaderTimestep[r]
<1>1. /\ pc[r] = "user" /\ inStep[r] /\ Goto(r, "end_barrier")
      /\ UNCHANGED <<log, arrived, CMconn, Status, DiscardPriorTimestep, ReaderTimestep,
                     CurrentWorkingTimestep, formats, walk, released, inStep, results>>
      /\ IF r \in Peered
         THEN /\ Timesteps' = [Timesteps EXCEPT ![r] = Without(Timesteps[r], rt)]
              /\ freedTouched \subseteq freedTouched'
         ELSE UNCHANGED <<Timesteps, freedTouched>>
  BY DEF EndStep, writerVars, infoVars, stepVars, statusVars, outVars
<1>2. Others(r) /\ freedTouched \subseteq freedTouched'
  BY <1>1 DEF Goto, Others, Same
<1>3. pc'[r] = "end_barrier"
  BY <1>1 DEF Goto
<1>4. Place(r) /\ Queue(r)
  BY RankFacts
<1>5. Working(r) /\ ~Working(r)' /\ Unreleased(r) /\ Unreleased(r)' /\ Settled(r)
  BY <1>1, <1>3 DEF Working, Unreleased, Settled
<1>6. CASE r \notin Peered
  <2>1. Place(r)'
    BY <1>1, <1>3, <1>4 DEF Place
  <2>2. Queue(r)'
    BY <1>1, <1>4, <1>6, QueueKept
  <2>3. RankInv(r)'
    BY <1>6, <2>1, <2>2 DEF RankInv
  <2> QED BY <1>1, <1>2, <2>3, OneRank
<1>7. CASE r \in Peered
  <2>1. PeerInv(r)
    BY <1>7, RankFacts
  <2>2. /\ Sorted(Timesteps'[r]) /\ Items(Timesteps'[r]) \subseteq Items(Timesteps[r])
        /\ Q(r)' = Q(r) \ {rt}
    <3>1. Timesteps'[r] = Without(Timesteps[r], rt)
      BY <1>1, <1>7
    <3>2. /\ Sorted(Without(Timesteps[r], rt))
          /\ Items(Without(Timesteps[r], rt)) = {e \in Items(Timesteps[r]) : e.Timestep # rt}
          /\ Steps(Without(Timesteps[r], rt)) = Steps(Timesteps[r]) \ {rt}
      BY RankFacts, WithoutQueue
    <3> QED BY <3>1, <3>2 DEF Q
  <2>3. Queue(r)'
    BY <1>1, <1>4, <2>2, ShrunkQueue
  <2>4. Place(r)'
    BY <1>1, <1>3, <1>4, <1>7 DEF Place
  <2>5. InUse(r)'
    BY <1>1, <1>5, <2>1, <2>2 DEF PeerInv, InUse
  <2>6. Passed(r)'
    BY <1>1, <2>1, <2>2 DEF PeerInv, Passed
  <2>7. Late(r)'
    BY <1>1, <1>5, <2>1, <2>2 DEF PeerInv, Late
  <2>8. Released(r)'
    BY <1>1, <1>5, <2>1, <2>2 DEF PeerInv, Released
  <2>9. /\ \A t : IsStep(t, {"step"})' = IsStep(t, {"step"})
        /\ \A t : IsStep(t, {"step", "notice"})' = IsStep(t, {"step", "notice"})
        /\ \A t : ~Ahead(r, t)
    BY <1>1 DEF IsStep, Ahead
  <2>10. Accounted(r)'
    BY <1>1, <1>5, <2>1, <2>2, <2>9 DEF PeerInv, Accounted
  <2>11. Pending(r)'
    BY <1>1, <1>2, <1>3, <2>1, <2>2, <2>9 DEF PeerInv, Pending
  <2>12. Informed(r)'
    BY <1>1, <1>5, <2>1, <2>2, <2>9 DEF PeerInv, Informed
  <2>13. RankInv(r)'
    BY <2>3, <2>4, <2>5, <2>6, <2>7, <2>8, <2>10, <2>11, <2>12 DEF RankInv, PeerInv
  <2> QED BY <1>1, <1>2, <2>13, OneRank
<1> QED
  BY <1>6, <1>7

(* SstReleaseStep releases the step in use, which was not released before. *)
LEMMA SendReleaseInv ==
  ASSUME ReaderInv, config' = config, NEW r \in Rank, SendRelease(r)
  PROVE  \A s \in Rank : RankInv(s)'
<1> USE Domains, Fixed DEF ReaderInv
<1> DEFINE rt == ReaderTimestep[r]
<1>1. /\ pc[r] = "send_release" /\ Goto(r, "user")
      /\ inStep' = [inStep EXCEPT ![r] = FALSE]
      /\ UNCHANGED <<log, freedTouched, arrived, CMconn, Status, Timesteps, DiscardPriorTimestep,
                     ReaderTimestep, CurrentWorkingTimestep, formats, walk, results>>
      /\ IF r \in Peered THEN Release(r, rt) ELSE UNCHANGED released
  BY DEF SendRelease, writerVars, streamVars, queueVars, infoVars, stepVars, statusVars
<1>2. Others(r)
  BY <1>1 DEF Goto, Others, Same, Release
<1>3. pc'[r] = "user" /\ ~inStep'[r]
  BY <1>1 DEF Goto
<1>4. Place(r) /\ Queue(r) /\ Queue(r)' /\ Q(r)' = Q(r)
  BY <1>1, RankFacts, QueueKept DEF Q
<1>5. Place(r)'
  BY <1>1, <1>3, <1>4 DEF Place
<1>6. ~Working(r) /\ ~Working(r)' /\ Unreleased(r) /\ ~Unreleased(r)' /\ Settled(r)
  BY <1>1, <1>3 DEF Working, Unreleased, Settled
<1>7. ASSUME r \in Peered PROVE PeerInv(r)'
  <2>1. PeerInv(r)
    BY <1>7, RankFacts
  <2>2. /\ rt \in StepNo /\ rt < arrived[r] /\ rt \notin Q(r) /\ released[r][rt] = 0
        /\ \A t \in StepNo : released[r][t] \in Nat
        /\ \A t \in Q(r) : t \in StepNo
    <3>1. rt # Nothing /\ rt < arrived[r] /\ (\A t \in Q(r) : t > rt) /\ released[r][rt] = 0
      BY <1>6, <2>1 DEF PeerInv, InUse, Released
    <3> QED BY <3>1, RankFacts
  <2>3. /\ released'[r][rt] = 1
        /\ \A t \in StepNo \ {rt} : released'[r][t] = released[r][t]
    BY <1>1, <1>7, <2>2 DEF Release
  <2> HIDE DEF rt
  <2>4. \A t \in StepNo : released[r][t] > 0 => released'[r][t] > 0
    BY <2>2, <2>3
  <2>5. InUse(r)'
    BY <1>1, <1>4, <1>6, <2>1 DEF PeerInv, InUse
  <2>6. Passed(r)'
    BY <1>1, <1>4, <1>6, <2>1 DEF PeerInv, Passed
  <2>7. Late(r)'
    BY <1>1, <1>4, <1>6, <2>1 DEF PeerInv, Late
  <2>8. Released(r)'
    <3>0. Released(r)
      BY <2>1 DEF PeerInv
    <3>1. \A t \in StepNo : released'[r][t] > 0 => t < arrived[r]
      BY <2>2, <2>3, <3>0 DEF Released
    <3>2. \A t \in Q(r) : released'[r][t] = released[r][t]
      BY <2>2, <2>3
    <3>3. \A t \in StepNo : released'[r][t] <= IF MayComeLate THEN 2 ELSE 1
      BY <2>2, <2>3, <3>0 DEF Released
    <3> QED BY <1>1, <1>4, <1>6, <3>0, <3>1, <3>2, <3>3 DEF Released
  <2>9. /\ \A t : IsStep(t, {"step"})' = IsStep(t, {"step"})
        /\ \A t : IsStep(t, {"step", "notice"})' = IsStep(t, {"step", "notice"})
        /\ \A t : ~Ahead(r, t)
    BY <1>1 DEF IsStep, Ahead
  <2>10. Accounted(r)'
    <3>1. \A t \in StepNo : t = rt => released'[r][t] > 0
      BY <2>3
    <3> QED BY <1>1, <1>4, <2>1, <2>4, <2>9, <3>1 DEF PeerInv, Accounted, rt
  <2>11. Pending(r)'
    BY <1>1, <1>3, <1>4, <2>1, <2>2, <2>4, <2>9 DEF PeerInv, Pending
  <2>12. Informed(r)'
    BY <1>1, <1>4, <1>6, <2>1, <2>9 DEF PeerInv, Informed
  <2> QED BY <2>5, <2>6, <2>7, <2>8, <2>10, <2>11, <2>12 DEF PeerInv
<1>8. RankInv(r)'
  BY <1>4, <1>5, <1>7 DEF RankInv
<1> QED
  BY <1>1, <1>2, <1>8, OneRank

-----------------------------------------------------------------------------
(* releasePriorTimesteps *)

(* The end of the walk of a thread: main has left nothing behind. *)
LEMMA WalkEndsInv ==
  ASSUME ReaderInv, config' = config, freedTouched = {}, NEW r \in Rank, NEW th \in {"main", "net"},
         WalkEnds(r, th), Others(r), Place(r)',
         UNCHANGED <<log, arrived, DiscardPriorTimestep, ReaderTimestep, CurrentWorkingTimestep>>,
         Status'[r] = "Destroyed" <=> Status[r] = "Destroyed",
         th = "net" => UNCHANGED <<pc, inStep, results>>,
         th = "main" => pc[r] = "walk" /\ ~inStep'[r] /\ ~Settled(r)' /\ pc'[r] \in {"next", "user"}
  PROVE  \A s \in Rank : RankInv(s)'
<1> USE Domains, Fixed DEF ReaderInv
<1>1. /\ UNCHANGED <<Timesteps, formats, released>> /\ freedTouched \subseteq freedTouched'
      /\ walk'[r][th].next = Nothing
      /\ \A x \in {"main", "net"} \ {th} : walk'[r][x] = walk[r][x]
  BY DEF WalkEnds, infoVars, Resting, Walker
<1>2. Queue(r)' /\ Q(r)' = Q(r) /\ Place(r) /\ Queue(r)
  BY <1>1, RankFacts, QueueKept DEF Q
<1>3. /\ \A t : IsStep(t, {"step"})' = IsStep(t, {"step"})
      /\ \A t : IsStep(t, {"step", "notice"})' = IsStep(t, {"step", "notice"})
  BY DEF IsStep
<1>4. /\ Working(r)' <=> Working(r)
      /\ Unreleased(r)' <=> Unreleased(r)
      /\ Settled(r)' => Settled(r)
      /\ th = "main" => ~Working(r)
  <2>1. CASE th = "net"
    BY <2>1 DEF Working, Unreleased, Settled, Ended
  <2>2. CASE th = "main"
    BY <1>2, <2>2 DEF Working, Unreleased, Place
  <2> QED BY <2>1, <2>2
<1>5. ASSUME r \in Peered PROVE PeerInv(r)'
  <2>1. PeerInv(r)
    BY <1>5, RankFacts
  <2>2. InUse(r)' /\ Late(r)'
    BY <1>1, <1>2, <1>4, <2>1 DEF PeerInv, InUse, Late
  <2>3. Passed(r)'
    BY <1>1, <1>2, <1>4, <2>1 DEF PeerInv, Passed
  <2>4. Released(r)'
    BY <1>1, <1>2, <1>4, <2>1 DEF PeerInv, Released
  <2>5. Accounted(r)' /\ Informed(r)'
    BY <1>1, <1>2, <1>3, <1>4, <2>1 DEF PeerInv, Accounted, Informed
  <2>6. Pending(r)'
    <3>0. Pending(r)
      BY <2>1 DEF PeerInv
    <3>1. CASE th = "net"
      <4>1. walk'[r]["main"] = walk[r]["main"] /\ pc' = pc
        BY <1>1, <3>1
      <4>2. \A t : Ahead(r, t)' = Ahead(r, t)
        BY <4>1 DEF Ahead
      <4> QED BY <1>1, <1>2, <1>3, <3>0, <4>1, <4>2 DEF Pending
    <3>2. CASE th = "main"
      <4> SUFFICES ASSUME freedTouched' = {}, NEW t \in Q(r), IsStep(t, {"step"}),
                          t < DiscardPriorTimestep[r]
                   PROVE  released[r][t] > 0
        BY <1>1, <1>2, <1>3, <3>2 DEF Pending
      <4>1. ASSUME Ahead(r, t) PROVE FALSE
        <5>1. ~Releasable(r, t, walk[r]["main"].latest)
          BY <3>2, <4>1 DEF WalkEnds, Ahead, Q
        <5>2. walk[r]["main"].latest = DiscardPriorTimestep[r]
          BY <3>0, <3>2 DEF Pending
        <5>3. t = CurrentWorkingTimestep[r]
          BY <5>1, <5>2 DEF Releasable
        <5>4. t = ReaderTimestep[r] /\ ReaderTimestep[r] \in Int
          <6>1. t # Nothing /\ ReaderTimestep[r] \in Int
            BY RankFacts DEF StepNo
          <6> QED BY <2>1, <5>3, <6>1 DEF PeerInv, InUse
        <5> QED BY <1>4, <2>1, <3>2, <5>4 DEF PeerInv, InUse
      <4> QED BY <3>0, <4>1 DEF Pending
    <3> QED BY <3>1, <3>2
  <2> QED BY <2>2, <2>3, <2>4, <2>5, <2>6 DEF PeerInv
<1>6. RankInv(r)'
  BY <1>2, <1>5 DEF RankInv
<1> QED
  BY <1>1, <1>6, OneRank

(* The walk of a thread removes an entry and releases its step. *)
LEMMA WalkRemovesInv ==
  ASSUME ReaderInv, config' = config, freedTouched = {}, NEW r \in Rank, NEW th \in {"main", "net"},
         NEW this \in StepNo, NEW last \in Pointer,
         WalkRemoves(r, th, this, last), Others(r),
         UNCHANGED <<log, arrived, CMconn, Status, DiscardPriorTimestep, ReaderTimestep,
                     CurrentWorkingTimestep, pc, inStep, results>>,
         th = "main" => pc[r] = "walk"
  PROVE  \A s \in Rank : RankInv(s)'
<1> USE Domains, Fixed DEF ReaderInv
<1> DEFINE next == walk[r][th].next
           latest == walk[r][th].latest
           f == Following(Timesteps[r], this)
           rt == ReaderTimestep[r]
<1>1. /\ next # Nothing /\ next <= this /\ this \in Q(r) /\ this < latest
      /\ this # CurrentWorkingTimestep[r]
      /\ \A t \in Q(r) : next <= t /\ t < this => ~(t < latest /\ t # CurrentWorkingTimestep[r])
      /\ freedTouched \subseteq freedTouched'
  BY DEF WalkRemoves, Releasable, Q
<1>2. /\ walk'[r][th].next = f /\ walk'[r][th].latest = latest
      /\ \A x \in {"main", "net"} \ {th} : walk'[r][x] = walk[r][x]
  BY DEF WalkRemoves, Types, TypesThreads, Walkers
<1>3. /\ formats'[r] = formats[r] \cup {this}
      /\ \A t \in StepNo \ {this} : released'[r][t] = released[r][t]
      /\ released'[r][this] = released[r][this] + 1
  <2>1. ToSet(<<this>>) = {this}
    BY DEF ToSet
  <2> QED BY <2>1 DEF WalkRemoves, InstallPrecious, Release
<1>4. /\ Sorted(Timesteps'[r]) /\ Items(Timesteps'[r]) \subseteq Items(Timesteps[r])
      /\ Q(r)' = Q(r) \ {this}
  <2>1. Timesteps'[r] = Without(Timesteps[r], this)
    BY DEF WalkRemoves
  <2>2. /\ Sorted(Without(Timesteps[r], this))
        /\ Items(Without(Timesteps[r], this)) = {e \in Items(Timesteps[r]) : e.Timestep # this}
        /\ Steps(Without(Timesteps[r], this)) = Steps(Timesteps[r]) \ {this}
    BY RankFacts, WithoutQueue
  <2> QED BY <2>1, <2>2 DEF Q
<1>5. /\ f = -1 => \A u \in Q(r) : u <= this
      /\ f # -1 => f \in Q(r) /\ this < f /\ \A u \in Q(r) : u <= this \/ f <= u
  BY <1>1, RankFacts, FollowingInQueue DEF Q
<1>6. /\ Place(r) /\ Queue(r) /\ Nothing = -1
      /\ \A t \in Q(r) : t \in StepNo /\ t \in Int /\ t < arrived[r]
      /\ rt \in Int /\ CurrentWorkingTimestep[r] \in Int /\ DiscardPriorTimestep[r] \in Int
      /\ next \in Int /\ latest \in Int /\ this \in Int
      /\ rt # Nothing => rt \in StepNo
      /\ \A t \in StepNo : released[r][t] \in Nat
  BY RankFacts
<1>a. Nothing \notin Q(r)
  BY <1>6 DEF StepNo
<1>7. r \in Peered /\ PeerInv(r)
  <2>1. Q(r) # {}
    BY <1>1
  <2>2. Timesteps[r] # <<>>
    BY <2>1, RankFacts, HeadOfQueue DEF Q
  <2> QED BY <1>6, <2>2, RankFacts DEF Place
<1>8. Place(r)' /\ Queue(r)'
  BY <1>4, <1>6, <1>7, ShrunkQueue DEF Place
<1>9. /\ Working(r)' = Working(r) /\ Unreleased(r)' = Unreleased(r) /\ Settled(r)' = Settled(r)
      /\ \A t : IsStep(t, {"step"})' = IsStep(t, {"step"})
      /\ \A t : IsStep(t, {"step", "notice"})' = IsStep(t, {"step", "notice"})
  BY DEF Working, Unreleased, Settled, Ended, IsStep
<1> HIDE DEF next, latest, f, rt
<1>10. this # rt
  <2>1. ASSUME this = rt PROVE FALSE
    <3>1. Working(r)
      BY <1>1, <1>6, <1>7, <2>1 DEF PeerInv, InUse, rt
    <3>2. CurrentWorkingTimestep[r] = rt
      BY <1>7, <3>1 DEF PeerInv, InUse, Unreleased, rt
    <3> QED BY <1>1, <2>1, <3>2
  <2> QED BY <2>1
<1>11. ASSUME NEW t \in Q(r), next <= t, t < this PROVE t = rt /\ Working(r)
  <2>1. t = CurrentWorkingTimestep[r]
    BY <1>1, <1>6, <1>11
  <2>2. t = rt
    BY <1>a, <1>7, <2>1 DEF PeerInv, InUse, rt
  <2> QED BY <1>6, <1>7, <2>2 DEF PeerInv, InUse, rt
<1>12. InUse(r)'
  BY <1>4, <1>7, <1>9, <1>10 DEF PeerInv, InUse, rt
<1>13. Passed(r)'
  <2> SUFFICES ASSUME NEW x \in {"main", "net"}, walk'[r][x].next # Nothing
               PROVE  /\ walk'[r][x].next < arrived[r]
                      /\ \A t \in Q(r) \ {this} : t < walk'[r][x].next => Working(r) /\ t = rt
    BY <1>4, <1>9 DEF Passed, rt
  <2>0. Passed(r)
    BY <1>7 DEF PeerInv
  <2>1. CASE x # th
    BY <1>2, <2>0, <2>1 DEF Passed, rt
  <2>2. CASE x = th
    <3>1. f # -1 /\ f < arrived[r]
      BY <1>2, <1>5, <1>6, <2>2
    <3>2. ASSUME NEW t \in Q(r) \ {this}, t < f PROVE Working(r) /\ t = rt
      <4>1. t < this
        BY <1>5, <1>6, <3>1, <3>2
      <4>2. CASE t < next
        BY <1>1, <2>0, <4>2 DEF Passed, next, rt
      <4>3. CASE next <= t
        BY <1>11, <4>1, <4>3
      <4> QED BY <1>6, <4>2, <4>3
    <3> QED BY <1>2, <2>2, <3>1, <3>2
  <2> QED BY <2>1, <2>2
<1>14. Late(r)'
  BY <1>4, <1>7, <1>9 DEF PeerInv, Late
<1>15. Released(r)'
  <2>0. Released(r)
    BY <1>7 DEF PeerInv
  <2>1. \A t \in StepNo : released'[r][t] > 0 => t < arrived[r]
    BY <1>1, <1>3, <1>6, <2>0 DEF Released
  <2>2. \A t \in Q(r) \ {this} : released'[r][t] = released[r][t]
    BY <1>3, <1>6
  <2>3. \A t \in StepNo : released'[r][t] <= IF MayComeLate THEN 2 ELSE 1
    <3>1. released[r][this] > 0 => MayComeLate /\ released[r][this] = 1
      BY <1>1, <2>0 DEF Released
    <3>2. released'[r][this] <= IF MayComeLate THEN 2 ELSE 1
      BY <1>3, <1>6, <3>1
    <3> QED BY <1>3, <2>0, <3>2 DEF Released
  <2>4. Unreleased(r) => released'[r][rt] = 0
    <3>1. Unreleased(r) => rt \in StepNo
      BY <1>6, <1>7 DEF PeerInv, InUse, rt
    <3> QED BY <1>3, <1>10, <2>0, <3>1 DEF Released, rt
  <2> QED BY <1>4, <1>9, <2>0, <2>1, <2>2, <2>3, <2>4 DEF Released, rt
<1>16. \A t \in StepNo : (released[r][t] > 0 => released'[r][t] > 0) /\ (t = this => released'[r][t] > 0)
  BY <1>3, <1>6
<1>17. Accounted(r)'
  BY <1>4, <1>7, <1>9, <1>16 DEF PeerInv, Accounted
<1>18. Informed(r)'
  BY <1>3, <1>4, <1>7, <1>9 DEF PeerInv, Informed
<1>19. Pending(r)'
  <2>0. Pending(r)
    BY <1>7 DEF PeerInv
  <2>1. pc[r] = "walk" => walk'[r]["main"].latest = DiscardPriorTimestep[r]
    <3>1. walk'[r]["main"].latest = walk[r]["main"].latest
      BY <1>2 DEF latest
    <3> QED BY <2>0, <3>1 DEF Pending
  <2>2. ASSUME NEW t \in Q(r) \ {this}, Ahead(r, t), t < DiscardPriorTimestep[r] PROVE Ahead(r, t)'
    <3>1. CASE th = "net"
      BY <1>2, <2>2, <3>1 DEF Ahead
    <3>2. CASE th = "main"
      <4>1. latest = DiscardPriorTimestep[r] /\ next <= t /\ pc[r] = "walk" /\ ~Working(r)
        BY <1>6, <2>0, <2>2, <3>2 DEF Pending, Ahead, next, latest, Working, Place
      <4>2. ~(t < this)
        BY <1>11, <4>1
      <4>3. f # -1 /\ f <= t
        BY <1>5, <1>6, <4>2
      <4> QED BY <1>2, <1>6, <3>2, <4>1, <4>3 DEF Ahead
    <3> QED BY <3>1, <3>2
  <2>3. \A t \in Q(r) : t \in StepNo
    BY <1>6
  <2> QED BY <1>4, <1>9, <1>16, <2>0, <2>1, <2>2, <2>3 DEF Pending
<1>20. RankInv(r)'
  BY <1>8, <1>12, <1>13, <1>14, <1>15, <1>17, <1>18, <1>19 DEF RankInv, PeerInv
<1> QED
  BY <1>1, <1>20, OneRank

(* A turn of the network thread in releasePriorTimesteps keeps the ranks' *)
(* invariants.                                                            *)
LEMMA WalkNetInv ==
  ASSUME ReaderInv, config' = config, freedTouched = {}, NEW r \in Rank, WalkNet(r)
  PROVE  \A s \in Rank : RankInv(s)'
<1> USE Domains
<1>1. /\ WalkTurn(r, "net")
      /\ UNCHANGED <<log, arrived, CMconn, Status, DiscardPriorTimestep, ReaderTimestep,
                     CurrentWorkingTimestep, pc, inStep, results>>
  BY DEF WalkNet, writerVars, statusVars, stepVars
<1>2. WalkEnds(r, "net") \/ \E this \in StepNo, last \in Pointer : WalkRemoves(r, "net", this, last)
  BY <1>1, RankFacts, WalkEffect
<1>3. CASE WalkEnds(r, "net")
  <2>1. Others(r)
    BY <1>1, <1>3, RankFacts DEF WalkEnds, infoVars, Others, Same
  <2>2. Place(r)'
    BY <1>1, <1>3, RankFacts, Fixed DEF WalkEnds, Place
  <2> QED BY <1>1, <1>3, <2>1, <2>2, WalkEndsInv
<1>4. ASSUME NEW this \in StepNo, NEW last \in Pointer, WalkRemoves(r, "net", this, last)
      PROVE  \A s \in Rank : RankInv(s)'
  <2>1. Others(r)
    BY <1>1, <1>4, RankFacts DEF WalkRemoves, InstallPrecious, Release, Others, Same
  <2> QED BY <1>1, <1>4, <2>1, WalkRemovesInv
<1> QED
  BY <1>2, <1>3, <1>4

(* A turn of the engine's thread in releasePriorTimesteps keeps the ranks' *)
(* invariants; when it ends, what is left in the queue is not older than   *)
(* the step settled on.                                                    *)
LEMMA WalkMainInv ==
  ASSUME ReaderInv, config' = config, freedTouched = {}, NEW r \in Rank, WalkMain(r)
  PROVE  \A s \in Rank : RankInv(s)'
<1> USE Domains
<1>1. /\ WalkTurn(r, "main") /\ pc[r] = "walk"
      /\ UNCHANGED <<log, arrived, CMconn, Status, DiscardPriorTimestep, ReaderTimestep,
                     CurrentWorkingTimestep>>
      /\ IF WalkDone(r, "main")
         THEN \/ Finish(r, "FatalError", Nothing)
              \/ Goto(r, "next") /\ UNCHANGED <<inStep, results>>
         ELSE UNCHANGED <<pc, inStep, results>>
  BY DEF WalkMain, writerVars, statusVars, stepVars
<1>2. WalkEnds(r, "main") \/ \E this \in StepNo, last \in Pointer : WalkRemoves(r, "main", this, last)
  BY <1>1, RankFacts, WalkEffect
<1>3. CASE WalkEnds(r, "main")
  <2>0. WalkDone(r, "main")
    BY <1>3, RankFacts DEF WalkEnds, WalkDone
  <2>1. Others(r)
    BY <1>1, <1>3, <2>0, RankFacts DEF WalkEnds, infoVars, Finish, Goto, Others, Same
  <2>2. ~inStep[r] /\ Place(r) /\ Status[r] # "Destroyed" /\ r \in Peered
    BY <1>1, RankFacts DEF Place
  <2>3. ~inStep'[r] /\ ~Settled(r)' /\ pc'[r] \in {"next", "user"}
    <3>1. CASE Finish(r, "FatalError", Nothing)
      <4>1. pc'[r] = "user" /\ ~inStep'[r]
            /\ results'[r] = Append(results[r], [status |-> "FatalError", step |-> Nothing])
        BY <3>1, RankFacts DEF Finish, Goto
      <4>2. results[r] \in Seq(Results) /\ [status |-> "FatalError", step |-> Nothing] \in Results
        <5>1. results[r] \in Seq(Results) /\ MaxSteps \in Nat /\ Nothing = -1
          BY RankFacts DEF Types, TypesOut
        <5> QED BY <5>1 DEF Results
      <4>3. Ended(r)'
        <5> DEFINE v == [status |-> "FatalError", step |-> Nothing]
        <5>1. v.status = "FatalError"
          OBVIOUS
        <5> HIDE DEF v
        <5>2. Append(results[r], v) # <<>> /\ Last(Append(results[r], v)) = v
          BY <4>2 DEF Last, v
        <5> QED BY <4>1, <5>1, <5>2 DEF Ended, v
      <4> QED BY <4>1, <4>3 DEF Settled
    <3>2. CASE Goto(r, "next") /\ UNCHANGED <<inStep, results>>
      BY <2>2, <3>2, RankFacts DEF Goto, Settled
    <3> QED BY <1>1, <2>0, <3>1, <3>2
  <2>4. Place(r)'
    BY <1>1, <2>2, <2>3, Fixed DEF Place
  <2> QED BY <1>1, <1>3, <2>1, <2>2, <2>3, <2>4, WalkEndsInv
<1>4. ASSUME NEW this \in StepNo, NEW last \in Pointer, WalkRemoves(r, "main", this, last)
      PROVE  \A s \in Rank : RankInv(s)'
  <2>0. ~WalkDone(r, "main")
    <3>1. walk'[r]["main"].latest = walk[r]["main"].latest
      BY <1>4, RankFacts DEF WalkRemoves, Types, TypesThreads, Walkers
    <3>2. this < walk[r]["main"].latest
      BY <1>4 DEF WalkRemoves, Releasable
    <3>3. walk[r]["main"].latest # -1
      BY <3>2, RankFacts DEF StepNo
    <3> QED BY <3>1, <3>3 DEF WalkDone, Resting, Walker, Nothing
  <2>1. Others(r)
    BY <1>1, <1>4, <2>0, RankFacts DEF WalkRemoves, InstallPrecious, Release, Others, Same
  <2> QED BY <1>1, <1>4, <2>0, <2>1, WalkRemovesInv
<1> QED
  BY <1>2, <1>3, <1>4

-----------------------------------------------------------------------------
(* waitForNextMetadata *)

(* What it drops from before the step that was settled on is released. *)
LEMMA DroppedAreReleased ==
  ASSUME ReaderInv, freedTouched = {}, NEW r \in Peered, pc[r] = "next", NEW D, Droppable(r, D)
  PROVE  \A t \in D : IsStep(t, {"step"}) => released[r][t] > 0
<1> SUFFICES ASSUME NEW t \in D, IsStep(t, {"step"}) PROVE released[r][t] > 0
  OBVIOUS
<1>0. r \in Rank
  BY Parameters DEF ReaderInv, Types, TypesWriter
<1>1. t \in Q(r)
  BY DEF Droppable, Q
<1>2. [Timestep |-> t, Metadata |-> FALSE] \notin Items(Timesteps[r])
  <2>1. ASSUME [Timestep |-> t, Metadata |-> FALSE] \in Items(Timesteps[r]) PROVE FALSE
    <3> DEFINE e == [Timestep |-> t, Metadata |-> FALSE]
    <3>1. e.Timestep = t /\ e.Metadata = FALSE
      OBVIOUS
    <3> HIDE DEF e
    <3>2. log[e.Timestep + 1].kind = "notice"
      BY <1>0, <2>1, <3>1, RankFacts DEF Queue, e
    <3> QED BY <3>1, <3>2 DEF IsStep
  <2> QED BY <2>1
<1>3. t < DiscardPriorTimestep[r]
  BY <1>2 DEF Droppable
<1>4. ~Ahead(r, t)
  BY DEF Ahead
<1> QED
  BY <1>0, <1>1, <1>3, <1>4, RankFacts DEF PeerInv, Pending

(* waitForNextMetadata delivers the smallest step of the queue, and what it *)
(* drops carries no data or was released.                                   *)
LEMMA NextMetadataInv ==
  ASSUME ReaderInv, config' = config, freedTouched = {}, NEW r \in Rank, NextMetadata(r)
  PROVE  \A s \in Rank : RankInv(s)'
<1> USE Domains, Fixed
<1>1. /\ pc[r] = "next"
      /\ UNCHANGED <<log, freedTouched, arrived, CMconn, DiscardPriorTimestep, Status, walk, released>>
  BY DEF NextMetadata, writerVars, statusVars
<1>2. /\ Place(r) /\ Queue(r) /\ r \in Peered /\ PeerInv(r) /\ Types
      /\ Status[r] # "Destroyed" /\ ~inStep[r] /\ ~Working(r)
  <2>1. Place(r) /\ Queue(r) /\ r \in Peered
    BY <1>1, RankFacts DEF Place
  <2> QED BY <1>1, <2>1, RankFacts DEF Place, Working
<1>3. /\ Nothing = -1
      /\ \A t \in Q(r) : t \in StepNo /\ t \in Int /\ t < arrived[r] /\ t > ReaderTimestep[r]
      /\ ReaderTimestep[r] \in Int /\ DiscardPriorTimestep[r] \in Int /\ StepNo \subseteq Int
      /\ \A t \in StepNo : released[r][t] \in Nat
  BY <1>2, RankFacts DEF PeerInv, InUse
<1>4. /\ \A t : IsStep(t, {"step"})' = IsStep(t, {"step"})
      /\ \A t : IsStep(t, {"step", "notice"})' = IsStep(t, {"step", "notice"})
  BY <1>1 DEF IsStep
<1>5. ASSUME NEW D \in SUBSET StepNo, Drops(r, D)
      PROVE  /\ Queue(r)' /\ Q(r)' = Q(r) \ D
             /\ \A s \in Rank \ {r} : Timesteps'[s] = Timesteps[s]
  <2>1. PICK nq \in Queues : /\ Sorted(nq) /\ Items(nq) \subseteq Items(Timesteps[r])
                             /\ Steps(nq) = Steps(Timesteps[r]) \ D
                             /\ Timesteps' = [Timesteps EXCEPT ![r] = nq]
    BY <1>5 DEF Drops
  <2>2. Timesteps'[r] = nq /\ \A s \in Rank \ {r} : Timesteps'[s] = Timesteps[s]
    BY <1>2, <2>1
  <2> QED BY <1>1, <1>2, <2>1, <2>2, ShrunkQueue DEF Q
<1>6. ASSUME NEW D, Installs(r, D)
      PROVE  formats'[r] = formats[r] \cup D /\ \A s \in Rank \ {r} : formats'[s] = formats[s]
  BY <1>2, <1>6 DEF Installs, InstallPrecious
<1>7. ASSUME NEW t \in StepNo, NEW D \in SUBSET StepNo, NextFound(r, t, D)
      PROVE  \A s \in Rank : RankInv(s)'
  <2>1. /\ t \in Q(r) /\ ReaderTimestep[r] < t /\ DiscardPriorTimestep[r] <= t
        /\ Droppable(r, D) /\ (\A u \in D : u < t)
        /\ \A u \in Q(r) : u < t => u \in D \/ u <= ReaderTimestep[r]
        /\ UNCHANGED <<inStep, results>>
    BY <1>7 DEF NextFound, Q
  <2>2. /\ Queue(r)' /\ Q(r)' = Q(r) \ D /\ formats'[r] = formats[r] \cup D \cup {t}
        /\ \A s \in Rank \ {r} : Timesteps'[s] = Timesteps[s] /\ formats'[s] = formats[s]
    BY <1>5, <1>6, <1>7 DEF NextFound
  <2>3. /\ CurrentWorkingTimestep'[r] = t /\ ReaderTimestep'[r] = t /\ pc'[r] = "get_attributes"
        /\ \A s \in Rank \ {r} : /\ CurrentWorkingTimestep'[s] = CurrentWorkingTimestep[s]
                                 /\ ReaderTimestep'[s] = ReaderTimestep[s] /\ pc'[s] = pc[s]
    BY <1>2, <1>7 DEF NextFound, Goto
  <2>4. Others(r)
    BY <1>1, <2>1, <2>2, <2>3 DEF Others, Same
  <2>5. Working(r)' /\ Unreleased(r)'
    BY <2>3 DEF Working, Unreleased
  <2>6. Place(r)'
    BY <1>1, <1>2, <2>1, <2>3 DEF Place
  <2>7. \A u \in Q(r)' : u > t \/ u = t
    BY <1>3, <2>1, <2>2
  <2>8. InUse(r)'
    <3>1. t \in Q(r)' /\ t < arrived[r] /\ t # Nothing
      BY <1>3, <2>1, <2>2 DEF StepNo
    <3> QED BY <1>1, <2>3, <2>5, <2>7, <3>1 DEF InUse
  <2>9. Passed(r)'
    BY <1>1, <1>2, <2>2, <2>5 DEF PeerInv, Passed
  <2>10. Late(r)'
    <3>1. DiscardPriorTimestep[r] <= arrived[r] /\ \A u \in Q(r)' : u >= DiscardPriorTimestep[r]
      <4>1. arrived[r] \in Int /\ t \in Int /\ t < arrived[r]
        BY <1>3, <2>1, RankFacts
      <4> QED BY <1>3, <2>1, <2>2, <2>7, <4>1
    <3> QED BY <1>1, <1>2, <3>1 DEF PeerInv, Late
  <2>11. Released(r)'
    <3>1. released[r][t] = 0
      <4>1. ~(t < DiscardPriorTimestep[r])
        BY <1>3, <2>1
      <4> QED BY <1>2, <1>3, <2>1, <4>1 DEF PeerInv, Released
    <3> QED BY <1>1, <1>2, <2>2, <2>3, <3>1 DEF PeerInv, Released
  <2>12. Accounted(r)'
    <3>1. \A u \in D : IsStep(u, {"step"}) => released[r][u] > 0
      BY <1>1, <1>2, <2>1, DroppedAreReleased
    <3>2. ~Unreleased(r)
      BY <1>1, <1>2 DEF Unreleased
    <3> QED BY <1>1, <1>2, <1>4, <2>2, <3>1, <3>2 DEF PeerInv, Accounted
  <2>13. Pending(r)'
    BY <1>1, <1>3, <2>1, <2>2, <2>3, <2>7 DEF Pending
  <2>14. Informed(r)'
    BY <1>1, <1>2, <1>4, <2>2, <2>3 DEF PeerInv, Informed
  <2>15. RankInv(r)'
    BY <2>2, <2>6, <2>8, <2>9, <2>10, <2>11, <2>12, <2>13, <2>14 DEF RankInv, PeerInv
  <2> QED BY <1>1, <2>4, <2>15, OneRank DEF ReaderInv
<1>8. ASSUME NEW D \in SUBSET StepNo, NextNone(r, D)
      PROVE  \A s \in Rank : RankInv(s)'
  <2>1. /\ Droppable(r, D) /\ (\A u \in Q(r) : u \in D \/ u <= ReaderTimestep[r])
        /\ UNCHANGED ReaderTimestep
    BY <1>8 DEF NextNone, Q
  <2>2. /\ Queue(r)' /\ Q(r)' = Q(r) \ D /\ formats'[r] = formats[r] \cup D
        /\ \A s \in Rank \ {r} : Timesteps'[s] = Timesteps[s] /\ formats'[s] = formats[s]
    BY <1>5, <1>6, <1>8 DEF NextNone
  <2>3. Q(r)' = {}
    BY <1>3, <2>1, <2>2
  <2>4. /\ CurrentWorkingTimestep'[r] \in {CurrentWorkingTimestep[r], Nothing}
        /\ ~inStep'[r] /\ pc'[r] \in {"user", "next"} /\ ~Settled(r)'
        /\ \A s \in Rank \ {r} : /\ CurrentWorkingTimestep'[s] = CurrentWorkingTimestep[s]
                                 /\ pc'[s] = pc[s] /\ inStep'[s] = inStep[s]
                                 /\ results'[s] = results[s]
    <3>1. CASE UNCHANGED <<CurrentWorkingTimestep, pc, inStep, results>>
      BY <1>1, <1>2, <3>1 DEF Settled
    <3>2. CASE /\ CurrentWorkingTimestep' = [CurrentWorkingTimestep EXCEPT ![r] = Nothing]
               /\ Finish(r, FinalStatus(r), Nothing)
      <4> DEFINE v == [status |-> FinalStatus(r), step |-> Nothing]
      <4>1. v.status \in {"EndOfStream", "FatalError"} /\ FinalStatus(r) # "OK"
        BY DEF FinalStatus
      <4>2. v \in Results
        <5>1. MaxSteps \in Nat /\ Nothing = -1
          BY RankFacts
        <5> QED BY <4>1, <5>1 DEF Results
      <4> HIDE DEF v
      <4>3. /\ pc'[r] = "user" /\ inStep'[r] = FALSE /\ results'[r] = Append(results[r], v)
            /\ results[r] \in Seq(Results)
        BY <1>2, <3>2, <4>1 DEF Finish, Goto, v, Types, TypesOut
      <4>4. Append(results[r], v) # <<>> /\ Last(Append(results[r], v)) = v
        BY <4>2, <4>3 DEF Last
      <4>5. Ended(r)'
        BY <4>1, <4>3, <4>4 DEF Ended
      <4>6. ~Settled(r)'
        BY <4>3, <4>5 DEF Settled
      <4> QED BY <1>2, <3>2, <4>3, <4>6 DEF Finish, Goto
    <3> QED BY <1>8, <3>1, <3>2 DEF NextNone
  <2>5. Others(r)
    BY <1>1, <2>1, <2>2, <2>4 DEF Others, Same
  <2>6. ~Working(r)' /\ ~Unreleased(r)' /\ ~Unreleased(r)
    BY <1>1, <1>2, <2>4 DEF Working, Unreleased
  <2>7. Place(r)'
    BY <1>1, <1>2, <2>4 DEF Place
  <2>8. InUse(r)' /\ Passed(r)' /\ Late(r)'
    BY <1>1, <1>2, <2>1, <2>3, <2>4, <2>6 DEF PeerInv, InUse, Passed, Late
  <2>9. Released(r)'
    BY <1>1, <1>2, <2>3, <2>6 DEF PeerInv, Released
  <2>10. Accounted(r)'
    <3>1. \A u \in D : IsStep(u, {"step"}) => released[r][u] > 0
      BY <1>1, <1>2, <2>1, DroppedAreReleased
    <3> QED BY <1>1, <1>2, <1>4, <2>2, <2>6, <3>1 DEF PeerInv, Accounted
  <2>11. Pending(r)'
    BY <1>1, <2>3, <2>4 DEF Pending
  <2>12. Informed(r)'
    BY <1>1, <1>2, <1>4, <2>2, <2>6 DEF PeerInv, Informed
  <2>13. RankInv(r)'
    BY <2>2, <2>7, <2>8, <2>9, <2>10, <2>11, <2>12 DEF RankInv, PeerInv
  <2> QED BY <1>1, <2>5, <2>13, OneRank DEF ReaderInv
<1> QED
  BY <1>2, <1>7, <1>8, RankFacts, NextEffect

-----------------------------------------------------------------------------
(* The writer's steps: the log grows, beyond what has arrived anywhere. *)

(* The writer adds to what it has sent and changes nothing of it. *)
LEMMA LogGrows ==
  ASSUME Types, Writer
  PROVE  /\ UNCHANGED <<arrived, CMconn, Status, Timesteps, DiscardPriorTimestep, ReaderTimestep,
                        CurrentWorkingTimestep, formats, pc, walk, inStep, results, released,
                        freedTouched>>
         /\ Len(log') \in Nat /\ Len(log) <= Len(log')
         /\ \A i \in 1 .. Len(log) : i \in DOMAIN log /\ i \in DOMAIN log' /\ log'[i] = log[i]
<1>1. UNCHANGED writerOnly
  BY DEF Writer, WriterResponds, WriterProvides, WriterCloses, WriterDies
<1>2. DOMAIN log = 1 .. Len(log) /\ Len(log) \in Nat
  <2>1. log \in Seq(Message)
    BY DEF Types, TypesWriter
  <2> QED BY <2>1, ListElements
<1>3. UNCHANGED log \/ \E m : log' = Append(log, m)
  BY DEF Writer, WriterResponds, WriterProvides, WriterCloses, WriterDies
<1>4. CASE UNCHANGED log
  BY <1>1, <1>2, <1>4 DEF writerOnly, streamVars, queueVars, infoVars, statusVars, stepVars,
     threadVars, outVars
<1>5. ASSUME NEW m, log' = Append(log, m)
      PROVE  /\ Len(log') \in Nat /\ Len(log) <= Len(log')
             /\ \A i \in 1 .. Len(log) : i \in DOMAIN log /\ i \in DOMAIN log' /\ log'[i] = log[i]
  <2>1. log \in Seq(Message \cup {m}) /\ m \in Message \cup {m}
    BY DEF Types, TypesWriter
  <2>2. /\ Len(log') = Len(log) + 1 /\ DOMAIN log' = 1 .. Len(log')
        /\ \A i \in 1 .. Len(log) : log'[i] = log[i]
    BY <1>5, <2>1, AppendProperties, ListElements
  <2> QED BY <1>2, <2>2
<1> QED
  BY <1>1, <1>3, <1>4, <1>5 DEF writerOnly, streamVars, queueVars, infoVars, statusVars, stepVars,
     threadVars, outVars

(* What the writer does keeps the ranks' invariants. *)
LEMMA WriterInv ==
  ASSUME ReaderInv, config' = config, Writer
  PROVE  \A s \in Rank : RankInv(s)'
<1> USE Fixed
<1> TAKE r \in Rank
<1>1. /\ UNCHANGED <<arrived, CMconn, Status, Timesteps, DiscardPriorTimestep, ReaderTimestep,
                     CurrentWorkingTimestep, formats, pc, walk, inStep, results, released,
                     freedTouched>>
      /\ Len(log') \in Nat /\ Len(log) <= Len(log')
      /\ \A i \in 1 .. Len(log) : i \in DOMAIN log /\ i \in DOMAIN log' /\ log'[i] = log[i]
  BY LogGrows DEF ReaderInv
<1>2. /\ Types /\ Queue(r) /\ Place(r) /\ arrived[r] \in Nat /\ arrived[r] <= Len(log) /\ Len(log) \in Nat
      /\ MaxSteps \in Nat /\ StepNo \subseteq Int
      /\ \A e \in Items(Timesteps[r]) : e.Timestep \in Nat
  <2>1. /\ Types /\ Queue(r) /\ Place(r) /\ arrived[r] \in Nat /\ MaxSteps \in Nat /\ StepNo \subseteq Int
        /\ Timesteps[r] \in Seq(Entries(MaxSteps))
    BY RankFacts
  <2>2. Len(log) \in Nat
    BY <2>1 DEF Types, TypesWriter
  <2>3. \A e \in Items(Timesteps[r]) : e.Timestep \in Nat
    BY <2>1, QueueElements DEF Items
  <2> QED BY <2>1, <2>2, <2>3 DEF Queue
<1>3. \A t \in StepNo : t < arrived[r] =>
         /\ IsStep(t, {"step"})' = IsStep(t, {"step"})
         /\ IsStep(t, {"step", "notice"})' = IsStep(t, {"step", "notice"})
  <2> SUFFICES ASSUME NEW t \in StepNo, t < arrived[r]
               PROVE  t + 1 \in DOMAIN log /\ t + 1 \in DOMAIN log' /\ log'[t + 1] = log[t + 1]
    BY DEF IsStep
  <2>1. t + 1 \in 1 .. Len(log)
    BY <1>2 DEF StepNo
  <2> QED BY <1>1, <2>1
<1>4. Place(r)'
  BY <1>1, <1>2 DEF Place
<1>5. Queue(r)'
  <2>1. ASSUME NEW e \in Items(Timesteps[r])
        PROVE  log'[e.Timestep + 1].kind = IF e.Metadata THEN "step" ELSE "notice"
    <3>1. e.Timestep < arrived[r] /\ log[e.Timestep + 1].kind = IF e.Metadata THEN "step" ELSE "notice"
      BY <1>2 DEF Queue
    <3>2. e.Timestep + 1 \in 1 .. Len(log)
      BY <1>2, <3>1
    <3> QED BY <1>1, <3>1, <3>2
  <2> QED BY <1>1, <1>2, <2>1 DEF Queue
<1>6. ASSUME r \in Peered PROVE PeerInv(r)'
  <2>0. PeerInv(r) /\ Q(r)' = Q(r) /\ \A t \in Q(r) : t \in StepNo /\ t < arrived[r]
    BY <1>1, <1>6, RankFacts DEF Q
  <2>1. /\ Working(r)' = Working(r) /\ Unreleased(r)' = Unreleased(r) /\ Settled(r)' = Settled(r)
        /\ \A t : Ahead(r, t)' = Ahead(r, t)
    BY <1>1 DEF Working, Unreleased, Settled, Ended, Ahead
  <2>2. InUse(r)' /\ Passed(r)' /\ Late(r)'
    BY <1>1, <2>0, <2>1 DEF PeerInv, InUse, Passed, Late
  <2>3. Released(r)'
    BY <1>1, <2>0, <2>1 DEF PeerInv, Released
  <2>4. Accounted(r)' /\ Informed(r)'
    BY <1>1, <1>3, <2>0, <2>1 DEF PeerInv, Accounted, Informed
  <2>5. Pending(r)'
    BY <1>1, <1>3, <2>0, <2>1 DEF PeerInv, Pending
  <2> QED BY <2>2, <2>3, <2>4, <2>5 DEF PeerInv
<1> QED
  BY <1>4, <1>5, <1>6 DEF RankInv

-----------------------------------------------------------------------------
(* The invariant holds, and what follows from it *)

(* No message of a broadcast goes to its root. *)
RootSilent == decision[0] = <<>>

IInv == ReaderInv /\ RootSilent

(* Rank 0 broadcasts and receives no broadcast. *)
LEMMA RootSilentStep ==
  ASSUME Types, RootSilent, [Next]_vars
  PROVE  RootSilent'
<1>1. 0 \in Rank /\ DOMAIN decision = Rank
  BY Parameters, Domains DEF Types, TypesWriter
<1>2. ASSUME NEW v, Distribute(v) PROVE RootSilent'
  BY <1>1, <1>2 DEF Distribute, RootSilent
<1>3. ASSUME UNCHANGED decision PROVE RootSilent'
  BY <1>3 DEF RootSilent
<1>4. ASSUME NEW v, Tell(v) PROVE RootSilent'
  BY <1>2, <1>3, <1>4 DEF Tell
<1>5. ASSUME NEW r \in Rank, Main(r) PROVE RootSilent'
  <2>1. CASE OpenResponse(r) \/ OpenEstablish(r) \/ SstGetAttributeData(r) \/ InstallAttributes(r)
             \/ EndStep(r) \/ SendRelease(r) \/ SstReaderClose(r) \/ SstStreamDestroy(r)
    BY <1>3, <2>1 DEF OpenResponse, OpenEstablish, SstGetAttributeData, InstallAttributes, EndStep,
       SendRelease, SstReaderClose, SstStreamDestroy, collVars
  <2>2. CASE BeginStep(r)
    BY <1>2, <1>3, <2>2 DEF BeginStep
  <2>3. ASSUME NEW t, Decide(r, t) PROVE RootSilent'
    BY <1>2, <1>3, <2>3 DEF Decide
  <2>4. CASE GatherDecide(r) \/ TimedWait(r)
    BY <1>3, <2>3, <2>4 DEF GatherDecide, TimedWait, collVars
  <2>5. CASE WalkMain(r)
    BY <1>2, <1>3, <2>5 DEF WalkMain
  <2>6. CASE NextMetadata(r)
    BY <1>3, <1>4, <2>6 DEF NextMetadata
  <2>7. CASE Follow(r)
    <3>1. r # 0 /\ decision' = [decision EXCEPT ![r] = Tail(@)]
      BY <2>7 DEF Follow, RootSilent
    <3> QED BY <1>1, <3>1 DEF RootSilent
  <2> QED BY <1>5, <2>1, <2>2, <2>4, <2>5, <2>6, <2>7 DEF Main
<1>6. ASSUME NEW r \in Rank, Net(r) PROVE RootSilent'
  BY <1>3, <1>6 DEF Net, CP_PeerSetupHandler, DiscardNotice, TimestepMetadata, WalkNet,
     CP_WriterCloseHandler, ReaderConnCloseHandler, triggerDataCondition, collVars
<1>7. ASSUME Barrier PROVE RootSilent'
  BY <1>3, <1>7 DEF Barrier, collVars
<1>8. ASSUME Writer PROVE RootSilent'
  BY <1>3, <1>8 DEF Writer, WriterResponds, WriterProvides, WriterCloses, WriterDies, writerOnly, collVars
<1>9. ASSUME UNCHANGED vars PROVE RootSilent'
  BY <1>3, <1>9 DEF vars, collVars
<1> QED
  BY <1>5, <1>6, <1>7, <1>8, <1>9 DEF Next, Reader, Finished, Undefined

(* Every action of a rank's thread that calls the engine keeps the *)
(* invariant, as long as no pointer it saved was freed.            *)
LEMMA MainStep ==
  ASSUME IInv, freedTouched = {}, NEW r \in Rank, Main(r)
  PROVE  Types' /\ config' = config /\ UNCHANGED log /\ \A s \in Rank : RankInv(s)'
<1>1. /\ config' = config /\ ReaderInv /\ Types /\ Sorted(Timesteps[r])
  BY RankFacts DEF Main, IInv
<1>2. CASE OpenResponse(r) \/ OpenEstablish(r)
  BY <1>1, <1>2, OpenTypes, OpenInv DEF OpenResponse, OpenEstablish, writerVars
<1>3. CASE BeginStep(r)
  BY <1>1, <1>3, BeginStepTypes, BeginStepInv DEF BeginStep, writerVars
<1>4. CASE r = 0 /\ GatherDecide(r)
  BY <1>1, <1>4, GatherDecideTypes, GatherDecideInv DEF GatherDecide, writerVars
<1>5. CASE TimedWait(r)
  BY <1>1, <1>5, TimedWaitTypes, TimedWaitInv DEF TimedWait, writerVars
<1>6. CASE WalkMain(r)
  BY <1>1, <1>6, WalkMainTypes, WalkMainInv DEF WalkMain, writerVars
<1>7. CASE NextMetadata(r)
  BY <1>1, <1>7, NextMetadataTypes, NextMetadataInv DEF NextMetadata, writerVars
<1>8. CASE Follow(r)
  <2>1. r # 0
    BY <1>8 DEF Follow, IInv, RootSilent
  <2> QED BY <1>1, <1>8, <2>1, FollowTypes, FollowInv DEF Follow, writerVars
<1>9. CASE SstGetAttributeData(r) \/ InstallAttributes(r)
  BY <1>1, <1>9, AttributesTypes, AttributesInv DEF SstGetAttributeData, InstallAttributes, writerVars
<1>10. CASE EndStep(r)
  BY <1>1, <1>10, EndStepTypes, EndStepInv DEF EndStep, writerVars
<1>11. CASE SendRelease(r)
  <2>1. ReaderTimestep[r] # Nothing \/ r \notin Peered
    BY <1>1, <1>11, RankFacts DEF SendRelease, PeerInv, InUse, Unreleased
  <2> QED BY <1>1, <1>11, <2>1, SendReleaseTypes, SendReleaseInv DEF SendRelease, writerVars
<1>12. CASE SstReaderClose(r)
  BY <1>1, <1>12, CloseTypes, SstReaderCloseInv DEF SstReaderClose, writerVars
<1>13. CASE SstStreamDestroy(r)
  BY <1>1, <1>13, CloseTypes, DestroyInv DEF SstStreamDestroy, writerVars
<1> QED
  BY <1>2, <1>3, <1>4, <1>5, <1>6, <1>7, <1>8, <1>9, <1>10, <1>11, <1>12, <1>13 DEF Main

(* Every action of a rank's network thread keeps the invariant, as long as *)
(* no pointer it saved was freed.                                          *)
LEMMA NetStep ==
  ASSUME IInv, freedTouched = {}, NEW r \in Rank, Net(r)
  PROVE  Types' /\ config' = config /\ UNCHANGED log /\ \A s \in Rank : RankInv(s)'
<1>1. /\ config' = config /\ ReaderInv /\ Types /\ LogOrdered /\ Sorted(Timesteps[r])
      /\ \A t \in Steps(Timesteps[r]) : t < arrived[r]
  BY RankFacts DEF Net, IInv, ReaderInv, Q
<1>2. CASE CP_PeerSetupHandler(r) \/ ReaderConnCloseHandler(r) \/ triggerDataCondition(r)
  BY <1>1, <1>2, NetTypes, NetInv DEF CP_PeerSetupHandler, ReaderConnCloseHandler,
     triggerDataCondition, writerVars
<1>3. CASE DiscardNotice(r) \/ CP_WriterCloseHandler(r)
  BY <1>1, <1>3, NetTypes, PassingInv DEF DiscardNotice, CP_WriterCloseHandler, writerVars
<1>4. CASE TimestepMetadata(r)
  BY <1>1, <1>4, TimestepMetadataTypes, TimestepMetadataInv DEF TimestepMetadata, writerVars
<1>5. CASE WalkNet(r)
  BY <1>1, <1>5, WalkNetTypes, WalkNetInv DEF WalkNet, writerVars
<1> QED
  BY <1>2, <1>3, <1>4, <1>5 DEF Net

(* A barrier of all ranks keeps the invariant. *)
LEMMA BarrierStep ==
  ASSUME IInv, Barrier
  PROVE  Types' /\ config' = config /\ UNCHANGED log /\ \A s \in Rank : RankInv(s)'
  BY BarrierTypes, BarrierInv DEF IInv, ReaderInv, Barrier, writerVars

(* A step that changes nothing keeps the invariant. *)
LEMMA StutterStep ==
  ASSUME IInv, UNCHANGED vars
  PROVE  Types' /\ config' = config /\ UNCHANGED log /\ \A s \in Rank : RankInv(s)'
<1>1. /\ config' = config /\ UNCHANGED log /\ UNCHANGED freedTouched
      /\ UNCHANGED <<writerVars, arrived, CMconn>> /\ UNCHANGED statusVars
      /\ UNCHANGED <<queueVars, stepVars>> /\ UNCHANGED infoVars /\ UNCHANGED <<pc, npc, walk>>
      /\ UNCHANGED collVars /\ UNCHANGED <<outVars, freedTouched>>
  BY DEF vars, streamVars, threadVars, writerVars
<1>2. Types'
  BY <1>1, Untouched DEF IInv, ReaderInv, Types
<1>3. ASSUME NEW s \in Rank PROVE RankInv(s)'
  <2>1. Same(s)
    BY <1>1 DEF Same, statusVars, queueVars, stepVars, infoVars, outVars
  <2> QED BY <1>1, <2>1, Bystander DEF IInv, ReaderInv
<1> QED
  BY <1>1, <1>2, <1>3

(* SstReaderOpen establishes the invariant. *)
LEMMA IInvInit == Init => IInv
<1> SUFFICES ASSUME Init PROVE IInv
  OBVIOUS
<1>1. Types /\ \A r \in Rank : RankInv(r)
  BY InitTypes, InitInv
<1>2. LogOrdered
  BY DEF Init, LogOrdered
<1>3. RootSilent
  BY <1>1, Parameters DEF Init, RootSilent, Types, TypesWriter
<1> QED
  BY <1>1, <1>2, <1>3 DEF IInv, ReaderInv

(* Every step of the reader and of the writer keeps the invariant. *)
LEMMA IInvStep == IInv /\ [Next]_vars => IInv'
<1> SUFFICES ASSUME IInv, [Next]_vars PROVE IInv'
  OBVIOUS
<1>1. RootSilent'
  BY RootSilentStep DEF IInv, ReaderInv
<1>2. ASSUME config' = config, UNCHANGED log PROVE LogOrdered'
  BY <1>2, Fixed DEF IInv, ReaderInv, LogOrdered
<1>3. CASE freedTouched = {} /\ Writer
  <2>1. Types' /\ LogOrdered' /\ config' = config
    BY <1>3, WriterTypes DEF IInv, ReaderInv
  <2> QED BY <1>1, <1>3, <2>1, WriterInv DEF IInv, ReaderInv
<1>4. CASE Reader \/ UNCHANGED vars
  <2>1. Types' /\ config' = config /\ UNCHANGED log /\ \A s \in Rank : RankInv(s)'
    BY <1>4, MainStep, NetStep, BarrierStep, StutterStep DEF Reader
  <2> QED BY <1>1, <1>2, <2>1 DEF IInv, ReaderInv
<1> QED
  BY <1>3, <1>4 DEF Next, Finished, Undefined

(* The reader's inductive invariant holds in every state: the queue of each *)
(* rank in order (queueTimestepMetadataMsgAndNotify), the step in use its   *)
(* smallest (waitForNextMetadata), and where the threads in                 *)
(* releasePriorTimesteps have come to in it.                                *)
THEOREM ReaderInductive == Spec => []IInv
  BY IInvInit, IInvStep, PTL DEF Spec

-----------------------------------------------------------------------------

(* The parts of the type invariant are the type invariant of the model. *)
LEMMA ReaderTypesImplied == IInv => TypeOK
<1> SUFFICES ASSUME IInv PROVE TypeOK
  OBVIOUS
<1>0. Types /\ LogOrdered /\ MaxSteps \in Nat /\ Nothing = -1
  BY Parameters DEF IInv, ReaderInv, Types, TypesWriter, Nothing
<1>1. /\ log \in Seq(Message) /\ DOMAIN log = 1 .. Len(log) /\ Len(log) \in Nat
      /\ \A i \in DOMAIN log : log[i] \in Message
  <2>1. log \in Seq(Message)
    BY <1>0 DEF Types, TypesWriter
  <2> QED BY <2>1, ListElements
<1>2. Len(log) <= MaxSteps + 1
  <2>1. CASE Len(log) = 0
    BY <1>0, <2>1
  <2>2. CASE Len(log) # 0
    <3>1. Len(log) \in DOMAIN log
      BY <1>1, <2>2
    <3>2. Len(log) <= MaxSteps \/ Len(log) <= MaxSteps + 1
      BY <1>0, <3>1 DEF LogOrdered
    <3> QED BY <1>0, <1>1, <3>2
  <2> QED BY <2>1, <2>2
<1>3. arrived \in [Rank -> 0 .. MaxSteps + 1]
  <2>1. arrived \in [Rank -> Nat] /\ \A r \in Rank : arrived[r] <= Len(log)
    BY <1>0 DEF IInv, ReaderInv, RankInv, Queue, Types, TypesWriter
  <2> QED BY <1>0, <1>1, <1>2, <2>1
<1>4. \A i \in DOMAIN log : log[i] \in [kind : {"step", "notice", "close"},
                                          Timestep : Nothing .. MaxSteps - 1]
  BY <1>1 DEF Message, Pointer
<1>5. /\ writerUp \in BOOLEAN /\ response \in BOOLEAN
      /\ CMconn \in [Rank -> {"none", "up", "watched", "lost"}]
      /\ Status \in [Rank -> {"NotOpen", "Established", "PeerClosed", "PeerFailed", "Destroyed"}]
      /\ FinalTimestep \in [Rank -> Nothing .. Infinity]
      /\ released \in [Rank -> [0 .. MaxSteps - 1 -> Nat]]
      /\ freedTouched \subseteq {"entry", "attributes"}
  BY <1>0 DEF Types, TypesWriter, TypesStatus, TypesOut, Statuses, StepNo
<1>6. /\ DiscardPriorTimestep \in [Rank -> Nothing .. MaxSteps]
      /\ ReaderTimestep \in [Rank -> Nothing .. MaxSteps]
      /\ CurrentWorkingTimestep \in [Rank -> Nothing .. MaxSteps]
  <2>1. Pointer \subseteq Nothing .. MaxSteps
    BY <1>0 DEF Pointer
  <2> QED BY <1>0, <2>1 DEF Types, TypesQueue
<1>7. \A r \in Rank : \A i \in DOMAIN Timesteps[r] :
           Timesteps[r][i] \in [Timestep : 0 .. MaxSteps - 1, Metadata : BOOLEAN]
  <2>1. \A r \in Rank : Timesteps[r] \in Seq(Entries(MaxSteps))
    BY <1>0 DEF Types, TypesQueue, Queues
  <2> QED BY <2>1, ListElements, Zenon DEF Entries
<1>8. \A r \in Rank : ToSet(results[r]) \subseteq Results
  <2>1. \A r \in Rank : results[r] \in Seq(Results)
    BY <1>0 DEF Types, TypesOut
  <2> TAKE r \in Rank
  <2>2. \A i \in DOMAIN results[r] : results[r][i] \in Results
    BY <2>1, ListElements, Zenon
  <2> QED BY <2>2 DEF ToSet
<1> QED
  BY <1>3, <1>4, <1>5, <1>6, <1>7, <1>8 DEF TypeOK

(* The type invariant: every variable of the reader stays in its range, *)
(* whatever the number of ranks and steps and in every configuration.   *)
THEOREM ReaderTypeCorrect == Spec => []TypeOK
  BY ReaderInductive, ReaderTypesImplied, PTL

(* A rank with a connection to the writer has its invariant. *)
LEMMA PeerFacts ==
  ASSUME IInv, NEW r \in Peered
  PROVE  r \in Rank /\ PeerInv(r)
<1>1. r \in Rank
  BY Parameters DEF IInv, ReaderInv, Types, TypesWriter
<1> QED
  BY <1>1 DEF IInv, ReaderInv, RankInv

(* The entry of the step that the engine is working on stays in the queue *)
(* until SstReleaseStep takes it out, whatever the handlers and the walks *)
(* of releasePriorTimesteps do meanwhile.                                 *)
THEOREM EntryStaysQueued == Spec => []CurrentEntryQueued
<1>1. IInv => CurrentEntryQueued
  BY PeerFacts DEF CurrentEntryQueued, PeerInv, InUse, Q
<1> QED
  BY <1>1, ReaderInductive, PTL

(* No rank releases a step to the writer twice, but for a step that arrives *)
(* when a later one was settled on, which queueTimestepMetadataMsgAndNotify *)
(* and releasePriorTimesteps may each release.                              *)
THEOREM StepsReleasedOnce == Spec => []ReleasedOnce
<1>1. IInv => ReleasedOnce
  <2> SUFFICES ASSUME IInv, NEW r \in Peered, NEW t \in DOMAIN released[r]
               PROVE  released[r][t] <= (IF Unreleased(r) /\ t = ReaderTimestep[r] THEN 0
                                         ELSE IF MayComeLate THEN 2 ELSE 1)
    BY DEF ReleasedOnce
  <2>1. t \in StepNo
    BY PeerFacts, Domains DEF IInv, ReaderInv
  <2>2. Released(r)
    BY PeerFacts DEF PeerInv
  <2> QED BY <2>1, <2>2 DEF Released
<1> QED
  BY <1>1, ReaderInductive, PTL

(* The writer's steps are numbered by the messages that came before. *)
LEMMA LoggedSteps ==
  ASSUME IInv, NEW i \in DOMAIN log, log[i].kind # "close"
  PROVE  log[i].Timestep \in StepNo /\ log[i].Timestep = i - 1 /\ log[i].Timestep + 1 = i
<1>1. log \in Seq(Message) /\ MaxSteps \in Nat /\ LogOrdered
  BY Parameters DEF IInv, ReaderInv, Types, TypesWriter
<1>2. DOMAIN log = 1 .. Len(log) /\ Len(log) \in Nat
  BY <1>1, ListElements
<1>3. log[i].Timestep = i - 1 /\ i <= MaxSteps
  BY <1>1 DEF LogOrdered
<1> QED
  BY <1>1, <1>2, <1>3 DEF StepNo

(* A step with data that has arrived at a rank is queued, in use or was *)
(* released to the writer: none is forgotten, neither by                *)
(* releasePriorTimesteps nor by waitForNextMetadata.                    *)
THEOREM StepsAreAccountedFor == Spec => []StepsAccountedFor
<1>1. IInv => StepsAccountedFor
  <2> SUFFICES ASSUME IInv, NEW r \in Peered, Status[r] # "Destroyed", NEW t \in Known(r, {"step"})
               PROVE  \/ t \in Steps(Timesteps[r])
                      \/ released[r][t] > 0
                      \/ Unreleased(r) /\ t = ReaderTimestep[r]
    BY DEF StepsAccountedFor
  <2>1. PICK i \in 1 .. arrived[r] : log[i].kind = "step" /\ log[i].Timestep = t
    BY DEF Known
  <2>2. r \in Rank /\ PeerInv(r) /\ Queue(r) /\ arrived[r] \in Nat /\ Types
    BY PeerFacts, RankFacts DEF IInv
  <2>3. i \in DOMAIN log
    <3>1. log \in Seq(Message)
      BY <2>2 DEF Types, TypesWriter
    <3>2. DOMAIN log = 1 .. Len(log) /\ Len(log) \in Nat /\ arrived[r] <= Len(log)
      BY <2>2, <3>1, ListElements DEF Queue
    <3> QED BY <2>2, <3>2
  <2>4. t \in StepNo /\ t < arrived[r] /\ IsStep(t, {"step"})
    <3>1. t \in StepNo /\ t = i - 1 /\ t + 1 = i
      BY <2>1, <2>3, LoggedSteps
    <3> QED BY <2>1, <2>2, <2>3, <3>1 DEF IsStep
  <2> QED BY <2>2, <2>4 DEF PeerInv, Accounted, Q
<1> QED
  BY <1>1, ReaderInductive, PTL

(* When a step is delivered, a rank with a connection to the writer has     *)
(* installed the formats of every step up to it, those it skipped included. *)
THEOREM FormatsAreComplete == Spec => []FormatsComplete
<1>1. IInv => FormatsComplete
  <2> SUFFICES ASSUME IInv, NEW r \in Peered, Working(r),
                      NEW t \in Logged({"step", "notice"}), t <= ReaderTimestep[r]
               PROVE  t \in formats[r]
    BY DEF FormatsComplete
  <2>1. PICK i \in DOMAIN log : log[i].kind \in {"step", "notice"} /\ log[i].Timestep = t
    BY DEF Logged
  <2>2. /\ r \in Rank /\ PeerInv(r) /\ Place(r) /\ arrived[r] \in Nat
        /\ ReaderTimestep[r] \in Int /\ StepNo \subseteq Int
        /\ \A u \in Q(r) : u \in Int
    BY PeerFacts, RankFacts DEF IInv
  <2>3. t \in StepNo /\ t + 1 = i
    BY <2>1, LoggedSteps
  <2>4. IsStep(t, {"step", "notice"})
    BY <2>1, <2>3 DEF IsStep
  <2>5. t < arrived[r] /\ Status[r] # "Destroyed"
    <3>1. ReaderTimestep[r] < arrived[r]
      BY <2>2 DEF PeerInv, InUse
    <3>2. Status[r] # "Destroyed"
      BY <2>2 DEF Place, Working
    <3> QED BY <2>2, <2>3, <3>1, <3>2
  <2>6. t \in formats[r] \cup Q(r)
    BY <2>2, <2>3, <2>4, <2>5 DEF PeerInv, Informed
  <2>7. ASSUME t \in Q(r) PROVE t = ReaderTimestep[r]
    <3>1. t > ReaderTimestep[r] \/ t = ReaderTimestep[r]
      BY <2>2, <2>7 DEF PeerInv, InUse
    <3> QED BY <2>2, <2>7, <3>1
  <2> QED BY <2>2, <2>6, <2>7 DEF PeerInv, Informed
<1> QED
  BY <1>1, ReaderInductive, PTL

-----------------------------------------------------------------------------
(* The order of the attributes *)

Undecided == UNCHANGED decision \/ \E v \in Decisions : v.status # "OK" /\ Distribute(v)

(* What rank 0 has listed is older than what it has yet to give out. *)
RootListed ==
    \A u \in ToSet(InternalAttrDataInfo[0]) :
        /\ u < arrived[0]
        /\ \A t \in Q(0) : u < t \/ (Working(0) /\ t = ReaderTimestep[0])

(* What another rank has listed is older than what it has yet to be told of. *)
FollowerListed(r) ==
    /\ \A u \in ToSet(InternalAttrDataInfo[r]) : u <= ReaderTimestep[0]
    /\ \A k \in DOMAIN decision[r] : decision[r][k].status = "OK" =>
           /\ decision[r][k].step <= ReaderTimestep[0]
           /\ \A u \in ToSet(InternalAttrDataInfo[r]) : u < decision[r][k].step
           /\ \A j \in DOMAIN decision[r] :
                  j < k /\ decision[r][j].status = "OK" => decision[r][j].step < decision[r][k].step

Listed ==
    CPCommPattern = "Min" =>
        /\ \A r \in Rank : Increasing(InternalAttrDataInfo[r])
        /\ RootListed
        /\ \A r \in Rank \ {0} : FollowerListed(r)

(* Two sequences of steps in order make one when all of the first are older *)
(* than all of the second.                                                  *)
LEMMA Appended ==
  ASSUME NEW N \in Nat, NEW s \in Seq(0 .. N - 1), NEW ts \in Seq(0 .. N - 1),
         Increasing(s), Increasing(ts), \A u \in ToSet(s), v \in ToSet(ts) : u < v
  PROVE  Increasing(s \o ts) /\ ToSet(s \o ts) = ToSet(s) \cup ToSet(ts)
<1> DEFINE c == s \o ts
<1>1. /\ DOMAIN s = 1 .. Len(s) /\ Len(s) \in Nat /\ DOMAIN ts = 1 .. Len(ts) /\ Len(ts) \in Nat
      /\ DOMAIN c = 1 .. (Len(s) + Len(ts))
      /\ \A i \in DOMAIN c : c[i] = IF i <= Len(s) THEN s[i] ELSE ts[i - Len(s)]
  OBVIOUS
<1> HIDE DEF c
<1>2. ASSUME NEW i \in DOMAIN c
      PROVE  \/ i \in DOMAIN s /\ c[i] = s[i]
             \/ i - Len(s) \in DOMAIN ts /\ c[i] = ts[i - Len(s)] /\ i > Len(s)
  BY <1>1
<1>3. Increasing(c)
  <2> SUFFICES ASSUME NEW i \in DOMAIN c, NEW j \in DOMAIN c, i < j PROVE c[i] < c[j]
    BY DEF Increasing
  <2>1. CASE j \in DOMAIN s /\ c[j] = s[j]
    <3>1. i \in DOMAIN s /\ c[i] = s[i]
      BY <1>1, <2>1
    <3> QED BY <2>1, <3>1 DEF Increasing
  <2>2. CASE j - Len(s) \in DOMAIN ts /\ c[j] = ts[j - Len(s)] /\ j > Len(s)
    <3>1. CASE i \in DOMAIN s /\ c[i] = s[i]
      BY <2>2, <3>1 DEF ToSet
    <3>2. CASE i - Len(s) \in DOMAIN ts /\ c[i] = ts[i - Len(s)] /\ i > Len(s)
      <4>1. i - Len(s) < j - Len(s)
        BY <1>1
      <4> QED BY <2>2, <3>2, <4>1 DEF Increasing
    <3> QED BY <1>2, <3>1, <3>2
  <2> QED BY <1>2, <2>1, <2>2
<1>4. ToSet(c) = ToSet(s) \cup ToSet(ts)
  <2>1. \A i \in DOMAIN s : i \in DOMAIN c /\ c[i] = s[i]
    BY <1>1
  <2>2. ASSUME NEW i \in DOMAIN ts
        PROVE  i + Len(s) \in DOMAIN c /\ c[i + Len(s)] = ts[i]
    <3>1. i \in 1 .. Len(ts) /\ i \in Int
      BY <1>1
    <3>2. /\ i + Len(s) \in DOMAIN c /\ ~(i + Len(s) <= Len(s))
          /\ (i + Len(s)) - Len(s) = i
      BY <1>1, <3>1
    <3> QED BY <1>1, <3>2
  <2>3. ToSet(s) \cup ToSet(ts) \subseteq ToSet(c)
    BY <2>1, <2>2 DEF ToSet
  <2>4. ToSet(c) \subseteq ToSet(s) \cup ToSet(ts)
    BY <1>2 DEF ToSet
  <2> QED BY <2>3, <2>4
<1> QED
  BY <1>3, <1>4 DEF c

(* New blocks, newer than those that are listed, keep the list in order. *)
LEMMA InstalledInOrder ==
  ASSUME Types, NEW r \in Rank, NEW ts \in Seq(StepNo), InstallPrecious(r, ts),
         Increasing(InternalAttrDataInfo[r]), Increasing(ts),
         \A u \in ToSet(InternalAttrDataInfo[r]), v \in ToSet(ts) : u < v
  PROVE  /\ Increasing(InternalAttrDataInfo'[r])
         /\ ToSet(InternalAttrDataInfo'[r]) \subseteq ToSet(InternalAttrDataInfo[r]) \cup ToSet(ts)
         /\ \A s \in Rank \ {r} : InternalAttrDataInfo'[s] = InternalAttrDataInfo[s]
<1> DEFINE s == InternalAttrDataInfo[r]
<1>1. s \in Seq(StepNo) /\ MaxSteps \in Nat /\ DOMAIN InternalAttrDataInfo = Rank
  BY Parameters, Domains DEF Types, TypesInfo, TypesWriter
<1>2. Increasing(s \o ts) /\ ToSet(s \o ts) = ToSet(s) \cup ToSet(ts)
  BY <1>1, Appended DEF StepNo
<1>3. /\ InternalAttrDataInfo'[r] \in {s, ts, s \o ts}
      /\ \A x \in Rank \ {r} : InternalAttrDataInfo'[x] = InternalAttrDataInfo[x]
  BY <1>1 DEF InstallPrecious
<1> HIDE DEF s
<1>4. CASE InternalAttrDataInfo'[r] = s
  BY <1>3, <1>4 DEF s
<1>5. CASE InternalAttrDataInfo'[r] = ts
  BY <1>3, <1>5
<1>6. CASE InternalAttrDataInfo'[r] = s \o ts
  BY <1>2, <1>3, <1>6 DEF s
<1> QED
  BY <1>3, <1>4, <1>5, <1>6

(* A rank is told of a step, or of a status, that rank 0 decided. *)
LEMMA ToldInOrder ==
  ASSUME Types, NEW r \in Rank \ {0}, FollowerListed(r), NEW v \in Decisions,
         decision'[r] = Append(decision[r], v), InternalAttrDataInfo'[r] = InternalAttrDataInfo[r],
         ReaderTimestep'[0] \in Int, ReaderTimestep[0] <= ReaderTimestep'[0],
         v.status = "OK" => v.step = ReaderTimestep'[0] /\ ReaderTimestep[0] < ReaderTimestep'[0]
  PROVE  FollowerListed(r)'
<1> DEFINE d == decision[r]
           rt == ReaderTimestep[0]
           nt == ReaderTimestep'[0]
<1>1. d \in Seq(Decisions) /\ rt \in Int /\ nt \in Int /\ rt <= nt
      /\ \A u \in ToSet(InternalAttrDataInfo[r]) : u \in Int
  <2>1. d \in Seq(Decisions) /\ rt \in Pointer /\ InternalAttrDataInfo[r] \in Seq(StepNo)
        /\ MaxSteps \in Nat /\ Nothing = -1
    BY Parameters DEF Types, TypesColl, TypesQueue, TypesInfo, TypesWriter, Nothing
  <2>2. StepNo \subseteq Int /\ Pointer \subseteq Int
    BY <2>1 DEF StepNo, Pointer
  <2>3. \A i \in DOMAIN InternalAttrDataInfo[r] : InternalAttrDataInfo[r][i] \in StepNo
    BY <2>1, ListElements, Zenon
  <2>4. \A u \in ToSet(InternalAttrDataInfo[r]) : u \in Int
    BY <2>2, <2>3 DEF ToSet
  <2> QED BY <2>1, <2>2, <2>4
<1>2. DOMAIN d = 1 .. Len(d) /\ Len(d) \in Nat /\ \A k \in DOMAIN d : d[k] \in Decisions /\ k \in Int
  <2>1. DOMAIN d = 1 .. Len(d) /\ Len(d) \in Nat /\ \A k \in DOMAIN d : d[k] \in Decisions
    BY <1>1, ListElements, Zenon
  <2> QED BY <2>1
<1>3. /\ DOMAIN decision'[r] = 1 .. (Len(d) + 1)
      /\ decision'[r][Len(d) + 1] = v
      /\ \A k \in DOMAIN d : decision'[r][k] = d[k]
  <2>1. /\ Append(d, v) \in Seq(Decisions) /\ Len(Append(d, v)) = Len(d) + 1
        /\ Append(d, v)[Len(d) + 1] = v /\ \A k \in 1 .. Len(d) : Append(d, v)[k] = d[k]
    BY <1>1, AppendProperties
  <2>2. DOMAIN Append(d, v) = 1 .. (Len(d) + 1)
    BY <2>1, ListElements
  <2> QED BY <1>2, <2>1, <2>2
<1>4. \A k \in DOMAIN d : d[k].status = "OK" => d[k].step \in Int
  <2>1. \A x \in Decisions : x.step \in Int
    BY Parameters DEF Types, TypesWriter, Decisions, Results, Nothing
  <2> QED BY <1>2, <2>1
<1>5. \A u \in ToSet(InternalAttrDataInfo'[r]) : u <= nt
  BY <1>1 DEF FollowerListed
<1> DEFINE Good(k) == decision'[r][k].status = "OK" =>
                 /\ decision'[r][k].step <= nt
                 /\ \A u \in ToSet(InternalAttrDataInfo'[r]) : u < decision'[r][k].step
                 /\ \A j \in DOMAIN decision'[r] :
                      j < k /\ decision'[r][j].status = "OK" => decision'[r][j].step < decision'[r][k].step
<1>6. ASSUME NEW k \in DOMAIN d PROVE Good(k)
  <2>1. \A j \in DOMAIN decision'[r] : j < k => j \in DOMAIN d
    BY <1>2, <1>3
  <2> QED BY <1>1, <1>3, <1>4, <1>6, <2>1 DEF FollowerListed
<1>7. Good(Len(d) + 1)
  <2> SUFFICES ASSUME v.status = "OK" PROVE Good(Len(d) + 1)
    BY <1>3
  <2>1. v.step = nt /\ rt < nt
    OBVIOUS
  <2>2. \A u \in ToSet(InternalAttrDataInfo'[r]) : u < nt
    BY <1>1, <2>1 DEF FollowerListed
  <2>3. \A j \in DOMAIN decision'[r] :
           j < Len(d) + 1 /\ decision'[r][j].status = "OK" => decision'[r][j].step < nt
    <3> TAKE j \in DOMAIN decision'[r]
    <3> HAVE j < Len(d) + 1 /\ decision'[r][j].status = "OK"
    <3>1. j \in DOMAIN d
      BY <1>2, <1>3
    <3> QED BY <1>1, <1>3, <1>4, <2>1, <3>1 DEF FollowerListed
  <2> QED BY <1>1, <1>3, <2>1, <2>2, <2>3
<1>8. \A k \in DOMAIN decision'[r] : Good(k)
  <2> HIDE DEF Good
  <2>1. \A k \in DOMAIN decision'[r] : k \in DOMAIN d \/ k = Len(d) + 1
    BY <1>2, <1>3
  <2> QED BY <1>6, <1>7, <2>1
<1> QED
  BY <1>5, <1>8 DEF FollowerListed

(* An action that installs nothing, and decides on no step *)
LEMMA ListedKept ==
  ASSUME Types, config' = config, Listed, UNCHANGED InternalAttrDataInfo,
         CPCommPattern = "Min" => /\ ReaderTimestep'[0] = ReaderTimestep[0]
                                  /\ arrived'[0] \in Nat /\ arrived[0] <= arrived'[0]
                                  /\ Q(0)' \subseteq Q(0) \cup (arrived[0] .. arrived'[0] - 1)
                                  /\ \A t \in Q(0)' : Working(0) /\ t = ReaderTimestep[0] => Working(0)'
                                  /\ Undecided
  PROVE  Listed'
<1> SUFFICES ASSUME CPCommPattern = "Min" PROVE Listed'
  BY Fixed DEF Listed
<1>1. /\ 0 \in Rank /\ DOMAIN decision = Rank /\ ReaderTimestep[0] \in Int /\ arrived[0] \in Nat
      /\ \A u \in ToSet(InternalAttrDataInfo[0]) : u \in Int
  <2>1. 0 \in Rank /\ MaxSteps \in Nat /\ Nothing = -1
    BY Parameters DEF Types, TypesWriter, Nothing
  <2>2. /\ DOMAIN decision = Rank /\ ReaderTimestep[0] \in Pointer /\ arrived[0] \in Nat
        /\ InternalAttrDataInfo[0] \in Seq(StepNo)
    BY <2>1, Domains DEF Types, TypesQueue, TypesWriter, TypesInfo
  <2>3. \A i \in DOMAIN InternalAttrDataInfo[0] : InternalAttrDataInfo[0][i] \in StepNo
    BY <2>2, ListElements, Zenon
  <2>4. StepNo \subseteq Int /\ Pointer \subseteq Int
    BY <2>1 DEF StepNo, Pointer
  <2> QED BY <2>1, <2>2, <2>3, <2>4 DEF ToSet
<1>2. RootListed'
  <2>1. ASSUME NEW u \in ToSet(InternalAttrDataInfo[0]), NEW t \in Q(0)'
        PROVE  u < t \/ (Working(0)' /\ t = ReaderTimestep[0])
    <3>1. CASE t \in Q(0)
      BY <2>1, <3>1 DEF Listed, RootListed
    <3>2. CASE t \in arrived[0] .. arrived'[0] - 1
      BY <1>1, <2>1, <3>2 DEF Listed, RootListed
    <3> QED BY <3>1, <3>2
  <2>2. \A u \in ToSet(InternalAttrDataInfo[0]) : u < arrived'[0]
    BY <1>1 DEF Listed, RootListed
  <2> QED BY <2>1, <2>2 DEF RootListed
<1>3. ASSUME NEW r \in Rank \ {0} PROVE FollowerListed(r)'
  <2>0. FollowerListed(r)
    BY DEF Listed
  <2>1. CASE UNCHANGED decision
    BY <2>0, <2>1 DEF FollowerListed
  <2>2. ASSUME NEW v \in Decisions, v.status # "OK", Distribute(v) PROVE FollowerListed(r)'
    <3>1. decision'[r] = Append(decision[r], v)
      BY <2>2 DEF Distribute
    <3> QED BY <1>1, <2>0, <2>2, <3>1, ToldInOrder
  <2> QED BY <2>1, <2>2 DEF Undecided
<1> QED
  BY <1>2, <1>3, Fixed DEF Listed

(* The calls that list and install nothing keep what is listed for the *)
(* ranks.                                                              *)
LEMMA ListedMain ==
  ASSUME IInv, Listed, NEW r \in Rank, config' = config,
         \/ OpenResponse(r) \/ OpenEstablish(r) \/ BeginStep(r) \/ (r = 0 /\ GatherDecide(r))
         \/ TimedWait(r) \/ SstGetAttributeData(r) \/ InstallAttributes(r)
         \/ EndStep(r) \/ SendRelease(r) \/ SstReaderClose(r) \/ SstStreamDestroy(r)
  PROVE  Listed'
<1> DEFINE Frame == /\ UNCHANGED <<InternalAttrDataInfo, ReaderTimestep, arrived>>
                    /\ Q(0)' \subseteq Q(0)
                    /\ \A t \in Q(0)' : Working(0) /\ t = ReaderTimestep[0] => Working(0)'
                    /\ Undecided
<1>0. /\ Types /\ 0 \in Rank /\ arrived[0] \in Nat /\ MaxSteps \in Nat /\ Nothing = -1
      /\ \A s \in Rank : Place(s) /\ (CPCommPattern = "Min" => Peered = {0})
  BY Parameters, RankFacts DEF IInv, ReaderInv, Types, TypesWriter
<1> USE <1>0, Domains
<1>1. ASSUME Frame PROVE Listed'
  BY <1>1, ListedKept
<1>2. ASSUME UNCHANGED <<InternalAttrDataInfo, ReaderTimestep, arrived, Timesteps>>, Undecided,
             \A s \in Rank \ {r} : pc'[s] = pc[s] /\ inStep'[s] = inStep[s],
             ~Working(r) \/ Working(r)'
      PROVE  Listed'
  <2>1. Working(0) => Working(0)'
    BY <1>2 DEF Working
  <2>2. Q(0)' = Q(0)
    BY <1>2 DEF Q
  <2> QED BY <1>1, <1>2, <2>1, <2>2
<1>3. CASE OpenResponse(r) \/ OpenEstablish(r) \/ SendRelease(r) \/ SstReaderClose(r)
           \/ SstGetAttributeData(r) \/ InstallAttributes(r)
  <2>1. UNCHANGED <<InternalAttrDataInfo, ReaderTimestep, arrived, Timesteps, decision>>
    BY <1>3 DEF OpenResponse, OpenEstablish, SendRelease, SstReaderClose, SstGetAttributeData,
       InstallAttributes, streamVars, queueVars, infoVars, stepVars, collVars
  <2>2. \A s \in Rank \ {r} : pc'[s] = pc[s] /\ inStep'[s] = inStep[s]
    BY <1>3 DEF OpenResponse, OpenEstablish, SendRelease, SstReaderClose, SstGetAttributeData,
       InstallAttributes, Goto, Finish, outVars
  <2>3. ~Working(r) \/ Working(r)'
    BY <1>3 DEF OpenResponse, OpenEstablish, SendRelease, SstReaderClose, SstGetAttributeData,
       InstallAttributes, Goto, Finish, outVars, Working
  <2> QED BY <1>2, <2>1, <2>2, <2>3 DEF Undecided
<1>4. CASE BeginStep(r)
  <2>1. UNCHANGED <<InternalAttrDataInfo, ReaderTimestep, arrived, Timesteps>> /\ ~Working(r)
    BY <1>4 DEF BeginStep, streamVars, queueVars, infoVars, stepVars, Working
  <2>2. \A s \in Rank \ {r} : pc'[s] = pc[s] /\ inStep'[s] = inStep[s]
    BY <1>4 DEF BeginStep, Goto, Finish
  <2>3. [status |-> "FatalError", step |-> Nothing] \in Decisions
    BY DEF Decisions, Results
  <2>4. Undecided
    BY <1>4, <2>3 DEF BeginStep, Undecided
  <2> QED BY <1>2, <2>1, <2>2, <2>4
<1>5. ASSUME NEW t \in Pointer, Decide(r, t), pc[r] \in {"gather", "timedwait"},
             UNCHANGED <<InternalAttrDataInfo, ReaderTimestep, arrived, Timesteps>>,
             CPCommPattern = "Min"
      PROVE  Listed'
  <2>1. ~Working(r)
    BY <1>5 DEF Working, Place
  <2>2. \A s \in Rank \ {r} : pc'[s] = pc[s] /\ inStep'[s] = inStep[s]
    BY <1>5 DEF Decide, Adopt, GiveUp, Goto, Finish
  <2>3. Undecided
    <3> DEFINE v == [status |-> Outcome(r, t), step |-> t]
    <3>1. CASE Outcome(r, t) = "OK"
      BY <1>5, <3>1 DEF Decide, Undecided
    <3>2. CASE Outcome(r, t) # "OK"
      <4>1. v \in Results /\ v.status # "OK"
        BY <3>2, OutcomeKind DEF Results, Pointer
      <4>2. v \in Decisions /\ Distribute(v)
        BY <1>5, <3>2, <4>1 DEF Decide, Decisions
      <4> HIDE DEF v
      <4> QED BY <4>1, <4>2 DEF Undecided
    <3> QED BY <3>1, <3>2
  <2> QED BY <1>2, <1>5, <2>1, <2>2, <2>3
<1>6. CASE (r = 0 /\ GatherDecide(r)) \/ TimedWait(r)
  <2> SUFFICES ASSUME CPCommPattern = "Min" PROVE Listed'
    BY Fixed DEF Listed
  <2>1. /\ pc[r] \in {"gather", "timedwait"}
        /\ UNCHANGED <<InternalAttrDataInfo, ReaderTimestep, arrived, Timesteps>>
    BY <1>6 DEF GatherDecide, TimedWait, infoVars, stepVars
  <2>2. ASSUME UNCHANGED <<decision, inStep>>, Goto(r, "timedwait") \/ UNCHANGED pc PROVE Listed'
    <3>1. ~Working(r) /\ \A s \in Rank \ {r} : pc'[s] = pc[s] /\ inStep'[s] = inStep[s]
      BY <2>1, <2>2 DEF Goto, Working, Place
    <3> QED BY <1>2, <2>1, <2>2, <3>1 DEF Undecided
  <2>3. /\ MaxQueuedMetadata(r) \in Pointer /\ Nothing \in Pointer
        /\ r = 0 /\ pc[r] = "gather" /\ Gathered => Chosen(r) \in Pointer
    BY <2>1, RankFacts, PointerTypes, QueuedArrived, GatheredBounds DEF Chosen, IInv
  <2>4. CASE GatherDecide(r) /\ r = 0
    <3>1. CASE AllQueuesEmpty(r) /\ Timeout # "zero"
      BY <2>2, <2>4, <3>1 DEF GatherDecide, collVars
    <3>2. CASE ~(AllQueuesEmpty(r) /\ Timeout # "zero")
      <4> DEFINE t == IF AllQueuesEmpty(r) THEN Nothing ELSE Chosen(r)
      <4>1. Decide(r, t) /\ t \in Pointer
        BY <2>3, <2>4, <3>2 DEF GatherDecide
      <4> HIDE DEF t
      <4> QED BY <1>5, <2>1, <4>1
    <3> QED BY <3>1, <3>2
  <2>5. CASE TimedWait(r)
    <3>1. CASE WaitOver(r)
      BY <1>5, <2>1, <2>3, <2>5, <3>1 DEF TimedWait
    <3>2. CASE ~WaitOver(r)
      BY <2>2, <2>5, <3>2 DEF TimedWait, collVars
    <3> QED BY <3>1, <3>2
  <2> QED BY <1>6, <2>4, <2>5
<1>7. CASE EndStep(r)
  <2>1. UNCHANGED <<InternalAttrDataInfo, ReaderTimestep, arrived, decision, inStep>>
        /\ \A s \in Rank \ {r} : pc'[s] = pc[s]
    BY <1>7 DEF EndStep, infoVars, stepVars, collVars, outVars, Goto
  <2> SUFFICES ASSUME CPCommPattern = "Min" PROVE Listed'
    BY Fixed DEF Listed
  <2>2. CASE r # 0
    <3>1. UNCHANGED Timesteps
      BY <1>7, <2>2 DEF EndStep
    <3>2. Q(0)' = Q(0) /\ Working(0)' = Working(0)
      BY <2>1, <2>2, <3>1 DEF Q, Working
    <3> QED BY <1>1, <2>1, <3>2 DEF Undecided
  <2>3. CASE r = 0
    <3>1. Timesteps'[0] = Without(Timesteps[0], ReaderTimestep[0])
      BY <1>7, <2>3 DEF EndStep
    <3>2. Q(0)' = Q(0) \ {ReaderTimestep[0]}
      BY <2>3, <3>1, RankFacts, WithoutQueue DEF Q, IInv
    <3> QED BY <1>1, <2>1, <3>2 DEF Undecided
  <2> QED BY <2>2, <2>3
<1>8. CASE SstStreamDestroy(r)
  <2>1. /\ UNCHANGED <<InternalAttrDataInfo, ReaderTimestep, arrived, decision, inStep>>
        /\ \A s \in Rank \ {r} : pc'[s] = pc[s] /\ Timesteps'[s] = Timesteps[s]
        /\ Timesteps'[r] = <<>>
    BY <1>8 DEF SstStreamDestroy, infoVars, stepVars, collVars, outVars, Goto
  <2>2. Q(0)' \subseteq Q(0) /\ (r = 0 => Q(0)' = {})
    BY <2>1 DEF Q, Steps
  <2>3. r # 0 => Working(0)' = Working(0)
    BY <2>1 DEF Working
  <2> QED BY <1>1, <2>1, <2>2, <2>3 DEF Undecided
<1> QED
  BY <1>3, <1>4, <1>6, <1>7, <1>8

(* A thread of rank 0 in releasePriorTimesteps, which installs what it removes *)
LEMMA ListedWalk ==
  ASSUME IInv, Listed, NEW r \in Rank, config' = config, CPCommPattern = "Min", Undecided,
         NEW th \in {"main", "net"}, WalkTurn(r, th), UNCHANGED <<arrived, ReaderTimestep>>,
         \A s \in Rank : Working(s)' <=> Working(s)
  PROVE  Listed'
<1>0. /\ Types /\ 0 \in Rank /\ arrived[0] \in Nat /\ Peered = {0}
  BY Parameters, RankFacts DEF IInv, ReaderInv, Types, TypesWriter
<1> USE <1>0, Domains
<1>1. WalkEnds(r, th) \/ \E this \in StepNo, last \in Pointer : WalkRemoves(r, th, this, last)
  BY RankFacts, WalkEffect DEF IInv
<1>2. CASE WalkEnds(r, th)
  <2>1. UNCHANGED <<InternalAttrDataInfo, Timesteps>>
    BY <1>2 DEF WalkEnds, infoVars
  <2>2. Q(0)' = Q(0)
    BY <2>1 DEF Q
  <2> QED BY <2>1, <2>2, ListedKept
<1>3. ASSUME NEW this \in StepNo, NEW last \in Pointer, WalkRemoves(r, th, this, last)
      PROVE  Listed'
  <2> DEFINE next == walk[r][th].next
             latest == walk[r][th].latest
             rt == ReaderTimestep[0]
             I == InternalAttrDataInfo[0]
  <2>1. r = 0 /\ PeerInv(0)
    <3>1. Timesteps[r] # <<>>
      <4>1. Steps(Timesteps[r]) # {}
        BY <1>3 DEF WalkRemoves
      <4> QED BY <4>1, RankFacts, HeadOfQueue DEF IInv
    <3> QED BY <3>1, RankFacts DEF IInv, Place
  <2>2. /\ next # Nothing /\ next <= this /\ this \in Q(0) /\ this < latest
        /\ this # CurrentWorkingTimestep[0]
        /\ \A t \in Q(0) : next <= t /\ t < this => ~(t < latest /\ t # CurrentWorkingTimestep[0])
        /\ InstallPrecious(0, <<this>>)
    BY <1>3, <2>1 DEF WalkRemoves, Releasable, Q
  <2>3. /\ Nothing = -1 /\ Nothing \notin Q(0)
        /\ \A t \in Q(0) : t \in StepNo /\ t \in Int /\ t < arrived[0]
        /\ rt \in Int /\ next \in Int /\ latest \in Int /\ this \in Int
  <3>1. /\ Nothing = -1
        /\ \A t \in Q(0) : t \in StepNo /\ t \in Int /\ t < arrived[0]
        /\ rt \in Int /\ next \in Int /\ latest \in Int /\ StepNo \subseteq Int
    BY <2>1, RankFacts DEF IInv
  <3> QED BY <3>1 DEF StepNo
  <2>4. Q(0)' = Q(0) \ {this}
    <3>1. Timesteps'[0] = Without(Timesteps[0], this)
      BY <1>3, <2>1 DEF WalkRemoves
    <3> QED BY <3>1, RankFacts, WithoutQueue DEF Q, IInv
  <2>5. this # rt
    <3>1. ASSUME this = rt PROVE FALSE
      <4>1. Working(0)
        BY <2>1, <2>2, <2>3, <3>1 DEF PeerInv, InUse
      <4>2. CurrentWorkingTimestep[0] = rt
        BY <2>1, <4>1 DEF PeerInv, InUse, Unreleased
      <4> QED BY <2>2, <3>1, <4>2
    <3> QED BY <3>1
  <2>6. \A u \in ToSet(I) : u < this
    BY <2>2, <2>5 DEF Listed, RootListed
  <2>7. ASSUME NEW t \in Q(0), t < this PROVE Working(0) /\ t = rt
    <3>1. CASE t < next
      BY <2>1, <2>2, <3>1 DEF PeerInv, Passed
    <3>2. CASE next <= t
      <4>1. t = CurrentWorkingTimestep[0]
        BY <2>2, <2>3, <2>7, <3>2
      <4>2. t = rt
        BY <2>1, <2>3, <4>1 DEF PeerInv, InUse
      <4> QED BY <2>1, <2>3, <4>2 DEF PeerInv, InUse
    <3> QED BY <2>3, <3>1, <3>2
  <2>8. /\ Increasing(InternalAttrDataInfo'[0])
        /\ ToSet(InternalAttrDataInfo'[0]) \subseteq ToSet(I) \cup {this}
        /\ \A s \in Rank \ {0} : InternalAttrDataInfo'[s] = InternalAttrDataInfo[s]
    <3>1. <<this>> \in Seq(StepNo) /\ Increasing(<<this>>) /\ ToSet(<<this>>) = {this}
      BY DEF Increasing, ToSet
    <3>2. Increasing(I)
      BY DEF Listed
    <3> QED BY <2>2, <2>6, <3>1, <3>2, InstalledInOrder
  <2>9. RootListed'
    <3>1. ASSUME NEW u \in ToSet(I) \cup {this}
          PROVE  u < arrived[0] /\ \A t \in Q(0) \ {this} : u < t \/ (Working(0) /\ t = rt)
      <4>1. CASE u \in ToSet(I)
        BY <4>1 DEF Listed, RootListed
      <4>2. CASE u = this
        <5>1. ASSUME NEW t \in Q(0) \ {this}, ~(this < t) PROVE Working(0) /\ t = rt
          <6>1. t < this
            BY <2>3, <5>1
          <6> QED BY <2>7, <6>1
        <5> QED BY <2>2, <2>3, <4>2, <5>1
      <4> QED BY <3>1, <4>1, <4>2
    <3> QED BY <2>4, <2>8, <3>1 DEF RootListed
  <2>10. ASSUME NEW s \in Rank \ {0} PROVE FollowerListed(s)' /\ Increasing(InternalAttrDataInfo'[s])
    <3>0. FollowerListed(s) /\ Increasing(InternalAttrDataInfo[s])
      BY DEF Listed
    <3>1. CASE UNCHANGED decision
      BY <2>8, <3>0, <3>1 DEF FollowerListed
    <3>2. ASSUME NEW v \in Decisions, v.status # "OK", Distribute(v) PROVE FollowerListed(s)'
      <4>1. decision'[s] = Append(decision[s], v)
        BY <3>2 DEF Distribute
      <4>2. ReaderTimestep[0] \in Int
        BY <2>3
      <4> QED BY <2>8, <3>0, <3>2, <4>1, <4>2, ToldInOrder
    <3> QED BY <2>8, <3>0, <3>1, <3>2 DEF Undecided
  <2> QED BY <2>8, <2>9, <2>10, Fixed DEF Listed
<1> QED
  BY <1>1, <1>2, <1>3

(* A walk of releasePriorTimesteps moves the formats of a step out of the *)
(* queue into what rank 0 lists, in order.                                *)
LEMMA ListedWalks ==
  ASSUME IInv, Listed, NEW r \in Rank, config' = config, WalkMain(r) \/ WalkNet(r)
  PROVE  Listed'
<1> SUFFICES ASSUME CPCommPattern = "Min" PROVE Listed'
  BY Fixed DEF Listed
<1>0. Types /\ Place(r) /\ MaxSteps \in Nat /\ Nothing = -1
  BY RankFacts DEF IInv
<1> USE Domains
<1>1. CASE WalkNet(r)
  <2>1. /\ WalkTurn(r, "net") /\ UNCHANGED <<arrived, ReaderTimestep, decision, pc, inStep>>
    BY <1>1 DEF WalkNet, stepVars, collVars
  <2>2. \A s \in Rank : Working(s)' <=> Working(s)
    BY <2>1 DEF Working
  <2> QED BY <2>1, <2>2, ListedWalk DEF Undecided
<1>2. CASE WalkMain(r)
  <2>1. /\ WalkTurn(r, "main") /\ UNCHANGED <<arrived, ReaderTimestep>> /\ pc[r] = "walk"
        /\ \/ /\ Finish(r, "FatalError", Nothing)
              /\ Distribute([status |-> "FatalError", step |-> Nothing])
           \/ Goto(r, "next") /\ UNCHANGED <<decision, inStep, results>>
           \/ UNCHANGED <<pc, decision, inStep, results>>
    BY <1>2 DEF WalkMain, stepVars
  <2>2. [status |-> "FatalError", step |-> Nothing] \in Decisions
    BY <1>0 DEF Decisions, Results
  <2>3. Undecided
    BY <2>1, <2>2 DEF Undecided
  <2>4. ~inStep[r]
    BY <1>0, <2>1 DEF Place
  <2>5. \A s \in Rank : Working(s)' <=> Working(s)
    BY <1>0, <2>1, <2>4 DEF Working, Finish, Goto
  <2> QED BY <2>1, <2>3, <2>5, ListedWalk
<1> QED
  BY <1>1, <1>2

(* waitForNextMetadata and the broadcast of its result keep what is listed *)
(* for the ranks in order.                                                 *)
LEMMA ListedNext ==
  ASSUME IInv, Listed, NEW r \in Rank, config' = config, NextMetadata(r)
  PROVE  Listed'
<1> SUFFICES ASSUME CPCommPattern = "Min" PROVE Listed'
  BY Fixed DEF Listed
<1> USE Domains
<1>1. r = 0 /\ PeerInv(0) /\ ~Working(0) /\ Types /\ UNCHANGED arrived /\ pc[0] = "next" /\ 0 \in Rank
      /\ MaxSteps \in Nat /\ Nothing = -1 /\ arrived[0] \in Nat
  <2>1. r = 0
    BY RankFacts, Parameters DEF NextMetadata, IInv, Place, Types, TypesWriter
  <2> QED BY <2>1, RankFacts, Parameters DEF NextMetadata, IInv, Place, Types, TypesWriter, Working
<1> DEFINE rt == ReaderTimestep[0]
           I == InternalAttrDataInfo[0]
<1>2. /\ \A t \in Q(0) : t \in StepNo /\ t \in Int /\ t < arrived[0] /\ t > rt
      /\ rt \in Int /\ StepNo \subseteq Int
  BY <1>1, RankFacts DEF IInv, PeerInv, InUse
<1>3. ASSUME NEW D \in SUBSET StepNo, Drops(0, D) PROVE Q(0)' = Q(0) \ D
  <2>1. PICK nq \in Queues : /\ Steps(nq) = Steps(Timesteps[0]) \ D
                             /\ Timesteps' = [Timesteps EXCEPT ![0] = nq]
    BY <1>3 DEF Drops
  <2> QED BY <1>1, <2>1 DEF Q
<1>4. ASSUME NEW D, Installs(0, D), D \subseteq Q(0)
      PROVE  /\ Increasing(InternalAttrDataInfo'[0])
             /\ ToSet(InternalAttrDataInfo'[0]) \subseteq ToSet(I) \cup D
             /\ \A s \in Rank \ {0} : InternalAttrDataInfo'[s] = InternalAttrDataInfo[s]
  <2>1. PICK ts \in Seq(StepNo) : Increasing(ts) /\ ToSet(ts) = D /\ InstallPrecious(0, ts)
    BY <1>4 DEF Installs
  <2>2. Increasing(I) /\ \A u \in ToSet(I), v \in D : u < v
    BY <1>1, <1>4 DEF Listed, RootListed
  <2> QED BY <1>1, <2>1, <2>2, InstalledInOrder
<1>5. ASSUME NEW t \in StepNo, NEW D \in SUBSET StepNo, NextFound(0, t, D) PROVE Listed'
  <2>1. /\ t \in Q(0) /\ (\A u \in D : u < t /\ u \in Q(0))
        /\ \A u \in Q(0) : u < t => u \in D \/ u <= rt
        /\ Q(0)' = Q(0) \ D
        /\ ReaderTimestep'[0] = t /\ pc'[0] = "get_attributes"
        /\ Distribute([status |-> "OK", step |-> t])
    BY <1>1, <1>3, <1>5 DEF NextFound, Droppable, Tell, Goto, Q
  <2>2. /\ Increasing(InternalAttrDataInfo'[0])
        /\ ToSet(InternalAttrDataInfo'[0]) \subseteq ToSet(I) \cup (D \cup {t})
        /\ \A s \in Rank \ {0} : InternalAttrDataInfo'[s] = InternalAttrDataInfo[s]
    BY <1>4, <1>5, <2>1 DEF NextFound
  <2>3. Working(0)'
    BY <2>1 DEF Working
  <2>4. RootListed'
    <3>1. ASSUME NEW u \in ToSet(I) \cup (D \cup {t})
          PROVE  u < arrived[0] /\ \A x \in Q(0) \ D : u < x \/ x = t
      <4>1. CASE u \in ToSet(I)
        BY <1>1, <4>1 DEF Listed, RootListed
      <4>2. CASE u \in D \cup {t}
        <5>1. u \in Q(0) /\ u < arrived[0] /\ u <= t /\ u \in Int
          BY <1>2, <2>1, <4>2
        <5>2. ASSUME NEW x \in Q(0) \ D, x # t PROVE u < x
          BY <1>2, <2>1, <5>1, <5>2
        <5> QED BY <5>1, <5>2
      <4> QED BY <3>1, <4>1, <4>2
    <3> QED BY <1>1, <2>1, <2>2, <2>3, <3>1 DEF RootListed
  <2>5. ASSUME NEW s \in Rank \ {0} PROVE FollowerListed(s)' /\ Increasing(InternalAttrDataInfo'[s])
    <3> DEFINE v == [status |-> "OK", step |-> t]
    <3>1. v \in Decisions /\ v.status = "OK" /\ v.step = t
      BY <1>1, <1>2 DEF Decisions, Results, StepNo
    <3>2. decision'[s] = Append(decision[s], v)
      BY <1>1, <2>1 DEF Distribute
    <3>3. rt < t /\ rt <= t /\ t \in Int
      BY <1>2, <2>1
    <3>4. FollowerListed(s) /\ Increasing(InternalAttrDataInfo[s])
      BY DEF Listed
    <3> HIDE DEF v
    <3> QED BY <1>1, <2>1, <2>2, <3>1, <3>2, <3>3, <3>4, ToldInOrder
  <2> QED BY <2>2, <2>4, <2>5, Fixed DEF Listed
<1>6. ASSUME NEW D \in SUBSET StepNo, NextNone(0, D) PROVE Listed'
  <2>1. /\ (\A u \in D : u \in Q(0)) /\ (\A u \in Q(0) : u \in D \/ u <= rt)
        /\ Q(0)' = Q(0) \ D /\ UNCHANGED ReaderTimestep
    BY <1>3, <1>6 DEF NextNone, Droppable, Q
  <2>2. /\ Increasing(InternalAttrDataInfo'[0])
        /\ ToSet(InternalAttrDataInfo'[0]) \subseteq ToSet(I) \cup D
        /\ \A s \in Rank \ {0} : InternalAttrDataInfo'[s] = InternalAttrDataInfo[s]
    BY <1>4, <1>6, <2>1 DEF NextNone
  <2>3. Q(0)' = {}
    BY <1>2, <2>1
  <2>4. RootListed'
    <3>1. \A u \in ToSet(I) \cup D : u < arrived[0]
      BY <1>2, <2>1 DEF Listed, RootListed
    <3> QED BY <1>1, <2>2, <2>3, <3>1 DEF RootListed
  <2>5. Undecided
    <3> DEFINE v == [status |-> FinalStatus(0), step |-> Nothing]
    <3>1. v.status \in {"EndOfStream", "FatalError"}
      BY DEF FinalStatus
    <3>2. v \in Decisions /\ v.status # "OK"
      BY <1>1, <3>1 DEF Decisions, Results
    <3>3. UNCHANGED decision \/ Distribute(v)
      BY <1>6 DEF NextNone, Tell
    <3> HIDE DEF v
    <3> QED BY <3>2, <3>3 DEF Undecided
  <2>6. ASSUME NEW s \in Rank \ {0} PROVE FollowerListed(s)' /\ Increasing(InternalAttrDataInfo'[s])
    <3>0. FollowerListed(s) /\ Increasing(InternalAttrDataInfo[s])
      BY DEF Listed
    <3>1. CASE UNCHANGED decision
      BY <2>1, <2>2, <3>0, <3>1 DEF FollowerListed
    <3>2. ASSUME NEW v \in Decisions, v.status # "OK", Distribute(v) PROVE FollowerListed(s)'
      <4>1. decision'[s] = Append(decision[s], v) /\ rt <= rt
        BY <1>1, <1>2, <3>2 DEF Distribute
      <4> QED BY <1>1, <1>2, <2>1, <2>2, <3>0, <3>2, <4>1, ToldInOrder
    <3> QED BY <2>2, <3>0, <3>1, <3>2, <2>5 DEF Undecided
  <2> QED BY <2>2, <2>4, <2>6, Fixed DEF Listed
<1> QED
  BY <1>1, <1>5, <1>6, RankFacts, NextEffect DEF IInv

(* A rank is told, and installs the blocks of the step. *)
LEMMA ListedFollow ==
  ASSUME IInv, Listed, NEW r \in Rank, config' = config, Follow(r)
  PROVE  Listed'
<1> SUFFICES ASSUME CPCommPattern = "Min" PROVE Listed'
  BY Fixed DEF Listed
<1> USE Domains
<1> DEFINE d == decision[r]
           v == d[1]
<1>1. /\ Types /\ r \in Rank \ {0} /\ 0 \in Rank /\ FollowerListed(r)
      /\ d # <<>> /\ pc[r] = "bcast"
      /\ decision' = [decision EXCEPT ![r] = Tail(@)]
      /\ UNCHANGED <<Timesteps, arrived>>
      /\ MaxSteps \in Nat
  BY Parameters DEF IInv, ReaderInv, RootSilent, Follow, Listed, Types, TypesWriter
<1>2. /\ d \in Seq(Decisions) /\ DOMAIN d = 1 .. Len(d) /\ Len(d) \in Nat /\ 1 \in DOMAIN d
      /\ \A k \in DOMAIN d : d[k] \in Decisions
      /\ decision'[r] = Tail(d) /\ Len(Tail(d)) = Len(d) - 1
      /\ DOMAIN Tail(d) = 1 .. (Len(d) - 1)
      /\ \A k \in DOMAIN Tail(d) : Tail(d)[k] = d[k + 1] /\ k + 1 \in DOMAIN d
  <2>1. d \in Seq(Decisions) /\ decision'[r] = Tail(d)
    BY <1>1 DEF Types, TypesColl
  <2> HIDE DEF d
  <2>2. \A k \in DOMAIN d : d[k] \in Decisions
    BY <2>1, ListElements, Zenon
  <2> QED BY <1>1, <2>1, <2>2
<1>3. v \in Decisions /\ (v.status = "OK" => v.step \in StepNo)
  <2>1. v \in Decisions
    BY <1>2, Zenon
  <2> HIDE DEF v
  <2> QED BY <1>1, <2>1 DEF Decisions, Results, StepNo, Nothing
<1> HIDE DEF v, d
<1>4. /\ ReaderTimestep'[0] = ReaderTimestep[0] /\ pc'[0] = pc[0] /\ inStep'[0] = inStep[0]
      /\ IF v.status = "OK" THEN InstallPrecious(r, <<v.step>>) ELSE UNCHANGED InternalAttrDataInfo
  BY <1>1 DEF Follow, infoVars, stepVars, Goto, Finish, v, d
<1>5. /\ Increasing(InternalAttrDataInfo'[r])
      /\ ToSet(InternalAttrDataInfo'[r]) \subseteq
            ToSet(InternalAttrDataInfo[r]) \cup (IF v.status = "OK" THEN {v.step} ELSE {})
      /\ \A s \in Rank \ {r} : InternalAttrDataInfo'[s] = InternalAttrDataInfo[s]
  <2>0. Increasing(InternalAttrDataInfo[r])
    BY DEF Listed
  <2>1. CASE v.status = "OK"
    <3>1. <<v.step>> \in Seq(StepNo) /\ Increasing(<<v.step>>) /\ ToSet(<<v.step>>) = {v.step}
      BY <1>3, <2>1 DEF Increasing, ToSet
    <3>2. \A u \in ToSet(InternalAttrDataInfo[r]) : u < v.step
      BY <1>1, <1>2, <2>1 DEF FollowerListed, v, d
    <3> DEFINE ts == <<v.step>>
    <3>3. /\ ts \in Seq(StepNo) /\ Increasing(ts) /\ ToSet(ts) = {v.step}
          /\ InstallPrecious(r, ts) /\ r \in Rank
      BY <1>1, <1>4, <2>1, <3>1
    <3>4. \A u \in ToSet(InternalAttrDataInfo[r]), x \in ToSet(ts) : u < x
      BY <3>2, <3>3
    <3> HIDE DEF ts
    <3>5. /\ Increasing(InternalAttrDataInfo'[r])
          /\ ToSet(InternalAttrDataInfo'[r]) \subseteq ToSet(InternalAttrDataInfo[r]) \cup ToSet(ts)
          /\ \A s \in Rank \ {r} : InternalAttrDataInfo'[s] = InternalAttrDataInfo[s]
      BY <1>1, <2>0, <3>3, <3>4, InstalledInOrder
    <3> QED BY <2>1, <3>3, <3>5
  <2>2. CASE v.status # "OK"
    BY <1>4, <2>0, <2>2
  <2> QED BY <2>1, <2>2
<1>6. FollowerListed(r)'
  <2>1. \A u \in ToSet(InternalAttrDataInfo'[r]) : u <= ReaderTimestep[0]
    BY <1>1, <1>2, <1>5 DEF FollowerListed, v, d
  <2>2. ASSUME NEW k \in DOMAIN Tail(d), d[k + 1].status = "OK"
        PROVE  /\ d[k + 1].step <= ReaderTimestep[0]
               /\ \A u \in ToSet(InternalAttrDataInfo'[r]) : u < d[k + 1].step
               /\ \A j \in DOMAIN Tail(d) :
                      j < k /\ d[j + 1].status = "OK" => d[j + 1].step < d[k + 1].step
    <3>1. k + 1 \in DOMAIN d /\ 1 < k + 1 /\ 1 \in DOMAIN d
      BY <1>2
    <3>2. /\ d[k + 1].step <= ReaderTimestep[0]
          /\ \A u \in ToSet(InternalAttrDataInfo[r]) : u < d[k + 1].step
          /\ \A j \in DOMAIN d : j < k + 1 /\ d[j].status = "OK" => d[j].step < d[k + 1].step
      BY <1>1, <2>2, <3>1 DEF FollowerListed, d
    <3>3. v.status = "OK" => v.step < d[k + 1].step
      BY <3>1, <3>2 DEF v
    <3>4. \A j \in DOMAIN Tail(d) : j + 1 \in DOMAIN d /\ (j < k => j + 1 < k + 1)
      BY <1>2
    <3> QED BY <1>5, <3>2, <3>3, <3>4
  <2>3. \A k \in DOMAIN decision'[r] : decision'[r][k] = d[k + 1] /\ k \in DOMAIN Tail(d)
    BY <1>2
  <2> QED BY <1>2, <1>4, <2>1, <2>2, <2>3 DEF FollowerListed
<1>7. RootListed'
  <2>1. Q(0)' = Q(0) /\ Working(0)' = Working(0)
    BY <1>1, <1>4 DEF Q, Working
  <2> QED BY <1>1, <1>4, <1>5, <2>1 DEF Listed, RootListed
<1>8. ASSUME NEW s \in Rank \ {0} PROVE FollowerListed(s)' /\ Increasing(InternalAttrDataInfo'[s])
  <2>1. CASE s = r
    BY <1>5, <1>6, <2>1
  <2>2. CASE s # r
    <3>1. decision'[s] = decision[s] /\ InternalAttrDataInfo'[s] = InternalAttrDataInfo[s]
      BY <1>1, <1>5, <2>2
    <3> QED BY <1>4, <3>1 DEF Listed, FollowerListed
  <2> QED BY <2>1, <2>2
<1>9. Increasing(InternalAttrDataInfo'[0])
  BY <1>1, <1>5 DEF Listed
<1> QED
  BY <1>7, <1>8, <1>9, Fixed DEF Listed

(* The network handlers leave what is listed for the ranks alone; what *)
(* arrives is newer.                                                   *)
LEMMA ListedNet ==
  ASSUME IInv, Listed, NEW r \in Rank, config' = config,
         \/ CP_PeerSetupHandler(r) \/ DiscardNotice(r) \/ TimestepMetadata(r)
         \/ CP_WriterCloseHandler(r) \/ ReaderConnCloseHandler(r) \/ triggerDataCondition(r)
  PROVE  Listed'
<1> SUFFICES ASSUME CPCommPattern = "Min" PROVE Listed'
  BY Fixed DEF Listed
<1> USE Domains
<1>0. /\ Types /\ 0 \in Rank /\ arrived[0] \in Nat /\ Peered = {0} /\ ReaderInv
  BY Parameters, RankFacts DEF IInv, Types, TypesWriter
<1>1. ~DiscardNotice(r)
  BY DEF DiscardNotice, Notice
<1>2. UNCHANGED <<InternalAttrDataInfo, ReaderTimestep, decision, pc, inStep>>
  BY <1>1 DEF CP_PeerSetupHandler, TimestepMetadata, CP_WriterCloseHandler,
     ReaderConnCloseHandler, triggerDataCondition, streamVars, infoVars, stepVars, collVars, outVars
<1>3. Working(0)' = Working(0)
  BY <1>2 DEF Working
<1>4. CASE TimestepMetadata(r)
  <2>1. Incoming(r, {"step", "notice"})
    BY <1>4 DEF TimestepMetadata
  <2>2. /\ r = 0 /\ arrived'[0] = arrived[0] + 1
        /\ log[arrived[0] + 1].Timestep = arrived[0] /\ arrived[0] \in StepNo
    BY <1>0, <2>1, ArrivalFacts
  <2> DEFINE e == [Timestep |-> arrived[0], Metadata |-> log[arrived[0] + 1].kind = "step"]
  <2>3. Timesteps'[0] = Append(Timesteps[0], e)
    BY <1>0, <1>4, <2>2 DEF TimestepMetadata
  <2>4. Q(0)' = Q(0) \cup {arrived[0]}
    <3>1. e \in Entries(MaxSteps) /\ e.Timestep = arrived[0]
      BY <2>2 DEF Entries, StepNo
    <3> HIDE DEF e
    <3>2. /\ MaxSteps \in Nat /\ Timesteps[0] \in Seq(Entries(MaxSteps)) /\ Sorted(Timesteps[0])
          /\ \A t \in Steps(Timesteps[0]) : t < e.Timestep
      BY <1>0, <3>1, RankFacts DEF Q
    <3> QED BY <2>3, <3>1, <3>2, AppendQueue DEF Q
  <2> QED BY <1>0, <1>2, <1>3, <2>2, <2>4, ListedKept DEF Undecided
<1>5. CASE \/ CP_PeerSetupHandler(r) \/ CP_WriterCloseHandler(r)
           \/ ReaderConnCloseHandler(r) \/ triggerDataCondition(r)
  <2>1. Timesteps' = Timesteps
    BY <1>5 DEF CP_PeerSetupHandler, CP_WriterCloseHandler, ReaderConnCloseHandler,
       triggerDataCondition, streamVars, queueVars
  <2>2. arrived'[0] \in {arrived[0], arrived[0] + 1}
    BY <1>0, <1>5 DEF CP_PeerSetupHandler, CP_WriterCloseHandler, ReaderConnCloseHandler,
       triggerDataCondition, Incoming
  <2>3. Q(0)' = Q(0)
    BY <2>1 DEF Q
  <2> QED BY <1>0, <1>2, <1>3, <2>2, <2>3, ListedKept DEF Undecided
<1> QED
  BY <1>1, <1>4, <1>5

(* Every step of the reader keeps what the ranks install in the order of *)
(* the steps.                                                            *)
LEMMA ListedStep == IInv /\ Listed /\ [Next]_vars => Listed'
<1> SUFFICES ASSUME IInv, Listed, [Next]_vars PROVE Listed'
  OBVIOUS
<1>1. ASSUME UNCHANGED <<config, arrived, Timesteps, ReaderTimestep, InternalAttrDataInfo, decision>>,
             CPCommPattern = "Min" => (Working(0)' <=> Working(0))
      PROVE  Listed'
  <2>1. Types /\ arrived[0] \in Nat
    BY Parameters DEF IInv, ReaderInv, Types, TypesWriter
  <2>2. Q(0)' = Q(0)
    BY <1>1 DEF Q
  <2> QED BY <1>1, <2>1, <2>2, ListedKept DEF Undecided
<1>2. ASSUME NEW r \in Rank, Main(r) PROVE Listed'
  BY <1>2, ListedMain, ListedWalks, ListedNext, ListedFollow DEF Main
<1>3. ASSUME NEW r \in Rank, Net(r) PROVE Listed'
  BY <1>3, ListedNet, ListedWalks DEF Net
<1>4. CASE Barrier
  <2>1. UNCHANGED <<config, arrived, Timesteps, ReaderTimestep, InternalAttrDataInfo, decision, inStep>>
    BY <1>4 DEF Barrier, streamVars, queueVars, infoVars, stepVars, collVars, outVars
  <2>2. Working(0)' <=> Working(0)
    <3>1. 0 \in Rank
      BY Parameters DEF IInv, ReaderInv, Types, TypesWriter
    <3> QED BY <1>4, <3>1 DEF Barrier, Barriers, Working
  <2> QED BY <1>1, <2>1, <2>2
<1>5. CASE Writer
  <2>1. UNCHANGED <<config, arrived, Timesteps, ReaderTimestep, InternalAttrDataInfo, decision, inStep, pc>>
    BY <1>5 DEF Writer, WriterResponds, WriterProvides, WriterCloses, WriterDies, writerOnly,
       streamVars, queueVars, infoVars, stepVars, threadVars, collVars, outVars
  <2> QED BY <1>1, <2>1 DEF Working
<1>6. CASE UNCHANGED vars
  <2>1. UNCHANGED <<config, arrived, Timesteps, ReaderTimestep, InternalAttrDataInfo, decision, inStep, pc>>
    BY <1>6 DEF vars, streamVars, queueVars, infoVars, stepVars, threadVars, collVars, outVars
  <2> QED BY <1>1, <2>1 DEF Working
<1> QED
  BY <1>2, <1>3, <1>4, <1>5, <1>6 DEF Next, Reader, Finished, Undefined

(* In the Min pattern every rank installs the attributes of the steps in *)
(* their order, those of the steps that rank 0 skipped included, each of *)
(* them once.                                                            *)
THEOREM AttributesAreInOrder == Spec => []AttributesInOrder
<1>1. Init => Listed
  <2> SUFFICES ASSUME Init PROVE Listed
    OBVIOUS
  <2>1. 0 \in Rank
    BY InitTypes, Parameters DEF Types, TypesWriter
  <2>2. \A r \in Rank : InternalAttrDataInfo[r] = <<>> /\ decision[r] = <<>>
    BY DEF Init
  <2> QED BY <2>1, <2>2 DEF Listed, RootListed, FollowerListed, Increasing, ToSet
<1>2. Listed => AttributesInOrder
  BY DEF Listed, AttributesInOrder, Increasing
<1> QED
  BY <1>1, <1>2, ReaderInductive, ListedStep, PTL DEF Spec

-----------------------------------------------------------------------------
(* What the ranks are told *)

(* The writer outlives the reader where each rank hears it for itself.  In the *)
(* Peer pattern one rank may lose its connection when another has the step.   *)
Steady == \A c \in Configs : c.CPCommPattern = "Min" \/ c.WriterFails = "never"

(* What a rank was told, with the step it is about to return *)
Answer(status, t) == [status |-> status, step |-> t]
Given(r) == IF pc[r] \in {"get_attributes", "install"}
            THEN Append(results[r], Answer("OK", ReaderTimestep[r])) ELSE results[r]
NoStepNamed(r) == \A i \in DOMAIN results[r] : results[r][i].status # "OK" => results[r][i].step = Nothing

(* Rank 0 decides for all; and names the step that all will return. *)
Collective == CPCommPattern = "Min" \/ Special
Names      == CPCommPattern = "Min" \/ AlwaysProvideLatestTimestep

Shown(v) == Answer(v.status, IF v.status = "OK" /\ Names THEN v.step ELSE Nothing)

(* A step was promised, by the decision that the rank has adopted. *)
Promised(r) == CPCommPattern = "Peer" /\ Special /\ pc[r] \in {"walk", "next"}
Heard(r) ==
    LET shown == [i \in DOMAIN Given(r) |-> Shown(Given(r)[i])]
    IN  IF Promised(r) THEN Append(shown, Shown(Answer("OK", DiscardPriorTimestep[r]))) ELSE shown

(* The answers of rank 0 are those another rank has heard and those still to *)
(* reach it.                                                                 *)
HeardSame(r) ==
    /\ Len(Heard(0)) = Len(Heard(r)) + Len(decision[r])
    /\ \A i \in 1 .. Len(Heard(r)) : Heard(r)[i] = Heard(0)[i]
    /\ \A k \in 1 .. Len(decision[r]) : Shown(decision[r][k]) = Heard(0)[Len(Heard(r)) + k]

(* Before the writer has answered, only rank 0 can have left the open call:   *)
(* alone, when the writer is gone.                                            *)
Unanswered ==
    ~response => /\ \A r \in Rank \ {0} : pc[r] = "opening" /\ results[r] = <<>> /\ decision[r] = <<>>
                 /\ \/ pc[0] = "opening" /\ results[0] = <<>>
                    \/ pc[0] = "done" /\ ~writerUp

(* Rank 0 alone decides. *)
RootWaits == \A r \in Rank \ {0} : pc[r] \notin {"gather", "timedwait"}

(* The ranks that wait for rank 0 hear what it has sent, in that order. *)
Told == Collective /\ (writerUp \/ response) => \A r \in Rank \ {0} : HeardSame(r)

-----------------------------------------------------------------------------
(* The Peer pattern with a writer that does not fail.  A rank leaves its      *)
(* stream at its end, when everything the writer sent has arrived.            *)
Drained(r) == arrived[r] = Len(log) /\ Closed
Connected(r) ==
    /\ writerUp /\ npc[r] = "idle" /\ Status[r] # "PeerFailed"
    /\ pc[r] \in {"opening", "wait_peers"} <=> Status[r] = "NotOpen"
    /\ Status[r] = "NotOpen" => FinalTimestep[r] = Infinity
    /\ FinalTimestep[r] # Infinity => Drained(r) /\ Status[r] # "Established"
    /\ Status[r] = "PeerClosed" =>
           Drained(r) \/ (Special /\ Ended(r) /\ ~inStep[r] /\ pc[r] \in {"user", "close_barrier", "linger"})

(* A step that is neither returned nor discarded waits in the queue. *)
IsData(t) == IsStep(t, {"step"})
Unread(r) ==
    /\ \A u \in Q(r) : IsData(u)
    /\ Status[r] # "Destroyed" =>
          \A u \in StepNo : u < arrived[r] /\ IsData(u) /\ ReaderTimestep[r] < u /\ DiscardPriorTimestep[r] <= u
                              => u \in Q(r)

(* ReaderTimestep is the newest step the rank returned. *)
Latest(r) ==
    /\ \A i \in DOMAIN Given(r) : Given(r)[i].status = "OK" => Given(r)[i].step <= ReaderTimestep[r]
    /\ ReaderTimestep[r] # Nothing => \E i \in DOMAIN Given(r) : Given(r)[i] = Answer("OK", ReaderTimestep[r])

(* What is gathered and settled on is newer than what the rank returned. *)
New(r, t) == IsData(t) /\ ReaderTimestep[r] < t
Synced(r) ==
    /\ Len(decision[r]) <= 1
    /\ decision[r] # <<>> => pc[r] = "bcast" /\ contribution[r] = <<>>
    /\ contribution[r] # <<>> => pc[r] \in (IF r = 0 THEN {"gather", "timedwait"} ELSE {"bcast"})
    /\ contribution[r] # <<>> /\ contribution[r][1] # Nothing => New(r, contribution[r][1])
    /\ \A k \in DOMAIN decision[r] : /\ decision[r][k].status # "FatalError"
                                     /\ decision[r][k].status = "OK" => New(r, decision[r][k].step)
    /\ pc[0] = "timedwait" => contribution[r] # <<>>
    /\ ~Special => pc[r] \notin {"gather", "timedwait", "bcast", "walk"}

(* Nothing is discarded beyond the step the rank returned, but when it has    *)
(* adopted a newer one, which it will return.                                 *)
Owed(r) ==
    IF ~Promised(r) THEN DiscardPriorTimestep[r] <= ReaderTimestep[r]
    ELSE IF AlwaysProvideLatestTimestep THEN New(r, DiscardPriorTimestep[r])
    ELSE \E u \in StepNo : New(r, u)

(* Without AlwaysProvideLatestTimestep the answers are the data steps of the  *)
(* log one by one, and the end of the stream comes after all of them.         *)
Before(r, i, u) == \E j \in DOMAIN Given(r) : j < i /\ Given(r)[j] = Answer("OK", u)
InTurn(r, i) ==
    /\ Given(r)[i].status = "OK" =>
           /\ IsData(Given(r)[i].step)
           /\ \A j \in DOMAIN Given(r) : j < i /\ Given(r)[j].status = "OK" => Given(r)[j].step < Given(r)[i].step
           /\ \A u \in StepNo : IsData(u) /\ u < Given(r)[i].step => Before(r, i, u)
    /\ ~Special /\ Given(r)[i].status # "OK" =>
           /\ Given(r)[i].status = "EndOfStream" /\ Closed
           /\ \A u \in StepNo : IsData(u) => Before(r, i, u)
NoneSkipped(r) == ~AlwaysProvideLatestTimestep => \A i \in DOMAIN Given(r) : InTurn(r, i)

(* What holds of a rank of the Peer pattern *)
PeerTold(r) == Connected(r) /\ Unread(r) /\ Latest(r) /\ Synced(r) /\ Owed(r) /\ NoneSkipped(r)

(* What makes SameEverywhere inductive *)
SameInv == /\ \A r \in Rank : NoStepNamed(r)
           /\ Unanswered /\ RootWaits /\ Told
           /\ CPCommPattern = "Peer" => \A r \in Rank : PeerTold(r)

-----------------------------------------------------------------------------
(* Sequences of answers *)

(* What a rank was told is a sequence of results. *)
LEMMA GivenTypes ==
  ASSUME Types, NEW r \in Rank
  PROVE  /\ results[r] \in Seq(Results) /\ Given(r) \in Seq(Results) /\ Heard(r) \in Seq(Results)
         /\ decision[r] \in Seq(Decisions)
         /\ \A v \in Results : Shown(v) \in Results
         /\ Decisions \subseteq Results
         /\ \A status \in {"OK", "Timeout", "EndOfStream", "FatalError", "NoStream"}, t \in Pointer :
                Answer(status, t) \in Results
<1>1. MaxSteps \in Nat /\ Nothing = -1 /\ Nothing \in Pointer
  BY Parameters, PointerTypes DEF Types, TypesWriter, Nothing
<1>2. /\ results[r] \in Seq(Results) /\ decision[r] \in Seq(Decisions)
      /\ ReaderTimestep[r] \in Pointer /\ DiscardPriorTimestep[r] \in Pointer
  BY DEF Types, TypesOut, TypesColl, TypesQueue
<1>3. \A status \in {"OK", "Timeout", "EndOfStream", "FatalError", "NoStream"}, t \in Pointer :
          Answer(status, t) \in Results
  BY <1>1 DEF Answer, Results, Pointer
<1>4. \A v \in Results : Shown(v) \in Results
  BY <1>1, <1>3 DEF Shown, Results, Pointer
<1>5. Given(r) \in Seq(Results)
  <2> DEFINE a == Answer("OK", ReaderTimestep[r])
  <2>1. a \in Results
    BY <1>2, <1>3
  <2> HIDE DEF a
  <2>2. Append(results[r], a) \in Seq(Results)
    BY <1>2, <2>1, AppendProperties
  <2> QED BY <1>2, <2>2 DEF Given, a
<1>6. Heard(r) \in Seq(Results)
  <2> DEFINE g == Given(r)
             shown == [i \in DOMAIN g |-> Shown(g[i])]
             a == Shown(Answer("OK", DiscardPriorTimestep[r]))
  <2>1. g \in Seq(Results) /\ a \in Results
    BY <1>2, <1>3, <1>4, <1>5
  <2> HIDE DEF g, a
  <2>2. DOMAIN g = 1 .. Len(g) /\ Len(g) \in Nat /\ \A i \in DOMAIN g : g[i] \in Results
    BY <2>1, ListElements, Zenon
  <2>3. \A i \in DOMAIN g : Shown(g[i]) \in Results
    BY <1>4, <2>2
  <2>4. shown \in Seq(Results)
    BY <2>2, <2>3
  <2> HIDE DEF shown
  <2>5. Append(shown, a) \in Seq(Results)
    BY <2>1, <2>4, AppendProperties
  <2> QED BY <2>4, <2>5 DEF Heard, shown, g, a
<1> QED
  BY <1>2, <1>3, <1>4, <1>5, <1>6 DEF Decisions

(* The elements of a sequence that was appended to *)
LEMMA AppendedTo ==
  ASSUME NEW T, NEW q \in Seq(T), NEW v \in T
  PROVE  /\ Append(q, v) \in Seq(T) /\ Len(q) \in Nat
         /\ Len(Append(q, v)) = Len(q) + 1 /\ DOMAIN Append(q, v) = 1 .. (Len(q) + 1)
         /\ DOMAIN q = 1 .. Len(q)
         /\ Append(q, v)[Len(q) + 1] = v
         /\ \A i \in 1 .. Len(q) : Append(q, v)[i] = q[i]
<1>1. /\ Append(q, v) \in Seq(T) /\ Len(Append(q, v)) = Len(q) + 1 /\ Len(q) \in Nat
      /\ Append(q, v)[Len(q) + 1] = v /\ \A k \in 1 .. Len(q) : Append(q, v)[k] = q[k]
  BY AppendProperties, ListElements
<1> QED
  BY <1>1, ListElements

(* What is heard depends on what was given and what is promised. *)
LEMMA HeardKept ==
  ASSUME config' = config, NEW s \in Rank, Given(s)' = Given(s), Promised(s)' <=> Promised(s),
         Promised(s) => DiscardPriorTimestep'[s] = DiscardPriorTimestep[s]
  PROVE  Heard(s)' = Heard(s)
<1>1. \A v : Shown(v)' = Shown(v)
  BY Fixed DEF Shown, Names
<1> QED
  BY <1>1, Fixed DEF Heard, Answer

(* Nobody is told anything. *)
LEMMA ToldKept ==
  ASSUME config' = config, Told, UNCHANGED decision, \A s \in Rank : Heard(s)' = Heard(s),
         writerUp' \/ response' => writerUp \/ response, 0 \in Rank
  PROVE  Told'
<1>1. \A v : Shown(v)' = Shown(v)
  BY Fixed DEF Shown, Names
<1>2. Collective' <=> Collective
  BY Fixed DEF Collective
<1> QED
  BY <1>1, <1>2 DEF Told, HeardSame

(* Rank 0 has decided, and broadcasts the decision. *)
LEMMA ToldDecided ==
  ASSUME Types, config' = config, Told, NEW v \in Decisions, Distribute(v),
         Heard(0)' = Append(Heard(0), Shown(v)), \A s \in Rank \ {0} : Heard(s)' = Heard(s),
         writerUp' \/ response' => writerUp \/ response, 0 \in Rank
  PROVE  Told'
<1>1. \A x : Shown(x)' = Shown(x)
  BY Fixed DEF Shown, Names
<1>2. Collective' <=> Collective
  BY Fixed DEF Collective
<1>3. ASSUME NEW r \in Rank \ {0}, HeardSame(r) PROVE HeardSame(r)'
  <2> DEFINE a == Heard(r)
             z == Heard(0)
             d == decision[r]
             w == Shown(v)
  <2>1. a \in Seq(Results) /\ z \in Seq(Results) /\ d \in Seq(Decisions) /\ w \in Results
    BY <1>3, GivenTypes
  <2>2. Heard(r)' = a /\ Heard(0)' = Append(z, w) /\ decision'[r] = Append(d, v)
    BY <1>3 DEF Distribute
  <2>3. /\ Len(z) = Len(a) + Len(d)
        /\ \A i \in 1 .. Len(a) : a[i] = z[i]
        /\ \A k \in 1 .. Len(d) : Shown(d[k]) = z[Len(a) + k]
    BY <1>3 DEF HeardSame
  <2>8. Shown(v) = w
    OBVIOUS
  <2> HIDE DEF a, z, d, w
  <2>4. Len(a) \in Nat
    BY <2>1, ListElements
  <2>5. /\ Len(d) \in Nat /\ Len(Append(d, v)) = Len(d) + 1 /\ Append(d, v)[Len(d) + 1] = v
        /\ \A k \in 1 .. Len(d) : Append(d, v)[k] = d[k]
    BY <2>1, AppendedTo
  <2>6. /\ Len(z) \in Nat /\ Len(Append(z, w)) = Len(z) + 1 /\ Append(z, w)[Len(z) + 1] = w
        /\ \A k \in 1 .. Len(z) : Append(z, w)[k] = z[k]
    BY <2>1, AppendedTo
  <2>7. Len(Append(z, w)) = Len(a) + Len(Append(d, v))
    BY <2>3, <2>4, <2>5, <2>6
  <2>9. \A i \in 1 .. Len(a) : a[i] = Append(z, w)[i]
    BY <2>3, <2>4, <2>5, <2>6
  <2>10. ASSUME NEW k \in 1 .. Len(Append(d, v)) PROVE Shown(Append(d, v)[k]) = Append(z, w)[Len(a) + k]
    <3>1. CASE k \in 1 .. Len(d)
      <4>1. Len(a) + k \in 1 .. Len(z)
        BY <2>3, <2>4, <2>5, <2>6, <3>1
      <4> QED BY <2>3, <2>5, <2>6, <3>1, <4>1
    <3>2. CASE k = Len(d) + 1
      <4>1. Len(a) + k = Len(z) + 1
        BY <2>3, <2>4, <2>5, <2>6, <3>2
      <4> QED BY <2>5, <2>6, <2>8, <3>2, <4>1
    <3>3. k \in 1 .. Len(d) \/ k = Len(d) + 1
      BY <2>5
    <3> QED BY <3>1, <3>2, <3>3
  <2> QED BY <1>1, <2>2, <2>7, <2>9, <2>10 DEF HeardSame
<1> QED
  BY <1>2, <1>3 DEF Told

(* A rank receives a decision. *)
LEMMA ToldFollowed ==
  ASSUME Types, config' = config, Told, NEW r \in Rank \ {0}, decision[r] # <<>>,
         decision' = [decision EXCEPT ![r] = Tail(@)],
         Heard(r)' = Append(Heard(r), Shown(decision[r][1])), \A s \in Rank \ {r} : Heard(s)' = Heard(s),
         writerUp' \/ response' => writerUp \/ response, 0 \in Rank
  PROVE  Told'
<1>1. \A x : Shown(x)' = Shown(x)
  BY Fixed DEF Shown, Names
<1>2. Collective' <=> Collective
  BY Fixed DEF Collective
<1>3. ASSUME HeardSame(r) PROVE HeardSame(r)'
  <2> DEFINE a == Heard(r)
             z == Heard(0)
             d == decision[r]
             w == Shown(d[1])
  <2>1. a \in Seq(Results) /\ z \in Seq(Results) /\ d \in Seq(Decisions) /\ d # <<>>
    BY GivenTypes
  <2>2. w \in Results
    <3>1. d[1] \in Decisions
      <4> HIDE DEF d
      <4> QED BY <2>1
    <3> QED BY <3>1, GivenTypes
  <2>3. Heard(r)' = Append(a, w) /\ Heard(0)' = z /\ decision'[r] = Tail(d)
    BY Domains
  <2>4. /\ Len(z) = Len(a) + Len(d)
        /\ \A i \in 1 .. Len(a) : a[i] = z[i]
        /\ \A k \in 1 .. Len(d) : Shown(d[k]) = z[Len(a) + k]
    BY <1>3 DEF HeardSame
  <2> HIDE DEF a, z, d
  <2>5. /\ Len(d) \in Nat \ {0} /\ Len(Tail(d)) = Len(d) - 1
        /\ \A k \in 1 .. (Len(d) - 1) : Tail(d)[k] = d[k + 1]
    BY <2>1
  <2>6. w = z[Len(a) + 1]
    BY <2>4, <2>5
  <2> HIDE DEF w
  <2>7. /\ Len(a) \in Nat /\ Len(Append(a, w)) = Len(a) + 1 /\ Append(a, w)[Len(a) + 1] = w
        /\ \A k \in 1 .. Len(a) : Append(a, w)[k] = a[k]
    BY <2>1, <2>2, AppendedTo
  <2>8. Len(z) = Len(Append(a, w)) + Len(Tail(d))
    BY <2>4, <2>5, <2>7
  <2>9. \A i \in 1 .. Len(Append(a, w)) : Append(a, w)[i] = z[i]
    BY <2>4, <2>6, <2>7
  <2>10. ASSUME NEW k \in 1 .. Len(Tail(d)) PROVE Shown(Tail(d)[k]) = z[Len(Append(a, w)) + k]
    <3>1. k \in 1 .. (Len(d) - 1) /\ k + 1 \in 1 .. Len(d) /\ Len(Append(a, w)) + k = Len(a) + (k + 1)
      BY <2>5, <2>7
    <3> QED BY <2>4, <2>5, <3>1
  <2> QED BY <1>1, <2>3, <2>8, <2>9, <2>10 DEF HeardSame
<1>4. ASSUME NEW s \in Rank \ {0, r}, HeardSame(s) PROVE HeardSame(s)'
  <2>1. decision'[s] = decision[s]
    BY Domains
  <2> QED BY <1>1, <1>4, <2>1 DEF HeardSame
<1> QED
  BY <1>2, <1>3, <1>4 DEF Told

(* A sequence is the function of its elements. *)
LEMMA OfItsElements ==
  ASSUME NEW T, NEW q \in Seq(T)
  PROVE  q = [i \in DOMAIN q |-> q[i]]
  OBVIOUS

(* What a rank is told or promised is added to what it has heard, and what it *)
(* was promised is given.                                                     *)
LEMMA HeardMoves ==
  ASSUME config' = config, Types, Types', NEW r \in Rank
  PROVE  /\ \A v \in Results : ~Promised(r) /\ ~Promised(r)' /\ Given(r)' = Append(Given(r), v)
                => Heard(r)' = Append(Heard(r), Shown(v))
         /\ ~Promised(r) /\ Promised(r)' /\ Given(r)' = Given(r)
                => Heard(r)' = Append(Heard(r), Shown(Answer("OK", DiscardPriorTimestep'[r])))
         /\ \A v \in Results : /\ Promised(r) /\ ~Promised(r)' /\ Given(r)' = Append(Given(r), v)
                               /\ Shown(v) = Shown(Answer("OK", DiscardPriorTimestep[r]))
                => Heard(r)' = Heard(r)
<1> DEFINE g == Given(r)
           Show(q) == [i \in DOMAIN q |-> Shown(q[i])]
<1>1. \A v : Shown(v)' = Shown(v)
  BY Fixed DEF Shown, Names
<1>2. g \in Seq(Results) /\ \A v \in Results : Shown(v) \in Results
  BY GivenTypes
<1>3. /\ Heard(r) = IF Promised(r) THEN Append(Show(g), Shown(Answer("OK", DiscardPriorTimestep[r]))) ELSE Show(g)
      /\ Heard(r)' = IF Promised(r)' THEN Append(Show(Given(r)'), Shown(Answer("OK", DiscardPriorTimestep'[r])))
                                     ELSE Show(Given(r)')
  BY <1>1 DEF Heard, Answer
<1>4. ASSUME NEW v \in Results PROVE Show(Append(g, v)) = Append(Show(g), Shown(v))
  <2> HIDE DEF g
  <2>1. /\ Len(g) \in Nat /\ DOMAIN g = 1 .. Len(g) /\ DOMAIN Append(g, v) = 1 .. (Len(g) + 1)
        /\ Append(g, v)[Len(g) + 1] = v /\ \A i \in 1 .. Len(g) : Append(g, v)[i] = g[i]
    BY <1>2, AppendedTo
  <2>2. \A i \in DOMAIN g : g[i] \in Results
    BY <1>2, ListElements, Zenon
  <2>3. Show(g) \in Seq(Results)
    <3>1. \A i \in DOMAIN g : Shown(g[i]) \in Results
      BY <1>2, <2>2
    <3> QED BY <2>1, <3>1
  <2> DEFINE sg == Show(g)
             sv == Shown(v)
  <2>4. sg \in Seq(Results) /\ sv \in Results /\ Len(sg) = Len(g) /\ \A i \in 1 .. Len(g) : sg[i] = Shown(g[i])
    BY <1>2, <2>1, <2>3
  <2>5. \A i \in 1 .. (Len(g) + 1) : Shown(Append(g, v)[i]) = IF i = Len(g) + 1 THEN sv ELSE sg[i]
    BY <2>1, <2>4
  <2> HIDE DEF sg, sv
  <2>6. /\ Append(sg, sv) \in Seq(Results) /\ DOMAIN Append(sg, sv) = 1 .. (Len(g) + 1)
        /\ Append(sg, sv)[Len(g) + 1] = sv /\ \A i \in 1 .. Len(g) : Append(sg, sv)[i] = sg[i]
    BY <2>4, AppendedTo
  <2>7. Append(sg, sv) = [i \in DOMAIN Append(sg, sv) |-> Append(sg, sv)[i]]
    BY <2>6, OfItsElements
  <2>8. \A i \in 1 .. (Len(g) + 1) : Append(sg, sv)[i] = Shown(Append(g, v)[i])
    BY <2>1, <2>5, <2>6
  <2>9. Append(sg, sv) = Show(Append(g, v))
    BY <2>1, <2>6, <2>7, <2>8
  <2> QED BY <2>9 DEF sg, sv
<1> HIDE DEF Show
<1> QED
  BY <1>3, <1>4

-----------------------------------------------------------------------------
(* Before the writer answers nobody has been told anything. *)
LEMMA UnansweredStep ==
  ASSUME Types, Unanswered, [Next]_vars
  PROVE  Unanswered' /\ (writerUp' \/ response' => writerUp \/ response)
<1>0. 0 \in Rank /\ DOMAIN pc = Rank /\ DOMAIN results = Rank /\ DOMAIN decision = Rank
  BY Parameters, Domains DEF Types, TypesWriter
<1> USE <1>0
<1>1. ASSUME UNCHANGED <<pc, results, decision>>, response => response', response' => writerUp \/ response,
             writerUp' => writerUp
      PROVE  Unanswered' /\ (writerUp' \/ response' => writerUp \/ response)
  BY <1>1 DEF Unanswered
<1>2. CASE Writer
  BY <1>1, <1>2 DEF Writer, WriterResponds, WriterProvides, WriterCloses, WriterDies, writerOnly, threadVars,
     collVars, outVars
<1>3. ASSUME NEW r \in Rank, Net(r)
      PROVE  Unanswered' /\ (writerUp' \/ response' => writerUp \/ response)
  BY <1>1, <1>3 DEF Net, CP_PeerSetupHandler, DiscardNotice, TimestepMetadata, WalkNet,
     CP_WriterCloseHandler, ReaderConnCloseHandler, triggerDataCondition, writerVars, collVars, outVars
<1>4. ASSUME NEW r \in Rank, Main(r)
      PROVE  Unanswered' /\ (writerUp' \/ response' => writerUp \/ response)
  <2>1. UNCHANGED writerVars
    BY <1>4 DEF Main, OpenResponse, OpenEstablish, BeginStep, GatherDecide, TimedWait, WalkMain, NextMetadata,
       Follow, SstGetAttributeData, InstallAttributes, EndStep, SendRelease, SstReaderClose, SstStreamDestroy
  <2>2. ASSUME ~response PROVE Unanswered'
    <3>1. pc[r] = "opening" \/ (r = 0 /\ pc[r] = "done")
      BY <2>2 DEF Unanswered
    <3>2. OpenResponse(r)
      BY <1>4, <3>1 DEF Main, OpenEstablish, BeginStep, GatherDecide, TimedWait, WalkMain, NextMetadata,
         Follow, SstGetAttributeData, InstallAttributes, EndStep, SendRelease, SstReaderClose, SstStreamDestroy
    <3>3. r = 0 /\ ~writerUp /\ pc' = [pc EXCEPT ![0] = "done"] /\ UNCHANGED decision
          /\ \A s \in Rank \ {0} : results'[s] = results[s]
      BY <2>2, <3>2 DEF OpenResponse, Goto, collVars
    <3> QED BY <2>1, <2>2, <3>3 DEF Unanswered, writerVars
  <2> QED BY <2>1, <2>2 DEF Unanswered, writerVars
<1>5. CASE Barrier
  <2>1. UNCHANGED <<writerVars, decision, results>> /\ pc[0] \in Barriers
    BY <1>5 DEF Barrier, collVars, outVars
  <2> QED BY <2>1 DEF Unanswered, writerVars, Barriers
<1>6. CASE UNCHANGED vars
  BY <1>1, <1>6 DEF vars, writerVars, threadVars, collVars, outVars
<1> QED
  BY <1>2, <1>3, <1>4, <1>5, <1>6 DEF Next, Reader, Finished, Undefined

-----------------------------------------------------------------------------
(* What the actions of a rank tell it *)

(* A rank's variables that the answers depend on *)
Unmoved(r) ==
    /\ pc'[r] = pc[r] /\ results'[r] = results[r] /\ ReaderTimestep'[r] = ReaderTimestep[r]
    /\ DiscardPriorTimestep'[r] = DiscardPriorTimestep[r]

(* A rank that does nothing hears nothing. *)
LEMMA UnmovedHeard ==
  ASSUME config' = config, NEW r \in Rank, Unmoved(r)
  PROVE  Given(r)' = Given(r) /\ Heard(r)' = Heard(r) /\ (Promised(r)' <=> Promised(r))
<1>1. Given(r)' = Given(r) /\ (Promised(r)' <=> Promised(r))
  BY Fixed DEF Unmoved, Given, Answer, Promised
<1> QED
  BY <1>1, HeardKept DEF Unmoved

(* The program counters of a call that has its step *)
InStepPcs == {"get_attributes", "install"}

(* What a rank is told where its call goes on or returns *)
LEMMA GivenMoves ==
  ASSUME Types, NEW r \in Rank, config' = config
  PROVE  /\ pc[r] \notin InStepPcs /\ pc'[r] \notin InStepPcs /\ results'[r] = results[r]
               => Given(r)' = Given(r)
         /\ \A status, t : pc[r] \notin InStepPcs /\ Finish(r, status, t)
               => Given(r)' = Append(Given(r), Answer(status, t)) /\ pc'[r] = "user"
         /\ \A t : /\ pc[r] \notin InStepPcs /\ Goto(r, "get_attributes") /\ UNCHANGED results
                   /\ ReaderTimestep'[r] = t
               => Given(r)' = Append(Given(r), Answer("OK", t)) /\ pc'[r] = "get_attributes"
         /\ SstGetAttributeData(r) \/ InstallAttributes(r) => Given(r)' = Given(r) /\ pc'[r] \in {"install", "user"}
<1> USE Domains
<1>1. ASSUME pc[r] \notin InStepPcs, pc'[r] \notin InStepPcs, results'[r] = results[r] PROVE Given(r)' = Given(r)
  BY <1>1 DEF Given, InStepPcs
<1>2. ASSUME NEW status, NEW t, pc[r] \notin InStepPcs, Finish(r, status, t)
      PROVE  Given(r)' = Append(Given(r), Answer(status, t)) /\ pc'[r] = "user"
  <2>1. pc'[r] = "user" /\ results'[r] = Append(results[r], Answer(status, t))
    BY <1>2 DEF Finish, Goto, Answer
  <2> QED BY <1>2, <2>1 DEF Given, InStepPcs
<1>3. ASSUME NEW t, pc[r] \notin InStepPcs, Goto(r, "get_attributes"), UNCHANGED results, ReaderTimestep'[r] = t
      PROVE  Given(r)' = Append(Given(r), Answer("OK", t)) /\ pc'[r] = "get_attributes"
  <2>1. pc'[r] = "get_attributes"
    BY <1>3 DEF Goto
  <2> QED BY <1>3, <2>1 DEF Given, InStepPcs, Answer
<1>4. ASSUME SstGetAttributeData(r) PROVE Given(r)' = Given(r) /\ pc'[r] = "install"
  <2>1. /\ pc[r] = "get_attributes" /\ pc'[r] = "install" /\ UNCHANGED <<results, ReaderTimestep>>
    BY <1>4 DEF SstGetAttributeData, Goto, outVars, stepVars
  <2> QED BY <2>1 DEF Given, Answer
<1>5. ASSUME InstallAttributes(r) PROVE Given(r)' = Given(r) /\ pc'[r] = "user"
  <2>1. /\ pc[r] = "install" /\ pc'[r] = "user"
        /\ results'[r] = Append(results[r], Answer("OK", ReaderTimestep[r]))
    BY <1>5 DEF InstallAttributes, Finish, Goto, Answer
  <2> QED BY <2>1 DEF Given
<1> QED
  BY <1>1, <1>2, <1>3, <1>4, <1>5

(* An action of one rank leaves the answers of the others alone. *)
LEMMA MainOthers ==
  ASSUME Types, NEW r \in Rank, Main(r)
  PROVE  /\ \A s \in Rank \ {r} : Unmoved(s) /\ Same(s) /\ npc'[s] = npc[s] /\ FinalTimestep'[s] = FinalTimestep[s]
         /\ UNCHANGED <<npc, FinalTimestep, arrived, config>> /\ UNCHANGED writerVars
<1>1. config' = config
  BY DEF Main
<1> USE Domains DEF Unmoved, Same
<1>2. UNCHANGED <<npc, FinalTimestep, arrived>> /\ UNCHANGED writerVars
  BY DEF Main, OpenResponse, OpenEstablish, BeginStep, GatherDecide, TimedWait, WalkMain, NextMetadata,
       Follow, SstGetAttributeData, InstallAttributes, EndStep, SendRelease, SstReaderClose, SstStreamDestroy,
       streamVars, statusVars
<1> SUFFICES ASSUME NEW s \in Rank \ {r} PROVE Same(s)
  BY <1>1, <1>2 DEF Unmoved, Same
<1>a. ASSUME NEW p, Goto(r, p) PROVE pc'[s] = pc[s]
  BY <1>a DEF Goto
<1>b. ASSUME NEW status, NEW t, Finish(r, status, t)
      PROVE  results'[s] = results[s] /\ inStep'[s] = inStep[s] /\ pc'[s] = pc[s]
  BY <1>b, <1>a DEF Finish
<1>c. ASSUME NEW t, Adopt(r, t) \/ GiveUp(r, t)
      PROVE  /\ pc'[s] = pc[s] /\ results'[s] = results[s] /\ inStep'[s] = inStep[s]
             /\ walk'[s] = walk[s] /\ DiscardPriorTimestep'[s] = DiscardPriorTimestep[s]
  BY <1>c, <1>a, <1>b DEF Adopt, GiveUp
<1>d. ASSUME NEW t, AdoptStatus(r, t) PROVE Status'[s] = Status[s]
  BY <1>d DEF AdoptStatus
<1>e. ASSUME NEW t, Decide(r, t)
      PROVE  /\ pc'[s] = pc[s] /\ results'[s] = results[s] /\ inStep'[s] = inStep[s] /\ Status'[s] = Status[s]
             /\ walk'[s] = walk[s] /\ DiscardPriorTimestep'[s] = DiscardPriorTimestep[s]
  BY <1>e, <1>c, <1>d DEF Decide
<1>f. ASSUME NEW ts, InstallPrecious(r, ts) PROVE formats'[s] = formats[s]
  BY <1>f DEF InstallPrecious
<1>g. ASSUME NEW t, Release(r, t) PROVE released'[s] = released[s]
  BY <1>g DEF Release
<1>3. CASE OpenResponse(r) \/ OpenEstablish(r)
  BY <1>3, <1>a DEF OpenResponse, OpenEstablish, streamVars, queueVars, infoVars, statusVars, stepVars, outVars
<1>4. CASE BeginStep(r)
  BY <1>4, <1>a, <1>b DEF BeginStep, streamVars, queueVars, infoVars, statusVars, stepVars
<1>5. CASE GatherDecide(r)
  BY <1>5, <1>a, <1>e DEF GatherDecide, infoVars, stepVars
<1>6. CASE TimedWait(r)
  BY <1>6, <1>a, <1>e DEF TimedWait, infoVars, stepVars
<1>7. CASE WalkMain(r)
  <2>1. Timesteps'[s] = Timesteps[s] /\ formats'[s] = formats[s] /\ released'[s] = released[s] /\ walk'[s] = walk[s]
    BY <1>7, <1>f, <1>g DEF WalkMain, WalkTurn, infoVars
  <2> QED BY <1>7, <2>1, <1>a, <1>b DEF WalkMain, statusVars, stepVars
<1>8. CASE NextMetadata(r)
  <2>1. Timesteps'[s] = Timesteps[s] /\ formats'[s] = formats[s]
    BY <1>8, <1>f DEF NextMetadata
  <2>2. /\ pc'[s] = pc[s] /\ results'[s] = results[s] /\ inStep'[s] = inStep[s]
        /\ ReaderTimestep'[s] = ReaderTimestep[s] /\ CurrentWorkingTimestep'[s] = CurrentWorkingTimestep[s]
    BY <1>8, <1>a, <1>b DEF NextMetadata
  <2>3. UNCHANGED <<arrived, CMconn, DiscardPriorTimestep, Status, walk, released>>
    BY <1>8 DEF NextMetadata, statusVars
  <2> QED BY <2>1, <2>2, <2>3
<1>9. CASE Follow(r)
  BY <1>9, <1>a, <1>b, <1>c, <1>d, <1>f DEF Follow, infoVars, stepVars
<1>10. CASE SstGetAttributeData(r) \/ InstallAttributes(r)
  BY <1>10, <1>a, <1>b DEF SstGetAttributeData, InstallAttributes, streamVars, queueVars, infoVars, statusVars,
     stepVars, outVars
<1>11. CASE EndStep(r) \/ SendRelease(r)
  BY <1>11, <1>a, <1>g DEF EndStep, SendRelease, streamVars, queueVars, infoVars, statusVars, stepVars, outVars
<1>12. CASE SstReaderClose(r) \/ SstStreamDestroy(r)
  BY <1>12, <1>a DEF SstReaderClose, SstStreamDestroy, streamVars, queueVars, infoVars, statusVars, stepVars, outVars
<1> QED
  BY <1>3, <1>4, <1>5, <1>6, <1>7, <1>8, <1>9, <1>10, <1>11, <1>12 DEF Main

(* Its network thread leaves all ranks' answers alone. *)
LEMMA NetOthers ==
  ASSUME Types, NEW r \in Rank, Net(r)
  PROVE  /\ \A s \in Rank : Unmoved(s)
         /\ \A s \in Rank \ {r} : npc'[s] = npc[s] /\ FinalTimestep'[s] = FinalTimestep[s] /\ arrived'[s] = arrived[s]
                                   /\ Status'[s] = Status[s] /\ Timesteps'[s] = Timesteps[s]
         /\ UNCHANGED <<pc, results, inStep, ReaderTimestep, DiscardPriorTimestep, contribution, decision, config>>
         /\ UNCHANGED writerVars
<1> USE Domains
<1>1. /\ UNCHANGED <<pc, results, inStep, ReaderTimestep, DiscardPriorTimestep, contribution, decision, config>>
      /\ UNCHANGED writerVars
  BY DEF Net, CP_PeerSetupHandler, DiscardNotice, TimestepMetadata, WalkNet, CP_WriterCloseHandler,
     ReaderConnCloseHandler, triggerDataCondition, streamVars, queueVars, stepVars, collVars, outVars
<1>2. ASSUME NEW s \in Rank \ {r}
      PROVE  /\ npc'[s] = npc[s] /\ FinalTimestep'[s] = FinalTimestep[s] /\ arrived'[s] = arrived[s]
             /\ Status'[s] = Status[s] /\ Timesteps'[s] = Timesteps[s]
  <2>0. DOMAIN npc = Rank /\ DOMAIN FinalTimestep = Rank
    BY DEF Types, TypesThreads, TypesStatus
  <2> USE <2>0
  <2>1. CASE CP_PeerSetupHandler(r) \/ triggerDataCondition(r)
    BY <2>1 DEF CP_PeerSetupHandler, triggerDataCondition, streamVars, queueVars, statusVars
  <2>2. CASE DiscardNotice(r) \/ TimestepMetadata(r)
    BY <2>2 DEF DiscardNotice, TimestepMetadata, Incoming, queueVars, statusVars
  <2>3. CASE WalkNet(r)
    BY <2>3 DEF WalkNet, WalkTurn, statusVars
  <2>4. CASE CP_WriterCloseHandler(r) \/ ReaderConnCloseHandler(r)
    BY <2>4 DEF CP_WriterCloseHandler, ReaderConnCloseHandler, Incoming, queueVars
  <2> QED BY <2>1, <2>2, <2>3, <2>4 DEF Net
<1> QED
  BY <1>1, <1>2 DEF Unmoved

-----------------------------------------------------------------------------
(* Who has been told, when rank 0 decides for all *)

(* Rank 0 decides on a step, or on none. *)
LEMMA ToldOfDecision ==
  ASSUME Types, Types', config' = config, Told, Collective, NEW t \in Pointer, 0 \in Rank,
         pc[0] \in {"gather", "timedwait"}, Decide(0, t), \A s \in Rank \ {0} : Unmoved(s),
         UNCHANGED writerVars
  PROVE  Told'
<1> USE Domains
<1> DEFINE status == Outcome(0, t)
           v == [status |-> status, step |-> t]
<1>1. /\ status \in {"OK", "Timeout", "EndOfStream", "FatalError"} /\ (status = "OK" => t # Nothing)
      /\ v = Answer(status, t) /\ v \in Decisions
  <2>1. status \in {"OK", "Timeout", "EndOfStream", "FatalError"} /\ (status = "OK" => t # Nothing)
    BY OutcomeKind
  <2>2. v = Answer(status, t)
    BY DEF Answer
  <2>3. v \in Results
    BY <2>1, <2>2, GivenTypes
  <2> QED BY <2>1, <2>2, <2>3 DEF Decisions
<1>2. /\ ~Promised(0) /\ pc[0] \notin InStepPcs
      /\ \A s \in Rank \ {0} : Heard(s)' = Heard(s)
      /\ writerUp' \/ response' => writerUp \/ response
  BY UnmovedHeard DEF Promised, InStepPcs, writerVars
<1>3. CASE status = "OK" /\ CPCommPattern = "Min"
  <2>1. Given(0)' = Given(0) /\ UNCHANGED decision
    BY <1>2, <1>3, GivenMoves DEF Decide, Adopt, Goto, InStepPcs
  <2>2. ~Promised(0)'
    BY <1>3, Fixed DEF Promised
  <2>3. Heard(0)' = Heard(0)
    BY <1>2, <2>1, <2>2, HeardKept
  <2> QED BY <1>2, <2>1, <2>3, ToldKept
<1>4. CASE status = "OK" /\ CPCommPattern # "Min"
  <2>1. /\ Given(0)' = Given(0) /\ Distribute(v) /\ pc'[0] \in {"walk", "next"}
        /\ AlwaysProvideLatestTimestep => DiscardPriorTimestep'[0] = t
    BY <1>2, <1>4, GivenMoves DEF Decide, Adopt, Goto, InStepPcs, Types, TypesQueue
  <2>2. Promised(0)' /\ CPCommPattern = "Peer"
    BY <1>4, <2>1, Fixed, Parameters DEF Promised, Collective, Types, TypesWriter
  <2>3. Shown(Answer("OK", DiscardPriorTimestep'[0])) = Shown(v)
    BY <1>4, <2>1, <2>2 DEF Shown, Answer, Names
  <2>4. Heard(0)' = Append(Heard(0), Shown(v))
    BY <1>2, <2>1, <2>2, <2>3, HeardMoves
  <2> HIDE DEF v, status
  <2> QED BY <1>1, <1>2, <2>1, <2>4, ToldDecided
<1>5. CASE status # "OK"
  <2>1. /\ Finish(0, status, Nothing) /\ Distribute(v)
    BY <1>5 DEF Decide, GiveUp
  <2>2. Given(0)' = Append(Given(0), Answer(status, Nothing)) /\ pc'[0] = "user"
    BY <1>2, <2>1, GivenMoves
  <2>3. Answer(status, Nothing) \in Results
    BY <1>1, GivenTypes, PointerTypes
  <2>4. ~Promised(0)'
    BY <2>2 DEF Promised
  <2>5. Heard(0)' = Append(Heard(0), Shown(Answer(status, Nothing)))
    BY <1>2, <2>2, <2>3, <2>4, HeardMoves
  <2>6. Shown(Answer(status, Nothing)) = Shown(v)
    BY <1>5 DEF Shown, Answer
  <2> HIDE DEF v, status
  <2> QED BY <1>1, <1>2, <2>1, <2>5, <2>6, ToldDecided
<1> QED
  BY <1>3, <1>4, <1>5

(* Rank 0, which alone has a connection, says that the writer is gone. *)
LEMMA ToldOfFailure ==
  ASSUME Types, Types', config' = config, Told, CPCommPattern = "Min", 0 \in Rank, pc[0] \notin InStepPcs,
         NEW status \in {"FatalError", "EndOfStream"}, Finish(0, status, Nothing),
         Distribute([status |-> status, step |-> Nothing]), \A s \in Rank \ {0} : Unmoved(s),
         UNCHANGED writerVars
  PROVE  Told'
<1> DEFINE v == [status |-> status, step |-> Nothing]
<1>1. v = Answer(status, Nothing) /\ v \in Decisions
  <2>1. v = Answer(status, Nothing)
    BY DEF Answer
  <2> QED BY <2>1, GivenTypes, PointerTypes DEF Decisions
<1>2. Given(0)' = Append(Given(0), v)
  BY <1>1, GivenMoves
<1>3. ~Promised(0) /\ ~Promised(0)'
  BY Fixed DEF Promised
<1>4. v \in Results
  BY <1>1, GivenTypes
<1>5. Heard(0)' = Append(Heard(0), Shown(v))
  BY <1>2, <1>3, <1>4, HeardMoves
<1>6. /\ \A s \in Rank \ {0} : Heard(s)' = Heard(s)
      /\ writerUp' \/ response' => writerUp \/ response
  BY UnmovedHeard DEF writerVars
<1> HIDE DEF v
<1> QED
  BY <1>1, <1>5, <1>6, ToldDecided DEF v

(* waitForNextMetadata has found a step, or that there will be none. *)
LEMMA ToldOfNext ==
  ASSUME IInv, Types', config' = config, Told, CPCommPattern = "Min", NEW r \in Rank, NextMetadata(r)
  PROVE  Told'
<1>1. /\ Types /\ 0 \in Rank /\ r = 0 /\ r \in Rank /\ pc[0] = "next" /\ Sorted(Timesteps[0])
      /\ pc[0] \notin InStepPcs
  <2>1. r = 0
    BY RankFacts, Parameters DEF NextMetadata, IInv, Place, Types, TypesWriter
  <2> QED BY <2>1, RankFacts, Parameters DEF NextMetadata, IInv, InStepPcs
<1>2. /\ \A s \in Rank \ {0} : Unmoved(s)
      /\ UNCHANGED writerVars
  BY <1>1, MainOthers DEF Main
<1>3. /\ \A s \in Rank \ {0} : Heard(s)' = Heard(s)
      /\ writerUp' \/ response' => writerUp \/ response
  BY <1>2, UnmovedHeard DEF writerVars
<1>4. ~Promised(0) /\ ~Promised(0)'
  BY Fixed DEF Promised
<1>5. ASSUME NEW t \in StepNo, NEW D \in SUBSET StepNo, NextFound(0, t, D) PROVE Told'
  <2> DEFINE v == [status |-> "OK", step |-> t]
  <2>1. v = Answer("OK", t) /\ v \in Results /\ v \in Decisions
    <3>1. v = Answer("OK", t) /\ t \in Pointer /\ t # Nothing
      BY <1>1, PointerTypes DEF Answer
    <3>2. v \in Results
      BY <1>1, <3>1, GivenTypes
    <3> QED BY <3>1, <3>2 DEF Decisions
  <2>2. ReaderTimestep'[0] = t
    BY <1>1, <1>5, Domains DEF NextFound
  <2>3. Given(0)' = Append(Given(0), v)
    BY <1>1, <1>5, <2>1, <2>2, GivenMoves DEF NextFound
  <2>4. Heard(0)' = Append(Heard(0), Shown(v))
    BY <1>1, <1>4, <2>1, <2>3, HeardMoves
  <2>5. Distribute(v)
    BY <1>5 DEF NextFound, Tell
  <2> HIDE DEF v
  <2> QED BY <1>1, <1>3, <2>1, <2>4, <2>5, ToldDecided
<1>6. ASSUME NEW D \in SUBSET StepNo, NextNone(0, D) PROVE Told'
  <2>1. CASE Finish(0, FinalStatus(0), Nothing) /\ Tell([status |-> FinalStatus(0), step |-> Nothing])
    <3>1. FinalStatus(0) \in {"FatalError", "EndOfStream"}
      BY DEF FinalStatus
    <3>2. Distribute([status |-> FinalStatus(0), step |-> Nothing])
      BY <2>1 DEF Tell
    <3> QED BY <1>1, <1>2, <2>1, <3>1, <3>2, ToldOfFailure
  <2>2. CASE UNCHANGED <<CurrentWorkingTimestep, pc, decision, inStep, results>>
    <3>1. Given(0)' = Given(0)
      BY <1>1, <2>2, GivenMoves
    <3>2. Heard(0)' = Heard(0)
      BY <1>1, <1>4, <3>1, HeardKept
    <3> QED BY <1>1, <1>3, <2>2, <3>2, ToldKept
  <2> QED BY <1>6, <2>1, <2>2 DEF NextNone
<1> QED
  BY <1>1, <1>5, <1>6, NextEffect

(* A rank other than 0 is told what was decided. *)
LEMMA ToldByRank0 ==
  ASSUME IInv, Types', config' = config, Told, Collective, NEW r \in Rank, Follow(r)
  PROVE  Told'
<1> USE Domains
<1>1. /\ Types /\ 0 \in Rank /\ r # 0 /\ pc[r] = "bcast" /\ pc[r] \notin InStepPcs /\ decision[r] # <<>>
      /\ decision' = [decision EXCEPT ![r] = Tail(@)] /\ ~Promised(r)
  BY RankFacts, Parameters DEF Follow, IInv, ReaderInv, RootSilent, InStepPcs, Promised, Types, TypesWriter
<1>2. /\ \A s \in Rank \ {r} : Unmoved(s)
      /\ UNCHANGED writerVars
  BY <1>1, MainOthers DEF Main
<1>3. /\ \A s \in Rank \ {r} : Heard(s)' = Heard(s)
      /\ writerUp' \/ response' => writerUp \/ response
  BY <1>2, UnmovedHeard DEF writerVars
<1> DEFINE v == decision[r][1]
<1>4. v \in Decisions /\ v \in Results
  <2>1. decision[r] \in Seq(Decisions) /\ decision[r] # <<>>
    BY <1>1, GivenTypes
  <2>2. decision[r][1] \in Decisions
    <3> DEFINE d == decision[r]
    <3> HIDE DEF d
    <3>1. d \in Seq(Decisions) /\ d # <<>> => d[1] \in Decisions
      OBVIOUS
    <3> QED BY <2>1, <3>1 DEF d
  <2> QED BY <1>1, <2>2, GivenTypes
<1>5. ASSUME NEW status, NEW t \in Pointer, status \in {"OK", "Timeout", "EndOfStream", "FatalError", "NoStream"},
             Given(r)' = Append(Given(r), Answer(status, t)), ~Promised(r)', Shown(Answer(status, t)) = Shown(v)
      PROVE  Told'
  <2>1. Answer(status, t) \in Results
    BY <1>1, <1>5, GivenTypes
  <2>2. Heard(r)' = Append(Heard(r), Shown(v))
    BY <1>1, <1>5, <2>1, HeardMoves
  <2> QED BY <1>1, <1>3, <2>2, ToldFollowed
<1>6. ASSUME v.status # "OK", Finish(r, v.status, Nothing) PROVE Told'
  <2>1. Given(r)' = Append(Given(r), Answer(v.status, Nothing)) /\ pc'[r] = "user"
    BY <1>1, <1>6, GivenMoves
  <2>2. ~Promised(r)' /\ Shown(Answer(v.status, Nothing)) = Shown(v)
    BY <1>6, <2>1 DEF Promised, Shown, Answer
  <2>3. v.status \in {"OK", "Timeout", "EndOfStream", "FatalError", "NoStream"} /\ Nothing \in Pointer
    BY <1>1, <1>4, PointerTypes DEF Results
  <2> QED BY <1>5, <2>1, <2>2, <2>3
<1>7. CASE CPCommPattern = "Peer" /\ v.status = "OK"
  <2>1. /\ Given(r)' = Given(r) /\ pc'[r] \in {"walk", "next"}
        /\ AlwaysProvideLatestTimestep => DiscardPriorTimestep'[r] = v.step
    BY <1>1, <1>7, GivenMoves DEF Follow, Adopt, Goto, InStepPcs, Types, TypesQueue
  <2>2. Promised(r)'
    BY <1>7, <2>1, Fixed DEF Promised, Collective
  <2>3. Shown(Answer("OK", DiscardPriorTimestep'[r])) = Shown(v)
    BY <1>7, <2>1 DEF Shown, Answer, Names
  <2>4. Heard(r)' = Append(Heard(r), Shown(v))
    BY <1>1, <2>1, <2>2, <2>3, HeardMoves
  <2> QED BY <1>1, <1>3, <2>4, ToldFollowed
<1>8. CASE v.status # "OK"
  BY <1>6, <1>8 DEF Follow, GiveUp
<1>9. CASE CPCommPattern = "Min" /\ v.status = "OK"
  <2>1. ReaderTimestep'[r] = v.step /\ Goto(r, "get_attributes") /\ UNCHANGED results
    BY <1>1, <1>9 DEF Follow, Types, TypesQueue
  <2>2. Given(r)' = Append(Given(r), Answer("OK", v.step)) /\ pc'[r] = "get_attributes"
    BY <1>1, <2>1, GivenMoves
  <2>3. ~Promised(r)' /\ Shown(Answer("OK", v.step)) = Shown(v)
    BY <1>9, <2>2 DEF Promised, Shown, Answer
  <2>4. v.step \in Pointer
    BY <1>1, <1>4 DEF Results, Pointer
  <2> QED BY <1>5, <2>2, <2>3, <2>4
<1>10. CPCommPattern \in {"Min", "Peer"}
  BY <1>1, Parameters DEF Types, TypesWriter
<1> QED
  BY <1>7, <1>8, <1>9, <1>10

(* The other ranks do not come to the code that gathers and decides. *)
LEMMA RootWaitsStep ==
  ASSUME Types, RootWaits, [Next]_vars
  PROVE  RootWaits'
<1>1. ASSUME NEW r \in Rank, Main(r) PROVE RootWaits'
  <2>1. \A s \in Rank \ {r} : pc'[s] = pc[s]
    BY <1>1, MainOthers DEF Unmoved
  <2>2. r # 0 => pc'[r] \notin {"gather", "timedwait"}
    <3> SUFFICES ASSUME r # 0 PROVE pc'[r] \notin {"gather", "timedwait"}
      OBVIOUS
    <3> USE Domains
    <3>1. pc[r] \notin {"gather", "timedwait"}
      BY DEF RootWaits
    <3>2. ~GatherDecide(r) /\ ~TimedWait(r)
      BY <3>1 DEF GatherDecide, TimedWait
    <3>3. CASE OpenResponse(r) \/ OpenEstablish(r) \/ BeginStep(r)
      BY <3>3 DEF OpenResponse, OpenEstablish, BeginStep, Goto, Finish
    <3>4. CASE WalkMain(r) \/ NextMetadata(r)
      BY <3>1, <3>4 DEF WalkMain, NextMetadata, Goto, Finish
    <3>5. CASE Follow(r)
      BY <3>5 DEF Follow, Adopt, GiveUp, Goto, Finish
    <3>6. CASE SstGetAttributeData(r) \/ InstallAttributes(r) \/ EndStep(r) \/ SendRelease(r)
               \/ SstReaderClose(r) \/ SstStreamDestroy(r)
      BY <3>6 DEF SstGetAttributeData, InstallAttributes, EndStep, SendRelease, SstReaderClose, SstStreamDestroy,
         Goto, Finish
    <3> QED BY <1>1, <3>2, <3>3, <3>4, <3>5, <3>6 DEF Main
  <2> QED BY <2>1, <2>2 DEF RootWaits
<1>2. ASSUME NEW r \in Rank, Net(r) PROVE RootWaits'
  BY <1>2, NetOthers DEF RootWaits
<1>3. CASE Barrier
  BY <1>3 DEF Barrier, RootWaits
<1>4. CASE Writer
  BY <1>4 DEF Writer, WriterResponds, WriterProvides, WriterCloses, WriterDies, writerOnly, threadVars, RootWaits
<1>5. CASE UNCHANGED vars
  BY <1>5 DEF vars, threadVars, RootWaits
<1> QED
  BY <1>1, <1>2, <1>3, <1>4, <1>5 DEF Next, Reader, Finished, Undefined

(* The actions of a rank, but for the end of its search for a step of its own *)
LEMMA ToldMain ==
  ASSUME IInv, Types', Told, RootWaits, NEW r \in Rank, Main(r),
         NextMetadata(r) => CPCommPattern = "Min"
  PROVE  Told'
<1> SUFFICES ASSUME Collective PROVE Told'
  BY Fixed DEF Told, Collective, Main
<1> USE Domains
<1>1. /\ Types /\ 0 \in Rank /\ Sorted(Timesteps[0]) /\ config' = config
      /\ UNCHANGED writerVars /\ \A s \in Rank \ {r} : Unmoved(s)
      /\ CPCommPattern \in {"Min", "Peer"}
  <2>1. Types /\ config' = config
    BY DEF Main, IInv, ReaderInv
  <2>2. 0 \in Rank /\ CPCommPattern \in {"Min", "Peer"}
    BY <2>1, Parameters DEF Types, TypesWriter
  <2> QED BY <2>1, <2>2, MainOthers, RankFacts DEF IInv
<1>2. writerUp' \/ response' => writerUp \/ response
  BY <1>1 DEF writerVars
<1>3. ASSUME UNCHANGED decision, Given(r)' = Given(r), Promised(r)' <=> Promised(r),
             Promised(r) => DiscardPriorTimestep'[r] = DiscardPriorTimestep[r]
      PROVE  Told'
  <2>1. \A s \in Rank : Heard(s)' = Heard(s)
    BY <1>1, <1>3, UnmovedHeard, HeardKept
  <2> QED BY <1>1, <1>2, <1>3, <2>1, ToldKept
<1>4. ASSUME pc[r] \notin InStepPcs, pc'[r] \notin InStepPcs, results'[r] = results[r], UNCHANGED decision,
             pc[r] \notin {"walk", "next"}, pc'[r] \notin {"walk", "next"}
      PROVE  Told'
  <2>1. Given(r)' = Given(r) /\ ~Promised(r) /\ ~Promised(r)'
    BY <1>1, <1>4, GivenMoves DEF Promised
  <2> QED BY <1>3, <1>4, <2>1
<1>5. CASE OpenResponse(r) \/ OpenEstablish(r)
  <2>1. CASE UNCHANGED results
    BY <1>1, <1>4, <1>5, <2>1 DEF OpenResponse, OpenEstablish, Goto, collVars, InStepPcs
  <2>2. CASE ~UNCHANGED results
    <3>1. ~writerUp' /\ ~response'
      BY <1>1, <1>5, <2>2 DEF OpenResponse, OpenEstablish, outVars, writerVars
    <3> QED BY <3>1 DEF Told
  <2> QED BY <2>1, <2>2
<1>6. CASE BeginStep(r)
  <2>1. pc[r] = "user"
    BY <1>6 DEF BeginStep
  <2>2. CASE Goto(r, "gather") \/ Goto(r, "bcast")
    BY <1>1, <1>4, <1>6, <2>1, <2>2 DEF BeginStep, Goto, InStepPcs, Finish
  <2>3. CASE Goto(r, "next")
    <3>1. CPCommPattern = "Min" /\ pc'[r] = "next" /\ UNCHANGED <<results, decision>>
      BY <1>1, <1>6, <2>3 DEF BeginStep, Goto, Collective, Finish
    <3>2. Given(r)' = Given(r) /\ ~Promised(r) /\ ~Promised(r)'
      BY <1>1, <2>1, <3>1, GivenMoves, Fixed DEF Promised, InStepPcs
    <3> QED BY <1>3, <3>1, <3>2
  <2>4. CASE Finish(r, "FatalError", Nothing) /\ Distribute([status |-> "FatalError", step |-> Nothing])
             /\ CPCommPattern = "Min" /\ r = 0
    BY <1>1, <2>1, <2>4, ToldOfFailure DEF InStepPcs
  <2> QED BY <1>6, <2>2, <2>3, <2>4 DEF BeginStep
<1>7. CASE r = 0 /\ GatherDecide(r)
  <2>1. CASE AllQueuesEmpty(0) /\ Timeout # "zero"
    BY <1>1, <1>4, <1>7, <2>1 DEF GatherDecide, Goto, collVars, InStepPcs
  <2>2. CASE ~(AllQueuesEmpty(0) /\ Timeout # "zero")
    <3> DEFINE t == IF AllQueuesEmpty(0) THEN Nothing ELSE Chosen(0)
    <3>1. t \in Pointer
      BY <1>1, <1>7, PointerTypes, QueueBounds, GatheredBounds DEF Chosen, GatherDecide, Gathered
    <3>2. Decide(0, t) /\ pc[0] = "gather"
      BY <1>7, <2>2 DEF GatherDecide
    <3> HIDE DEF t
    <3> QED BY <1>1, <1>7, <3>1, <3>2, ToldOfDecision
  <2> QED BY <2>1, <2>2
<1>8. CASE TimedWait(r)
  <2>1. r = 0 /\ pc[0] = "timedwait"
    BY <1>8 DEF TimedWait, RootWaits
  <2>2. CASE WaitOver(r)
    <3>1. MaxQueuedMetadata(0) \in Pointer /\ Decide(0, MaxQueuedMetadata(0))
      BY <1>1, <1>8, <2>1, <2>2, QueueBounds DEF TimedWait
    <3> QED BY <1>1, <2>1, <3>1, ToldOfDecision
  <2>3. CASE ~WaitOver(r)
    BY <1>4, <1>8, <2>1, <2>3 DEF TimedWait, collVars, InStepPcs
  <2> QED BY <2>2, <2>3
<1>9. CASE WalkMain(r)
  <2>1. pc[r] = "walk" /\ pc[r] \notin InStepPcs
    BY <1>9 DEF WalkMain, InStepPcs
  <2>2. CASE Finish(r, "FatalError", Nothing) /\ Distribute([status |-> "FatalError", step |-> Nothing])
             /\ CPCommPattern = "Min"
    <3>1. r = 0
      BY <1>1, <2>1, <2>2, RankFacts, Parameters DEF IInv, Place, Types, TypesWriter
    <3> QED BY <1>1, <2>1, <2>2, <3>1, ToldOfFailure
  <2>3. CASE UNCHANGED <<decision, results>> /\ pc'[r] \in {"walk", "next"}
    <3>1. Given(r)' = Given(r)
      BY <1>1, <2>1, <2>3, GivenMoves DEF InStepPcs
    <3>2. (Promised(r)' <=> Promised(r)) /\ UNCHANGED DiscardPriorTimestep
      BY <1>1, <1>9, <2>1, <2>3, Fixed DEF Promised, WalkMain
    <3> QED BY <1>3, <2>3, <3>1, <3>2
  <2> QED BY <1>1, <1>9, <2>2, <2>3 DEF WalkMain, Goto
<1>10. CASE NextMetadata(r)
  BY <1>1, <1>10, ToldOfNext
<1>11. CASE Follow(r)
  BY <1>1, <1>11, ToldByRank0
<1>12. CASE SstGetAttributeData(r) \/ InstallAttributes(r)
  <2>1. Given(r)' = Given(r) /\ pc'[r] \in {"install", "user"}
    BY <1>1, <1>12, GivenMoves
  <2>2. UNCHANGED decision /\ ~Promised(r) /\ ~Promised(r)'
    BY <1>12, <2>1 DEF SstGetAttributeData, InstallAttributes, collVars, Promised
  <2> QED BY <1>3, <2>1, <2>2
<1>13. CASE EndStep(r) \/ SendRelease(r) \/ SstReaderClose(r) \/ SstStreamDestroy(r)
  BY <1>1, <1>4, <1>13 DEF EndStep, SendRelease, SstReaderClose, SstStreamDestroy, Goto, collVars, outVars, InStepPcs
<1> QED
  BY <1>5, <1>6, <1>7, <1>8, <1>9, <1>10, <1>11, <1>12, <1>13 DEF Main

(* No message and no barrier tells the ranks anything. *)
LEMMA ToldElse ==
  ASSUME IInv, Told, config' = config, writerUp' \/ response' => writerUp \/ response,
         (\E r \in Rank : Net(r)) \/ Barrier \/ Writer \/ UNCHANGED vars
  PROVE  Told'
<1>1. Types /\ 0 \in Rank
  BY Parameters DEF IInv, ReaderInv, Types, TypesWriter
<1>2. ASSUME UNCHANGED decision, \A s \in Rank : Unmoved(s) PROVE Told'
  BY <1>1, <1>2, UnmovedHeard, ToldKept
<1>3. ASSUME NEW r \in Rank, Net(r) PROVE Told'
  BY <1>1, <1>2, <1>3, NetOthers
<1>4. CASE Barrier
  <2>1. ASSUME NEW s \in Rank PROVE Heard(s)' = Heard(s)
    <3>1. /\ pc[s] \notin InStepPcs /\ pc'[s] \notin InStepPcs /\ results'[s] = results[s]
          /\ pc[s] \notin {"walk", "next"} /\ pc'[s] \notin {"walk", "next"}
      BY <1>4 DEF Barrier, Barriers, InStepPcs, outVars
    <3>2. Given(s)' = Given(s) /\ ~Promised(s) /\ ~Promised(s)'
      BY <1>1, <3>1, GivenMoves DEF Promised
    <3> QED BY <3>2, HeardKept
  <2> QED BY <1>1, <1>4, <2>1, ToldKept DEF Barrier, collVars
<1>5. CASE Writer \/ UNCHANGED vars
  BY <1>2, <1>5 DEF Writer, WriterResponds, WriterProvides, WriterCloses, WriterDies, writerOnly, threadVars,
     collVars, outVars, streamVars, stepVars, queueVars, vars, Unmoved
<1> QED
  BY <1>3, <1>4, <1>5

(* What a call returns *)
LEMMA ResultsMain ==
  ASSUME IInv, NEW r \in Rank, Main(r)
  PROVE  \/ results'[r] = results[r]
         \/ \E status \in {"OK", "Timeout", "EndOfStream", "FatalError", "NoStream"}, t \in Pointer :
                /\ status # "OK" => t = Nothing
                /\ results'[r] = Append(results[r], Answer(status, t))
<1> USE Domains
<1> DEFINE Told1(status, t) == results'[r] = Append(results[r], Answer(status, t))
<1>1. Types /\ Nothing \in Pointer /\ ReaderTimestep[r] \in Pointer
  BY PointerTypes DEF IInv, ReaderInv, Types, TypesQueue
<1>2. ASSUME NEW status, NEW t, Finish(r, status, t) PROVE Told1(status, t)
  BY <1>1, <1>2 DEF Finish, Answer
<1>3. CASE OpenResponse(r)
  BY <1>1, <1>3 DEF OpenResponse, Answer
<1>4. CASE OpenEstablish(r) \/ SstGetAttributeData(r) \/ EndStep(r) \/ SendRelease(r)
           \/ SstReaderClose(r) \/ SstStreamDestroy(r)
  BY <1>4 DEF OpenEstablish, SstGetAttributeData, EndStep, SendRelease, SstReaderClose, SstStreamDestroy, outVars
<1>5. CASE BeginStep(r) \/ WalkMain(r)
  <2>1. UNCHANGED results \/ Finish(r, "FatalError", Nothing)
    BY <1>5 DEF BeginStep, WalkMain
  <2> QED BY <1>1, <1>2, <2>1
<1>6. CASE GatherDecide(r) \/ TimedWait(r)
  <2>1. UNCHANGED results \/ \E t : Finish(r, Outcome(r, t), Nothing)
    BY <1>6 DEF GatherDecide, TimedWait, Decide, Adopt, GiveUp
  <2>2. \A t : Outcome(r, t) \in {"OK", "Timeout", "EndOfStream", "FatalError"}
    BY OutcomeKind
  <2> QED BY <1>1, <1>2, <2>1, <2>2
<1>7. CASE NextMetadata(r)
  <2>1. UNCHANGED results \/ Finish(r, FinalStatus(r), Nothing)
    BY <1>7 DEF NextMetadata
  <2>2. FinalStatus(r) \in {"EndOfStream", "FatalError"}
    BY DEF FinalStatus
  <2> QED BY <1>1, <1>2, <2>1, <2>2
<1>8. CASE Follow(r)
  <2> DEFINE d == decision[r]
  <2>1. d \in Seq(Decisions) /\ d # <<>>
    BY <1>1, <1>8, GivenTypes DEF Follow
  <2>2. d[1] \in Decisions
    <3> HIDE DEF d
    <3> QED BY <2>1
  <2>3. d[1].status \in {"OK", "Timeout", "EndOfStream", "FatalError", "NoStream"}
    BY <2>2 DEF Decisions, Results
  <2>4. UNCHANGED results \/ Finish(r, d[1].status, Nothing)
    BY <1>8 DEF Follow, Adopt, GiveUp
  <2> QED BY <1>1, <1>2, <2>3, <2>4
<1>9. CASE InstallAttributes(r)
  <2>1. Finish(r, "OK", ReaderTimestep[r])
    BY <1>9 DEF InstallAttributes
  <2> QED BY <1>1, <1>2, <2>1
<1> QED
  BY <1>3, <1>4, <1>5, <1>6, <1>7, <1>8, <1>9 DEF Main

(* Who is told of no step is told of no number. *)
LEMMA NoStepNamedStep ==
  ASSUME IInv, \A r \in Rank : NoStepNamed(r), [Next]_vars
  PROVE  \A r \in Rank : NoStepNamed(r)'
<1>1. Types
  BY DEF IInv, ReaderInv
<1>2. ASSUME NEW s \in Rank, results'[s] = results[s] PROVE NoStepNamed(s)'
  BY <1>2 DEF NoStepNamed
<1>3. ASSUME NEW r \in Rank, Main(r), NEW s \in Rank PROVE NoStepNamed(s)'
  <2>1. CASE s # r
    BY <1>1, <1>2, <1>3, <2>1, MainOthers DEF Unmoved
  <2>2. ASSUME s = r, NEW status \in {"OK", "Timeout", "EndOfStream", "FatalError", "NoStream"}, NEW t \in Pointer,
               status # "OK" => t = Nothing, results'[r] = Append(results[r], Answer(status, t))
        PROVE  NoStepNamed(r)'
    <3> DEFINE a == Answer(status, t)
               q == results[r]
    <3>1. a \in Results /\ q \in Seq(Results) /\ (a.status # "OK" => a.step = Nothing)
      <4>1. a \in Results /\ q \in Seq(Results)
        BY <1>1, GivenTypes
      <4> QED BY <2>2, <4>1 DEF Answer
    <3>2. \A i \in DOMAIN q : q[i].status # "OK" => q[i].step = Nothing
      BY DEF NoStepNamed
    <3>3. results'[r] = Append(q, a)
      BY <2>2
    <3> HIDE DEF a, q
    <3>4. \A i \in DOMAIN Append(q, a) :
              Append(q, a)[i].status # "OK" => Append(q, a)[i].step = Nothing
      BY <3>1, <3>2, AppendedTo
    <3> QED BY <3>3, <3>4 DEF NoStepNamed
  <2> QED BY <1>2, <1>3, <2>1, <2>2, ResultsMain
<1>4. CASE (\E r \in Rank : Net(r)) \/ Barrier \/ Writer \/ UNCHANGED vars
  <2>1. UNCHANGED results
    BY <1>1, <1>4, NetOthers DEF Barrier, Writer, WriterResponds, WriterProvides, WriterCloses, WriterDies,
       writerOnly, outVars, vars
  <2> QED BY <1>2, <2>1
<1> QED
  BY <1>3, <1>4 DEF Next, Reader, Finished, Undefined

-----------------------------------------------------------------------------
(* What a rank with its own connection is told *)

(* It is told of nothing. *)
LEMMA AnswersKept ==
  ASSUME config' = config, UNCHANGED log, NEW r \in Rank, Given(r)' = Given(r),
         ReaderTimestep'[r] = ReaderTimestep[r], Latest(r), NoneSkipped(r)
  PROVE  Latest(r)' /\ NoneSkipped(r)'
<1>1. Latest(r)'
  BY DEF Latest, Answer
<1>2. (\A i, u : Before(r, i, u)' <=> Before(r, i, u)) /\ (\A u : IsData(u)' <=> IsData(u)) /\ (Closed' <=> Closed)
  BY DEF Before, Answer, IsData, IsStep, Closed
<1>3. \A i : InTurn(r, i)' <=> InTurn(r, i)
  BY <1>2, Fixed DEF InTurn
<1> QED
  BY <1>1, <1>3, Fixed DEF NoneSkipped

(* All steps up to the one it reached were delivered. *)
LEMMA DeliveredUpTo ==
  ASSUME Types, NEW r \in Rank, Latest(r), NoneSkipped(r), ~AlwaysProvideLatestTimestep,
         NEW u \in StepNo, IsData(u), u <= ReaderTimestep[r]
  PROVE  \E i \in DOMAIN Given(r) : Given(r)[i] = Answer("OK", u)
<1>1. ReaderTimestep[r] \in Int /\ u \in Int /\ ReaderTimestep[r] # Nothing
  BY PointerTypes DEF Types, TypesQueue, Pointer, StepNo, Nothing
<1>2. PICK i \in DOMAIN Given(r) : Given(r)[i] = Answer("OK", ReaderTimestep[r])
  BY <1>1 DEF Latest
<1>3. Given(r)[i].status = "OK" /\ Given(r)[i].step = ReaderTimestep[r]
  BY <1>2 DEF Answer
<1>4. CASE u = ReaderTimestep[r]
  BY <1>2, <1>4
<1>5. CASE u < ReaderTimestep[r]
  <2>1. Before(r, i, u)
    BY <1>3, <1>5 DEF NoneSkipped, InTurn
  <2> QED BY <2>1 DEF Before
<1> QED
  BY <1>1, <1>4, <1>5

(* It is told something more, which is in turn. *)
LEMMA AnswersAdded ==
  ASSUME Types, config' = config, UNCHANGED log, NEW r \in Rank, Latest(r), NoneSkipped(r),
         NEW status \in {"OK", "Timeout", "EndOfStream", "FatalError", "NoStream"}, NEW t \in Pointer,
         Given(r)' = Append(Given(r), Answer(status, t)),
         IF status = "OK" THEN ReaderTimestep'[r] = t /\ ReaderTimestep[r] < t /\ IsData(t)
                          ELSE ReaderTimestep'[r] = ReaderTimestep[r],
         ~AlwaysProvideLatestTimestep =>
             \/ status = "OK" /\ \A u \in StepNo : IsData(u) /\ u < t => u <= ReaderTimestep[r]
             \/ status # "OK" /\ Special
             \/ status = "EndOfStream" /\ Closed /\ \A u \in StepNo : IsData(u) => u <= ReaderTimestep[r]
  PROVE  Latest(r)' /\ NoneSkipped(r)'
<1> DEFINE g == Given(r)
           a == Answer(status, t)
           h == Append(g, a)
           n == Len(g) + 1
<1>0. a.status = status /\ a.step = t
  BY DEF Answer
<1>1. /\ g \in Seq(Results) /\ a \in Results /\ ReaderTimestep[r] \in Pointer /\ Pointer \subseteq Int
      /\ StepNo \subseteq Int
  BY GivenTypes, PointerTypes DEF Types, TypesQueue
<1>b. /\ status = "OK" => ReaderTimestep'[r] = t /\ ReaderTimestep[r] < t /\ IsData(t)
      /\ status # "OK" => ReaderTimestep'[r] = ReaderTimestep[r]
  OBVIOUS
<1>c. t \in Int /\ ReaderTimestep[r] \in Int
  BY <1>1
<1>2. Given(r)' = h
  OBVIOUS
<1> HIDE DEF a, g
<1>3. /\ Len(g) \in Nat /\ DOMAIN h = 1 .. n /\ DOMAIN g = 1 .. Len(g) /\ h[n] = a
      /\ \A i \in DOMAIN g : h[i] = g[i]
  BY <1>1, AppendedTo
<1> HIDE DEF h
<1>4. n \in DOMAIN h /\ (\A i \in DOMAIN h : i \in DOMAIN g \/ i = n) /\ \A i \in DOMAIN g : i \in DOMAIN h /\ i < n
  BY <1>3
<1>5. /\ \A i \in DOMAIN g : g[i].status = "OK" => g[i].step <= ReaderTimestep[r]
      /\ ReaderTimestep[r] # Nothing => \E i \in DOMAIN g : g[i] = Answer("OK", ReaderTimestep[r])
  BY DEF Latest, g
<1>6. \A i \in DOMAIN g : g[i].status = "OK" => g[i].step \in Pointer
  <2>1. \A i \in DOMAIN g : g[i] \in Results
    BY <1>1, ListElements, Zenon
  <2> QED BY <2>1 DEF Results, Pointer
<1>7. Latest(r)'
  <2>1. \A i \in DOMAIN h : h[i].status = "OK" => h[i].step <= ReaderTimestep'[r]
    <3> SUFFICES ASSUME NEW i \in DOMAIN h, h[i].status = "OK" PROVE h[i].step <= ReaderTimestep'[r]
      OBVIOUS
    <3>1. CASE i = n
      BY <1>0, <1>1, <1>3, <3>1
    <3>2. CASE i \in DOMAIN g
      <4>1. g[i].step <= ReaderTimestep[r] /\ g[i].step \in Int /\ h[i] = g[i]
        BY <1>1, <1>3, <1>5, <1>6, <3>2
      <4>2. CASE status = "OK"
        <5>1. \A x, y, z \in Int : x <= y /\ y < z => x <= z
          OBVIOUS
        <5> QED BY <1>b, <1>c, <4>1, <4>2, <5>1, Zenon
      <4>3. CASE status # "OK"
        BY <1>b, <4>1, <4>3, Zenon
      <4> QED BY <4>2, <4>3
    <3> QED BY <1>4, <3>1, <3>2
  <2>2. ReaderTimestep'[r] # Nothing => \E i \in DOMAIN h : h[i] = Answer("OK", ReaderTimestep'[r])
    <3>1. CASE status = "OK"
      <4>1. h[n] = Answer("OK", ReaderTimestep'[r])
        BY <1>3, <3>1 DEF a
      <4> QED BY <1>4, <4>1
    <3>2. CASE status # "OK"
      BY <1>3, <1>4, <1>5, <3>2
    <3> QED BY <3>1, <3>2
  <2> QED BY <1>2, <2>1, <2>2 DEF Latest, Answer
<1>8. ASSUME ~AlwaysProvideLatestTimestep PROVE NoneSkipped(r)'
  <2> DEFINE Bef(q, i, u) == \E j \in DOMAIN q : j < i /\ q[j] = Answer("OK", u)
  <2>1. ASSUME NEW i \in DOMAIN h PROVE InTurn(r, i)'
    <3>0. /\ \A u : IsData(u)' = IsData(u)
          /\ Closed' = Closed
          /\ \A u : Before(r, i, u)' = Bef(h, i, u)
          /\ Special' = Special /\ StepNo' = StepNo
      BY <1>2, Fixed DEF IsData, IsStep, Closed, Before, Answer
    <3>1. /\ h[i].status = "OK" =>
                /\ IsData(h[i].step)
                /\ \A j \in DOMAIN h : j < i /\ h[j].status = "OK" => h[j].step < h[i].step
                /\ \A u \in StepNo : IsData(u) /\ u < h[i].step => Bef(h, i, u)
          /\ ~Special /\ h[i].status # "OK" =>
                /\ h[i].status = "EndOfStream" /\ Closed
                /\ \A u \in StepNo : IsData(u) => Bef(h, i, u)
      <4>1. CASE i \in DOMAIN g
        <5>1. InTurn(r, i) /\ \A u : Before(r, i, u) <=> Bef(g, i, u)
          BY <1>8, <4>1 DEF NoneSkipped, Before, g
        <5>2. \A u : Bef(g, i, u) => Bef(h, i, u)
          BY <1>3, <1>4
        <5>3. /\ h[i] = g[i]
              /\ \A j \in DOMAIN h : j < i => j \in DOMAIN g /\ h[j] = g[j]
          BY <1>3, <1>4, <4>1
        <5> HIDE DEF Bef
        <5> QED BY <5>1, <5>2, <5>3 DEF InTurn, g
      <4>2. CASE i = n
        <5>1. ASSUME NEW u \in StepNo, IsData(u), u <= ReaderTimestep[r] PROVE Bef(h, n, u)
          <6>1. PICK j \in DOMAIN g : g[j] = Answer("OK", u)
            BY <1>8, <5>1, DeliveredUpTo DEF g
          <6> QED BY <1>3, <1>4, <6>1
        <5>2. h[i].status = status /\ h[i].step = t
          BY <1>0, <1>3, <4>2
        <5>3. ASSUME status = "OK", NEW j \in DOMAIN h, j < i, h[j].status = "OK" PROVE h[j].step < t
          <6>1. j \in DOMAIN g /\ h[j] = g[j]
            BY <1>3, <1>4, <4>2, <5>3
          <6>2. g[j].step <= ReaderTimestep[r] /\ g[j].step \in Int
            BY <1>1, <1>5, <1>6, <5>3, <6>1
          <6>3. \A x, y, z \in Int : x <= y /\ y < z => x < z
            OBVIOUS
          <6> QED BY <1>b, <1>c, <5>3, <6>1, <6>2, <6>3, Zenon
        <5> HIDE DEF Bef
        <5> QED BY <1>8, <4>2, <5>1, <5>2, <5>3
      <4> QED BY <1>4, <4>1, <4>2
    <3> HIDE DEF Bef
    <3> QED BY <1>2, <3>0, <3>1 DEF InTurn
  <2> QED BY <1>2, <2>1 DEF NoneSkipped
<1>9. AlwaysProvideLatestTimestep => NoneSkipped(r)'
  BY Fixed DEF NoneSkipped
<1> QED
  BY <1>7, <1>8, <1>9

(* Who is told of no step is told of no number. *)
LEMMA GivenNamed ==
  ASSUME Types, NEW r \in Rank, NoStepNamed(r)
  PROVE  \A i \in DOMAIN Given(r) : /\ Given(r)[i] \in Results
                                    /\ Given(r)[i].status # "OK" => Given(r)[i].step = Nothing
                                    /\ Given(r)[i] = Answer(Given(r)[i].status, Given(r)[i].step)
<1>1. \A i \in DOMAIN Given(r) : Given(r)[i] \in Results
  <2> DEFINE g == Given(r)
  <2>1. g \in Seq(Results)
    BY GivenTypes
  <2> HIDE DEF g
  <2> QED BY <2>1, ListElements, Zenon DEF g
<1>2. ASSUME NEW i \in DOMAIN Given(r), Given(r)[i].status # "OK" PROVE Given(r)[i].step = Nothing
  <2> DEFINE q == results[r]
             a == Answer("OK", ReaderTimestep[r])
  <2>1. q \in Seq(Results) /\ a \in Results /\ a.status = "OK"
    BY GivenTypes DEF Answer, Types, TypesQueue
  <2>2. Given(r) = q \/ Given(r) = Append(q, a)
    BY DEF Given
  <2>3. \A k \in DOMAIN q : q[k].status # "OK" => q[k].step = Nothing
    BY DEF NoStepNamed
  <2> HIDE DEF q, a
  <2> QED BY <1>2, <2>1, <2>2, <2>3, AppendedTo
<1>3. \A v \in Results : v = Answer(v.status, v.step)
  BY DEF Results, Answer
<1> QED
  BY <1>1, <1>2, <1>3

(* Two ranks were told the same, as far as both have been told. *)
LEMMA ToldAlike ==
  ASSUME Types, NEW q \in Rank, NEW r \in Rank, NoStepNamed(q), NoStepNamed(r),
         Collective => \A i \in DOMAIN Given(q) \cap DOMAIN Given(r) : Shown(Given(q)[i]) = Shown(Given(r)[i]),
         CPCommPattern = "Peer" => NoneSkipped(q) /\ NoneSkipped(r)
  PROVE  \A i \in DOMAIN Given(q) \cap DOMAIN Given(r) : Given(q)[i] = Given(r)[i]
<1> DEFINE Both == DOMAIN Given(q) \cap DOMAIN Given(r)
           Differ == {i \in Both : Given(q)[i] # Given(r)[i]}
<1>1. /\ \A s \in {q, r} : \A i \in DOMAIN Given(s) :
             /\ Given(s)[i] \in Results
             /\ Given(s)[i].status # "OK" => Given(s)[i].step = Nothing
             /\ Given(s)[i] = Answer(Given(s)[i].status, Given(s)[i].step)
  <2> DEFINE P(s) == \A i \in DOMAIN Given(s) :
                         /\ Given(s)[i] \in Results
                         /\ Given(s)[i].status # "OK" => Given(s)[i].step = Nothing
                         /\ Given(s)[i] = Answer(Given(s)[i].status, Given(s)[i].step)
  <2>1. P(q)
    BY GivenNamed
  <2>2. P(r)
    BY GivenNamed
  <2>3. \A s \in {q, r} : P(s)
    <3> HIDE DEF P
    <3> QED BY <2>1, <2>2
  <2> QED BY <2>3
<1>2. /\ \A s \in {q, r} : DOMAIN Given(s) = 1 .. Len(Given(s)) /\ Len(Given(s)) \in Nat
      /\ CPCommPattern \in {"Min", "Peer"} /\ MaxSteps \in Nat
  <2>1. \A s \in {q, r} : Given(s) \in Seq(Results)
    BY GivenTypes
  <2> QED BY <2>1, ListElements, Parameters DEF Types, TypesWriter
<1>3. CASE Names
  <2>1. Collective
    BY <1>3 DEF Names, Collective, Special
  <2>2. ASSUME NEW i \in Both PROVE Given(q)[i] = Given(r)[i]
    <3>1. Shown(Given(q)[i]) = Shown(Given(r)[i])
      BY <2>1, <2>2
    <3>2. \A s \in {q, r} : Shown(Given(s)[i]) = Given(s)[i]
      BY <1>1, <1>3, <2>2 DEF Shown
    <3> QED BY <3>1, <3>2
  <2> QED BY <2>2
<1>4. CASE ~Names
  <2>0. ~AlwaysProvideLatestTimestep /\ CPCommPattern = "Peer" /\ (Special => Collective)
    BY <1>2, <1>4 DEF Names, Collective
  <2> SUFFICES ASSUME Differ # {} PROVE FALSE
    OBVIOUS
  <2>1. PICK i \in Differ : \A j \in Differ : i <= j
    <3>1. Differ \in SUBSET Nat
      BY <1>2
    <3> HIDE DEF Differ
    <3> QED BY <3>1, SmallestExists
  <2>2. \A j \in 1 .. (i - 1) : Given(q)[j] = Given(r)[j] /\ j \in Both
    BY <1>2, <2>1
  <2>3. i \in DOMAIN Given(q) /\ i \in DOMAIN Given(r) /\ i \in Nat
    BY <1>2, <2>1
  <2>4. InTurn(q, i) /\ InTurn(r, i)
    BY <2>0, <2>3 DEF NoneSkipped
  <2>5. Special => Given(q)[i].status = Given(r)[i].status
    <3>1. Special => Shown(Given(q)[i]) = Shown(Given(r)[i])
      BY <2>0, <2>3
    <3> QED BY <3>1 DEF Shown, Answer
  <2>6. ASSUME NEW a \in {q, r}, NEW b \in {q, r}, a # b \/ q = r, Given(a)[i].status = "OK",
               Given(b)[i].status = "OK" => Given(a)[i].step < Given(b)[i].step
        PROVE  FALSE
    <3> DEFINE x == Given(a)[i].step
    <3>1. IsData(x) /\ x \in StepNo
      <4>1. IsData(x)
        BY <2>4, <2>6 DEF InTurn
      <4>2. x \in Pointer
        BY <1>1, <2>3, <2>6 DEF Results, Pointer
      <4>3. log \in Seq(Message) /\ DOMAIN log = 1 .. Len(log)
        BY ListElements DEF Types, TypesWriter
      <4> QED BY <1>2, <4>1, <4>2, <4>3 DEF IsData, IsStep, Pointer, StepNo, Nothing
    <3>2. Before(b, i, x)
      BY <2>4, <2>5, <2>6, <3>1 DEF InTurn
    <3>3. PICK j \in DOMAIN Given(b) : j < i /\ Given(b)[j] = Answer("OK", x)
      BY <3>2 DEF Before
    <3>4. Given(a)[j] = Answer("OK", x) /\ j \in DOMAIN Given(a)
      BY <1>2, <2>2, <2>3, <2>6, <3>3
    <3>5. Answer("OK", x).status = "OK" /\ Answer("OK", x).step = x
      BY DEF Answer
    <3>6. x < x
      BY <2>4, <2>6, <3>3, <3>4, <3>5 DEF InTurn
    <3> QED BY <3>1, <3>6 DEF StepNo
  <2>7. Given(q)[i] # Given(r)[i]
    BY <2>1
  <2>8. q # r
    BY <2>7
  <2>9. CASE Given(q)[i].status = "OK" /\ Given(r)[i].status = "OK"
    <3>1. Given(q)[i].step # Given(r)[i].step
      BY <1>1, <2>3, <2>7, <2>9
    <3>2. Given(q)[i].step \in Int /\ Given(r)[i].step \in Int
      BY <1>1, <1>2, <2>3 DEF Results, Nothing
    <3>3. Given(q)[i].step < Given(r)[i].step \/ Given(r)[i].step < Given(q)[i].step
      BY <3>1, <3>2
    <3> QED BY <2>6, <2>8, <2>9, <3>3
  <2>10. CASE Given(q)[i].status = "OK" /\ Given(r)[i].status # "OK"
    BY <2>6, <2>8, <2>10
  <2>11. CASE Given(q)[i].status # "OK" /\ Given(r)[i].status = "OK"
    BY <2>6, <2>8, <2>11
  <2>12. CASE Given(q)[i].status # "OK" /\ Given(r)[i].status # "OK"
    <3>1. Given(q)[i].status = Given(r)[i].status
      BY <2>4, <2>5, <2>12 DEF InTurn
    <3> QED BY <1>1, <2>3, <2>7, <2>12, <3>1
  <2> QED BY <2>9, <2>10, <2>11, <2>12
<1> QED
  BY <1>3, <1>4

(* What is heard shows what was given. *)
LEMMA HeardOf ==
  ASSUME Types, NEW r \in Rank
  PROVE  /\ DOMAIN Given(r) = 1 .. Len(Given(r)) /\ Len(Given(r)) \in Nat
         /\ \A i \in DOMAIN Given(r) : i \in 1 .. Len(Heard(r)) /\ Heard(r)[i] = Shown(Given(r)[i])
         /\ ~Promised(r) => Len(Heard(r)) = Len(Given(r))
         /\ \A i \in DOMAIN results[r] : i \in DOMAIN Given(r) /\ Given(r)[i] = results[r][i]
<1> DEFINE g == Given(r)
           shown == [i \in DOMAIN g |-> Shown(g[i])]
           p == Shown(Answer("OK", DiscardPriorTimestep[r]))
           q == results[r]
           a == Answer("OK", ReaderTimestep[r])
<1>1. /\ g \in Seq(Results) /\ q \in Seq(Results) /\ a \in Results /\ p \in Results
      /\ \A v \in Results : Shown(v) \in Results
  BY GivenTypes DEF Types, TypesQueue
<1>2. Heard(r) = IF Promised(r) THEN Append(shown, p) ELSE shown
  BY DEF Heard
<1>3. g = q \/ g = Append(q, a)
  BY DEF Given
<1> HIDE DEF g, p, q, a
<1>4. DOMAIN g = 1 .. Len(g) /\ Len(g) \in Nat /\ \A i \in DOMAIN g : g[i] \in Results
  BY <1>1, ListElements, Zenon
<1>5. shown \in Seq(Results) /\ Len(shown) = Len(g) /\ \A i \in DOMAIN g : shown[i] = Shown(g[i])
  BY <1>1, <1>4
<1> HIDE DEF shown
<1>6. \A i \in DOMAIN g : i \in 1 .. Len(Heard(r)) /\ Heard(r)[i] = Shown(g[i])
  <2>1. CASE Promised(r)
    <3>1. Len(Append(shown, p)) = Len(g) + 1 /\ \A i \in 1 .. Len(g) : Append(shown, p)[i] = shown[i]
      BY <1>1, <1>5, AppendedTo
    <3> QED BY <1>2, <1>4, <1>5, <2>1, <3>1
  <2>2. CASE ~Promised(r)
    BY <1>2, <1>4, <1>5, <2>2
  <2> QED BY <2>1, <2>2
<1>7. \A i \in DOMAIN q : i \in DOMAIN g /\ g[i] = q[i]
  <2>1. /\ DOMAIN Append(q, a) = 1 .. (Len(q) + 1) /\ DOMAIN q = 1 .. Len(q) /\ Len(q) \in Nat
        /\ \A i \in 1 .. Len(q) : Append(q, a)[i] = q[i]
    BY <1>1, AppendedTo
  <2> QED BY <1>3, <2>1
<1> QED
  BY <1>2, <1>4, <1>5, <1>6, <1>7 DEF g, q

(* Ranks that have been told the same show the same. *)
LEMMA ShownAlike ==
  ASSUME Types, Told, Collective, writerUp \/ response, NEW q \in Rank, NEW r \in Rank
  PROVE  \A i \in DOMAIN Given(q) \cap DOMAIN Given(r) : Shown(Given(q)[i]) = Shown(Given(r)[i])
<1>1. \A s \in Rank \ {0} : HeardSame(s)
  BY DEF Told
<1>2. \A s \in Rank, i \in Nat : i \in 1 .. Len(Heard(s)) => Heard(s)[i] = Heard(0)[i]
  <2> TAKE s \in Rank, i \in Nat
  <2>1. CASE s = 0
    BY <2>1
  <2>2. CASE s # 0
    BY <1>1, <2>2 DEF HeardSame
  <2> QED BY <2>1, <2>2
<1> TAKE i \in DOMAIN Given(q) \cap DOMAIN Given(r)
<1>3. i \in 1 .. Len(Heard(q)) /\ i \in 1 .. Len(Heard(r)) /\ i \in Nat
  BY HeardOf
<1>4. Heard(q)[i] = Heard(0)[i] /\ Heard(r)[i] = Heard(0)[i]
  BY <1>2, <1>3
<1> QED
  BY <1>4, HeardOf

(* The ranks were told the same. *)
LEMMA SameImplied == IInv /\ SameInv => SameEverywhere
<1> SUFFICES ASSUME IInv, SameInv, NEW q \in Rank, NEW r \in Rank,
                    NEW i \in DOMAIN results[q] \cap DOMAIN results[r]
             PROVE  results[q][i] = results[r][i]
  BY DEF SameEverywhere
<1>1. Types
  BY DEF IInv, ReaderInv
<1>2. CASE writerUp \/ response
  <2>1. NoStepNamed(q) /\ NoStepNamed(r) /\ (CPCommPattern = "Peer" => NoneSkipped(q) /\ NoneSkipped(r)) /\ Told
    BY DEF SameInv, PeerTold
  <2>2. \A k \in DOMAIN Given(q) \cap DOMAIN Given(r) : Given(q)[k] = Given(r)[k]
    BY <1>1, <1>2, <2>1, ShownAlike, ToldAlike
  <2>3. /\ i \in DOMAIN Given(q) /\ i \in DOMAIN Given(r)
        /\ Given(q)[i] = results[q][i] /\ Given(r)[i] = results[r][i]
    BY <1>1, HeardOf
  <2> QED BY <2>2, <2>3
<1>3. CASE ~response
  <2>1. \A s \in Rank \ {0} : results[s] = <<>>
    BY <1>3 DEF SameInv, Unanswered
  <2>2. q = 0 /\ r = 0
    BY <2>1
  <2> QED BY <2>2
<1> QED
  BY <1>2, <1>3

(* Ranks that have been told the same have reached the same step. *)
LEMMA Abreast ==
  ASSUME Types, SameInv, Collective, CPCommPattern = "Peer", writerUp, 0 \in Rank, NEW q \in Rank \ {0},
         decision[q] = <<>>, ~Promised(0), ~Promised(q)
  PROVE  ReaderTimestep[q] = ReaderTimestep[0]
<1>1. /\ NoStepNamed(q) /\ NoStepNamed(0) /\ NoneSkipped(q) /\ NoneSkipped(0) /\ Told
      /\ Latest(q) /\ Latest(0)
  BY DEF SameInv, PeerTold
<1>2. HeardSame(q)
  BY <1>1 DEF Told
<1>3. Len(Heard(0)) = Len(Heard(q))
  <2>1. decision[q] = <<>> => Len(decision[q]) = 0
    OBVIOUS
  <2>2. Len(Heard(q)) \in Nat
    BY HeardOf
  <2> QED BY <1>2, <2>1, <2>2 DEF HeardSame
<1>4. DOMAIN Given(0) = DOMAIN Given(q)
  BY <1>3, HeardOf
<1>5. \A i \in DOMAIN Given(q) : Given(0)[i] = Given(q)[i]
  BY <1>1, <1>4, ShownAlike, ToldAlike
<1>6. ReaderTimestep[0] \in Pointer /\ ReaderTimestep[q] \in Pointer /\ Pointer \subseteq Int
      /\ \A t \in Pointer : Nothing <= t
  BY PointerTypes DEF Types, TypesQueue, Pointer, Nothing
<1>7. \A t : Answer("OK", t).status = "OK" /\ Answer("OK", t).step = t
  BY DEF Answer
<1>8. ASSUME NEW s \in Rank, NEW z \in Rank, DOMAIN Given(s) = DOMAIN Given(z), Latest(s), Latest(z),
             \A i \in DOMAIN Given(s) : Given(s)[i] = Given(z)[i], ReaderTimestep[z] \in Pointer
      PROVE  ReaderTimestep[s] <= ReaderTimestep[z]
  <2>1. CASE ReaderTimestep[s] = Nothing
    BY <1>6, <1>8, <2>1
  <2>2. CASE ReaderTimestep[s] # Nothing
    <3>1. PICK i \in DOMAIN Given(s) : Given(s)[i] = Answer("OK", ReaderTimestep[s])
      BY <1>8, <2>2 DEF Latest
    <3> QED BY <1>7, <1>8, <3>1 DEF Latest
  <2> QED BY <2>1, <2>2
<1>9. ReaderTimestep[0] <= ReaderTimestep[q] /\ ReaderTimestep[q] <= ReaderTimestep[0]
  BY <1>1, <1>4, <1>5, <1>6, <1>8
<1>10. \A x, y \in Int : x <= y /\ y <= x => y = x
  OBVIOUS
<1>11. ReaderTimestep[0] \in Int /\ ReaderTimestep[q] \in Int
  BY <1>6
<1> QED
  BY <1>9, <1>10, <1>11, Zenon

-----------------------------------------------------------------------------
(* The Peer pattern: what a rank with its own connection has and is owed *)

(* What a rank has and is owed *)
Supplied(r) == Unread(r) /\ Latest(r) /\ Owed(r) /\ NoneSkipped(r)

(* The log says the same as before of each step. *)
LEMMA SameLog ==
  ASSUME UNCHANGED log
  PROVE  (Closed' <=> Closed) /\ \A t : IsData(t)' <=> IsData(t)
  BY DEF Closed, IsData, IsStep

(* Its queue loses nothing that it may still need. *)
LEMMA UnreadKept ==
  ASSUME config' = config, UNCHANGED log, NEW r \in Rank, Unread(r), arrived'[r] = arrived[r],
         Status'[r] # "Destroyed" => Status[r] # "Destroyed", Q(r)' \subseteq Q(r),
         \A u \in StepNo : ReaderTimestep'[r] < u /\ DiscardPriorTimestep'[r] <= u
                               => ReaderTimestep[r] < u /\ DiscardPriorTimestep[r] <= u,
         Status'[r] # "Destroyed" =>
             \A u \in Q(r) : IsData(u) /\ ReaderTimestep'[r] < u /\ DiscardPriorTimestep'[r] <= u => u \in Q(r)'
  PROVE  Unread(r)'
  BY SameLog, Fixed DEF Unread

(* It goes on to a place where it is told of nothing. *)
LEMMA SuppliedKept ==
  ASSUME config' = config, UNCHANGED log, NEW r \in Rank, Supplied(r), arrived'[r] = arrived[r],
         Status'[r] # "Destroyed" => Status[r] # "Destroyed",
         Timesteps'[r] = Timesteps[r], ReaderTimestep'[r] = ReaderTimestep[r],
         DiscardPriorTimestep'[r] = DiscardPriorTimestep[r], Given(r)' = Given(r),
         Promised(r)' <=> Promised(r)
  PROVE  Supplied(r)'
<1>1. Q(r)' = Q(r)
  BY DEF Q
<1>2. Unread(r)'
  BY <1>1, UnreadKept DEF Supplied
<1>3. Latest(r)' /\ NoneSkipped(r)'
  BY AnswersKept DEF Supplied
<1>4. \A t : New(r, t)' <=> New(r, t)
  BY SameLog DEF New
<1>5. Owed(r)'
  BY <1>4, Fixed DEF Supplied, Owed
<1> QED
  BY <1>2, <1>3, <1>5 DEF Supplied

(* The connection stays as it is. *)
LEMMA ConnectedKept ==
  ASSUME config' = config, UNCHANGED log, UNCHANGED writerUp, NEW r \in Rank, Connected(r),
         npc'[r] = npc[r], Status'[r] = Status[r], FinalTimestep'[r] = FinalTimestep[r], arrived'[r] = arrived[r],
         pc'[r] \in {"opening", "wait_peers"} <=> pc[r] \in {"opening", "wait_peers"},
         pc[r] \in {"user", "close_barrier", "linger"} /\ Ended(r) /\ ~inStep[r] =>
             /\ pc'[r] \in {"user", "close_barrier", "linger"}
             /\ results'[r] = results[r] /\ inStep'[r] = inStep[r]
  PROVE  Connected(r)'
<1>1. (Drained(r)' <=> Drained(r)) /\ Infinity' = Infinity
  BY SameLog, Fixed DEF Drained
<1>2. Special' = Special
  BY Fixed
<1>3. Special /\ Ended(r) /\ ~inStep[r] /\ pc[r] \in {"user", "close_barrier", "linger"}
        => (Special /\ Ended(r) /\ ~inStep[r] /\ pc[r] \in {"user", "close_barrier", "linger"})'
  BY <1>2 DEF Ended
<1> QED
  BY <1>1, <1>3 DEF Connected

(* The writer sends something more, which has arrived nowhere yet. *)
LEMMA LogExtended ==
  ASSUME ReaderInv, Writer, ~UNCHANGED log
  PROVE  /\ ~Closed /\ Len(log') = Len(log) + 1 /\ Len(log) \in Nat
         /\ \A t \in StepNo : IsData(t) => IsData(t)' /\ t < Len(log)
         /\ \A t \in StepNo : t < Len(log) => (IsData(t)' <=> IsData(t))
<1>1. log \in Seq(Message) /\ Types
  BY DEF ReaderInv, Types, TypesWriter
<1>2. PICK m : log' = Append(log, m) /\ ~Closed
  BY DEF Writer, WriterResponds, WriterProvides, WriterCloses, WriterDies
<1>3. log \in Seq(Message \cup {m}) /\ m \in Message \cup {m}
  BY <1>1
<1>4. /\ Len(log') = Len(log) + 1 /\ DOMAIN log' = 1 .. (Len(log) + 1) /\ DOMAIN log = 1 .. Len(log)
      /\ Len(log) \in Nat /\ \A i \in 1 .. Len(log) : log'[i] = log[i]
  BY <1>2, <1>3, AppendedTo
<1>5. ASSUME NEW t \in StepNo PROVE /\ IsData(t) => IsData(t)' /\ t < Len(log)
                                    /\ t < Len(log) => (IsData(t)' <=> IsData(t))
  <2>1. t \in Nat
    BY <1>1, PointerTypes DEF StepNo
  <2>2. IsData(t) <=> t + 1 \in 1 .. Len(log) /\ log[t + 1].kind = "step"
    BY <1>4 DEF IsData, IsStep
  <2>3. IsData(t)' <=> t + 1 \in 1 .. (Len(log) + 1) /\ log'[t + 1].kind = "step"
    BY <1>4 DEF IsData, IsStep
  <2>4. t < Len(log) <=> t + 1 \in 1 .. Len(log)
    BY <1>4, <2>1
  <2>5. t + 1 \in 1 .. Len(log) => t + 1 \in 1 .. (Len(log) + 1)
    BY <1>4, <2>1
  <2> QED BY <1>4, <2>2, <2>3, <2>4, <2>5
<1> QED
  BY <1>2, <1>4, <1>5

(* What is contributed and decided are steps. *)
LEMMA CollectiveSteps ==
  ASSUME Types, NEW r \in Rank
  PROVE  /\ contribution[r] # <<>> => contribution[r][1] \in StepNo \cup {Nothing}
         /\ \A k \in DOMAIN decision[r] :
                decision[r][k] \in Decisions /\ (decision[r][k].status = "OK" => decision[r][k].step \in StepNo)
<1>1. StepNo \cup {Nothing} = Pointer
  BY PointerTypes DEF Types, TypesWriter
<1>2. contribution[r] # <<>> => contribution[r][1] \in Pointer
  BY DEF Types, TypesColl
<1>3. \A k \in DOMAIN decision[r] : decision[r][k] \in Decisions
  <2> DEFINE d == decision[r]
  <2>1. d \in Seq(Decisions)
    BY GivenTypes
  <2> HIDE DEF d
  <2> QED BY <2>1, ListElements, Zenon DEF d
<1>4. \A v \in Decisions : v.status = "OK" => v.step \in StepNo
  BY <1>1 DEF Decisions, Results, Pointer
<1> QED
  BY <1>1, <1>2, <1>3, <1>4

(* A rank whose part in the gathering does not change *)
LEMMA SyncedKept ==
  ASSUME Types, config' = config, NEW r \in Rank, Synced(r), decision'[r] = decision[r],
         contribution'[r] = contribution[r], pc'[r] = pc[r], pc'[0] = "timedwait" => pc[0] = "timedwait",
         \A t \in StepNo : New(r, t) => New(r, t)'
  PROVE  Synced(r)'
<1>1. PICK c, d : c = contribution[r] /\ d = decision[r]
  OBVIOUS
<1>2. contribution'[r] = c /\ decision'[r] = d
  BY <1>1
<1>3. c # <<>> /\ c[1] # Nothing => New(r, c[1])'
  BY <1>1, CollectiveSteps DEF Synced
<1>4. \A k \in DOMAIN d : d[k].status = "OK" => New(r, d[k].step)'
  BY <1>1, CollectiveSteps DEF Synced
<1>5. contribution'[r] # <<>> /\ contribution'[r][1] # Nothing => New(r, contribution[r][1])'
  BY <1>2, <1>3
<1>6. \A k \in DOMAIN decision'[r] : decision'[r][k].status = "OK" => New(r, decision[r][k].step)'
  BY <1>2, <1>4
<1>7. /\ Len(d) <= 1
      /\ d # <<>> => pc[r] = "bcast" /\ c = <<>>
      /\ c # <<>> => pc[r] \in (IF r = 0 THEN {"gather", "timedwait"} ELSE {"bcast"})
      /\ \A k \in DOMAIN d : d[k].status # "FatalError"
      /\ pc[0] = "timedwait" => c # <<>>
      /\ ~Special => pc[r] \notin {"gather", "timedwait", "bcast", "walk"}
  BY <1>1 DEF Synced
<1> QED
  BY <1>2, <1>5, <1>6, <1>7, Fixed DEF Synced

(* The writer sends, answers or closes; it does not fail. *)
LEMMA WriterPeerTold ==
  ASSUME ReaderInv, config' = config, CPCommPattern = "Peer", Steady, Writer, NEW r \in Rank, PeerTold(r)
  PROVE  PeerTold(r)'
<1>1. /\ UNCHANGED <<arrived, Status, Timesteps, DiscardPriorTimestep, ReaderTimestep, pc, npc, inStep, results,
                     FinalTimestep, contribution, decision>>
      /\ UNCHANGED writerUp
  <2>1. ~WriterDies
    <3>1. config \in Configs
      BY DEF ReaderInv, Types, TypesWriter
    <3> QED BY <3>1 DEF WriterDies, Steady, CPCommPattern
  <2>2. UNCHANGED writerOnly /\ UNCHANGED writerUp
    BY <2>1 DEF Writer, WriterResponds, WriterProvides, WriterCloses
  <2> QED BY <2>2 DEF writerOnly, streamVars, statusVars, queueVars, stepVars, threadVars, outVars, collVars
<1>2. Given(r)' = Given(r) /\ (Promised(r)' <=> Promised(r)) /\ Q(r)' = Q(r)
  BY <1>1, UnmovedHeard DEF Unmoved, Q
<1>3. Types /\ arrived[r] \in Nat /\ arrived[r] <= Len(log) /\ StepNo \subseteq Int /\ ReaderTimestep[r] \in Int
      /\ \A u \in Q(r) : u \in StepNo
  BY RankFacts DEF Queue
<1>4. CASE UNCHANGED log
  <2>1. Supplied(r)' /\ Connected(r)'
    BY <1>1, <1>2, <1>4, SuppliedKept, ConnectedKept DEF PeerTold, Supplied
  <2>2. \A t \in StepNo : New(r, t) => New(r, t)'
    BY <1>1, <1>4, SameLog DEF New
  <2>3. Synced(r)'
    BY <1>1, <1>3, <2>2, SyncedKept DEF PeerTold
  <2> QED BY <2>1, <2>3 DEF PeerTold, Supplied
<1>5. CASE ~UNCHANGED log
  <2>1. /\ ~Closed /\ Len(log') = Len(log) + 1 /\ Len(log) \in Nat
        /\ \A t \in StepNo : IsData(t) => IsData(t)' /\ t < Len(log)
        /\ \A t \in StepNo : t < Len(log) => (IsData(t)' <=> IsData(t))
    BY <1>5, LogExtended
  <2>2. \A t \in StepNo : New(r, t) => New(r, t)'
    BY <1>1, <2>1 DEF New
  <2>3. Synced(r)'
    BY <1>1, <1>3, <2>2, SyncedKept DEF PeerTold
  <2>4. Connected(r)'
    <3>1. ~Drained(r)
      BY <2>1 DEF Drained
    <3>2. Ended(r)' = Ended(r) /\ Special' = Special
      BY <1>1, Fixed DEF Ended
    <3> QED BY <1>1, <3>1, <3>2, Fixed DEF PeerTold, Connected
  <2>5. Unread(r)'
    <3>1. \A u \in StepNo : u < arrived[r] => u < Len(log)
      <4>1. \A x, y, z \in Int : x < y /\ y <= z => x < z
        OBVIOUS
      <4>2. arrived[r] \in Int /\ Len(log) \in Int
        BY <1>3, <2>1
      <4>3. \A u \in StepNo : u \in Int
        BY <1>3, Zenon
      <4> QED BY <1>3, <4>1, <4>2, <4>3, Zenon
    <3> QED BY <1>1, <1>2, <1>3, <2>1, <3>1, Fixed DEF PeerTold, Unread
  <2>6. Owed(r)'
    <3>1. DiscardPriorTimestep[r] = Nothing \/ DiscardPriorTimestep[r] \in StepNo
      BY <1>3, PointerTypes DEF Types, TypesQueue
    <3>2. New(r, DiscardPriorTimestep[r]) => New(r, DiscardPriorTimestep[r])'
      <4>1. ReaderTimestep[r] < DiscardPriorTimestep[r] => DiscardPriorTimestep[r] # Nothing
        BY <1>3, PointerTypes DEF Types, TypesQueue, Pointer, Nothing
      <4> QED BY <1>1, <2>1, <3>1, <4>1 DEF New
    <3> QED BY <1>1, <1>2, <2>2, <3>2, Fixed DEF PeerTold, Owed
  <2>7. Latest(r)'
    BY <1>1, <1>2 DEF PeerTold, Latest, Answer
  <2>8. NoneSkipped(r)'
    <3> SUFFICES ASSUME ~AlwaysProvideLatestTimestep, NEW i \in DOMAIN Given(r) PROVE InTurn(r, i)'
      BY <1>2, Fixed DEF NoneSkipped
    <3>1. InTurn(r, i)
      BY DEF PeerTold, NoneSkipped
    <3>2. \A u : Before(r, i, u)' <=> Before(r, i, u)
      BY <1>2 DEF Before, Answer
    <3>3. Given(r)[i].status = "OK" => Given(r)[i].step \in StepNo
      <4>1. Given(r)[i] \in Results
        <5> DEFINE g == Given(r)
        <5>1. g \in Seq(Results)
          BY <1>3, GivenTypes
        <5> HIDE DEF g
        <5> QED BY <5>1, ListElements, Zenon DEF g
      <4>2. Given(r)[i].step \in Pointer /\ Nothing = -1
        BY <4>1 DEF Results, Pointer, Nothing
      <4>3. DOMAIN log = 1 .. Len(log) /\ StepNo = Pointer \ {Nothing} /\ Pointer \subseteq Int
        BY <1>3, PointerTypes, LogTypes DEF ReaderInv
      <4>4. IsData(Given(r)[i].step) => Given(r)[i].step # Nothing
        BY <4>2, <4>3 DEF IsData, IsStep
      <4> QED BY <3>1, <4>2, <4>3, <4>4 DEF InTurn
    <3>4. ASSUME Given(r)[i].status = "OK"
          PROVE  /\ IsData(Given(r)[i].step)'
                 /\ \A u \in StepNo : IsData(u)' /\ u < Given(r)[i].step => Before(r, i, u)
      <4>1. IsData(Given(r)[i].step) /\ Given(r)[i].step < Len(log) /\ IsData(Given(r)[i].step)'
        <5>1. IsData(Given(r)[i].step)
          BY <3>1, <3>4 DEF InTurn
        <5>2. \A t : t = Given(r)[i].step /\ IsData(t)' => IsData(Given(r)[i].step)'
          BY <1>2 DEF IsData, IsStep
        <5>3. \A t \in StepNo : IsData(t) => IsData(t)' /\ t < Len(log)
          BY <2>1
        <5> QED BY <3>3, <3>4, <5>1, <5>2, <5>3
      <4>2. ASSUME NEW u \in StepNo, IsData(u)', u < Given(r)[i].step PROVE Before(r, i, u)
        <5>1. u < Len(log)
          BY <1>3, <2>1, <3>3, <3>4, <4>1, <4>2
        <5>2. IsData(u)
          BY <2>1, <4>2, <5>1
        <5> QED BY <3>1, <3>4, <4>2, <5>2 DEF InTurn
      <4> QED BY <4>1, <4>2
    <3>5. Special \/ Given(r)[i].status = "OK"
      BY <2>1, <3>1 DEF InTurn
    <3> QED BY <1>2, <3>1, <3>2, <3>4, <3>5, Fixed DEF InTurn
  <2> QED BY <2>3, <2>4, <2>5, <2>6, <2>7, <2>8 DEF PeerTold
<1> QED
  BY <1>4, <1>5

(* What holds of a rank with its own connection *)
LEMMA OwnConnection ==
  ASSUME IInv, SameInv, CPCommPattern = "Peer", NEW r \in Rank
  PROVE  /\ Types /\ ReaderInv /\ Peered = Rank /\ 0 \in Rank
         /\ PeerInv(r) /\ Place(r) /\ Queue(r) /\ PeerTold(r)
         /\ Connected(r) /\ Unread(r) /\ Latest(r) /\ Synced(r) /\ Owed(r) /\ NoneSkipped(r)
         /\ writerUp /\ npc[r] = "idle" /\ Status[r] # "PeerFailed"
         /\ DOMAIN contribution = Rank
<1>1. Types /\ ReaderInv /\ DOMAIN contribution = Rank
  BY DEF IInv, ReaderInv, Types, TypesColl
<1>2. Peered = Rank /\ 0 \in Rank
  BY <1>1, Parameters DEF Types, TypesWriter
<1>3. PeerTold(r)
  BY DEF SameInv
<1> QED
  BY <1>1, <1>2, <1>3, RankFacts DEF PeerTold, Connected

(* What a rank is owed does not change with what it is not told. *)
LEMMA OwedKept ==
  ASSUME config' = config, UNCHANGED log, NEW r \in Rank, Owed(r), ReaderTimestep'[r] = ReaderTimestep[r],
         DiscardPriorTimestep'[r] = DiscardPriorTimestep[r], Promised(r)' <=> Promised(r)
  PROVE  Owed(r)'
<1>1. \A t : New(r, t)' <=> New(r, t)
  BY SameLog DEF New
<1> QED
  BY <1>1, Fixed DEF Owed

(* A rank outside the gathering has no part in it. *)
LEMMA Uninvolved ==
  ASSUME NEW r \in Rank, Synced(r), pc[r] \notin {"gather", "timedwait", "bcast"}
  PROVE  decision[r] = <<>> /\ contribution[r] = <<>> /\ pc[0] # "timedwait"
  BY DEF Synced

(* A rank that has nothing of the gathering is in step with it. *)
LEMMA SyncedFree ==
  ASSUME config' = config, NEW r \in Rank, decision'[r] = <<>>, contribution'[r] = <<>>, pc'[0] # "timedwait",
         Special \/ pc'[r] \notin {"gather", "timedwait", "bcast", "walk"}
  PROVE  Synced(r)'
<1>1. PICK d : d = decision'[r]
  OBVIOUS
<1>2. Len(d) <= 1 /\ DOMAIN d = {} /\ d = <<>>
  BY <1>1
<1> QED
  BY <1>1, <1>2, Fixed DEF Synced

(* A rank goes on alone. *)
LEMMA SyncedAlone ==
  ASSUME Types, config' = config, NEW r \in Rank, Synced(r), pc[r] \notin {"gather", "timedwait", "bcast"},
         decision'[r] = decision[r], contribution'[r] = contribution[r],
         \A s \in Rank \ {r} : pc'[s] = pc[s], 0 \in Rank,
         pc'[r] \notin {"gather", "timedwait"},
         Special \/ pc'[r] \notin {"bcast", "walk"}
  PROVE  Synced(r)'
<1>1. decision[r] = <<>> /\ contribution[r] = <<>> /\ pc[0] # "timedwait"
  BY Uninvolved
<1>2. pc'[0] # "timedwait"
  BY <1>1
<1> QED
  BY <1>1, <1>2, SyncedFree

(* What a rank does leaves the others as they are, but for the gathering. *)
LEMMA OthersPeerTold ==
  ASSUME IInv, SameInv, CPCommPattern = "Peer", NEW r \in Rank, Main(r), NEW s \in Rank \ {r}, Synced(s)'
  PROVE  PeerTold(s)'
<1>1. /\ Types /\ Connected(s) /\ Supplied(s)
  BY OwnConnection DEF Supplied
<1>2. /\ Unmoved(s) /\ Same(s) /\ npc'[s] = npc[s] /\ FinalTimestep'[s] = FinalTimestep[s]
      /\ UNCHANGED <<arrived, config>> /\ UNCHANGED writerVars
  BY <1>1, MainOthers
<1>3. Given(s)' = Given(s) /\ (Promised(s)' <=> Promised(s))
  BY <1>2, UnmovedHeard
<1>4. Supplied(s)'
  BY <1>1, <1>2, <1>3, SuppliedKept DEF Same, writerVars
<1>5. Connected(s)'
  BY <1>1, <1>2, ConnectedKept DEF Same, writerVars
<1> QED
  BY <1>4, <1>5 DEF Supplied, PeerTold

(* A rank that goes on alone has no part in the gathering of the others. *)
LEMMA OthersSynced ==
  ASSUME IInv, SameInv, CPCommPattern = "Peer", NEW r \in Rank, Main(r), NEW s \in Rank \ {r},
         decision'[s] = decision[s], contribution'[s] = contribution[s],
         pc'[0] = "timedwait" => pc[0] = "timedwait"
  PROVE  Synced(s)'
<1>1. Types /\ Synced(s)
  BY OwnConnection
<1>2. /\ Unmoved(s) /\ config' = config /\ UNCHANGED log
  BY <1>1, MainOthers DEF writerVars
<1>3. \A t \in StepNo : New(s, t) => New(s, t)'
  BY <1>2, SameLog DEF New, Unmoved
<1> QED
  BY <1>1, <1>2, <1>3, SyncedKept DEF Unmoved

(* A rank goes on in its code, and is told of nothing. *)
LEMMA GoesOn ==
  ASSUME IInv, SameInv, CPCommPattern = "Peer", NEW r \in Rank, Main(r),
         pc[r] \notin {"gather", "timedwait", "bcast"}, pc'[r] \notin {"gather", "timedwait", "bcast"},
         Special \/ pc'[r] # "walk",
         UNCHANGED <<contribution, decision>>, Status'[r] = Status[r],
         ReaderTimestep'[r] = ReaderTimestep[r], DiscardPriorTimestep'[r] = DiscardPriorTimestep[r],
         Given(r)' = Given(r), Promised(r)' <=> Promised(r), Unread(r)',
         pc'[r] \in {"opening", "wait_peers"} <=> pc[r] \in {"opening", "wait_peers"},
         pc[r] \in {"user", "close_barrier", "linger"} /\ Ended(r) /\ ~inStep[r] =>
             /\ pc'[r] \in {"user", "close_barrier", "linger"}
             /\ results'[r] = results[r] /\ inStep'[r] = inStep[r]
  PROVE  \A s \in Rank : PeerTold(s)'
<1>1. /\ Types /\ 0 \in Rank /\ Connected(r) /\ Latest(r) /\ Synced(r) /\ Owed(r) /\ NoneSkipped(r)
  BY OwnConnection
<1>2. /\ \A s \in Rank \ {r} : pc'[s] = pc[s]
      /\ UNCHANGED <<npc, FinalTimestep, arrived, config>> /\ UNCHANGED log /\ UNCHANGED writerUp
  BY <1>1, MainOthers DEF writerVars, Unmoved
<1>3. Latest(r)' /\ NoneSkipped(r)' /\ Owed(r)'
  BY <1>1, <1>2, AnswersKept, OwedKept
<1>4. Connected(r)'
  BY <1>1, <1>2, ConnectedKept
<1>5. Synced(r)'
  BY <1>1, <1>2, SyncedAlone
<1>6. pc'[0] = "timedwait" => pc[0] = "timedwait"
  BY <1>1, <1>2
<1>7. \A s \in Rank \ {r} : PeerTold(s)'
  BY <1>6, OthersSynced, OthersPeerTold
<1> QED
  BY <1>3, <1>4, <1>5, <1>7 DEF PeerTold

(* A rank that touches neither its queue nor its place in the stream has the *)
(* same steps to come.                                                       *)
LEMMA UnreadSame ==
  ASSUME config' = config, UNCHANGED log, NEW r \in Rank, Unread(r), arrived'[r] = arrived[r],
         Status'[r] = Status[r], Timesteps'[r] = Timesteps[r], ReaderTimestep'[r] = ReaderTimestep[r],
         DiscardPriorTimestep'[r] = DiscardPriorTimestep[r]
  PROVE  Unread(r)'
<1>1. Q(r)' = Q(r)
  BY DEF Q
<1> QED
  BY <1>1, UnreadKept

(* SstReaderOpen *)
LEMMA OpenPeerTold ==
  ASSUME IInv, SameInv, CPCommPattern = "Peer", NEW r \in Rank, Main(r), OpenResponse(r) \/ OpenEstablish(r)
  PROVE  \A s \in Rank : PeerTold(s)'
<1> USE Domains
<1>1. /\ Types /\ 0 \in Rank /\ PeerTold(r) /\ writerUp /\ Unread(r) /\ Connected(r) /\ Latest(r) /\ Synced(r)
      /\ Owed(r) /\ NoneSkipped(r)
  BY OwnConnection
<1>2. /\ \A s \in Rank \ {r} : pc'[s] = pc[s]
      /\ UNCHANGED <<npc, FinalTimestep, arrived, config>> /\ UNCHANGED log /\ UNCHANGED writerUp
  BY <1>1, MainOthers DEF writerVars, Unmoved
<1>3. /\ UNCHANGED <<contribution, decision, Timesteps, ReaderTimestep, DiscardPriorTimestep, inStep, results>>
      /\ pc[r] \in {"opening", "wait_peers"} /\ pc'[r] \in {"wait_peers", "user"}
  BY <1>1 DEF OpenResponse, OpenEstablish, Goto, streamVars, queueVars, stepVars, collVars, outVars
<1>4. Given(r)' = Given(r) /\ ~Promised(r) /\ ~Promised(r)'
  BY <1>1, <1>2, <1>3, GivenMoves DEF Promised, InStepPcs
<1>5. Latest(r)' /\ NoneSkipped(r)' /\ Owed(r)' /\ Synced(r)'
  BY <1>1, <1>2, <1>3, <1>4, AnswersKept, OwedKept, SyncedAlone
<1>6. \A s \in Rank \ {r} : PeerTold(s)'
  <2>1. pc'[0] = "timedwait" => pc[0] = "timedwait"
    BY <1>1, <1>2, <1>3
  <2> QED BY <1>3, <2>1, OthersSynced, OthersPeerTold
<1>7. Q(r)' = Q(r)
  BY <1>3 DEF Q
<1>8. CASE OpenResponse(r)
  <2>1. pc'[r] = "wait_peers" /\ Status'[r] = Status[r] /\ pc[r] = "opening"
    BY <1>1, <1>8 DEF OpenResponse, Goto, streamVars, statusVars
  <2>2. Connected(r)' /\ Unread(r)'
    BY <1>1, <1>2, <1>3, <2>1, ConnectedKept, UnreadSame
  <2> QED BY <1>5, <1>6, <2>2 DEF PeerTold
<1>9. CASE OpenEstablish(r)
  <2>1. pc'[r] = "user" /\ Status'[r] = "Established" /\ pc[r] = "wait_peers"
    BY <1>1, <1>9 DEF OpenEstablish, Goto
  <2>2. Unread(r)'
    BY <1>1, <1>2, <1>3, <1>7, <2>1, UnreadKept DEF Connected
  <2>3. FinalTimestep[r] = Infinity /\ Infinity' = Infinity
    BY <1>1, <1>2, <2>1, Fixed DEF Connected
  <2>4. Connected(r)'
    BY <1>1, <1>2, <2>1, <2>3 DEF Connected
  <2> QED BY <1>5, <1>6, <2>2, <2>4 DEF PeerTold
<1> QED
  BY <1>8, <1>9

(* What the application does between the calls of BeginStep, and the end of one *)
LEMMA QuietPeerTold ==
  ASSUME IInv, SameInv, CPCommPattern = "Peer", NEW r \in Rank, Main(r),
         SstGetAttributeData(r) \/ InstallAttributes(r) \/ SendRelease(r) \/ SstReaderClose(r)
  PROVE  \A s \in Rank : PeerTold(s)'
<1> USE Domains
<1>1. /\ Types /\ Unread(r)
  BY OwnConnection
<1>2. /\ UNCHANGED <<arrived, config>> /\ UNCHANGED log
  BY <1>1, MainOthers DEF writerVars
<1>3. /\ UNCHANGED <<contribution, decision, Timesteps, ReaderTimestep, DiscardPriorTimestep, Status>>
      /\ pc[r] \in {"get_attributes", "install", "send_release", "user"}
      /\ pc'[r] \in {"install", "user", "close_barrier"}
  BY <1>1 DEF SstGetAttributeData, InstallAttributes, SendRelease, SstReaderClose, Goto, Finish,
     streamVars, queueVars, stepVars, statusVars, collVars, outVars
<1>4. Given(r)' = Given(r) /\ ~Promised(r) /\ ~Promised(r)'
  <2>1. CASE SstGetAttributeData(r) \/ InstallAttributes(r)
    BY <1>1, <1>2, <1>3, <2>1, GivenMoves DEF Promised
  <2>2. CASE SendRelease(r) \/ SstReaderClose(r)
    <3>1. pc[r] \notin InStepPcs /\ pc'[r] \notin InStepPcs /\ results'[r] = results[r]
      BY <1>1, <2>2 DEF SendRelease, SstReaderClose, Goto, outVars, InStepPcs
    <3> QED BY <1>1, <1>2, <1>3, <3>1, GivenMoves DEF Promised
  <2> QED BY <2>1, <2>2
<1>5. pc[r] = "user" => pc'[r] = "close_barrier" /\ UNCHANGED <<results, inStep>>
  BY <1>1 DEF SstGetAttributeData, InstallAttributes, SendRelease, SstReaderClose, Goto, outVars
<1>6. Unread(r)'
  BY <1>1, <1>2, <1>3, UnreadSame
<1> QED
  BY <1>3, <1>4, <1>5, <1>6, GoesOn

(* The newest step that a rank has is one it has not been told of. *)
LEMMA QueuedIsNew ==
  ASSUME IInv, SameInv, CPCommPattern = "Peer", NEW r \in Rank,
         ~inStep[r], pc[r] \notin {"get_attributes", "install"}
  PROVE  /\ \A t \in Q(r) : New(r, t)
         /\ MaxQueuedMetadata(r) \in Pointer
         /\ MaxQueuedMetadata(r) # Nothing => New(r, MaxQueuedMetadata(r))
<1>1. /\ Types /\ ReaderInv /\ Unread(r) /\ PeerInv(r) /\ Queue(r)
  BY OwnConnection
<1>2. \A t \in Q(r) : IsData(t) /\ ReaderTimestep[r] < t
  <2>1. \A t \in Q(r) : t \in Int
    BY <1>1, RankFacts
  <2>2. ReaderTimestep[r] \in Int
    BY <1>1, RankFacts
  <2>3. ~Working(r)
    BY DEF Working
  <2> QED BY <1>1, <2>1, <2>2, <2>3 DEF Unread, PeerInv, InUse
<1>3. MaxQueuedMetadata(r) \in Q(r) \cup {Nothing} /\ MaxQueuedMetadata(r) \in Pointer
  BY <1>1, QueueBounds DEF Queue, Q
<1> QED
  BY <1>2, <1>3 DEF New

(* BeginStep, up to the gathering or the wait *)
LEMMA BeginStepPeerTold ==
  ASSUME IInv, SameInv, CPCommPattern = "Peer", NEW r \in Rank, Main(r), BeginStep(r)
  PROVE  \A s \in Rank : PeerTold(s)'
<1> USE Domains
<1>1. /\ Types /\ 0 \in Rank /\ Unread(r) /\ Latest(r) /\ Connected(r) /\ Synced(r) /\ Owed(r) /\ NoneSkipped(r)
      /\ DOMAIN contribution = Rank
  BY OwnConnection
<1>2. /\ \A s \in Rank \ {r} : pc'[s] = pc[s]
      /\ UNCHANGED <<npc, FinalTimestep, arrived, config>> /\ UNCHANGED log /\ UNCHANGED writerUp
  BY <1>1, MainOthers DEF writerVars, Unmoved
<1>3. /\ UNCHANGED <<Timesteps, ReaderTimestep, DiscardPriorTimestep, Status, decision, inStep, results>>
      /\ pc[r] = "user" /\ ~inStep[r] /\ ~Ended(r)
  BY <1>1 DEF BeginStep, streamVars, queueVars, stepVars, statusVars
<1>4. Unread(r)'
  BY <1>1, <1>2, <1>3, UnreadSame
<1>5. CASE ~Special
  <2>1. pc'[r] = "next" /\ UNCHANGED contribution
    BY <1>1, <1>5 DEF BeginStep, Goto
  <2>2. Given(r)' = Given(r) /\ ~Promised(r) /\ ~Promised(r)'
    BY <1>1, <1>2, <1>3, <1>5, <2>1, GivenMoves, Fixed DEF Promised, InStepPcs
  <2> QED BY <1>3, <1>4, <2>1, <2>2, GoesOn
<1>6. CASE Special
  <2>1. /\ pc'[r] = IF r = 0 THEN "gather" ELSE "bcast"
        /\ contribution' = [contribution EXCEPT ![r] = <<MaxQueuedMetadata(r)>>]
    BY <1>1, <1>6 DEF BeginStep, Goto
  <2>2. Given(r)' = Given(r) /\ ~Promised(r) /\ ~Promised(r)'
    BY <1>1, <1>2, <1>3, <2>1, GivenMoves, Fixed DEF Promised, InStepPcs
  <2>3. Latest(r)' /\ NoneSkipped(r)' /\ Owed(r)'
    BY <1>1, <1>2, <1>3, <2>2, AnswersKept, OwedKept
  <2>4. Connected(r)'
    BY <1>1, <1>2, <1>3, <2>1, ConnectedKept
  <2>5. Synced(r)'
    <3>1. PICK m \in Pointer : m = MaxQueuedMetadata(r)
      BY <1>3, QueuedIsNew
    <3>2. contribution'[r] = <<m>> /\ m = contribution'[r][1] /\ contribution'[r] # <<>>
      BY <1>1, <2>1, <3>1
    <3>3. m # Nothing => New(r, m)'
      <4>1. m # Nothing => New(r, m)
        BY <1>3, <3>1, QueuedIsNew
      <4> QED BY <1>2, <1>3, <4>1, SameLog DEF New
    <3>4. contribution'[r][1] # Nothing => New(r, contribution[r][1])'
      <4>1. contribution'[r] = <<m>>
        BY <3>2
      <4> QED BY <3>3, <4>1
    <3>5. decision[r] = <<>>
      BY <1>1, <1>3, Uninvolved
    <3>6. decision'[r] = <<>> /\ Len(<<>>) = 0 /\ DOMAIN <<>> = {}
      BY <1>3, <3>5
    <3>7. Special' = Special
      BY <1>2, Fixed
    <3> QED BY <1>6, <2>1, <3>2, <3>4, <3>6, <3>7 DEF Synced
  <2>6. \A s \in Rank \ {r} : PeerTold(s)'
    <3>1. pc'[0] = "timedwait" => pc[0] = "timedwait"
      BY <1>1, <1>2, <2>1
    <3>2. \A s \in Rank \ {r} : decision'[s] = decision[s] /\ contribution'[s] = contribution[s]
      BY <1>1, <1>3, <2>1
    <3> QED BY <3>1, <3>2, OthersSynced, OthersPeerTold
  <2> QED BY <1>4, <2>3, <2>4, <2>5, <2>6 DEF PeerTold
<1> QED
  BY <1>5, <1>6

(* SstReleaseStep frees the step that the application had. *)
LEMMA EndStepPeerTold ==
  ASSUME IInv, SameInv, CPCommPattern = "Peer", NEW r \in Rank, Main(r), EndStep(r)
  PROVE  \A s \in Rank : PeerTold(s)'
<1> USE Domains
<1>1. /\ Types /\ ReaderInv /\ Peered = Rank /\ Unread(r) /\ Queue(r) /\ Connected(r)
  BY OwnConnection
<1>2. /\ UNCHANGED <<arrived, config>> /\ UNCHANGED log
  BY <1>1, MainOthers DEF writerVars
<1> DEFINE rt == ReaderTimestep[r]
<1>3. /\ UNCHANGED <<contribution, decision, ReaderTimestep, DiscardPriorTimestep, Status, inStep, results>>
      /\ pc[r] = "user" /\ pc'[r] = "end_barrier" /\ inStep[r]
      /\ Timesteps'[r] = Without(Timesteps[r], rt)
  BY <1>1 DEF EndStep, Goto, streamVars, infoVars, stepVars, statusVars, collVars, outVars
<1>4. Given(r)' = Given(r) /\ ~Promised(r) /\ ~Promised(r)'
  BY <1>1, <1>2, <1>3, GivenMoves DEF Promised, InStepPcs
<1>5. Q(r)' = Q(r) \ {rt}
  BY <1>1, <1>3, RankFacts, WithoutQueue DEF Q
<1>6. Unread(r)'
  <2>1. \A u \in Q(r) : rt < u => u # rt
    BY <1>1, RankFacts
  <2> QED BY <1>1, <1>2, <1>3, <1>5, <2>1, UnreadKept
<1> QED
  BY <1>3, <1>4, <1>6, GoesOn

(* SstStreamDestroy empties the queue. *)
LEMMA DestroyPeerTold ==
  ASSUME IInv, SameInv, CPCommPattern = "Peer", NEW r \in Rank, Main(r), SstStreamDestroy(r)
  PROVE  \A s \in Rank : PeerTold(s)'
<1> USE Domains
<1>1. /\ Types /\ 0 \in Rank /\ Connected(r) /\ Latest(r) /\ Synced(r) /\ Owed(r) /\ NoneSkipped(r)
  BY OwnConnection
<1>2. /\ \A s \in Rank \ {r} : pc'[s] = pc[s]
      /\ UNCHANGED <<npc, FinalTimestep, arrived, config>> /\ UNCHANGED log /\ UNCHANGED writerUp
  BY <1>1, MainOthers DEF writerVars, Unmoved
<1>3. /\ UNCHANGED <<contribution, decision, ReaderTimestep, DiscardPriorTimestep, inStep, results>>
      /\ pc[r] = "linger" /\ pc'[r] = "done" /\ Status'[r] = "Destroyed" /\ Timesteps'[r] = <<>>
  BY <1>1 DEF SstStreamDestroy, Goto, streamVars, stepVars, collVars, outVars
<1>4. Given(r)' = Given(r) /\ ~Promised(r) /\ ~Promised(r)'
  BY <1>1, <1>2, <1>3, GivenMoves DEF Promised, InStepPcs
<1>5. Latest(r)' /\ NoneSkipped(r)' /\ Owed(r)' /\ Synced(r)'
  BY <1>1, <1>2, <1>3, <1>4, AnswersKept, OwedKept, SyncedAlone
<1>6. Unread(r)'
  BY <1>3 DEF Unread, Q, Steps
<1>7. Connected(r)'
  <2>1. (Drained(r)' <=> Drained(r)) /\ Infinity' = Infinity
    BY <1>2, SameLog, Fixed DEF Drained
  <2> QED BY <1>1, <1>2, <1>3, <2>1 DEF Connected
<1>8. \A s \in Rank \ {r} : PeerTold(s)'
  <2>1. pc'[0] = "timedwait" => pc[0] = "timedwait"
    BY <1>1, <1>2, <1>3
  <2> QED BY <1>3, <2>1, OthersSynced, OthersPeerTold
<1> QED
  BY <1>5, <1>6, <1>7, <1>8 DEF PeerTold

(* releasePriorTimesteps removes what is older than the step that was settled on. *)
LEMMA WalkPeerTold ==
  ASSUME IInv, SameInv, CPCommPattern = "Peer", NEW r \in Rank, Main(r), WalkMain(r), freedTouched = {}
  PROVE  \A s \in Rank : PeerTold(s)'
<1> USE Domains
<1>1. /\ Types /\ ReaderInv /\ Unread(r) /\ Queue(r) /\ Connected(r) /\ Synced(r) /\ PeerInv(r)
  BY OwnConnection
<1>2. /\ UNCHANGED <<arrived, config>> /\ UNCHANGED log
  BY <1>1, MainOthers DEF writerVars
<1>3. /\ UNCHANGED <<contribution, decision, ReaderTimestep, DiscardPriorTimestep, Status, inStep, results>>
      /\ pc[r] = "walk" /\ pc'[r] \in {"walk", "next"} /\ WalkTurn(r, "main")
  BY <1>1 DEF WalkMain, Goto, stepVars, statusVars
<1>4. Special
  BY <1>1, <1>3 DEF Synced
<1>5. Given(r)' = Given(r) /\ (Promised(r)' <=> Promised(r))
  BY <1>1, <1>2, <1>3, GivenMoves, Fixed DEF Promised, InStepPcs
<1>6. walk[r]["main"].latest = DiscardPriorTimestep[r]
  BY <1>1, <1>3 DEF PeerInv, Pending
<1>7. Unread(r)'
  <2>1. CASE WalkEnds(r, "main")
    BY <1>1, <1>2, <1>3, <2>1, UnreadSame DEF WalkEnds
  <2>2. ASSUME NEW this \in StepNo, NEW last \in Pointer, WalkRemoves(r, "main", this, last) PROVE Unread(r)'
    <3>1. this < DiscardPriorTimestep[r] /\ Timesteps'[r] = Without(Timesteps[r], this)
      BY <1>1, <1>6, <2>2 DEF WalkRemoves, Releasable
    <3>2. Q(r)' = Q(r) \ {this}
      BY <1>1, <3>1, RankFacts, WithoutQueue DEF Q
    <3>3. \A u \in Q(r) : DiscardPriorTimestep[r] <= u => u # this
      <4>1. this \in Int /\ DiscardPriorTimestep[r] \in Int
        BY <1>1, RankFacts
      <4> QED BY <3>1, <4>1
    <3> QED BY <1>1, <1>2, <1>3, <3>2, <3>3, UnreadKept
  <2> QED BY <1>1, <1>3, <2>1, <2>2, WalkEffect DEF Queue
<1> QED
  BY <1>3, <1>4, <1>5, <1>7, GoesOn

(* What a rank is told does not depend on the gathering. *)
Served(r) == Connected(r) /\ Unread(r) /\ Latest(r) /\ Owed(r) /\ NoneSkipped(r)

(* A rank takes the step that was settled on, which is newer than what it has had. *)
LEMMA Adopted ==
  ASSUME IInv, SameInv, CPCommPattern = "Peer", NEW r \in Rank, Main(r),
         pc[r] \in {"gather", "timedwait", "bcast"},
         NEW t \in StepNo, New(r, t), Adopt(r, t), AdoptStatus(r, "OK"),
         UNCHANGED <<Timesteps, ReaderTimestep>>
  PROVE  Served(r)' /\ pc'[r] \in {"walk", "next"}
<1> USE Domains
<1>1. /\ Types /\ Unread(r) /\ Latest(r) /\ Connected(r) /\ Synced(r) /\ Owed(r) /\ NoneSkipped(r)
      /\ ReaderInv /\ Place(r) /\ DOMAIN DiscardPriorTimestep = Rank
  BY OwnConnection
<1>2. /\ UNCHANGED <<npc, FinalTimestep, arrived, config>> /\ UNCHANGED log /\ UNCHANGED writerUp
  BY <1>1, MainOthers DEF writerVars
<1>3. /\ pc'[r] \in {"walk", "next"} /\ UNCHANGED <<inStep, results>> /\ Status'[r] = Status[r]
      /\ DiscardPriorTimestep'[r] = IF AlwaysProvideLatestTimestep THEN t ELSE DiscardPriorTimestep[r]
  BY <1>1 DEF Adopt, AdoptStatus, Goto
<1>4. Special
  BY <1>1 DEF Synced
<1>5. Given(r)' = Given(r) /\ ~Promised(r) /\ Promised(r)'
  BY <1>1, <1>2, <1>3, <1>4, GivenMoves, Fixed DEF Promised, InStepPcs
<1>6. Latest(r)' /\ NoneSkipped(r)'
  BY <1>1, <1>2, <1>5, AnswersKept
<1>7. Connected(r)'
  BY <1>1, <1>2, <1>3, ConnectedKept
<1>8. DiscardPriorTimestep[r] <= ReaderTimestep[r]
  BY <1>1, <1>5 DEF Owed
<1>9. Unread(r)'
  <2>1. Q(r)' = Q(r)
    BY DEF Q
  <2>2. \A u \in StepNo : ReaderTimestep[r] < u => DiscardPriorTimestep[r] <= u
    <3>1. \A x, y, z \in Int : x <= y /\ y < z => x <= z
      OBVIOUS
    <3>2. StepNo \subseteq Int /\ ReaderTimestep[r] \in Int /\ DiscardPriorTimestep[r] \in Int
      BY <1>1, RankFacts
    <3>3. \A u \in StepNo : u \in Int
      BY <3>2, Zenon
    <3> QED BY <1>8, <3>1, <3>2, <3>3, Zenon
  <2> QED BY <1>1, <1>2, <1>3, <2>1, <2>2, UnreadKept
<1>10. Owed(r)'
  <2>1. New(r, t)'
    BY <1>2, SameLog DEF New
  <2>2. CASE AlwaysProvideLatestTimestep
    <3>1. DiscardPriorTimestep'[r] = t
      BY <1>3, <2>2
    <3>2. New(r, DiscardPriorTimestep[r])'
      BY <2>1, <3>1 DEF New, IsData, IsStep
    <3> QED BY <1>2, <1>5, <2>2, <3>2, Fixed DEF Owed
  <2>3. CASE ~AlwaysProvideLatestTimestep
    BY <1>2, <1>5, <2>1, <2>3, Fixed DEF Owed
  <2> QED BY <2>2, <2>3
<1> QED
  BY <1>3, <1>6, <1>7, <1>9, <1>10 DEF Served

(* A rank returns without a step, as rank 0 does. *)
LEMMA GaveUp ==
  ASSUME IInv, SameInv, CPCommPattern = "Peer", NEW r \in Rank, Main(r),
         pc[r] \in {"gather", "timedwait", "bcast"},
         NEW status \in {"Timeout", "EndOfStream", "NoStream"}, GiveUp(r, status), AdoptStatus(r, status),
         UNCHANGED <<Timesteps, ReaderTimestep>>
  PROVE  Served(r)' /\ pc'[r] = "user"
<1> USE Domains
<1>1. /\ Types /\ Unread(r) /\ Latest(r) /\ Connected(r) /\ Synced(r) /\ Owed(r) /\ NoneSkipped(r)
      /\ Place(r)
  BY OwnConnection
<1>2. /\ UNCHANGED <<npc, FinalTimestep, arrived, config>> /\ UNCHANGED log /\ UNCHANGED writerUp
  BY <1>1, MainOthers DEF writerVars
<1>3. /\ pc'[r] = "user" /\ inStep'[r] = FALSE /\ UNCHANGED DiscardPriorTimestep
      /\ Status'[r] = IF status = "EndOfStream" THEN "PeerClosed" ELSE Status[r]
      /\ results'[r] = Append(results[r], Answer(status, Nothing))
      /\ Finish(r, status, Nothing)
  BY <1>1 DEF GiveUp, AdoptStatus, Finish, Goto, Answer
<1>4. Special
  BY <1>1 DEF Synced
<1>5. /\ Given(r)' = Append(Given(r), Answer(status, Nothing)) /\ ~Promised(r) /\ ~Promised(r)'
      /\ Nothing \in Pointer
  BY <1>1, <1>2, <1>3, GivenMoves, PointerTypes DEF Promised, InStepPcs
<1>6. Latest(r)' /\ NoneSkipped(r)'
  BY <1>1, <1>2, <1>4, <1>5, AnswersAdded
<1>7. Owed(r)'
  BY <1>1, <1>2, <1>3, <1>5, Fixed DEF Owed
<1>8. Q(r)' = Q(r)
  BY DEF Q
<1>9. Unread(r)'
  BY <1>1, <1>2, <1>3, <1>8, UnreadKept DEF Place
<1>10. Connected(r)'
  <2>1. (Drained(r)' <=> Drained(r)) /\ Infinity' = Infinity /\ Special'
    BY <1>2, <1>4, SameLog, Fixed DEF Drained
  <2>2. status = "EndOfStream" => Ended(r)'
    <3> DEFINE q == results[r]
               a == Answer(status, Nothing)
    <3>1. q \in Seq(Results) /\ a \in Results /\ a.status = status /\ results'[r] = Append(q, a)
      <4>1. q \in Seq(Results) /\ a \in Results
        BY <1>1, <1>5, GivenTypes
      <4>2. a.status = status
        BY DEF Answer
      <4> QED BY <1>3, <4>1, <4>2
    <3> HIDE DEF q, a
    <3>2. Last(Append(q, a)) = a /\ Append(q, a) # <<>>
      <4>1. Len(q) \in Nat /\ Len(Append(q, a)) = Len(q) + 1 /\ Append(q, a)[Len(q) + 1] = a
        BY <3>1, AppendedTo
      <4>2. Last(Append(q, a)) = a
        BY <4>1 DEF Last
      <4>3. Append(q, a) \in Seq(Results) /\ Len(Append(q, a)) # 0
        BY <3>1, <4>1, AppendProperties
      <4> QED BY <4>2, <4>3, EmptySeq
    <3> QED BY <3>1, <3>2 DEF Ended
  <2> QED BY <1>1, <1>2, <1>3, <2>1, <2>2 DEF Connected
<1> QED
  BY <1>3, <1>6, <1>7, <1>9, <1>10 DEF Served

(* A rank other than 0 is told what was decided. *)
LEMMA FollowPeerTold ==
  ASSUME IInv, SameInv, CPCommPattern = "Peer", NEW r \in Rank, Main(r), Follow(r)
  PROVE  \A s \in Rank : PeerTold(s)'
<1> USE Domains
<1>1. /\ Types /\ 0 \in Rank /\ Synced(r) /\ DOMAIN contribution = Rank
  BY OwnConnection
<1>2. /\ \A s \in Rank \ {r} : pc'[s] = pc[s]
      /\ UNCHANGED <<config>>
  BY <1>1, MainOthers DEF Unmoved
<1> DEFINE d == decision[r]
           v == d[1]
<1>3. /\ pc[r] = "bcast" /\ d # <<>> /\ d \in Seq(Decisions) /\ decision' = [decision EXCEPT ![r] = Tail(d)]
      /\ UNCHANGED <<Timesteps, ReaderTimestep, contribution>>
      /\ IF v.status = "OK" THEN Adopt(r, v.step) ELSE GiveUp(r, v.status)
      /\ AdoptStatus(r, v.status)
  BY <1>1, GivenTypes DEF Follow, stepVars
<1>4. 1 \in DOMAIN d /\ v \in Decisions /\ Len(d) <= 1 /\ Tail(d) = <<>>
  <2>1. Len(d) <= 1
    BY <1>1 DEF Synced
  <2> HIDE DEF d
  <2>2. Len(d) \in Nat \ {0} /\ DOMAIN d = 1 .. Len(d) /\ Len(Tail(d)) = Len(d) - 1 /\ v \in Decisions
        /\ Tail(d) \in Seq(Decisions)
    BY <1>3
  <2>3. Len(Tail(d)) = 0
    BY <2>1, <2>2
  <2>4. Tail(d) = <<>>
    BY <2>2, <2>3, EmptySeq
  <2> QED BY <2>1, <2>2, <2>4
<1>5. /\ contribution[r] = <<>> /\ v.status # "FatalError"
      /\ v.status = "OK" => New(r, v.step) /\ v.step \in StepNo
      /\ v.status \in {"OK", "Timeout", "EndOfStream", "NoStream"}
  <2>1. contribution[r] = <<>> /\ v.status # "FatalError" /\ (v.status = "OK" => New(r, v.step))
    BY <1>1, <1>3, <1>4 DEF Synced
  <2>2. v.status = "OK" => v.step \in StepNo
    BY <1>1, <1>4, CollectiveSteps
  <2>3. v.status \in {"OK", "Timeout", "EndOfStream", "FatalError", "NoStream"}
    BY <1>4 DEF Decisions, Results
  <2> QED BY <2>1, <2>2, <2>3
<1> HIDE DEF v
<1>6. Served(r)' /\ pc'[r] \in {"walk", "next", "user"}
  <2>1. CASE v.status = "OK"
    BY <1>3, <1>5, <2>1, Adopted
  <2>2. CASE v.status # "OK"
    BY <1>3, <1>5, <2>2, GaveUp
  <2> QED BY <2>1, <2>2
<1>7. r # 0
  BY <1>3 DEF IInv, RootSilent
<1>8. pc'[0] = "timedwait" => pc[0] = "timedwait"
  BY <1>1, <1>2, <1>7
<1>9. Synced(r)'
  <2>1. decision'[r] = <<>> /\ contribution'[r] = <<>>
    BY <1>1, <1>3, <1>4, <1>5
  <2>2. Special
    BY <1>1, <1>3 DEF Synced
  <2>3. pc[0] # "timedwait"
    BY <1>1, <1>5 DEF Synced
  <2> QED BY <1>2, <1>8, <2>1, <2>2, <2>3, SyncedFree
<1>10. \A s \in Rank \ {r} : PeerTold(s)'
  <2>1. \A s \in Rank \ {r} : decision'[s] = decision[s] /\ contribution'[s] = contribution[s]
    BY <1>1, <1>3
  <2> QED BY <1>8, <2>1, OthersSynced, OthersPeerTold
<1> QED
  BY <1>6, <1>9, <1>10 DEF Served, PeerTold

(* When all have contributed they have been told the same, and have reached the *)
(* same step: what is new to one is new to all.                                 *)
LEMMA AllNew ==
  ASSUME IInv, SameInv, CPCommPattern = "Peer", \A s \in Rank : contribution[s] # <<>>,
         NEW q \in Rank, NEW t, New(q, t)
  PROVE  \A s \in Rank : New(s, t)
<1>1. Types /\ 0 \in Rank /\ writerUp
  <2>1. 0 \in Rank
    BY Parameters DEF IInv, ReaderInv, Types, TypesWriter
  <2> QED BY <2>1, OwnConnection
<1>2. \A s \in Rank : decision[s] = <<>> /\ ~Promised(s) /\ (s = 0 => Special)
  <2> SUFFICES ASSUME NEW s \in Rank PROVE decision[s] = <<>> /\ ~Promised(s) /\ (s = 0 => Special)
    OBVIOUS
  <2>1. Synced(s)
    BY OwnConnection
  <2>2. contribution[s] # <<>>
    OBVIOUS
  <2> QED BY <2>1, <2>2 DEF Synced, Promised
<1>3. \A s \in Rank : ReaderTimestep[s] = ReaderTimestep[0]
  <2>1. Collective
    BY <1>1, <1>2 DEF Collective
  <2>2. ASSUME NEW s \in Rank \ {0} PROVE ReaderTimestep[s] = ReaderTimestep[0]
    BY <1>1, <1>2, <2>1, Abreast
  <2> QED BY <2>2
<1> QED
  BY <1>1, <1>3 DEF New

(* What rank 0 settles on is new to every rank. *)
LEMMA ChosenIsNew ==
  ASSUME IInv, SameInv, CPCommPattern = "Peer", Gathered, Chosen(0) # Nothing
  PROVE  \A s \in Rank : New(s, Chosen(0))
<1>1. Types /\ 0 \in Rank /\ MaxSteps \in Nat /\ (\A s \in Rank : contribution[s] # <<>>)
  BY Parameters DEF IInv, ReaderInv, Types, TypesWriter, Gathered
<1> DEFINE all == {contribution[q][1] : q \in Rank}
<1>2. \A q \in Rank : contribution[q][1] \in Pointer
  BY <1>1 DEF Types, TypesColl
<1>3. all \in SUBSET (-1 .. MaxSteps) /\ all # {}
  BY <1>1, <1>2 DEF Pointer, Nothing
<1>4. (\E x \in all : \A y \in all : y <= x) /\ (\E x \in all : \A y \in all : x <= y)
  <2> HIDE DEF all
  <2> QED BY <1>1, <1>3, MaximumExists, MinimumExists
<1>5. Biggest \in all /\ Smallest \in all
  BY <1>4 DEF Biggest, Smallest
<1>6. Chosen(0) \in all
  BY <1>5 DEF Chosen
<1>7. PICK q \in Rank : contribution[q][1] = Chosen(0)
  BY <1>6
<1>8. New(q, Chosen(0))
  <2>1. Synced(q) /\ contribution[q] # <<>>
    BY <1>1, OwnConnection
  <2>2. New(q, contribution[q][1])
    BY <1>7, <2>1 DEF Synced
  <2> QED BY <1>7, <2>2
<1> QED
  BY <1>1, <1>8, AllNew

(* Rank 0 decides for all. *)
LEMMA DecidePeerTold ==
  ASSUME IInv, SameInv, CPCommPattern = "Peer", 0 \in Rank, Main(0), pc[0] \in {"gather", "timedwait"},
         NEW t \in Pointer, Decide(0, t), \A s \in Rank : contribution[s] # <<>>,
         t # Nothing => \A s \in Rank : New(s, t),
         UNCHANGED <<Timesteps, ReaderTimestep>>
  PROVE  \A s \in Rank : PeerTold(s)'
<1> USE Domains
<1>1. /\ Types /\ Status[0] # "PeerFailed" /\ Synced(0) /\ StepNo = Pointer \ {Nothing} /\ Special
  <2>1. Types /\ Status[0] # "PeerFailed" /\ Synced(0)
    BY OwnConnection
  <2>2. Special
    BY <2>1 DEF Synced
  <2> QED BY <2>1, <2>2, PointerTypes
<1>2. /\ \A s \in Rank \ {0} : pc'[s] = pc[s]
      /\ UNCHANGED config /\ UNCHANGED log
  BY <1>1, MainOthers DEF Unmoved, writerVars
<1> DEFINE status == Outcome(0, t)
           v == [status |-> status, step |-> t]
<1>3. status \in {"OK", "Timeout", "EndOfStream"} /\ (status = "OK" => t # Nothing)
  <2>1. status # "FatalError"
    BY <1>1 DEF Outcome
  <2> QED BY <2>1, OutcomeKind
<1>4. /\ IF status = "OK" THEN Adopt(0, t) ELSE GiveUp(0, status)
      /\ AdoptStatus(0, status) /\ contribution' = [q \in Rank |-> <<>>] /\ Distribute(v)
  BY DEF Decide
<1> HIDE DEF status
<1>5. Served(0)' /\ pc'[0] \in {"walk", "next", "user"}
  <2>1. CASE status = "OK"
    BY <1>1, <1>3, <1>4, <2>1, Adopted
  <2>2. CASE status # "OK"
    BY <1>3, <1>4, <2>2, GaveUp
  <2> QED BY <2>1, <2>2
<1>6. Synced(0)'
  <2>1. decision'[0] = <<>> /\ contribution'[0] = <<>>
    BY <1>4 DEF Distribute
  <2> QED BY <1>1, <1>2, <1>5, <2>1, SyncedFree
<1>7. ASSUME NEW s \in Rank \ {0} PROVE Synced(s)'
  <2>1. Synced(s) /\ contribution[s] # <<>>
    BY OwnConnection
  <2>2. decision[s] = <<>> /\ pc[s] = "bcast"
    BY <2>1 DEF Synced
  <2>3. decision'[s] = <<v>> /\ contribution'[s] = <<>> /\ pc'[s] = "bcast"
    <3> HIDE DEF v
    <3>1. decision'[s] = Append(decision[s], v)
      BY <1>4 DEF Distribute
    <3>2. Append(<<>>, v) = <<v>>
      OBVIOUS
    <3>3. decision'[s] = <<v>>
      BY <2>2, <3>1, <3>2
    <3> QED BY <1>2, <1>4, <2>2, <3>3
  <2>4. PICK d : d = decision'[s]
    OBVIOUS
  <2>5. Len(d) = 1 /\ DOMAIN d = {1} /\ d[1].status = status /\ d[1].step = t
    <3> HIDE DEF v
    <3>1. d = <<v>>
      BY <2>3, <2>4
    <3>2. Len(<<v>>) = 1 /\ DOMAIN <<v>> = 1 .. 1 /\ <<v>>[1] = v
      OBVIOUS
    <3> QED BY <3>1, <3>2 DEF v
  <2>6. status = "OK" => New(s, t)'
    BY <1>2, <1>3, MainOthers, <1>1, SameLog DEF New, Unmoved
  <2>7. \A k \in DOMAIN d : d[k].status = "OK" => New(s, d[k].step)'
    BY <2>5, <2>6
  <2>8. \A k \in DOMAIN decision'[s] : decision'[s][k].status = "OK" => New(s, decision[s][k].step)'
    BY <2>4, <2>7
  <2>9. /\ Len(decision'[s]) <= 1
        /\ \A k \in DOMAIN decision'[s] : decision'[s][k].status # "FatalError"
    BY <1>3, <2>4, <2>5
  <2>10. Special'
    BY <1>1, <1>2, Fixed
  <2> QED BY <1>5, <2>3, <2>8, <2>9, <2>10 DEF Synced
<1>8. \A s \in Rank \ {0} : PeerTold(s)'
  BY <1>7, OthersPeerTold
<1> QED
  BY <1>5, <1>6, <1>8 DEF Served, PeerTold

(* The gathering, and the wait of rank 0 for a first step *)
LEMMA GatherPeerTold ==
  ASSUME IInv, SameInv, CPCommPattern = "Peer", NEW r \in Rank, Main(r), (r = 0 /\ GatherDecide(r)) \/ TimedWait(r)
  PROVE  \A s \in Rank : PeerTold(s)'
<1> USE Domains
<1>1. /\ Types /\ 0 \in Rank /\ Synced(0) /\ ReaderInv /\ Place(0)
      /\ Unread(0) /\ Latest(0) /\ Connected(0) /\ Owed(0) /\ NoneSkipped(0)
  <2>1. 0 \in Rank
    BY Parameters DEF IInv, ReaderInv, Types, TypesWriter
  <2> QED BY <2>1, OwnConnection
<1>2. r = 0 /\ pc[0] \in {"gather", "timedwait"} /\ (\A s \in Rank : contribution[s] # <<>>)
      /\ UNCHANGED <<Timesteps, ReaderTimestep>>
  <2>1. r = 0
    BY DEF TimedWait, SameInv, RootWaits
  <2>2. CASE GatherDecide(0)
    BY <2>1, <2>2 DEF GatherDecide, Gathered, stepVars
  <2>3. CASE TimedWait(0)
    <3>1. \A s \in Rank : Synced(s)
      BY OwnConnection
    <3> QED BY <2>1, <2>3, <3>1 DEF TimedWait, Synced, stepVars
  <2> QED BY <2>1, <2>2, <2>3
<1>3. ASSUME NEW t \in Pointer, Decide(0, t), t # Nothing => \A s \in Rank : New(s, t)
      PROVE  \A s \in Rank : PeerTold(s)'
  BY <1>1, <1>2, <1>3, DecidePeerTold
<1>4. ASSUME UNCHANGED <<DiscardPriorTimestep, Status, contribution, decision, inStep, results>>,
             pc'[0] = "timedwait"
      PROVE  \A s \in Rank : PeerTold(s)'
  <2>1. /\ \A s \in Rank \ {0} : pc'[s] = pc[s]
        /\ UNCHANGED <<npc, FinalTimestep, arrived, config>> /\ UNCHANGED log /\ UNCHANGED writerUp
    BY <1>1, <1>2, MainOthers DEF writerVars, Unmoved
  <2>2. Given(0)' = Given(0) /\ ~Promised(0) /\ ~Promised(0)'
    BY <1>1, <1>2, <1>4, <2>1, GivenMoves DEF Promised, InStepPcs
  <2>3. Supplied(0)' /\ Connected(0)'
    BY <1>1, <1>2, <1>4, <2>1, <2>2, SuppliedKept, ConnectedKept DEF Supplied
  <2>4. ASSUME NEW s \in Rank PROVE Synced(s)'
    <3>1. Synced(s) /\ pc'[s] \in {pc[s], "timedwait"} /\ (s = 0 \/ pc'[s] = pc[s])
      BY <1>1, <1>4, <2>1, OwnConnection
    <3>2. PICK c, d : c = contribution[s] /\ d = decision[s]
      OBVIOUS
    <3>3. contribution'[s] = c /\ decision'[s] = d /\ c # <<>> /\ d = <<>>
      BY <1>2, <1>4, <3>1, <3>2 DEF Synced
    <3>4. c[1] # Nothing => New(s, c[1])'
      <4>1. c[1] # Nothing => New(s, c[1])
        BY <3>1, <3>2, <3>3 DEF Synced
      <4> QED BY <1>2, <2>1, <4>1, SameLog DEF New
    <3>5. contribution'[s][1] # Nothing => New(s, contribution[s][1])'
      BY <3>3, <3>4
    <3>6. Len(d) = 0 /\ DOMAIN d = {}
      BY <3>3
    <3>7. Special /\ Special'
      BY <1>1, <1>2, <2>1, Fixed DEF Synced
    <3> QED BY <1>4, <3>1, <3>2, <3>3, <3>5, <3>6, <3>7 DEF Synced
  <2>5. \A s \in Rank \ {0} : PeerTold(s)'
    BY <1>2, <2>4, OthersPeerTold
  <2> QED BY <1>1, <2>3, <2>4, <2>5 DEF Supplied, PeerTold
<1>5. CASE GatherDecide(0)
  <2>1. CASE AllQueuesEmpty(0) /\ Timeout # "zero"
    BY <1>1, <1>4, <1>5, <2>1 DEF GatherDecide, Goto, collVars
  <2>2. CASE ~(AllQueuesEmpty(0) /\ Timeout # "zero")
    <3> DEFINE t == IF AllQueuesEmpty(0) THEN Nothing ELSE Chosen(0)
    <3>0. Gathered
      BY <1>5 DEF GatherDecide
    <3>1. t \in Pointer
      BY <1>1, <1>5, <3>0, PointerTypes, GatheredBounds DEF Chosen
    <3>2. Decide(0, t)
      BY <1>5, <2>2 DEF GatherDecide
    <3>3. t # Nothing => \A s \in Rank : New(s, t)
      BY <3>0, ChosenIsNew
    <3> HIDE DEF t
    <3> QED BY <1>3, <3>1, <3>2, <3>3
  <2> QED BY <2>1, <2>2
<1>6. CASE TimedWait(0)
  <2>0. pc[0] = "timedwait"
    BY <1>6 DEF TimedWait
  <2>1. CASE WaitOver(0)
    <3>1. Decide(0, MaxQueuedMetadata(0))
      BY <1>6, <2>1 DEF TimedWait
    <3>2. /\ MaxQueuedMetadata(0) \in Pointer
          /\ MaxQueuedMetadata(0) # Nothing => New(0, MaxQueuedMetadata(0))
      BY <1>1, <2>0, QueuedIsNew DEF Place
    <3>3. MaxQueuedMetadata(0) # Nothing => \A s \in Rank : New(s, MaxQueuedMetadata(0))
      BY <1>1, <1>2, <3>2, AllNew
    <3> QED BY <1>3, <3>1, <3>2, <3>3
  <2>2. CASE ~WaitOver(0)
    <3>1. UNCHANGED <<pc, DiscardPriorTimestep, Status, contribution, decision, inStep, results>>
      BY <1>6, <2>2 DEF TimedWait, collVars
    <3> QED BY <1>4, <2>0, <3>1
  <2> QED BY <2>1, <2>2
<1> QED
  BY <1>2, <1>5, <1>6

(* What is new to a rank, and has arrived, is in its queue; and is not dropped. *)
LEMMA NewIsQueued ==
  ASSUME IInv, SameInv, CPCommPattern = "Peer", NEW r \in Rank, pc[r] = "next",
         NEW u \in StepNo, New(r, u), u < arrived[r], DiscardPriorTimestep[r] <= u,
         NEW D, Droppable(r, D)
  PROVE  u \in Q(r) /\ u \notin D
<1>1. /\ Types /\ ReaderInv /\ Unread(r) /\ Queue(r) /\ Place(r)
  BY OwnConnection
<1>2. u \in Q(r)
  BY <1>1 DEF Unread, New, Place
<1>3. u \in Int /\ DiscardPriorTimestep[r] \in Int
  BY <1>1, <1>2, RankFacts
<1>4. ASSUME u \in D PROVE FALSE
  <2>1. ~(u < DiscardPriorTimestep[r])
    BY <1>3
  <2>2. [Timestep |-> u, Metadata |-> FALSE] \in Items(Timesteps[r])
    BY <1>4, <2>1 DEF Droppable
  <2>3. log[u + 1].kind = "notice"
    BY <1>1, <2>2 DEF Queue
  <2> QED BY <2>3 DEF New, IsData, IsStep
<1> QED
  BY <1>2, <1>4

(* Entries that carry no data are not there, and those that come late go. *)
LEMMA DropsUnread ==
  ASSUME IInv, SameInv, CPCommPattern = "Peer", NEW r \in Rank, NEW D, Droppable(r, D), Drops(r, D),
         config' = config, UNCHANGED log, arrived'[r] = arrived[r], Status'[r] = Status[r],
         DiscardPriorTimestep'[r] = DiscardPriorTimestep[r],
         \A u \in StepNo : ReaderTimestep'[r] < u => ReaderTimestep[r] < u
  PROVE  Unread(r)'
<1>1. /\ Types /\ ReaderInv /\ Unread(r) /\ Queue(r)
  BY OwnConnection
<1>2. Q(r)' = Q(r) \ D
  BY <1>1, Domains DEF Drops, Q
<1>3. ASSUME NEW u \in Q(r), DiscardPriorTimestep[r] <= u PROVE u \notin D
  <2>1. u \in Int /\ DiscardPriorTimestep[r] \in Int /\ IsData(u)
    BY <1>1, RankFacts DEF Unread
  <2>2. ~(u < DiscardPriorTimestep[r])
    BY <1>3, <2>1
  <2>3. [Timestep |-> u, Metadata |-> FALSE] \notin Items(Timesteps[r])
    BY <1>1, <2>1 DEF Queue, IsData, IsStep
  <2> QED BY <2>2, <2>3 DEF Droppable
<1> QED
  BY <1>1, <1>2, <1>3, UnreadKept

(* waitForNextMetadata has found a step, which is the one that was promised, or *)
(* the first of those that the rank has not been told of.                       *)
LEMMA FoundPeerTold ==
  ASSUME IInv, Types', SameInv, CPCommPattern = "Peer", NEW r \in Rank, Main(r), NextMetadata(r),
         NEW t \in StepNo, NEW D \in SUBSET StepNo, NextFound(r, t, D)
  PROVE  Told' /\ \A s \in Rank : PeerTold(s)'
<1> USE Domains
<1>1. /\ Types /\ ReaderInv /\ 0 \in Rank /\ Unread(r) /\ Latest(r) /\ Connected(r) /\ Synced(r) /\ Owed(r) /\ NoneSkipped(r)
      /\ PeerInv(r) /\ Told
  BY OwnConnection DEF SameInv
<1>2. /\ \A s \in Rank \ {r} : pc'[s] = pc[s] /\ Unmoved(s)
      /\ UNCHANGED <<npc, FinalTimestep, arrived, config>> /\ UNCHANGED log /\ UNCHANGED writerUp
      /\ UNCHANGED writerVars
  BY <1>1, MainOthers DEF writerVars, Unmoved
<1>3. /\ pc[r] = "next" /\ pc'[r] = "get_attributes" /\ Goto(r, "get_attributes")
      /\ UNCHANGED <<DiscardPriorTimestep, Status, contribution, decision, inStep, results>>
      /\ ReaderTimestep'[r] = t /\ ReaderTimestep[r] < t /\ DiscardPriorTimestep[r] <= t /\ t \in Q(r)
  BY <1>1 DEF NextMetadata, NextFound, Goto, Tell, statusVars, Q
<1>4. /\ Given(r)' = Append(Given(r), Answer("OK", t)) /\ ~Promised(r)' /\ t \in Pointer
  BY <1>1, <1>2, <1>3, GivenMoves, PointerTypes DEF Promised, InStepPcs
<1>5. IsData(t) /\ t < arrived[r] /\ t \in Int /\ ReaderTimestep[r] \in Int /\ DiscardPriorTimestep[r] \in Int
      /\ StepNo \subseteq Int /\ arrived[r] \in Int
  BY <1>1, <1>3, RankFacts DEF Unread
<1>6. ASSUME NEW u \in StepNo, IsData(u), u < t, DiscardPriorTimestep[r] <= u PROVE u <= ReaderTimestep[r]
  <2>1. u \in Int
    BY <1>5
  <2>2. CASE ReaderTimestep[r] < u
    <3>1. \A x, y, z \in Int : x < y /\ y < z => x < z
      OBVIOUS
    <3>2. u < arrived[r]
      BY <1>5, <1>6, <2>1, <3>1, Zenon
    <3>3. u \in Q(r) /\ u \notin D
      BY <1>3, <1>6, <2>2, <3>2, NewIsQueued DEF New, NextFound
    <3> QED BY <1>6, <3>3 DEF NextFound, Q
  <2> QED BY <1>5, <2>1, <2>2
<1>7. Latest(r)' /\ NoneSkipped(r)'
  <2>1. ASSUME ~AlwaysProvideLatestTimestep, NEW u \in StepNo, IsData(u), u < t PROVE u <= ReaderTimestep[r]
    <3>1. DiscardPriorTimestep[r] = -1 /\ u \in Nat
      BY <1>1, <2>1, PointerTypes DEF PeerInv, Late, Nothing
    <3>2. DiscardPriorTimestep[r] <= u
      BY <3>1
    <3> QED BY <1>6, <2>1, <3>2
  <2> QED BY <1>1, <1>2, <1>3, <1>4, <1>5, <2>1, AnswersAdded
<1>8. Owed(r)'
  BY <1>2, <1>3, <1>4, Fixed DEF Owed
<1>9. Unread(r)'
  <2>1. \A u \in StepNo : t < u => ReaderTimestep[r] < u
    <3>1. \A x, y, z \in Int : x < y /\ y < z => x < z
      OBVIOUS
    <3>2. \A u \in StepNo : u \in Int
      BY <1>5, Zenon
    <3> QED BY <1>3, <1>5, <3>1, <3>2, Zenon
  <2> QED BY <1>1, <1>2, <1>3, <2>1, DropsUnread DEF NextFound
<1>10. Connected(r)'
  BY <1>1, <1>2, <1>3, ConnectedKept
<1>11. Synced(r)'
  BY <1>1, <1>2, <1>3, SyncedAlone
<1>12. \A s \in Rank \ {r} : PeerTold(s)'
  <2>1. pc'[0] = "timedwait" => pc[0] = "timedwait"
    BY <1>1, <1>2, <1>3
  <2> QED BY <1>3, <2>1, OthersSynced, OthersPeerTold
<1>13. Told'
  <2>1. CASE ~Special
    <3>1. ~Collective'
      BY <1>2, <2>1, Fixed DEF Collective
    <3> QED BY <3>1 DEF Told
  <2>2. CASE Special
    <3>1. Promised(r)
      BY <1>3, <2>2 DEF Promised
    <3>2. AlwaysProvideLatestTimestep => t = DiscardPriorTimestep[r]
      <4> SUFFICES ASSUME AlwaysProvideLatestTimestep PROVE t = DiscardPriorTimestep[r]
        OBVIOUS
      <4>1. New(r, DiscardPriorTimestep[r])
        BY <1>1, <3>1 DEF Owed
      <4>2. DiscardPriorTimestep[r] \in StepNo
        <5>1. DiscardPriorTimestep[r] \in Pointer /\ ReaderTimestep[r] \in Pointer
          BY <1>1 DEF Types, TypesQueue
        <5>2. DiscardPriorTimestep[r] # Nothing
          BY <4>1, <5>1 DEF New, Pointer, Nothing
        <5> QED BY <1>1, <5>1, <5>2, PointerTypes
      <4>3. ~(DiscardPriorTimestep[r] < t)
        <5> SUFFICES ASSUME DiscardPriorTimestep[r] < t PROVE FALSE
          OBVIOUS
        <5>1. DiscardPriorTimestep[r] <= ReaderTimestep[r]
          BY <1>5, <1>6, <4>1, <4>2 DEF New
        <5> QED BY <1>5, <4>1, <5>1 DEF New
      <4> QED BY <1>3, <1>5, <4>3
    <3>3. Shown(Answer("OK", t)) = Shown(Answer("OK", DiscardPriorTimestep[r]))
      BY <3>2 DEF Shown, Answer, Names
    <3>4. Answer("OK", t) \in Results
      BY <1>1, <1>4, GivenTypes
    <3>5. Heard(r)' = Heard(r)
      BY <1>1, <1>2, <1>4, <3>1, <3>3, <3>4, HeardMoves
    <3>6. \A s \in Rank : Heard(s)' = Heard(s)
      BY <1>2, <3>5, UnmovedHeard
    <3>7. writerUp' \/ response' => writerUp \/ response
      BY <1>2 DEF writerVars
    <3> QED BY <1>1, <1>2, <1>3, <3>6, <3>7, ToldKept
  <2> QED BY <2>1, <2>2
<1> QED
  BY <1>7, <1>8, <1>9, <1>10, <1>11, <1>12, <1>13 DEF PeerTold

(* It has found none; it waits, or the stream is over and it has had all. *)
LEMMA NonePeerTold ==
  ASSUME IInv, Types', SameInv, CPCommPattern = "Peer", NEW r \in Rank, Main(r), NextMetadata(r),
         NEW D \in SUBSET StepNo, NextNone(r, D)
  PROVE  Told' /\ \A s \in Rank : PeerTold(s)'
<1> USE Domains
<1>1. /\ Types /\ ReaderInv /\ 0 \in Rank /\ Unread(r) /\ Latest(r) /\ Connected(r) /\ Synced(r) /\ Owed(r) /\ NoneSkipped(r)
      /\ PeerInv(r) /\ Place(r) /\ Told
  BY OwnConnection DEF SameInv
<1>2. /\ \A s \in Rank \ {r} : pc'[s] = pc[s] /\ Unmoved(s)
      /\ UNCHANGED <<npc, FinalTimestep, arrived, config>> /\ UNCHANGED log /\ UNCHANGED writerUp
      /\ UNCHANGED writerVars
  BY <1>1, MainOthers DEF writerVars, Unmoved
<1>3. /\ pc[r] = "next"
      /\ UNCHANGED <<DiscardPriorTimestep, Status, contribution, decision, ReaderTimestep>>
  BY <1>1 DEF NextMetadata, NextNone, Tell, statusVars
<1>4. Unread(r)'
  BY <1>1, <1>2, <1>3, DropsUnread DEF NextNone
<1>5. CASE UNCHANGED <<CurrentWorkingTimestep, pc, decision, inStep, results>>
  <2>1. Given(r)' = Given(r) /\ (Promised(r)' <=> Promised(r))
    BY <1>1, <1>2, <1>3, <1>5, GivenMoves, Fixed DEF Promised, InStepPcs
  <2>2. \A s \in Rank : PeerTold(s)'
    BY <1>3, <1>4, <1>5, <2>1, GoesOn
  <2>3. Told'
    <3>1. \A s \in Rank : Heard(s)' = Heard(s)
      BY <1>2, <1>3, <2>1, HeardKept, UnmovedHeard
    <3>2. writerUp' \/ response' => writerUp \/ response
      BY <1>2 DEF writerVars
    <3> QED BY <1>1, <1>2, <1>3, <3>1, <3>2, ToldKept
  <2> QED BY <2>2, <2>3
<1>6. CASE ~UNCHANGED <<CurrentWorkingTimestep, pc, decision, inStep, results>>
  <2>1. StreamOver(r) /\ Finish(r, FinalStatus(r), Nothing)
    <3>1. Finish(r, FinalStatus(r), Nothing)
      BY <1>6 DEF NextNone
    <3>2. pc'[r] = "user"
      BY <1>1, <3>1 DEF Finish, Goto
    <3>3. Goto(r, "get_attributes") \/ StreamOver(r) \/ UNCHANGED pc
      <4> HIDE DEF NextNone
      <4> QED BY DEF NextMetadata
    <3>4. StreamOver(r)
      BY <1>1, <1>3, <3>2, <3>3 DEF Goto
    <3> QED BY <3>1, <3>4
  <2>2. Drained(r) /\ Status[r] = "PeerClosed" /\ FinalStatus(r) = "EndOfStream"
    <3>1. Status[r] \notin {"NotOpen", "PeerFailed", "Destroyed"} /\ Status[r] \in Statuses
      BY <1>1, <1>3 DEF Connected, Place, Types, TypesStatus
    <3>2. Status[r] = "PeerClosed"
      BY <1>1, <2>1, <3>1 DEF StreamOver, Connected, Statuses
    <3> QED BY <1>1, <1>3, <3>2 DEF Connected, FinalStatus
  <2>3. ASSUME NEW u \in StepNo, New(r, u), DiscardPriorTimestep[r] <= u PROVE FALSE
    <3>1. u < arrived[r]
      <4>1. DOMAIN log = 1 .. Len(log) /\ Len(log) \in Nat /\ arrived[r] = Len(log) /\ u \in Nat
        BY <1>1, <2>2, LogTypes, PointerTypes DEF ReaderInv, Drained
      <4> QED BY <2>3, <4>1 DEF New, IsData, IsStep
    <3>2. u \in Q(r) /\ u \notin D
      BY <1>3, <2>3, <3>1, NewIsQueued DEF NextNone
    <3>3. u <= ReaderTimestep[r]
      BY <3>2 DEF NextNone, Q
    <3>4. u \in Int /\ ReaderTimestep[r] \in Int
      BY <1>1, <3>2, RankFacts
    <3> QED BY <2>3, <3>3, <3>4 DEF New
  <2>4. \A u \in StepNo : ~AlwaysProvideLatestTimestep => DiscardPriorTimestep[r] <= u
    <3>1. ~AlwaysProvideLatestTimestep => DiscardPriorTimestep[r] = -1
      BY <1>1 DEF PeerInv, Late, Nothing
    <3>2. \A u \in StepNo : u \in Nat
      BY <1>1, PointerTypes, Zenon
    <3> QED BY <3>1, <3>2
  <2>5. ~Promised(r)
    <3> SUFFICES ASSUME Promised(r) PROVE FALSE
      OBVIOUS
    <3>1. CASE AlwaysProvideLatestTimestep
      <4>1. New(r, DiscardPriorTimestep[r])
        BY <1>1, <3>1 DEF Owed
      <4>2. DiscardPriorTimestep[r] \in StepNo
        <5>1. DiscardPriorTimestep[r] \in Pointer /\ ReaderTimestep[r] \in Pointer
          BY <1>1 DEF Types, TypesQueue
        <5>2. DiscardPriorTimestep[r] # Nothing
          BY <4>1, <5>1 DEF New, Pointer, Nothing
        <5> QED BY <1>1, <5>1, <5>2, PointerTypes
      <4>3. DiscardPriorTimestep[r] <= DiscardPriorTimestep[r]
        BY <1>1, RankFacts
      <4> QED BY <2>3, <4>1, <4>2, <4>3
    <3>2. CASE ~AlwaysProvideLatestTimestep
      BY <1>1, <2>3, <2>4, <3>2 DEF Owed
    <3> QED BY <3>1, <3>2
  <2>6. ~Special
    BY <1>3, <2>5 DEF Promised
  <2>7. /\ pc'[r] = "user" /\ inStep'[r] = FALSE
        /\ Given(r)' = Append(Given(r), Answer("EndOfStream", Nothing)) /\ ~Promised(r)' /\ Nothing \in Pointer
    <3>1. pc'[r] = "user" /\ inStep'[r] = FALSE
      BY <1>1, <2>1, <2>2 DEF Finish, Goto
    <3> QED BY <1>1, <1>2, <1>3, <2>1, <2>2, <3>1, GivenMoves, PointerTypes DEF Promised, InStepPcs
  <2>8. Latest(r)' /\ NoneSkipped(r)'
    <3>1. ASSUME ~AlwaysProvideLatestTimestep, NEW u \in StepNo, IsData(u) PROVE u <= ReaderTimestep[r]
      <4>1. ~(ReaderTimestep[r] < u)
        BY <2>3, <2>4, <3>1 DEF New
      <4>2. u \in Nat /\ ReaderTimestep[r] \in Int
        BY <1>1, PointerTypes, RankFacts
      <4> QED BY <4>1, <4>2
    <3> QED BY <1>1, <1>2, <1>3, <2>2, <2>7, <3>1, AnswersAdded DEF Drained
  <2>9. Owed(r)'
    BY <1>1, <1>2, <1>3, <2>5, <2>7, Fixed DEF Owed
  <2>10. Connected(r)'
    <3>1. (Drained(r)' <=> Drained(r)) /\ Infinity' = Infinity
      BY <1>2, SameLog, Fixed DEF Drained
    <3> QED BY <1>1, <1>2, <1>3, <2>2, <2>7, <3>1 DEF Connected
  <2>11. Synced(r)'
    BY <1>1, <1>2, <1>3, <2>7, SyncedAlone
  <2>12. \A s \in Rank \ {r} : PeerTold(s)'
    <3>1. pc'[0] = "timedwait" => pc[0] = "timedwait"
      BY <1>1, <1>2, <2>7
    <3> QED BY <1>3, <3>1, OthersSynced, OthersPeerTold
  <2>13. Told'
    <3>1. ~Collective'
      BY <1>2, <2>6, Fixed DEF Collective
    <3> QED BY <3>1 DEF Told
  <2> QED BY <1>4, <2>8, <2>9, <2>10, <2>11, <2>12, <2>13 DEF PeerTold
<1> QED
  BY <1>5, <1>6

(* The actions of a rank *)
LEMMA MainPeerTold ==
  ASSUME IInv, Types', SameInv, CPCommPattern = "Peer", NEW r \in Rank, Main(r), freedTouched = {}
  PROVE  Told' /\ \A s \in Rank : PeerTold(s)'
<1>1. CASE NextMetadata(r)
  <2>1. Types /\ Sorted(Timesteps[r])
    BY OwnConnection DEF Queue
  <2> QED BY <1>1, <2>1, NextEffect, FoundPeerTold, NonePeerTold
<1>2. CASE ~NextMetadata(r)
  <2>1. Told'
    BY <1>2, ToldMain DEF SameInv
  <2>2. \A s \in Rank : PeerTold(s)'
    BY <1>2, OpenPeerTold, QuietPeerTold, BeginStepPeerTold, GatherPeerTold, WalkPeerTold, FollowPeerTold,
       EndStepPeerTold, DestroyPeerTold DEF Main
  <2> QED BY <2>1, <2>2
<1> QED
  BY <1>1, <1>2

(* No message and no barrier changes a rank's part in the gathering. *)
LEMMA SyncedElse ==
  ASSUME Types, NEW s \in Rank, Synced(s), config' = config, UNCHANGED log,
         UNCHANGED <<contribution, decision, ReaderTimestep>>, pc'[s] = pc[s], pc'[0] = pc[0]
  PROVE  Synced(s)'
<1>1. \A t \in StepNo : New(s, t) => New(s, t)'
  BY SameLog DEF New
<1> QED
  BY <1>1, SyncedKept

(* A step arrives, or the close of the writer. *)
LEMMA ArrivalPeerTold ==
  ASSUME IInv, SameInv, CPCommPattern = "Peer", NEW r \in Rank, Net(r),
         TimestepMetadata(r) \/ DiscardNotice(r) \/ CP_WriterCloseHandler(r)
  PROVE  Unread(r)' /\ Connected(r)'
<1> USE Domains
<1>1. /\ Types /\ ReaderInv /\ Unread(r) /\ Connected(r) /\ Queue(r)
      /\ LogOrdered /\ DOMAIN npc = Rank /\ DOMAIN FinalTimestep = Rank
  BY OwnConnection DEF ReaderInv, Types, TypesThreads, TypesStatus
<1>2. /\ UNCHANGED <<pc, results, inStep, ReaderTimestep, DiscardPriorTimestep, config>>
      /\ UNCHANGED log /\ UNCHANGED writerUp
  BY <1>1, NetOthers DEF writerVars
<1> DEFINE a == arrived[r]
           k == log[a + 1].kind
<1>3. /\ a \in Nat /\ arrived'[r] = a + 1 /\ a < Len(log) /\ a + 1 \in DOMAIN log
      /\ k # "close" => log[a + 1].Timestep = a /\ a \in StepNo
      /\ Status[r] \notin {"NotOpen", "Destroyed"}
  <2>1. PICK kinds : Incoming(r, kinds)
    BY DEF TimestepMetadata, DiscardNotice, CP_WriterCloseHandler
  <2>2. /\ a \in Nat /\ arrived'[r] = a + 1 /\ a + 1 \in DOMAIN log
        /\ k # "close" => log[a + 1].Timestep = a /\ a \in StepNo
    BY <1>1, <1>2, <2>1, ArrivalFacts
  <2> QED BY <2>1, <2>2 DEF Incoming
<1>4. FinalTimestep[r] = Infinity /\ (Status[r] = "PeerClosed" => Special /\ Ended(r) /\ ~inStep[r]
                                            /\ pc[r] \in {"user", "close_barrier", "linger"})
  <2>1. ~Drained(r)
    <3>1. Len(log) \in Nat
      BY <1>1, LogTypes
    <3> QED BY <1>3, <3>1 DEF Drained
  <2> QED BY <1>1, <2>1 DEF Connected
<1>5. \A u \in StepNo : u < a + 1 => u < a \/ u = a
  BY <1>1, <1>3, PointerTypes
<1>6. (\A u : IsData(u)' <=> IsData(u)) /\ Infinity' = Infinity /\ Special' = Special /\ Ended(r)' = Ended(r)
  BY <1>2, SameLog, Fixed DEF Ended
<1>7. CASE TimestepMetadata(r)
  <2> DEFINE e == [Timestep |-> log[a + 1].Timestep, Metadata |-> k = "step"]
  <2>1. /\ k = "step" /\ Timesteps'[r] = Append(Timesteps[r], e) /\ UNCHANGED <<Status, FinalTimestep, npc>>
    BY <1>1, <1>7 DEF TimestepMetadata, Incoming, Notice, statusVars
  <2>2. e \in Entries(MaxSteps) /\ e.Timestep = a /\ MaxSteps \in Nat /\ \A u \in Q(r) : u < a
    BY <1>1, <1>3, <2>1, RankFacts DEF Entries, StepNo
  <2>3. Q(r)' = Q(r) \cup {a}
    <3> HIDE DEF e
    <3> QED BY <1>1, <2>1, <2>2, RankFacts, AppendQueue DEF Q
  <2>4. IsData(a)
    BY <1>3, <2>1 DEF IsData, IsStep
  <2>5. Unread(r)'
    BY <1>1, <1>2, <1>3, <1>5, <1>6, <2>1, <2>3, <2>4, Fixed DEF Unread
  <2>6. Connected(r)'
    BY <1>1, <1>2, <1>4, <1>6, <2>1 DEF Connected
  <2> QED BY <2>5, <2>6
<1>8. CASE DiscardNotice(r)
  <2>1. k = "notice" /\ UNCHANGED <<Timesteps, Status, FinalTimestep, npc>>
    BY <1>1, <1>8 DEF DiscardNotice, Incoming, queueVars, statusVars
  <2>2. ~IsData(a) /\ Q(r)' = Q(r)
    BY <2>1 DEF IsData, IsStep, Q
  <2>3. Unread(r)'
    BY <1>1, <1>2, <1>3, <1>5, <1>6, <2>1, <2>2, Fixed DEF Unread
  <2>4. Connected(r)'
    BY <1>1, <1>2, <1>4, <1>6, <2>1 DEF Connected
  <2> QED BY <2>3, <2>4
<1>9. CASE CP_WriterCloseHandler(r)
  <2>1. k = "close" /\ UNCHANGED <<Timesteps, npc>> /\ Status'[r] = "PeerClosed"
    BY <1>1, <1>9 DEF CP_WriterCloseHandler, Incoming, queueVars
  <2>2. ~IsData(a) /\ Q(r)' = Q(r)
    BY <2>1 DEF IsData, IsStep, Q
  <2>3. Unread(r)'
    BY <1>1, <1>2, <1>3, <1>5, <1>6, <2>1, <2>2, Fixed DEF Unread
  <2>4. Drained(r)'
    <3>1. a + 1 = Len(log)
      BY <1>1, <1>3, <2>1 DEF LogOrdered
    <3>2. Closed
      BY <1>3, <2>1 DEF Closed
    <3> QED BY <1>2, <1>3, <3>1, <3>2, SameLog DEF Drained
  <2>5. Connected(r)'
    BY <1>1, <1>2, <1>3, <2>1, <2>4 DEF Connected
  <2> QED BY <2>3, <2>5
<1> QED
  BY <1>7, <1>8, <1>9

(* The network threads *)
LEMMA NetPeerTold ==
  ASSUME IInv, SameInv, CPCommPattern = "Peer", NEW r \in Rank, Net(r)
  PROVE  \A s \in Rank : PeerTold(s)'
<1>1. ASSUME NEW s \in Rank
      PROVE  /\ Types /\ Supplied(s) /\ Connected(s) /\ Synced(s) /\ Latest(s) /\ NoneSkipped(s) /\ Owed(s) /\ Unread(s)
             /\ Given(s)' = Given(s) /\ (Promised(s)' <=> Promised(s)) /\ Unmoved(s)
             /\ UNCHANGED <<pc, results, inStep, ReaderTimestep, DiscardPriorTimestep, contribution, decision, config>>
             /\ UNCHANGED writerVars
  <2>1. Types /\ PeerTold(s) /\ Connected(s)
    BY OwnConnection
  <2> QED BY <2>1, NetOthers, UnmovedHeard DEF PeerTold, Supplied
<1>2. ASSUME NEW s \in Rank PROVE Synced(s)' /\ Latest(s)' /\ NoneSkipped(s)' /\ Owed(s)'
  <2>1. Synced(s)'
    BY <1>1, SyncedElse DEF writerVars
  <2>2. Latest(s)' /\ NoneSkipped(s)'
    BY <1>1, AnswersKept DEF writerVars
  <2>3. Owed(s)'
    BY <1>1, OwedKept DEF writerVars
  <2> QED BY <2>1, <2>2, <2>3
<1>3. ASSUME NEW s \in Rank, npc'[s] = npc[s], FinalTimestep'[s] = FinalTimestep[s], arrived'[s] = arrived[s],
             Status'[s] = Status[s], Timesteps'[s] = Timesteps[s]
      PROVE  Unread(s)' /\ Connected(s)'
  BY <1>1, <1>3, UnreadSame, ConnectedKept DEF writerVars
<1>4. \A s \in Rank \ {r} : Unread(s)' /\ Connected(s)'
  BY <1>1, <1>3, NetOthers
<1>5. Unread(r)' /\ Connected(r)'
  <2>1. writerUp /\ npc[r] = "idle"
    BY OwnConnection
  <2>2. ~ReaderConnCloseHandler(r) /\ ~WalkNet(r)
    BY <2>1 DEF ReaderConnCloseHandler, WalkNet
  <2>3. CASE CP_PeerSetupHandler(r) \/ triggerDataCondition(r)
    BY <1>3, <2>3 DEF CP_PeerSetupHandler, triggerDataCondition, streamVars, queueVars, statusVars
  <2>4. CASE TimestepMetadata(r) \/ DiscardNotice(r) \/ CP_WriterCloseHandler(r)
    BY <2>4, ArrivalPeerTold
  <2> QED BY <2>2, <2>3, <2>4 DEF Net
<1>6. \A s \in Rank : Unread(s)' /\ Connected(s)'
  BY <1>4, <1>5
<1> QED
  BY <1>2, <1>6 DEF PeerTold

(* The barriers at the end of a step and of the stream; and a step of the writer *)
(* or of nobody                                                                  *)
LEMMA BarrierPeerTold ==
  ASSUME IInv, SameInv, CPCommPattern = "Peer", Barrier \/ UNCHANGED vars
  PROVE  \A s \in Rank : PeerTold(s)'
<1> SUFFICES ASSUME NEW s \in Rank PROVE PeerTold(s)'
  OBVIOUS
<1>1. /\ Types /\ 0 \in Rank /\ Supplied(s) /\ Connected(s) /\ Synced(s)
  BY OwnConnection DEF Supplied
<1>2. /\ UNCHANGED <<config, arrived, npc, Timesteps, DiscardPriorTimestep, ReaderTimestep, Status, FinalTimestep,
                      contribution, decision, inStep, results>>
      /\ UNCHANGED log /\ UNCHANGED writerUp
  BY DEF Barrier, vars, writerVars, streamVars, queueVars, statusVars, stepVars, threadVars, collVars, outVars
<1>3. CASE Barrier
  <2>1. /\ pc[s] \in Barriers /\ pc[0] \in Barriers /\ pc'[0] \in {"send_release", "linger"}
        /\ pc'[s] = IF pc[s] = "end_barrier" THEN "send_release" ELSE "linger"
    BY <1>1, <1>3 DEF Barrier
  <2>2. Given(s)' = Given(s) /\ ~Promised(s) /\ ~Promised(s)'
    BY <1>1, <1>2, <2>1, GivenMoves DEF Promised, InStepPcs, Barriers
  <2>3. Supplied(s)'
    BY <1>1, <1>2, <2>2, SuppliedKept
  <2>4. Connected(s)'
    BY <1>1, <1>2, <2>1, ConnectedKept DEF Barriers
  <2>5. Synced(s)'
    <3>1. decision[s] = <<>> /\ contribution[s] = <<>>
      BY <1>1, <2>1, Uninvolved DEF Barriers
    <3> QED BY <1>2, <2>1, <3>1, SyncedFree
  <2> QED BY <2>3, <2>4, <2>5 DEF Supplied, PeerTold
<1>4. CASE UNCHANGED vars
  <2>1. UNCHANGED pc
    BY <1>4 DEF vars, threadVars
  <2>2. Given(s)' = Given(s) /\ (Promised(s)' <=> Promised(s))
    BY <1>2, <2>1, UnmovedHeard DEF Unmoved
  <2>3. Supplied(s)' /\ Connected(s)'
    BY <1>1, <1>2, <2>1, <2>2, SuppliedKept, ConnectedKept
  <2>4. Synced(s)'
    BY <1>1, <1>2, <2>1, SyncedElse
  <2> QED BY <2>3, <2>4 DEF Supplied, PeerTold
<1> QED
  BY <1>3, <1>4

-----------------------------------------------------------------------------
(* All ranks are told the same. *)

(* SstReaderOpen has told nobody anything. *)
LEMMA SameInit == Init => SameInv
<1> SUFFICES ASSUME Init PROVE SameInv
  OBVIOUS
<1>1. Types /\ 0 \in Rank /\ MaxSteps \in Nat
  BY InitTypes, Parameters DEF Types, TypesWriter
<1>2. ASSUME NEW r \in Rank
      PROVE  /\ log = <<>> /\ writerUp /\ ~response /\ arrived[r] = 0 /\ Status[r] = "NotOpen" /\ Timesteps[r] = <<>>
             /\ DiscardPriorTimestep[r] = -1 /\ ReaderTimestep[r] = -1 /\ FinalTimestep[r] = Infinity
             /\ pc[r] = "opening" /\ npc[r] = "idle" /\ inStep[r] = FALSE /\ results[r] = <<>>
             /\ contribution[r] = <<>> /\ decision[r] = <<>>
  BY <1>2 DEF Init, Nothing
<1>0. Len(<<>>) = 0 /\ DOMAIN <<>> = {}
  OBVIOUS
<1>3. ASSUME NEW r \in Rank PROVE Given(r) = <<>> /\ ~Promised(r) /\ Heard(r) = <<>> /\ Q(r) = {}
  <2>1. Given(r) = <<>> /\ ~Promised(r)
    BY <1>2 DEF Given, Promised
  <2>2. Heard(r) = <<>>
    BY <2>1 DEF Heard
  <2>3. Q(r) = {}
    BY <1>0, <1>2 DEF Q, Steps
  <2> QED BY <2>1, <2>2, <2>3
<1>4. \A r \in Rank : NoStepNamed(r)
  BY <1>0, <1>2 DEF NoStepNamed
<1>5. Unanswered /\ RootWaits
  BY <1>1, <1>2 DEF Unanswered, RootWaits
<1>6. Told
  <2>1. ASSUME NEW r \in Rank \ {0} PROVE HeardSame(r)
    <3>1. Heard(0) = <<>> /\ Heard(r) = <<>> /\ decision[r] = <<>>
      BY <1>1, <1>2, <1>3
    <3>2. /\ Len(Heard(0)) = 0 /\ Len(Heard(r)) = 0 /\ Len(decision[r]) = 0
          /\ 1 .. Len(Heard(r)) = {} /\ 1 .. Len(decision[r]) = {} /\ 0 = 0 + 0
      <4>1. 1 .. 0 = {} /\ 0 = 0 + 0
        OBVIOUS
      <4> QED BY <1>0, <3>1, <4>1
    <3> QED BY <3>2 DEF HeardSame
  <2> QED BY <2>1 DEF Told
<1>7. ASSUME NEW r \in Rank PROVE PeerTold(r)
  <2>1. Connected(r)
    BY <1>2 DEF Connected
  <2>2. Unread(r) /\ Latest(r) /\ NoneSkipped(r)
    <3>1. \A u \in StepNo : ~(u < 0)
      BY <1>1, PointerTypes
    <3> QED BY <1>0, <1>2, <1>3, <3>1 DEF Unread, Latest, NoneSkipped, Nothing
  <2>3. Synced(r)
    <3>1. /\ Len(decision[r]) = 0 /\ DOMAIN decision[r] = {} /\ 0 <= 1
      <4>1. 0 <= 1
        OBVIOUS
      <4> QED BY <1>0, <1>2, <4>1
    <3>2. /\ decision[r] = <<>> /\ contribution[r] = <<>> /\ pc[r] = "opening" /\ pc[0] = "opening"
      BY <1>1, <1>2
    <3>3. /\ Len(decision[r]) <= 1
          /\ \A k \in DOMAIN decision[r] : /\ decision[r][k].status # "FatalError"
                                           /\ decision[r][k].status = "OK" => New(r, decision[r][k].step)
      BY <3>1
    <3>4. pc[r] \notin {"gather", "timedwait", "bcast", "walk"} /\ pc[0] # "timedwait"
      BY <3>2
    <3> QED BY <3>2, <3>3, <3>4 DEF Synced
  <2>4. Owed(r)
    <3>1. -1 <= -1
      OBVIOUS
    <3> QED BY <1>2, <1>3, <3>1 DEF Owed
  <2> QED BY <2>1, <2>2, <2>3, <2>4 DEF PeerTold
<1> QED
  BY <1>4, <1>5, <1>6, <1>7 DEF SameInv

(* Every step keeps what the ranks were told the same. *)
LEMMA SameStep == IInv /\ IInv' /\ Steady /\ SameInv /\ [Next]_vars => SameInv'
<1> SUFFICES ASSUME IInv, IInv', Steady, SameInv, [Next]_vars PROVE SameInv'
  OBVIOUS
<1>1. /\ Types /\ Types' /\ CPCommPattern \in {"Min", "Peer"} /\ ReaderInv
  BY Parameters DEF IInv, ReaderInv, Types, TypesWriter
<1>2. /\ \A r \in Rank : NoStepNamed(r)'
      /\ Unanswered' /\ RootWaits' /\ (writerUp' \/ response' => writerUp \/ response)
  BY <1>1, NoStepNamedStep, UnansweredStep, RootWaitsStep DEF SameInv
<1>3. config' = config
  BY DEF Next, Reader, Main, Net, Barrier, Writer, WriterResponds, WriterProvides, WriterCloses, WriterDies, writerOnly,
     Finished, Undefined, vars
<1>4. Told' /\ (CPCommPattern = "Peer" => \A r \in Rank : PeerTold(r)')
  <2>1. ASSUME NEW r \in Rank, Main(r), freedTouched = {}
        PROVE  Told' /\ (CPCommPattern = "Peer" => \A s \in Rank : PeerTold(s)')
    <3>1. CASE CPCommPattern = "Peer"
      BY <1>1, <2>1, <3>1, MainPeerTold
    <3>2. CASE CPCommPattern = "Min"
      BY <1>1, <2>1, <3>2, ToldMain DEF SameInv
    <3> QED BY <1>1, <3>1, <3>2
  <2>2. CASE (\E r \in Rank : Net(r)) \/ Barrier \/ Writer \/ UNCHANGED vars
    <3>1. Told'
      BY <1>2, <1>3, <2>2, ToldElse DEF SameInv
    <3>2. ASSUME CPCommPattern = "Peer" PROVE \A r \in Rank : PeerTold(r)'
      <4>1. CASE Writer
        <5>1. \A r \in Rank : PeerTold(r)
          BY <3>2 DEF SameInv
        <5> QED BY <1>1, <1>3, <3>2, <4>1, <5>1, WriterPeerTold
      <4>2. CASE ~Writer
        BY <2>2, <3>2, <4>2, NetPeerTold, BarrierPeerTold
      <4> QED BY <4>1, <4>2
    <3> QED BY <3>1, <3>2
  <2> QED BY <2>1, <2>2 DEF Next, Reader, Finished, Undefined
<1> QED
  BY <1>2, <1>3, <1>4, Fixed DEF SameInv

(* All ranks of a reader cohort are told the same steps, in the same order, with *)
(* the same end (SstAdvanceStep): in the Min pattern because rank 0 alone        *)
(* decides, and sends what it decides to the others in the order in which it     *)
(* decides it; in the Peer pattern, where each rank takes the steps from its own *)
(* queue, as long as the writer does not fail.                                   *)
THEOREM RanksAreToldTheSame == Steady /\ Spec => []SameEverywhere
<1>1. SUFFICES ASSUME Steady PROVE Spec => []SameEverywhere
  OBVIOUS
<1>2. Init => SameInv
  BY SameInit
<1>3. IInv /\ IInv' /\ SameInv /\ [Next]_vars => SameInv'
  BY <1>1, SameStep
<1>4. IInv /\ SameInv => SameEverywhere
  BY SameImplied
<1> QED
  BY <1>2, <1>3, <1>4, ReaderInductive, PTL DEF Spec
=============================================================================
