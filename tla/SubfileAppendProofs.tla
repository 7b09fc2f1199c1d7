------------------------- MODULE SubfileAppendProofs -------------------------
(* What SubfileAppend promises, for any ranks and subfiles.                  *)
EXTENDS SubfileAppend, TLAPS

Types ==
    /\ end \in [Subfile -> Nat]
    /\ writing \in [Subfile -> SUBSET Rank]
    /\ regions \subseteq Region

(* A rank writes once in a step, and not backwards. *)
WritesOnce ==
    /\ \A x, y \in regions : x.rank = y.rank => x = y
    /\ \A x \in regions : x.from <= x.to

(* One rank at a time writes to a subfile, and does so behind its end. *)
WritesAlone ==
    \A f \in Subfile :
        /\ \A r, s \in writing[f] : r = s
        /\ \A r \in writing[f] : \E x \in regions : x.rank = r /\ x.file = f /\ end[f] <= x.from

(* What is not being written is before the end. *)
WrittenBefore == \A x \in regions : x.rank \in writing[x.file] \/ x.to <= end[x.file]

SubfileInv == Types /\ WritesOnce /\ WritesAlone /\ WrittenBefore /\ RegionsDisjoint

USE DEF Region

(* Nobody writes and nothing was written: all parts hold at once. *)
LEMMA InitSubfileInv == Init => SubfileInv
  BY DEF Init, SubfileInv, Types, WritesOnce, WritesAlone, WrittenBefore, RegionsDisjoint

(* A rank that begins writes behind the end, and so behind all other regions. *)
LEMMA BeginSubfileInv ==
  ASSUME SubfileInv, NEW r \in Rank, NEW f \in Subfile, Begin(r, f)
  PROVE  SubfileInv'
<1>1. PICK x \in regions' \cap Region :
          /\ x.rank = r /\ x.file = f
          /\ end[f] <= x.from /\ x.from <= x.to
          /\ regions' = regions \cup {x}
  BY DEF Begin
<1>2. /\ writing[f] = {} /\ writing' = [writing EXCEPT ![f] = {r}]
      /\ \A y \in regions : y.rank # r
      /\ end' = end
  BY DEF Begin
<1>3. Types'
  BY <1>1, <1>2 DEF SubfileInv, Types
<1>4. WritesOnce'
  BY <1>1, <1>2 DEF SubfileInv, WritesOnce
<1>5. WritesAlone'
  <2> SUFFICES ASSUME NEW g \in Subfile
               PROVE  /\ \A p, q \in writing'[g] : p = q
                      /\ \A p \in writing'[g] :
                             \E y \in regions' : y.rank = p /\ y.file = g /\ end'[g] <= y.from
    BY DEF WritesAlone
  <2>1. CASE g = f
    BY <2>1, <1>1, <1>2 DEF SubfileInv, Types
  <2>2. CASE g # f
    BY <2>2, <1>1, <1>2 DEF SubfileInv, Types, WritesAlone
  <2> QED
    BY <2>1, <2>2
<1>6. WrittenBefore'
  <2> SUFFICES ASSUME NEW y \in regions'
               PROVE  y.rank \in writing'[y.file] \/ y.to <= end'[y.file]
    BY DEF WrittenBefore
  <2>1. CASE y = x
    BY <2>1, <1>1, <1>2 DEF SubfileInv, Types
  <2>2. CASE y \in regions
    BY <2>2, <1>2 DEF SubfileInv, Types, WrittenBefore
  <2> QED
    BY <2>1, <2>2, <1>1
<1>7. RegionsDisjoint'
  <2>1. \A y \in regions : y.file = f => y.to <= end[f]
    BY <1>2 DEF SubfileInv, WrittenBefore
  <2>2. \A y \in regions : y.file = f => y.to <= x.from
    BY <2>1, <1>1 DEF SubfileInv, Types
  <2> QED
    BY <2>2, <1>1 DEF SubfileInv, RegionsDisjoint
<1> QED
  BY <1>3, <1>4, <1>5, <1>6, <1>7 DEF SubfileInv

(* The end moves to the end of the only region that was behind it. *)
LEMMA EndSubfileInv ==
  ASSUME SubfileInv, NEW x \in regions, End(x)
  PROVE  SubfileInv'
<1> DEFINE f == x.file
<1>1. /\ x \in Region /\ f \in Subfile /\ x.rank \in writing[f]
      /\ writing' = [writing EXCEPT ![f] = {}]
      /\ end' = [end EXCEPT ![f] = x.to]
      /\ regions' = regions
  BY DEF End, SubfileInv, Types
<1>2. end[f] <= x.from /\ x.from <= x.to
  BY <1>1 DEF SubfileInv, WritesAlone, WritesOnce
<1>3. Types'
  BY <1>1 DEF SubfileInv, Types
<1>4. WritesOnce' /\ RegionsDisjoint'
  BY <1>1 DEF SubfileInv, WritesOnce, RegionsDisjoint
<1>5. WritesAlone'
  BY <1>1 DEF SubfileInv, Types, WritesAlone
<1>6. WrittenBefore'
  <2> SUFFICES ASSUME NEW y \in regions
               PROVE  y.rank \in writing'[y.file] \/ y.to <= end'[y.file]
    BY <1>1 DEF WrittenBefore
  <2>1. CASE y.file # f
    BY <2>1, <1>1 DEF SubfileInv, Types, WrittenBefore
  <2>2. CASE y.file = f /\ y.rank \in writing[f]
    BY <2>2, <1>1 DEF SubfileInv, Types, WritesAlone, WritesOnce
  <2>3. CASE y.file = f /\ y.to <= end[f]
    BY <2>3, <1>1, <1>2 DEF SubfileInv, Types
  <2> QED
    BY <2>1, <2>2, <2>3 DEF SubfileInv, WrittenBefore
<1> QED
  BY <1>3, <1>4, <1>5, <1>6 DEF SubfileInv

(* The inductive invariant: between the steps, too, nobody writes. *)
THEOREM SubfileInvariance == Spec => []SubfileInv
<1>1. SubfileInv /\ [Next]_vars => SubfileInv'
  <2> SUFFICES ASSUME SubfileInv, [Next]_vars
               PROVE  SubfileInv'
    OBVIOUS
  <2>1. ASSUME NEW r \in Rank, NEW f \in Subfile, Begin(r, f)
        PROVE  SubfileInv'
    BY <2>1, BeginSubfileInv
  <2>2. ASSUME NEW x \in regions, End(x)
        PROVE  SubfileInv'
    BY <2>2, EndSubfileInv
  <2>3. CASE NextStep
    BY <2>3 DEF NextStep, SubfileInv, Types, WritesOnce, WritesAlone, WrittenBefore, RegionsDisjoint
  <2>4. CASE UNCHANGED vars
    BY <2>4 DEF vars, SubfileInv, Types, WritesOnce, WritesAlone, WrittenBefore, RegionsDisjoint
  <2> QED
    BY <2>1, <2>2, <2>3, <2>4 DEF Next
<1> QED
  BY InitSubfileInv, <1>1, PTL DEF Spec

(* Whatever the ranks and subfiles and whoever tells whom to write: as long as *)
(* ranks write behind the end and alone, nothing is overwritten in a step.     *)
THEOREM NothingOverwritten == Spec => []RegionsDisjoint
<1>1. SubfileInv => RegionsDisjoint
  BY DEF SubfileInv
<1> QED
  BY SubfileInvariance, <1>1, PTL
=============================================================================
