---------------------------- MODULE SubfileAppend ----------------------------
(***************************************************************************)
(* What WriteData of the BP5 engine promises about its subfiles, whichever *)
(* rank tells another that it may write: in a step each rank writes once,  *)
(* to one subfile, behind all that is in that file; ranks write to a file  *)
(* one at a time; and the next step goes on where this one ended.          *)
(***************************************************************************)
EXTENDS Integers

CONSTANTS Rank, Subfile

VARIABLES
    end,            \* of each subfile: the position behind all that was written
    writing,        \* of each subfile: the ranks that write to it now
    regions         \* what the ranks write in this step

vars == <<end, writing, regions>>

Region == [rank : Rank, file : Subfile, from : Nat, to : Nat]

Init ==
    /\ end = [f \in Subfile |-> 0]
    /\ writing = [f \in Subfile |-> {}]
    /\ regions = {}

Begin(r, f) ==
    /\ writing[f] = {}
    /\ \A x \in regions : x.rank # r
    /\ \E x \in regions' \cap Region :
           /\ x.rank = r /\ x.file = f
           /\ end[f] <= x.from /\ x.from <= x.to
           /\ regions' = regions \cup {x}
    /\ writing' = [writing EXCEPT ![f] = {r}]
    /\ UNCHANGED end

End(x) ==
    /\ x.rank \in writing[x.file]
    /\ writing' = [writing EXCEPT ![x.file] = {}]
    /\ end' = [end EXCEPT ![x.file] = x.to]
    /\ UNCHANGED regions

NextStep ==
    /\ \A r \in Rank : \E x \in regions : x.rank = r
    /\ \A f \in Subfile : writing[f] = {}
    /\ regions' = {}
    /\ UNCHANGED <<end, writing>>

Next ==
    \/ \E r \in Rank, f \in Subfile : Begin(r, f)
    \/ \E x \in regions : End(x)
    \/ NextStep

Spec == Init /\ [][Next]_vars

(* What two ranks write to the same subfile in a step does not overlap. *)
RegionsDisjoint ==
    \A x, y \in regions :
        x # y /\ x.file = y.file => x.to <= y.from \/ y.to <= x.from
=============================================================================
