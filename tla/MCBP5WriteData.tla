---------------------------- MODULE MCBP5WriteData ----------------------------
EXTENDS BP5WriteDataProps

Run(reroute, subfiles, steps) ==
    [EnableWriterRerouting |-> reroute, NumSubFiles |-> subfiles, steps |-> steps]

Sizes(a, b, c, d) == [r \in Rank |-> <<a, b, c, d>>[r + 1]]

(* Two steps with two subfiles, where other ranks coordinate the second.  In   *)
(* the first, one rank has more than the other three together; two of these    *)
(* could be sent to it, but the first of them already is too much.             *)
TwoSteps   == Run(TRUE, 2, <<<<Sizes(1, 2, 3, 7)>>, <<Sizes(4, 3, 2, 1)>>>>)

(* Three subfiles: an idle group may take from either of two others. *)
ThreeFiles == Run(TRUE, 3, <<<<Sizes(2, 4, 3, 1)>>>>)

(* A step that is written in two blocks, without rerouting, before another. *)
Blocks     == Run(TRUE, 2, <<<<Sizes(1, 2, 3, 7), Sizes(2, 0, 1, 1)>>, <<Sizes(4, 3, 2, 1)>>>>)

(* Without rerouting, whatever the sizes, up to the names of the ranks *)
Descending == {s \in [Rank -> 0..2] : \A r \in Rank \ {0} : s[r - 1] >= s[r]}
Unrouted   == {Run(FALSE, n, <<<<s>>>>) : n \in {2, 3}, s \in Descending}

Runs      == {TwoSteps, ThreeFiles, Blocks} \cup Unrouted
ThreeOnly == {ThreeFiles}
TwoOnly   == {TwoSteps}
=============================================================================
