----------------------------- MODULE StepStream -----------------------------
(***************************************************************************)
(* What a streaming engine promises one reader: the steps a writer has     *)
(* written come out of BeginStep once each and in order, either all of     *)
(* them or, where the reader asked for the newest, without those a newer   *)
(* one supersedes; the stream is reported to have ended when the writer    *)
(* has closed it and there is nothing left to read, and to have failed     *)
(* only when it is broken.                                                 *)
(***************************************************************************)
EXTENDS Naturals, Sequences

VARIABLES
    skips,                 \* whether a step may be skipped for a newer one
    written,               \* the steps, numbered in increasing order
    closed, broken,        \* the writer has closed the stream; it is gone
    read,                  \* the steps handed to the application
    outcome                \* "open" | "ended" | "failed": what the reader was told

vars == <<skips, written, closed, broken, read, outcome>>

(* the least number a step after those of s can have *)
After(s) == IF s = <<>> THEN 0 ELSE s[Len(s)] + 1

Unread == {i \in DOMAIN written : written[i] >= After(read)}

Init ==
    /\ skips \in BOOLEAN
    /\ written = <<>> /\ closed = FALSE /\ broken = FALSE
    /\ read = <<>> /\ outcome = "open"

Write ==
    /\ ~closed /\ ~broken
    /\ Len(written') = Len(written) + 1
    /\ LET t == written'[Len(written')]
       IN  t \in Nat /\ t >= After(written) /\ written' = Append(written, t)
    /\ UNCHANGED <<skips, closed, broken, read, outcome>>

Close ==
    /\ closed' = TRUE
    /\ UNCHANGED <<skips, written, broken, read, outcome>>

Break ==
    /\ broken' = TRUE
    /\ UNCHANGED <<skips, written, closed, read, outcome>>

Read ==
    /\ outcome = "open"
    /\ \E i \in Unread :
           /\ skips \/ \A j \in Unread : i <= j
           /\ read' = Append(read, written[i])
    /\ UNCHANGED <<skips, written, closed, broken, outcome>>

End ==
    /\ outcome = "open" /\ closed /\ Unread = {}
    /\ outcome' = "ended"
    /\ UNCHANGED <<skips, written, closed, broken, read>>

Fail ==
    /\ outcome = "open" /\ broken
    /\ outcome' = "failed"
    /\ UNCHANGED <<skips, written, closed, broken, read>>

Next == Write \/ Close \/ Break \/ Read \/ End \/ Fail

Spec == Init /\ [][Next]_vars

Increasing(s) == \A i, j \in 1..Len(s) : i < j => s[i] < s[j]

(* Steps come out in order, none twice, and only what was written. *)
ReadInOrder ==
    /\ Increasing(read)
    /\ \A i \in 1..Len(read) : \E j \in 1..Len(written) : read[i] = written[j]

WasRead(j) == \E i \in 1..Len(read) : read[i] = written[j]

(* Unless the newest is wanted, no step is passed over, and the stream does not *)
(* end before all of it was read.                                               *)
NothingPassedOver ==
    ~skips => \A j \in 1..Len(written) : written[j] < After(read) \/ outcome = "ended" => WasRead(j)
=============================================================================
