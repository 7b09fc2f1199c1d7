--------------------------- MODULE BP5WriteDataProps ---------------------------
(* What is checked of BP5WriteData. *)
EXTENDS BP5WriteData

Pos == Nat

Message ==
    [type : {"DO_WRITE"}, index : Groups, offset : Pos]
    \cup [type : {"WRITE_COMPLETION"}, offset : Pos]
    \cup [type : {"GROUP_CLOSE", "STATUS_INQUIRY"}]
    \cup [type : {"GROUP_CLOSE_ACK", "WRITER_IDLE", "WRITER_CAPACITY"}, index : Groups]
    \cup [type : {"STATUS_REPLY"}, index : Groups, size : Nat]
    \cup [type : {"REROUTE_REQUEST", "REROUTE_REJECT"}, src : Rank, dest : Rank, rank : {NoRank}]
    \cup [type : {"REROUTE_ACK"}, src : Rank, dest : Rank, rank : Rank]
    \cup [type : {"WRITE_MORE"}, rank : Rank]

(* The types of the variables: message types, statuses of a group and the    *)
(* fields of the threads of WriteData_WithRerouting; and a subcoordinator that *)
(* has told a rank to write expects its completion, and nothing else.          *)
TypeOK ==
    /\ channel \in [Rank \X Rank -> Seq([own : Nat, msg : Message])]
    /\ turn \in Rank \cup {NoRank, Aborted}
    /\ plan \in Plans /\ step \in DOMAIN plan.steps /\ block \in DOMAIN plan.steps[step]
    /\ token \in [Rank -> Pos \cup {NoToken}]
    /\ m_SubstreamDataPos \in [Groups -> Pos] /\ start \in [Groups -> Pos]
    /\ rank \in [Rank -> [main : {"wait", "write", "join", "done"},
                          m_ReadyToWrite : BOOLEAN, m_FinishedWriting : BOOLEAN,
                          m_TargetIndex : Groups \cup {0},
                          m_TargetCoordinator : Rank \cup {NoRank},
                          m_DataPos : Pos, m_DataPosShared : BOOLEAN, m_StartDataPos : Pos,
                          m_SubStreamIndex : Groups,
                          looping : BOOLEAN, receivedGroupClose : BOOLEAN,
                          sentFinished : BOOLEAN]]
    /\ sc \in [Rank -> [writerQueue : Seq(Rank), currentFilePos : Pos,
                        writingRank : Rank \cup {NoRank}, writeMoreCount : Nat,
                        expectedOffset : Pos, atCapacity : BOOLEAN, sentIdle : BOOLEAN,
                        expectingWriteCompletion : BOOLEAN]]
    /\ \A r \in Rank : sc[r].expectingWriteCompletion <=> sc[r].writingRank # NoRank
    /\ gc \in [groupState : [Groups -> {"UNKNOWN", "WRITING", "WRITING_MORE", "REROUTE_REJECTED",
                                        "IDLE", "PENDING", "CAPACITY", "CLOSED"}],
               firstIdleMsg : BOOLEAN, closeAcksNeeded : SUBSET SubCoords,
               groupIdlesNeeded : SUBSET Rank, waitingForCloseAcks : BOOLEAN]

-----------------------------------------------------------------------------
(* Every rank is in one group, and every group has a first rank, also when few *)
(* ranks have data: the first rank of each group is looked up unasked.         *)
EveryoneGrouped ==
    /\ \A r \in Rank : Cardinality({g \in Groups : r \in Range(Partition(g))}) = 1
    /\ \A g \in Groups : IsInjective(Partition(g)) /\ Partition(g) # <<>>

Total(ranks) == MapThenSumSet(LAMBDA r : plan.steps[step][1][r], ranks)

(* The groups are balanced as far as the greedy partitioning promises: of no two *)
(* groups the larger gets smaller by giving one of its ranks to the other.       *)
GroupsBalanced ==
    \A g, h \in Groups : \A r \in Range(Partition(g)) :
        plan.steps[step][1][r] > 0 =>
            Total(Range(Partition(g)) \ {r}) <= Total(Range(Partition(h)))

-----------------------------------------------------------------------------
(* The messages that say of a rank r that it is to write *)
Telling(r) ==
    {at \in UNION {{c} \X DOMAIN channel[c] : c \in Rank \X Rank} :
        LET m == channel[at[1]][at[2]].msg
        IN  \/ m.type \in {"REROUTE_ACK", "WRITE_MORE"} /\ m.rank = r
            \/ m.type = "DO_WRITE" /\ at[1][2] = r}

Queued(r) == {at \in UNION {{s} \X DOMAIN sc[s].writerQueue : s \in SubCoords} :
                 sc[at[1]].writerQueue[at[2]] = r}

(* On its way from one queue to another no rank is lost or doubled: one that has *)
(* not been told to write is in one queue, or in one message of those that give  *)
(* it away, hand it on or tell it to write; and one that has been told in none.  *)
QueuedOnce ==
    \A r \in Rank :
        Cardinality(Queued(r)) + Cardinality(Telling(r)) =
            IF rank[r].m_ReadyToWrite \/ ~rerouting THEN 0 ELSE 1

-----------------------------------------------------------------------------
Begun(r)    == rank[r].main # "wait"
Ended(r)    == rank[r].main \in {"join", "done"}
RegionOf(r) == [rank |-> r, file |-> rank[r].m_SubStreamIndex, from |-> rank[r].m_StartDataPos,
                to |-> rank[r].m_StartDataPos + size[r]]
RegionsOf(ranks) == {RegionOf(r) : r \in ranks}

(* the subfiles of any run *)
Subfile == UNION {1..p.NumSubFiles : p \in Plans}

(* The end of a subfile: what the first rank of its group says when it is done, *)
(* and until then what the ranks have written.                                  *)
EndOf(f) ==
    IF f \notin Groups THEN 0
    ELSE IF rank[SubCoord(f)].main = "done" THEN rank[SubCoord(f)].m_DataPos
    ELSE Max({start[f]}
             \cup {x.to : x \in {y \in RegionsOf({r \in Rank : Ended(r)}) : y.file = f}})

Subfiles == INSTANCE SubfileAppend WITH
    end     <- [f \in Subfile |-> EndOf(f)],
    writing <- [f \in Subfile |->
                   {r \in Rank : rank[r].main = "write" /\ rank[r].m_SubStreamIndex = f}],
    regions <- RegionsOf({r \in Rank : Begun(r)})

(* Whichever group a rank is sent to, it writes behind all that is in the subfile, *)
(* alone, and the next step goes on behind it: each rank is told the position its  *)
(* predecessor reached, and the ranks share what the last one of a file reached.   *)
AppendsInTurn == Subfiles!Spec

(* A refusal reached the global coordinator after the group said that it is idle. *)
RejectedIdle ==
    \E g \in Groups : gc.groupState[g] = "REROUTE_REJECTED" /\ SubCoord(g) \notin gc.groupIdlesNeeded

(* Every rank gets its turn to write, and WriteData returns on all of them. *)
WriteDataReturns == []<>AllDone

(* Nothing keeps WriteData from returning but a group that was taken to refuse *)
(* writers although it is idle, or a message that ends the program.            *)
ReturnsUnlessRejected == []<>(AllDone \/ RejectedIdle \/ turn = Aborted)

(* The messages for the global coordinator reach it while it is that: a rank that *)
(* was it in an earlier step receives none of them.                               *)
CoordinatorReceives == turn # Aborted

-----------------------------------------------------------------------------
(* Statements that TLC refutes *)

(* Groups are closed when all ranks have been told to write. *)
ClosedWhenDone == gc.waitingForCloseAcks => \A r \in Rank : rank[r].m_ReadyToWrite

(* A subfile to which too much was rerouted gets no more.  With six ranks and    *)
(* three subfiles it does: the answer to an early inquiry comes after the group  *)
(* was given a writer, and makes it IDLE and the destination of another.         *)
CapacityRespected ==
    [][\A s \in SubCoords :
           sc[s].atCapacity => Len(sc'[s].writerQueue) <= Len(sc[s].writerQueue) \/ AllDone]_vars

(* What was sent in a step is received in it. *)
NothingLeftOver == AllDone => \A c \in Rank \X Rank : channel[c] = <<>>
=============================================================================
