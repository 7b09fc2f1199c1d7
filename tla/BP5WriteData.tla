----------------------------- MODULE BP5WriteData -----------------------------
(***************************************************************************)
(* WriteData of the BP5 engine with DataSizeBased aggregation.  In each    *)
(* step the ranks are partitioned by the size of their data into groups,   *)
(* one per subfile, and the ranks of a group write to its subfile one      *)
(* after the other.  A step is written by EndStep, or in several blocks,   *)
(* the others by PerformDataWrite.                                         *)
(*                                                                         *)
(* Without rerouting (WriteData_EveryoneWrites) a token goes down the      *)
(* chain of a group with the position reached, and back from the last rank *)
(* to the first.                                                           *)
(*                                                                         *)
(* With rerouting (BP5Writer_WithRerouting.cpp) the first rank of a group  *)
(* is its subcoordinator, which tells one rank after the other to write.   *)
(* The first subcoordinator is also the global coordinator, which sends    *)
(* ranks that still wait in a slow group to a group that has finished.     *)
(* Each rank has two threads: main, which waits for its turn, writes and   *)
(* joins the other; and the communication thread, which loops over the     *)
(* messages.  A turn of that loop is a Receive and a FinishTurn, and the   *)
(* other threads and ranks see what it did when it is over.                *)
(*                                                                         *)
(* MPI keeps the messages of one sender to one receiver in order, and      *)
(* promises nothing about those of two senders.  A rank's message to       *)
(* itself is there as soon as it is sent, before all that is sent later.   *)
(***************************************************************************)
EXTENDS Integers, Sequences, FiniteSets, SequencesExt, Partitioner

CONSTANTS
    Rank,
    Plans,                 \* bound: what a run may be: the parameters NumSubFiles and
                           \* EnableWriterRerouting, and the steps, each a sequence of
                           \* blocks, each with the size of every rank's data
    StripeSize,
    ReroutingThreshold     \* ReroutingThresholdFactor in percent

(* The number of subfiles is limited by the number of ranks, and is that of the *)
(* nodes if it is not given; a step ends with a block of its own.               *)
ASSUME PlansAssumption ==
    /\ IsFiniteSet(Rank) /\ Rank \subseteq Nat
    /\ \A p \in Plans :
           /\ p.NumSubFiles \in 1..Cardinality(Rank)
           /\ p.steps \in Seq(Seq([Rank -> Nat])) /\ p.steps # <<>>
           /\ \A s \in DOMAIN p.steps : p.steps[s] # <<>>

(* A StripeSize of 0 is replaced by the default (InitParameters). *)
ASSUME StripeAssumption == StripeSize \in Nat \ {0}

VARIABLES
    channel,               \* <<from, to>>: messages sent and not received, each with the
                           \* number of its receiver's messages to itself it comes after
    turn,                  \* the rank whose communication thread is within a turn, NoRank,
                           \* or Aborted
    plan, step, block,     \* the run that was chosen, and where it is
    m_Partitioning,        \* the groups of this step
    m_SubstreamDataPos,    \* the positions of the subfiles that ranks share after a step
    start,                 \* history: the positions of the subfiles when the block began
    token,                 \* what is on its way to each rank in its group's chain, or NoToken
    rank,                  \* each rank: its main thread, and what the two threads share
    sc,                    \* the communication thread of each rank: what a subcoordinator keeps
    gc                     \* and what the global coordinator keeps

callVars == <<plan, step, block, m_Partitioning, m_SubstreamDataPos, start>>
vars == <<channel, turn, callVars, token, rank, sc, gc>>

NoRank  == -1
Aborted == -2
NoToken == -1

Groups       == DOMAIN m_Partitioning.m_Partitions
Partition(g) == m_Partitioning.m_Partitions[g]
GroupOf(r)   == CHOOSE g \in Groups : r \in Range(Partition(g))
SubCoord(g)  == Partition(g)[1]
SubCoords    == {SubCoord(g) : g \in Groups}
GlobalCoord  == SubCoord(1)

size == plan.steps[step][block]

(* A step in several blocks is not rerouted. *)
Reroutable(s) ==
    plan.EnableWriterRerouting /\ Cardinality(Rank) > 1 /\ plan.NumSubFiles > 1 /\ Len(plan.steps[s]) = 1
rerouting == Reroutable(step)

(* scRankToIndex, a std::map: who is not in it has group 0, here the first *)
scRankToIndex(r) == IF r \in SubCoords THEN GroupOf(r) ELSE 1

-----------------------------------------------------------------------------
(* The state at the start of a call of WriteData, with the partitioning p *)

WaitingRank(p, reroutes, r, pos, shared) ==
    [main |-> "wait", m_ReadyToWrite |-> FALSE, m_FinishedWriting |-> FALSE,
     m_TargetIndex |-> 0, m_TargetCoordinator |-> NoRank, m_DataPos |-> pos,
     m_DataPosShared |-> shared, m_StartDataPos |-> 0,
     m_SubStreamIndex |-> CHOOSE g \in DOMAIN p.m_Partitions : r \in Range(p.m_Partitions[g]),
     looping |-> reroutes, receivedGroupClose |-> FALSE, sentFinished |-> FALSE]

Coordinator(queue, pos) ==
    [writerQueue |-> queue, currentFilePos |-> pos, writingRank |-> NoRank,
     writeMoreCount |-> 0, expectedOffset |-> 0, atCapacity |-> FALSE, sentIdle |-> FALSE,
     expectingWriteCompletion |-> FALSE]

(* A group's queue holds its ranks, the subcoordinator first; it knows the *)
(* position of its subfile.                                                *)
SubCoordinators(p, reroutes, pos) ==
    [r \in Rank |->
        LET led == {g \in DOMAIN p.m_Partitions : reroutes /\ p.m_Partitions[g][1] = r}
        IN  IF led = {} THEN Coordinator(<<>>, 0)
            ELSE LET g == CHOOSE g \in led : TRUE
                 IN  Coordinator(p.m_Partitions[g], pos[g])]

GlobalCoordinator(p, reroutes) ==
    LET subCoordRanks == IF reroutes THEN {p.m_Partitions[g][1] : g \in DOMAIN p.m_Partitions} ELSE {}
    IN  [groupState |-> [g \in DOMAIN p.m_Partitions |-> "UNKNOWN"], firstIdleMsg |-> TRUE,
         closeAcksNeeded |-> subCoordRanks, groupIdlesNeeded |-> subCoordRanks,
         waitingForCloseAcks |-> FALSE]

Init ==
    /\ channel = [c \in Rank \X Rank |-> <<>>]
    /\ turn = NoRank
    /\ plan \in Plans
    /\ step = 1 /\ block = 1
    /\ m_Partitioning \in PartitionGreedily(size, plan.NumSubFiles)
    /\ m_SubstreamDataPos = [g \in Groups |-> 0]
    /\ start = m_SubstreamDataPos
    /\ token = [r \in Rank |-> NoToken]
    /\ rank = [r \in Rank |-> WaitingRank(m_Partitioning, rerouting, r, 0, FALSE)]
    /\ sc = SubCoordinators(m_Partitioning, rerouting, start)
    /\ gc = GlobalCoordinator(m_Partitioning, rerouting)

-----------------------------------------------------------------------------
(* The handlers: rank r receives the message of rank q that comes first, and *)
(* sends out: to each rank a sequence of messages.                            *)

To(ranks, m) == [to \in Rank |-> IF to \in ranks THEN <<m>> ELSE <<>>]
Nothing      == [to \in Rank |-> <<>>]

Sent(r, to, out) ==
    [i \in DOMAIN out[to] |->
        [own |-> IF r = to THEN 0 ELSE Len(channel[<<to, to>>]), msg |-> out[to][i]]]

Kept(c, r, q) ==
    LET rest == IF c = <<q, r>> THEN Tail(channel[c]) ELSE channel[c]
    IN  IF q = r /\ c[2] = r
        THEN [i \in DOMAIN rest |-> [rest[i] EXCEPT !.own = IF @ > 0 THEN @ - 1 ELSE 0]]
        ELSE rest

Exchanged(r, q, out) ==
    [c \in Rank \X Rank |-> Kept(c, r, q) \o IF c[1] = r THEN Sent(r, c[2], out) ELSE <<>>]

First(r, q) == Head(channel[<<q, r>>]).msg
Arrives(r, q) ==
    turn = NoRank /\ rank[r].looping /\ channel[<<q, r>>] # <<>> /\ Head(channel[<<q, r>>]).own = 0

Received(r, q, type, out) ==
    /\ Arrives(r, q) /\ First(r, q).type = type
    /\ channel' = Exchanged(r, q, out)
    /\ turn' = r
    /\ UNCHANGED <<callVars, token>>

(* What the coordinator keeps of the groups (groupState) is an empty vector on a *)
(* rank that is not it.                                                          *)
CoordinatorReceived(r, q, type, out) == r = GlobalCoord /\ Received(r, q, type, out)

(* A message for the coordinator of an earlier step: the rank that was it accesses *)
(* its empty vector, and MPI ends with the process.                                *)
Misdelivered(r, q) ==
    /\ r # GlobalCoord /\ Arrives(r, q)
    /\ First(r, q).type \in {"GROUP_CLOSE_ACK", "WRITER_IDLE", "WRITER_CAPACITY",
                             "STATUS_REPLY", "REROUTE_REJECT", "REROUTE_ACK"}
    /\ turn' = Aborted
    /\ UNCHANGED <<channel, callVars, token, rank, sc, gc>>

DoWrite(r, q) ==
    LET m == First(r, q)
    IN  /\ Received(r, q, "DO_WRITE", Nothing)
        /\ rank' = [rank EXCEPT ![r].m_TargetIndex = m.index, ![r].m_DataPos = m.offset,
                                ![r].m_TargetCoordinator = q, ![r].m_ReadyToWrite = TRUE]
        /\ UNCHANGED <<sc, gc>>

(* A subfile is at capacity once what was rerouted to it is too much, compared *)
(* with the position it would have reached without.                            *)
OverThreshold(pos, expected) ==
    pos > expected /\ (pos - expected) * 100 >= ReroutingThreshold * expected

Completed(s, pos) ==
    LET more == s.writeMoreCount > 0
    IN  [s EXCEPT !.currentFilePos = pos,
                  !.atCapacity = @ \/ (more /\ OverThreshold(pos, s.expectedOffset)),
                  !.expectedOffset = IF more THEN @ ELSE pos]

(* defect: a completion is expected as long as there are others to write *)
WriterDoneIfLast(s, pos) ==
    [Completed(s, pos) EXCEPT !.writingRank = NoRank,
                              !.expectingWriteCompletion = s.writerQueue # <<>>]

WriterDone(s, pos) ==
    [Completed(s, pos) EXCEPT !.writingRank = NoRank, !.expectingWriteCompletion = FALSE]

WriteCompletion(r, q) ==
    /\ Received(r, q, "WRITE_COMPLETION", Nothing)
    /\ sc' = [sc EXCEPT ![r] = WriterDone(@, First(r, q).offset)]
    /\ UNCHANGED <<rank, gc>>

GroupClose(r, q) ==
    /\ Received(r, q, "GROUP_CLOSE",
           To({GlobalCoord}, [type |-> "GROUP_CLOSE_ACK", index |-> rank[r].m_SubStreamIndex]))
    /\ rank' = [rank EXCEPT ![r].receivedGroupClose = TRUE]
    /\ UNCHANGED <<sc, gc>>

GroupCloseAck(r, q) ==
    /\ CoordinatorReceived(r, q, "GROUP_CLOSE_ACK", Nothing)
    /\ gc' = [gc EXCEPT !.groupState[First(r, q).index] = "CLOSED",
                        !.closeAcksNeeded = @ \ {q}]
    /\ UNCHANGED <<rank, sc>>

(* The first idle group makes the global coordinator ask all others. *)
Inquiries(q) == To(SubCoords \ {q}, [type |-> "STATUS_INQUIRY"])

WriterIdle(r, q) ==
    /\ CoordinatorReceived(r, q, "WRITER_IDLE", IF gc.firstIdleMsg THEN Inquiries(q) ELSE Nothing)
    /\ gc' = [gc EXCEPT !.groupState[First(r, q).index] = "IDLE",
                        !.groupIdlesNeeded = @ \ {q}, !.firstIdleMsg = FALSE]
    /\ UNCHANGED <<rank, sc>>

WriterCapacity(r, q) ==
    /\ CoordinatorReceived(r, q, "WRITER_CAPACITY", Nothing)
    /\ gc' = [gc EXCEPT !.groupState[First(r, q).index] = "CAPACITY",
                        !.groupIdlesNeeded = @ \ {q}]
    /\ UNCHANGED <<rank, sc>>

StatusInquiry(r, q) ==
    /\ Received(r, q, "STATUS_INQUIRY",
           To({GlobalCoord}, [type |-> "STATUS_REPLY", index |-> rank[r].m_SubStreamIndex,
                              size |-> Len(sc[r].writerQueue)]))
    /\ UNCHANGED <<rank, sc, gc>>

StatusReply(r, q) ==
    LET m == First(r, q)
    IN  /\ CoordinatorReceived(r, q, "STATUS_REPLY", Nothing)
        /\ gc' = [gc EXCEPT !.groupState[m.index] = IF m.size > 0 THEN "WRITING" ELSE "IDLE"]
        /\ UNCHANGED <<rank, sc>>

(* defect: the rank that is given away is not taken from the queue *)
KeepRerouted(r) == sc[r].writerQueue

TakeRerouted(r) == IF sc[r].writerQueue = <<>> THEN <<>> ELSE Tail(sc[r].writerQueue)

(* A group is asked to give a writer away. *)
RerouteRequest(r, q) ==
    LET m == First(r, q)
    IN  /\ Received(r, q, "REROUTE_REQUEST",
               To({GlobalCoord},
                  IF sc[r].writerQueue = <<>> THEN [m EXCEPT !.type = "REROUTE_REJECT"]
                  ELSE [m EXCEPT !.type = "REROUTE_ACK", !.rank = Head(sc[r].writerQueue)]))
        /\ sc' = [sc EXCEPT ![r].writerQueue = TakeRerouted(r)]
        /\ UNCHANGED <<rank, gc>>

IfPending(g, status) == IF gc.groupState[g] = "PENDING" THEN status ELSE gc.groupState[g]

RerouteReject(r, q) ==
    LET src  == scRankToIndex(First(r, q).src)
        dest == scRankToIndex(First(r, q).dest)
    IN  /\ CoordinatorReceived(r, q, "REROUTE_REJECT", Nothing)
        /\ gc' = [gc EXCEPT !.groupState[src]  = IfPending(src, "REROUTE_REJECTED"),
                            !.groupState[dest] = IfPending(dest, "IDLE")]
        /\ UNCHANGED <<rank, sc>>

RerouteAck(r, q) ==
    LET m == First(r, q)
        src  == scRankToIndex(m.src)
        dest == scRankToIndex(m.dest)
    IN  /\ CoordinatorReceived(r, q, "REROUTE_ACK", To({m.dest}, [type |-> "WRITE_MORE", rank |-> m.rank]))
        /\ gc' = [gc EXCEPT !.groupIdlesNeeded = @ \cup {m.dest},
                            !.groupState[src]  = IfPending(src, "WRITING"),
                            !.groupState[dest] = "WRITING_MORE"]
        /\ UNCHANGED <<rank, sc>>

WriteMore(r, q) ==
    /\ Received(r, q, "WRITE_MORE", Nothing)
    /\ sc' = [sc EXCEPT ![r].writerQueue = Append(@, First(r, q).rank),
                        ![r].sentIdle = FALSE, ![r].writeMoreCount = @ + 1]
    /\ UNCHANGED <<rank, gc>>

Receive(r, q) ==
    \/ DoWrite(r, q) \/ WriteCompletion(r, q) \/ WriteMore(r, q)
    \/ GroupClose(r, q) \/ GroupCloseAck(r, q)
    \/ WriterIdle(r, q) \/ WriterCapacity(r, q)
    \/ StatusInquiry(r, q) \/ StatusReply(r, q)
    \/ RerouteRequest(r, q) \/ RerouteReject(r, q) \/ RerouteAck(r, q)
    \/ Misdelivered(r, q)

-----------------------------------------------------------------------------
(* The rest of a turn *)

(* defect: a subcoordinator does not tell itself *)
NotifiesOthers(r) ==
    ~rank[r].sentFinished /\ rank[r].m_FinishedWriting /\ rank[r].m_TargetCoordinator # r

(* main has finished writing, and its target is to be told. *)
Notifies(r) == ~rank[r].sentFinished /\ rank[r].m_FinishedWriting
Completion(r) ==
    To(IF Notifies(r) THEN {rank[r].m_TargetCoordinator} ELSE {},
       [type |-> "WRITE_COMPLETION", offset |-> rank[r].m_DataPos])

NobodyWrites(r) == r \in SubCoords /\ sc[r].writingRank = NoRank

Dispatches(r) == NobodyWrites(r) /\ sc[r].writerQueue # <<>>
TurnsIdle(r)  == NobodyWrites(r) /\ sc[r].writerQueue = <<>> /\ ~sc[r].sentIdle
NextWriter(r) == Head(sc[r].writerQueue)

Reports(r) == IF sc[r].atCapacity THEN "WRITER_CAPACITY" ELSE "WRITER_IDLE"

(* The next writer of the group is told to write: by a message, or directly if *)
(* it is the subcoordinator itself.                                            *)
Orders(r) ==
    IF Dispatches(r)
    THEN To({NextWriter(r)} \ {r}, [type |-> "DO_WRITE", index |-> rank[r].m_SubStreamIndex,
                                    offset |-> sc[r].currentFilePos])
    ELSE IF TurnsIdle(r)
    THEN To({GlobalCoord}, [type |-> Reports(r), index |-> rank[r].m_SubStreamIndex])
    ELSE Nothing

Dispatch(r) ==
    sc' = [sc EXCEPT ![r] =
        IF Dispatches(r)
        THEN [@ EXCEPT !.writingRank = NextWriter(r), !.writerQueue = Tail(sc[r].writerQueue),
                       !.expectingWriteCompletion = TRUE]
        ELSE [@ EXCEPT !.sentIdle = sc[r].sentIdle \/ TurnsIdle(r)]]

InState(status) == {g \in Groups : gc.groupState[g] = status}
Finished == InState("IDLE") \cup InState("CAPACITY") = Groups

(* StateTraversal: where its two searches start from changes with every turn of *)
(* the loop, so any pair may be found.                                          *)
FindNextPair == InState("IDLE") \X InState("WRITING")

Searches(r) == r = GlobalCoord /\ ~gc.waitingForCloseAcks
Reroutes(r) == Searches(r) /\ FindNextPair # {}

Closes(r) == Searches(r) /\ Finished /\ gc.groupIdlesNeeded = {}

(* The global coordinator asks a group to give a writer away to an idle group, *)
(* or closes all groups, its own without a message.                            *)
Coordinate(r, idle, writing) ==
    LET needed  == IF Closes(r) THEN gc.closeAcksNeeded \ {r} ELSE gc.closeAcksNeeded
        waiting == gc.waitingForCloseAcks \/ Closes(r)
    IN  gc' = IF r # GlobalCoord THEN gc
              ELSE [gc EXCEPT
                       !.groupState = IF Reroutes(r)
                                      THEN [@ EXCEPT ![idle] = "PENDING", ![writing] = "PENDING"]
                                      ELSE @,
                       !.closeAcksNeeded = needed,
                       !.waitingForCloseAcks = waiting /\ needed # {}]

Coordination(r, idle, writing) ==
    IF Reroutes(r)
    THEN To({SubCoord(writing)}, [type |-> "REROUTE_REQUEST", src |-> SubCoord(writing),
                                  dest |-> SubCoord(idle), rank |-> NoRank])
    ELSE IF Closes(r)
    THEN To(SubCoords \ {r}, [type |-> "GROUP_CLOSE"])
    ELSE Nothing

(* defect: a subcoordinator leaves when its group is closed, whoever writes *)
KeepsGoingUntilClosed(r) ==
    IF r \notin SubCoords THEN ~rank[r].receivedGroupClose /\ ~Notifies(r)
    ELSE \/ ~rank[r].receivedGroupClose /\ ~Closes(r)
         \/ r = GlobalCoord /\ gc'.waitingForCloseAcks

(* A rank that only writes leaves the loop when it has told that it is done; a *)
(* subcoordinator when its group is closed and nobody writes for it any more.  *)
KeepsGoing(r) ==
    IF r \notin SubCoords THEN ~rank[r].receivedGroupClose /\ ~Notifies(r)
    ELSE \/ ~rank[r].receivedGroupClose /\ ~Closes(r)
         \/ sc'[r].expectingWriteCompletion
         \/ r = GlobalCoord /\ gc'.waitingForCloseAcks

(* What is left of a turn: tell that main is done; dispatch or turn idle; *)
(* coordinate; and leave, with the position of the group's subfile.       *)
Work(r) ==
    \E idle, writing \in Groups :
        /\ IF Reroutes(r) THEN <<idle, writing>> \in FindNextPair ELSE idle = 1 /\ writing = 1
        /\ channel' = Exchanged(r, NoRank, [to \in Rank |->
               Completion(r)[to] \o Orders(r)[to] \o Coordination(r, idle, writing)[to]])
        /\ Dispatch(r)
        /\ Coordinate(r, idle, writing)
        /\ LET itself == Dispatches(r) /\ NextWriter(r) = r
               told   == IF itself
                         THEN [rank[r] EXCEPT !.m_TargetIndex = rank[r].m_SubStreamIndex,
                                              !.m_TargetCoordinator = r, !.m_ReadyToWrite = TRUE,
                                              !.m_DataPos = sc[r].currentFilePos]
                         ELSE rank[r]
           IN  rank' = [rank EXCEPT ![r] =
                   [told EXCEPT !.sentFinished = @ \/ Notifies(r),
                                !.receivedGroupClose = @ \/ Closes(r),
                                !.looping = KeepsGoing(r),
                                !.m_DataPos = IF r \in SubCoords /\ ~KeepsGoing(r)
                                              THEN sc[r].currentFilePos ELSE @]]
        /\ turn' = NoRank
        /\ UNCHANGED <<callVars, token>>

FinishTurn(r) == turn = r /\ Work(r)

(* A turn that finds no message; one that has nothing to do either is left out. *)
ProbeNothing(r) ==
    /\ turn = NoRank /\ rank[r].looping
    /\ \/ Notifies(r) \/ Dispatches(r) \/ TurnsIdle(r) \/ Reroutes(r) \/ Closes(r)
       \/ r = GlobalCoord /\ gc.waitingForCloseAcks /\ gc.closeAcksNeeded = {}
    /\ Work(r)

-----------------------------------------------------------------------------
(* The main thread *)

Padding(pos) == (StripeSize - (pos % StripeSize)) % StripeSize

OwnStep == UNCHANGED <<channel, turn, callVars, sc, gc>>

(* WriteData_WithRerouting: main is told to write, to whichever subfile. *)
WriteV(r) ==
    /\ turn = NoRank /\ rerouting
    /\ rank[r].main = "wait" /\ rank[r].m_ReadyToWrite
    /\ rank' = [rank EXCEPT ![r] =
           [@ EXCEPT !.main = "write", !.m_SubStreamIndex = rank[r].m_TargetIndex,
                     !.m_StartDataPos = rank[r].m_DataPos + Padding(rank[r].m_DataPos)]]
    /\ OwnStep /\ UNCHANGED token

FinishWriting(r) ==
    /\ turn = NoRank /\ rerouting
    /\ rank[r].main = "write"
    /\ rank' = [rank EXCEPT ![r] =
           [@ EXCEPT !.main = "join", !.m_FinishedWriting = TRUE,
                     !.m_DataPos = rank[r].m_StartDataPos + size[r]]]
    /\ OwnStep /\ UNCHANGED token

Join(r) ==
    /\ turn = NoRank /\ rerouting
    /\ rank[r].main = "join" /\ ~rank[r].looping
    /\ rank' = [rank EXCEPT ![r].main = "done"]
    /\ OwnStep /\ UNCHANGED token

(* WriteData_EveryoneWrites with serialized writers: the chain of r's group *)
Chain(r)     == Partition(GroupOf(r))
ChainRank(r) == CHOOSE i \in DOMAIN Chain(r) : Chain(r)[i] = r
IsFirst(r)   == ChainRank(r) = 1
IsLast(r)    == ChainRank(r) = Len(Chain(r))

ChainWriteV(r) ==
    LET pos == IF ~IsFirst(r) THEN token[r]
               ELSE IF rank[r].m_DataPosShared THEN m_SubstreamDataPos[GroupOf(r)]
               ELSE rank[r].m_DataPos
        from == pos + Padding(pos)
    IN  /\ ~rerouting /\ rank[r].main = "wait"
        /\ IsFirst(r) \/ token[r] # NoToken
        /\ rank' = [rank EXCEPT ![r] =
               [@ EXCEPT !.main = "write", !.m_StartDataPos = from,
                         !.m_DataPos = from + size[r],
                         !.m_DataPosShared = rank[r].m_DataPosShared /\ ~IsFirst(r)]]
        /\ token' = [token EXCEPT ![r] = NoToken]
        /\ OwnStep

(* The token goes on to the next rank, or from the last back to the first. *)
ChainPass(r) ==
    LET next == IF IsLast(r) THEN 1 ELSE ChainRank(r) + 1
    IN  /\ ~rerouting /\ rank[r].main = "write"
        /\ token' = IF Len(Chain(r)) = 1 THEN token
                    ELSE [token EXCEPT ![Chain(r)[next]] = rank[r].m_DataPos]
        /\ rank' = [rank EXCEPT ![r].main =
               IF IsFirst(r) /\ Len(Chain(r)) > 1 THEN "join" ELSE "done"]
        /\ OwnStep

ChainReturn(r) ==
    /\ ~rerouting /\ rank[r].main = "join" /\ token[r] # NoToken
    /\ rank' = [rank EXCEPT ![r].main = "done", ![r].m_DataPos = token[r]]
    /\ token' = [token EXCEPT ![r] = NoToken]
    /\ OwnStep

AllDone == \A r \in Rank : rank[r].main = "done"

(* All ranks have returned, and write again, if a step has ended as part of the *)
(* next: the positions of the subfiles are shared, and the ranks are partitioned *)
(* by the size of their data in its first block.                                 *)
NextCall ==
    LET endsStep == block = Len(plan.steps[step])
        reached  == [g \in Groups |-> rank[SubCoord(g)].m_DataPos]
        shares(r) == endsStep \/ rank[r].m_DataPosShared
        pos(p) == [g \in Groups |-> LET r == p.m_Partitions[g][1]
                                    IN  IF shares(r) THEN m_SubstreamDataPos'[g] ELSE rank[r].m_DataPos]
    IN  /\ AllDone /\ ~(endsStep /\ step = Len(plan.steps))
        /\ step' = IF endsStep THEN step + 1 ELSE step
        /\ block' = IF endsStep THEN 1 ELSE block + 1
        /\ m_SubstreamDataPos' = IF endsStep THEN reached ELSE m_SubstreamDataPos
        /\ m_Partitioning' \in IF endsStep
                               THEN PartitionGreedily(plan.steps[step'][block'], plan.NumSubFiles)
                               ELSE {m_Partitioning}
        /\ start' = reached
        /\ LET coordinates(r) == Reroutable(step') /\ \E g \in Groups : m_Partitioning'.m_Partitions[g][1] = r
           IN  rank' = [r \in Rank |->
                           WaitingRank(m_Partitioning', Reroutable(step'), r, rank[r].m_DataPos,
                                       shares(r) /\ ~coordinates(r))]
        /\ sc' = SubCoordinators(m_Partitioning', Reroutable(step'), pos(m_Partitioning'))
        /\ gc' = GlobalCoordinator(m_Partitioning', Reroutable(step'))
        /\ UNCHANGED <<channel, turn, plan, token>>

Terminated ==
    /\ AllDone /\ step = Len(plan.steps) /\ block = Len(plan.steps[step])
    /\ UNCHANGED vars

Comm(r) == (\E q \in Rank : Receive(r, q)) \/ FinishTurn(r) \/ ProbeNothing(r)
Main(r) ==
    \/ WriteV(r) \/ FinishWriting(r) \/ Join(r)
    \/ ChainWriteV(r) \/ ChainPass(r) \/ ChainReturn(r)

Next == (\E r \in Rank : Comm(r) \/ Main(r)) \/ NextCall \/ Terminated

Spec == Init /\ [][Next]_vars

(* Threads run and messages arrive.  No fairness between ranks is needed: what *)
(* is left out of a turn that finds nothing to do, nothing goes on forever.    *)
FairSpec == Spec /\ WF_vars(Next)
=============================================================================
