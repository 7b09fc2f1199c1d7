------------------------------ MODULE SstReader ------------------------------
(***************************************************************************)
(* The control plane of an SST reader cohort (toolkit/sst/cp/cp_reader.c): *)
(* the metadata queue of each rank, BeginStep in the Min and the Peer      *)
(* communication pattern, with and without a timeout and in the mode that  *)
(* provides the latest step, the release of steps, and close; against the  *)
(* network thread's handlers for metadata, the writer's close and a lost   *)
(* connection.                                                             *)
(*                                                                         *)
(* A rank has two threads, main and net, and one lock (Stream->DataLock).  *)
(* The lock is given up where the code waits on the condition variable and *)
(* in releasePriorTimesteps around each message it sends, and nowhere else *)
(* in the actions below.                                                   *)
(*                                                                         *)
(* The writer is the environment.  What it sends is one log, of which each *)
(* reader rank with a writer peer sees a growing prefix: connections are   *)
(* FIFO, and independent of one another.                                   *)
(***************************************************************************)
EXTENDS Integers, Sequences, FiniteSets, SequencesExt

CONSTANTS
    CohortSize,            \* the ranks of the reader cohort are 0 .. CohortSize - 1
    Configs                \* what a stream may be opened with, and against

Configuration ==
    [(* the parameters of the stream, and the timeout_sec of each BeginStep: -1 is "none" *)
     CPCommPattern : {"Min", "Peer"},
     AlwaysProvideLatestTimestep : BOOLEAN,
     StepDistributionMode : {"AllToAll", "OnDemand"},
     Timeout : {"none", "zero", "some"},
     (* bounds: steps the writer produces, calls of BeginStep per rank *)
     MaxSteps : Nat, MaxCalls : Nat,
     (* the writer: whether it discards steps, and when it may fail *)
     Discards : BOOLEAN,
     WriterFails : {"never", "established", "any"}]

ASSUME ReaderAssumption ==
    /\ CohortSize \in Nat \ {0}
    /\ \A c \in Configs : c \in Configuration

VARIABLES
    config,                \* Stream->ConfigParams and the environment: never changes
    (* the writer and the connections *)
    log,                   \* what the writer has sent
    writerUp, response,    \* the process lives; it has answered the registration
    arrived,               \* how much of the log each rank's handler has seen
    CMconn,                \* per rank: "none" | "up" | "watched" (has a close handler) | "lost"
    (* per rank (struct _SstStream) *)
    Status, Timesteps, DiscardPriorTimestep, FinalTimestep, ReaderTimestep,
    CurrentWorkingTimestep,
    formats,               \* the steps whose formats are in InternalMetaMetaInfo
    InternalAttrDataInfo,  \* the steps whose attribute blocks are listed, in list order
    AttrsRetrieved,
    (* the threads of each rank *)
    lock, pc, npc, walk, asleep,
    timer,                 \* "off" | "set" | "fired": the delayed task triggerDataCondition
    (* the collectives *)
    contribution, decision,
    (* what the application and the writer see *)
    inStep, results, released, requests,
    freedTouched           \* a thread has used a list entry after it was freed

writerVars  == <<log, writerUp, response>>
queueVars   == <<Timesteps, DiscardPriorTimestep>>
infoVars    == <<formats, InternalAttrDataInfo, AttrsRetrieved>>
statusVars  == <<Status, FinalTimestep>>
stepVars    == <<ReaderTimestep, CurrentWorkingTimestep>>
collVars    == <<contribution, decision>>
outVars     == <<inStep, results, released, requests>>
threadVars  == <<lock, pc, npc, walk, asleep, timer>>
streamVars  == <<queueVars, infoVars, statusVars, stepVars>>
vars == <<config, writerVars, arrived, CMconn, streamVars, threadVars, collVars, outVars, freedTouched>>

CPCommPattern == config.CPCommPattern
AlwaysProvideLatestTimestep == config.AlwaysProvideLatestTimestep
StepDistributionMode == config.StepDistributionMode
Timeout  == config.Timeout
MaxSteps == config.MaxSteps
MaxCalls == config.MaxCalls

Rank     == 0 .. CohortSize - 1
Peered   == IF CPCommPattern = "Peer" THEN Rank ELSE {0}   \* ranks with a writer peer
Infinity == MaxSteps                                       \* SSIZE_T_MAX
Nothing  == -1                                             \* no step; no list entry
Special  == Timeout # "none" \/ AlwaysProvideLatestTimestep

Goto(r, p)  == pc' = [pc EXCEPT ![r] = p]
Lock(r, th) == lock[r] = "free" /\ lock' = [lock EXCEPT ![r] = th]
Unlock(r)   == lock' = [lock EXCEPT ![r] = "free"]
NoLock(r)   == lock[r] = "free" /\ UNCHANGED lock   \* taken and given up in one step
Holds(r)    == lock[r] = "main" /\ UNCHANGED lock

(* defect: the signal goes out before the condition holds *)
SignalTooEarly(r) == UNCHANGED asleep

Signal(r)   == asleep' = [asleep EXCEPT ![r] = FALSE]

(* A receiver in releasePriorTimesteps: next and last are its local pointers. *)
Walker(next, latest) == [next |-> next, last |-> Nothing, latest |-> latest]
Resting == Walker(Nothing, Nothing)

-----------------------------------------------------------------------------
(* The metadata queue *)

Steps(q)      == {q[i].Timestep : i \in DOMAIN q}
Head0(q)      == IF q = <<>> THEN Nothing ELSE q[1].Timestep
Position(q, t) == CHOOSE i \in DOMAIN q : q[i].Timestep = t
Following(q, t) == Head0(SubSeq(q, Position(q, t) + 1, Len(q)))

(* The entries of q at the positions in I, in the order of q *)
Selected(q, I) ==
    LET upTo[n \in 0..Len(q)] ==
            IF n = 0 THEN <<>>
            ELSE IF n \in I THEN Append(upTo[n - 1], q[n]) ELSE upTo[n - 1]
    IN  upTo[Len(q)]

(* defect: everything up to the step goes, and the one after it *)
WithoutThrough(q, t) == Selected(q, {i \in DOMAIN q : q[i].Timestep > t + 1})

Without(q, t) == Selected(q, {i \in DOMAIN q : q[i].Timestep # t})

MaxQueuedMetadata(r) ==
    IF Timesteps[r] = <<>> THEN Nothing
    ELSE CHOOSE t \in Steps(Timesteps[r]) : \A u \in Steps(Timesteps[r]) : u <= t

NextQueuedMetadata(r) ==
    IF Timesteps[r] = <<>> THEN Nothing
    ELSE CHOOSE t \in Steps(Timesteps[r]) : \A u \in Steps(Timesteps[r]) : t <= u

(* defect: the formats are dropped with the attributes that were given out *)
InstallPreciousDropping(r, ts) ==
    /\ formats' = [formats EXCEPT ![r] = IF AttrsRetrieved[r] THEN ToSet(ts) ELSE @ \cup ToSet(ts)]
    /\ InternalAttrDataInfo' = [InternalAttrDataInfo EXCEPT ![r] =
           IF ts = <<>> THEN @ ELSE IF AttrsRetrieved[r] THEN ts ELSE @ \o ts]
    /\ AttrsRetrieved' = [AttrsRetrieved EXCEPT ![r] = @ /\ ts = <<>>]

(* defect: new blocks go to the front of the list *)
InstallPreciousFirst(r, ts) ==
    /\ formats' = [formats EXCEPT ![r] = @ \cup ToSet(ts)]
    /\ InternalAttrDataInfo' = [InternalAttrDataInfo EXCEPT ![r] =
           IF ts = <<>> THEN @ ELSE IF AttrsRetrieved[r] THEN Reverse(ts) ELSE Reverse(ts) \o @]
    /\ AttrsRetrieved' = [AttrsRetrieved EXCEPT ![r] = @ /\ ts = <<>>]

(* AddFormatsToMetaMetaInfo and AddAttributesToAttrDataList, for a list of steps *)
InstallPrecious(r, ts) ==
    /\ formats' = [formats EXCEPT ![r] = @ \cup ToSet(ts)]
    /\ InternalAttrDataInfo' = [InternalAttrDataInfo EXCEPT ![r] =
           IF ts = <<>> THEN @ ELSE IF AttrsRetrieved[r] THEN ts ELSE @ \o ts]
    /\ AttrsRetrieved' = [AttrsRetrieved EXCEPT ![r] = @ /\ ts = <<>>]

(* sendOneToEachWriterRank of a ReleaseTimestep message *)
Release(r, t) == released' = [released EXCEPT ![r][t] = @ + 1]

-----------------------------------------------------------------------------
(* releasePriorTimesteps: the walk stops at each entry it removes, because the *)
(* lock is given up to send the release.                                      *)

(* defect: the step the application is working on is released, too *)
ReleasableInUse(r, t, latest) == t < latest

Releasable(r, t, latest) == t < latest /\ t # CurrentWorkingTimestep[r]

(* The application installs the attribute blocks it was given without a lock, *)
(* and the next block that is added after they were given out frees them.      *)
FreedBy(r, th) ==
    IF th = "net" /\ pc[r] = "install" /\ InternalAttrDataInfo[r] # <<>> THEN {"attributes"} ELSE {}

(* The pointers the next turn of the loop dereferences are freed entries. *)
Dangling(r, w) ==
    /\ w.next # Nothing
    /\ w.next \notin Steps(Timesteps[r])

WalkTurn(r, th) ==
    LET q == Timesteps[r]
        w == walk[r][th]
        ahead == IF w.next = Nothing \/ Dangling(r, w) THEN <<>>
                 ELSE SubSeq(q, Position(q, w.next), Len(q))
        stops == {i \in DOMAIN ahead : Releasable(r, ahead[i].Timestep, w.latest)}
        i == CHOOSE i \in stops : \A j \in stops : i <= j
        this == ahead[i].Timestep
        last == IF i = 1 THEN w.last ELSE ahead[i - 1].Timestep
    IN  IF stops = {}
        THEN /\ walk' = [walk EXCEPT ![r][th] = Resting]
             /\ freedTouched' = freedTouched \cup (IF Dangling(r, w) THEN {"entry"} ELSE {})
             /\ UNCHANGED <<Timesteps, infoVars, released>>
        ELSE /\ walk' = [walk EXCEPT ![r][th] =
                    [@ EXCEPT !.next = Following(q, this), !.last = last]]
             /\ freedTouched' = freedTouched \cup FreedBy(r, th)
                    \cup (IF last \in Steps(q) \cup {Nothing} THEN {} ELSE {"entry"})
             /\ Timesteps' = [Timesteps EXCEPT ![r] = Without(q, this)]
             /\ InstallPrecious(r, <<this>>)
             /\ Release(r, this)

WalkDone(r, th) == walk'[r][th] = Resting

-----------------------------------------------------------------------------
(* SstReaderOpen *)

(* Rank 0 has the writer's response, or the news that there will be none, and *)
(* distributes it.  Without a response it returns from the call, alone.       *)
OpenResponse(r) ==
    /\ pc[r] = "opening"
    /\ \/ /\ response /\ (r = 0 \/ pc[0] # "opening")
          /\ Goto(r, "wait_peers")
          /\ UNCHANGED results
       \/ /\ r = 0 /\ ~response /\ ~writerUp
          /\ Goto(r, "done")
          /\ results' = [results EXCEPT ![r] = Append(@, [status |-> "NoStream", step |-> Nothing])]
    /\ UNCHANGED <<writerVars, arrived, CMconn, streamVars, lock, npc, walk, asleep, timer,
                   collVars, inStep, released, requests, freedTouched>>

HasAllPeers(r) == CPCommPattern = "Peer" => CMconn[r] # "none"

(* The rest of the call runs under the lock, from the last peer on. *)
OpenEstablish(r) ==
    /\ pc[r] = "wait_peers" /\ HasAllPeers(r)
    /\ NoLock(r)
    /\ CMconn' = IF CPCommPattern = "Min" /\ r = 0 /\ CMconn[r] = "up"
                 THEN [CMconn EXCEPT ![r] = "watched"] ELSE CMconn
    /\ Status' = [Status EXCEPT ![r] = "Established"]
    /\ Goto(r, "user")
    /\ UNCHANGED <<writerVars, arrived, queueVars, infoVars, FinalTimestep, stepVars, npc, walk,
                   asleep, timer, collVars, outVars, freedTouched>>

-----------------------------------------------------------------------------
(* SstAdvanceStep *)

Finish(r, status, t) ==
    /\ results' = [results EXCEPT ![r] = Append(@, [status |-> status, step |-> t])]
    /\ inStep' = [inStep EXCEPT ![r] = status = "OK"]
    /\ Goto(r, "user")

NextCall(r) == Len(results[r]) < MaxCalls
Ended(r) == results[r] # <<>> /\ Last(results[r]).status \in {"EndOfStream", "FatalError"}

(* Rank 0 broadcasts what it decided.  A broadcast does not wait for its *)
(* receivers, so rank 0 may be a few calls ahead of them.                *)
Distribute(v) == decision' = [q \in Rank |-> IF q = 0 THEN <<>> ELSE Append(decision[q], v)]

Asks(r) == IF StepDistributionMode = "OnDemand" /\ r \in Peered THEN 1 ELSE 0

(* The call up to its first collective or wait.  A rank that only follows    *)
(* rank 0 gives the lock up; rank 0, and every rank that waits on its own    *)
(* connection, keep it.                                                      *)
BeginStep(r) ==
    /\ pc[r] = "user" /\ ~inStep[r] /\ NextCall(r) /\ ~Ended(r)
    /\ requests' = [requests EXCEPT ![r] = @ + Asks(r)]
    /\ \/ /\ CPCommPattern = "Peer" /\ Special
          /\ contribution' = [contribution EXCEPT ![r] = <<MaxQueuedMetadata(r)>>]
          /\ IF r = 0 THEN Goto(r, "gather") /\ Lock(r, "main")
                      ELSE Goto(r, "bcast") /\ NoLock(r)
          /\ UNCHANGED <<decision, inStep, results>>
       \/ /\ CPCommPattern = "Min" /\ r # 0
          /\ Goto(r, "bcast") /\ NoLock(r)
          /\ UNCHANGED <<contribution, decision, inStep, results>>
       \/ /\ CPCommPattern = "Min" /\ r = 0 /\ Special
          /\ Goto(r, "gather") /\ Lock(r, "main")
          /\ UNCHANGED <<contribution, decision, inStep, results>>
       \/ /\ ~Special /\ (CPCommPattern = "Peer" \/ (r = 0 /\ Status[r] # "PeerFailed"))
          /\ Goto(r, "next") /\ Lock(r, "main")
          /\ UNCHANGED <<contribution, decision, inStep, results>>
       \/ /\ ~Special /\ CPCommPattern = "Min" /\ r = 0 /\ Status[r] = "PeerFailed"
          /\ NoLock(r) /\ Finish(r, "FatalError", Nothing)
          /\ Distribute([status |-> "FatalError", step |-> Nothing])
          /\ UNCHANGED contribution
    /\ UNCHANGED <<writerVars, arrived, CMconn, streamVars, npc, walk, asleep, timer,
                   released, freedTouched>>

(* The step rank 0 settles on when some rank has steps queued *)
Biggest  == LET all == {contribution[q][1] : q \in Rank}
            IN  CHOOSE t \in all : \A u \in all : u <= t
Smallest == LET all == {contribution[q][1] : q \in Rank}
            IN  CHOOSE t \in all : \A u \in all : t <= u

Gathered == CPCommPattern = "Min" \/ \A q \in Rank : contribution[q] # <<>>

Chosen(r) ==
    CASE CPCommPattern = "Peer" ->
            IF AlwaysProvideLatestTimestep THEN Biggest ELSE Smallest
      [] CPCommPattern = "Min" ->
            IF AlwaysProvideLatestTimestep THEN MaxQueuedMetadata(r) ELSE NextQueuedMetadata(r)

AllQueuesEmpty(r) == IF CPCommPattern = "Peer" THEN Biggest = Nothing
                                               ELSE MaxQueuedMetadata(r) = Nothing

Outcome(r, t) ==
    CASE Status[r] = "PeerFailed" /\ (CPCommPattern = "Min" \/ t = Nothing) -> "FatalError"
      [] Status[r] = "PeerClosed" /\ t = Nothing -> "EndOfStream"
      [] Status[r] \notin {"PeerFailed", "PeerClosed"} /\ t = Nothing -> "Timeout"
      [] OTHER -> "OK"

(* defect: each rank skips to the newest step it has itself *)
AdoptOwnLatest(r, t) ==
    /\ lock' = [lock EXCEPT ![r] = "main"]
    /\ DiscardPriorTimestep' = [DiscardPriorTimestep EXCEPT ![r] = MaxQueuedMetadata(r)]
    /\ walk' = [walk EXCEPT ![r]["main"] = Walker(Head0(Timesteps[r]), MaxQueuedMetadata(r))]
    /\ Goto(r, "walk")
    /\ UNCHANGED <<inStep, results>>

(* What a rank does with the decision for step t; the lock is held from here. *)
Adopt(r, t) ==
    /\ lock' = [lock EXCEPT ![r] = "main"]
    /\ IF AlwaysProvideLatestTimestep
       THEN /\ DiscardPriorTimestep' = [DiscardPriorTimestep EXCEPT ![r] = t]
            /\ walk' = [walk EXCEPT ![r]["main"] = Walker(Head0(Timesteps[r]), t)]
            /\ Goto(r, "walk")
       ELSE /\ Goto(r, "next")
            /\ UNCHANGED <<DiscardPriorTimestep, walk>>
    /\ UNCHANGED <<inStep, results>>

(* ... and with the decision to return without a step.  In the Peer pattern *)
(* every rank takes over the status of rank 0.                              *)
GiveUp(r, status) ==
    /\ Finish(r, status, Nothing)
    /\ Unlock(r)
    /\ UNCHANGED <<DiscardPriorTimestep, walk>>

AdoptStatus(r, status) ==
    Status' = IF CPCommPattern = "Min" THEN Status
              ELSE [Status EXCEPT ![r] = CASE status = "EndOfStream" -> "PeerClosed"
                                           [] status = "FatalError" -> "PeerFailed"
                                           [] OTHER -> @]

Decide(r, t) ==
    LET status == Outcome(r, t)
    IN  /\ IF status = "OK" THEN Adopt(r, t) ELSE GiveUp(r, status)
        /\ AdoptStatus(r, status)
        /\ contribution' = [q \in Rank |-> <<>>]
        /\ IF status = "OK" /\ CPCommPattern = "Min" THEN UNCHANGED decision
           ELSE Distribute([status |-> status, step |-> t])

(* Rank 0, once it has everyone's latest step, under its lock *)
GatherDecide(r) ==
    /\ pc[r] = "gather" /\ Gathered
    /\ IF AllQueuesEmpty(r) /\ Timeout # "zero"
       THEN /\ Goto(r, "timedwait")
            /\ timer' = [timer EXCEPT ![r] = IF Timeout = "some" THEN "set" ELSE @]
            /\ UNCHANGED <<lock, walk, DiscardPriorTimestep, Status, collVars, inStep, results>>
       ELSE /\ Decide(r, IF AllQueuesEmpty(r) THEN Nothing ELSE Chosen(r))
            /\ UNCHANGED timer
    /\ UNCHANGED <<writerVars, arrived, CMconn, Timesteps, infoVars, FinalTimestep, stepVars, npc,
                   asleep, released, requests, freedTouched>>

(* main may go on: it holds the lock, or it was woken and can have it *)
Runs(r) == ~asleep[r] /\ lock[r] # "net"

Sleep(r) == asleep' = [asleep EXCEPT ![r] = TRUE] /\ Unlock(r)

WaitOver(r) == Timesteps[r] # <<>> \/ Status[r] # "Established" \/ timer[r] = "fired"

(* waitForMetadataWithTimeout, each time around its loop.  The delayed task is *)
(* removed when there is metadata, and forgotten in the other cases.           *)
TimedWait(r) ==
    /\ pc[r] = "timedwait" /\ Runs(r)
    /\ IF WaitOver(r)
       THEN /\ Decide(r, MaxQueuedMetadata(r))
            /\ timer' = [timer EXCEPT ![r] =
                   IF Timesteps[r] = <<>> /\ @ = "set" THEN "stale" ELSE "off"]
            /\ UNCHANGED asleep
       ELSE /\ Sleep(r)
            /\ UNCHANGED <<pc, walk, timer, DiscardPriorTimestep, Status, collVars, inStep, results>>
    /\ UNCHANGED <<writerVars, arrived, CMconn, Timesteps, infoVars, FinalTimestep, stepVars, npc,
                   released, requests, freedTouched>>

(* main in releasePriorTimesteps, called for the step that was settled on *)
WalkMain(r) ==
    /\ pc[r] = "walk" /\ Runs(r)
    /\ WalkTurn(r, "main")
    /\ IF WalkDone(r, "main")
       THEN IF CPCommPattern = "Min" /\ Status[r] = "PeerFailed"
            THEN /\ Finish(r, "FatalError", Nothing) /\ Unlock(r)
                 /\ Distribute([status |-> "FatalError", step |-> Nothing])
            ELSE /\ Goto(r, "next") /\ lock' = [lock EXCEPT ![r] = "main"]
                 /\ UNCHANGED <<decision, inStep, results>>
       ELSE /\ Unlock(r) /\ UNCHANGED <<pc, decision, inStep, results>>
    /\ UNCHANGED <<writerVars, arrived, CMconn, DiscardPriorTimestep, statusVars, stepVars, npc,
                   asleep, timer, contribution, requests>>

(* An entry without metadata, or one that was released when it arrived *)
Discardable(r, e) == ~e.Metadata \/ e.Timestep < DiscardPriorTimestep[r]

Wanted(r, e) == ~Discardable(r, e) /\ e.Timestep > ReaderTimestep[r]

StreamOver(r) ==
    \/ Status[r] # "Established"
    \/ FinalTimestep[r] # Infinity /\ FinalTimestep[r] >= ReaderTimestep[r]

FinalStatus(r) == IF Status[r] = "PeerClosed" THEN "EndOfStream" ELSE "FatalError"

Tell(v) == IF CPCommPattern = "Min" THEN Distribute(v) ELSE UNCHANGED decision

(* waitForNextMetadata, each time around its loop, and the rest of the call.  *)
(* Entries before the one that is found, and all if none is, are dropped when *)
(* there is nothing in them to deliver.                                       *)
NextMetadata(r) ==
    LET q == Timesteps[r]
        found == {i \in DOMAIN q : Wanted(r, q[i])}
        at == IF found = {} THEN Len(q) + 1 ELSE CHOOSE i \in found : \A j \in found : i <= j
        dropped == {i \in DOMAIN q : i < at /\ Discardable(r, q[i])}
        precious == Selected([i \in DOMAIN q |-> q[i].Timestep], dropped)
    IN  /\ pc[r] = "next" /\ Runs(r)
        /\ Timesteps' = [Timesteps EXCEPT ![r] = Selected(q, DOMAIN q \ dropped)]
        /\ IF found # {}
           THEN /\ CurrentWorkingTimestep' = [CurrentWorkingTimestep EXCEPT ![r] = q[at].Timestep]
                /\ ReaderTimestep' = [ReaderTimestep EXCEPT ![r] = q[at].Timestep]
                /\ InstallPrecious(r, Append(precious, q[at].Timestep))
                /\ Tell([status |-> "OK", step |-> q[at].Timestep])
                /\ Goto(r, "get_attributes") /\ Unlock(r)
                /\ UNCHANGED <<asleep, inStep, results>>
           ELSE /\ InstallPrecious(r, precious)
                /\ UNCHANGED ReaderTimestep
                /\ IF StreamOver(r)
                   THEN /\ CurrentWorkingTimestep' = [CurrentWorkingTimestep EXCEPT ![r] = Nothing]
                        /\ Tell([status |-> FinalStatus(r), step |-> Nothing])
                        /\ Finish(r, FinalStatus(r), Nothing) /\ Unlock(r)
                        /\ UNCHANGED asleep
                   ELSE /\ Sleep(r)
                        /\ UNCHANGED <<CurrentWorkingTimestep, pc, decision, inStep, results>>
        /\ UNCHANGED <<writerVars, arrived, CMconn, DiscardPriorTimestep, statusVars, npc, walk,
                       timer, contribution, released, requests, freedTouched>>

(* A rank other than 0 receives what rank 0 decided. *)
Follow(r) ==
    LET v == decision[r][1]
    IN  /\ pc[r] = "bcast" /\ decision[r] # <<>>
        /\ decision' = [decision EXCEPT ![r] = Tail(@)]
        /\ lock[r] = "free"
        /\ \/ /\ CPCommPattern = "Peer"
              /\ IF v.status = "OK" THEN Adopt(r, v.step) ELSE GiveUp(r, v.status)
              /\ AdoptStatus(r, v.status)
              /\ UNCHANGED <<infoVars, stepVars>>
           \/ /\ CPCommPattern = "Min" /\ v.status = "OK"
              /\ InstallPrecious(r, <<v.step>>)
              /\ ReaderTimestep' = [ReaderTimestep EXCEPT ![r] = v.step]
              /\ CurrentWorkingTimestep' = [CurrentWorkingTimestep EXCEPT ![r] = v.step]
              /\ Goto(r, "get_attributes")
              /\ UNCHANGED <<Status, lock, walk, DiscardPriorTimestep, inStep, results>>
           \/ /\ CPCommPattern = "Min" /\ v.status # "OK"
              /\ Finish(r, v.status, Nothing)
              /\ UNCHANGED <<Status, lock, walk, DiscardPriorTimestep, infoVars, stepVars>>
        /\ UNCHANGED <<writerVars, arrived, CMconn, Timesteps, FinalTimestep, npc, asleep, timer,
                       contribution, released, requests, freedTouched>>

(* The engine takes the attribute blocks, and installs them without the lock. *)
SstGetAttributeData(r) ==
    /\ pc[r] = "get_attributes" /\ NoLock(r)
    /\ AttrsRetrieved' = [AttrsRetrieved EXCEPT ![r] = TRUE]
    /\ Goto(r, "install")
    /\ UNCHANGED <<writerVars, arrived, CMconn, queueVars, formats, InternalAttrDataInfo, statusVars,
                   stepVars, npc, walk, asleep, timer, collVars, outVars, freedTouched>>

InstallAttributes(r) ==
    /\ pc[r] = "install"
    /\ Finish(r, "OK", ReaderTimestep[r])
    /\ UNCHANGED <<writerVars, arrived, CMconn, streamVars, lock, npc, walk, asleep, timer, collVars,
                   released, requests, freedTouched>>

-----------------------------------------------------------------------------
(* SstReleaseStep and SstReaderClose *)

(* FreeTimestep looks at the first entry of the list without asking whether *)
(* there is one.                                                            *)
EndStep(r) ==
    /\ pc[r] = "user" /\ inStep[r]
    /\ NoLock(r)
    /\ IF r \in Peered
       THEN /\ Timesteps' = [Timesteps EXCEPT ![r] = Without(@, ReaderTimestep[r])]
            /\ freedTouched' = freedTouched \cup (IF Timesteps[r] = <<>> THEN {"entry"} ELSE {})
       ELSE UNCHANGED <<Timesteps, freedTouched>>
    /\ Goto(r, "end_barrier")
    /\ UNCHANGED <<writerVars, arrived, CMconn, DiscardPriorTimestep, infoVars, statusVars, stepVars,
                   npc, walk, asleep, timer, collVars, outVars>>

SendRelease(r) ==
    /\ pc[r] = "send_release"
    /\ IF r \in Peered THEN Release(r, ReaderTimestep[r]) ELSE UNCHANGED released
    /\ inStep' = [inStep EXCEPT ![r] = FALSE]
    /\ Goto(r, "user")
    /\ UNCHANGED <<writerVars, arrived, CMconn, streamVars, lock, npc, walk, asleep, timer, collVars,
                   results, requests, freedTouched>>

(* The application closes once the stream has ended, or after MaxCalls calls. *)
SstReaderClose(r) ==
    /\ pc[r] = "user" /\ ~inStep[r] /\ (Ended(r) \/ ~NextCall(r))
    /\ Goto(r, "close_barrier")
    /\ UNCHANGED <<writerVars, arrived, CMconn, streamVars, lock, npc, walk, asleep, timer, collVars,
                   outVars, freedTouched>>

Barriers == {"end_barrier", "close_barrier"}

Barrier ==
    /\ \A r \in Rank : pc[r] \in Barriers
    /\ pc' = [r \in Rank |-> IF pc[r] = "end_barrier" THEN "send_release" ELSE "linger"]
    /\ UNCHANGED <<config, writerVars, arrived, CMconn, streamVars, lock, npc, walk, asleep, timer, collVars,
                   outVars, freedTouched>>

(* The close message, a pause, and SstStreamDestroy *)
SstStreamDestroy(r) ==
    /\ pc[r] = "linger" /\ NoLock(r)
    /\ Status' = [Status EXCEPT ![r] = "Destroyed"]
    /\ Timesteps' = [Timesteps EXCEPT ![r] = <<>>]
    /\ CMconn' = [CMconn EXCEPT ![r] = "lost"]
    /\ Goto(r, "done")
    /\ UNCHANGED <<writerVars, arrived, DiscardPriorTimestep, infoVars, FinalTimestep, stepVars, npc,
                   walk, asleep, timer, collVars, outVars, freedTouched>>

-----------------------------------------------------------------------------
(* The network thread *)

CP_PeerSetupHandler(r) ==
    /\ CPCommPattern = "Peer" /\ CMconn[r] = "none" /\ (writerUp \/ response)
    /\ NoLock(r)
    /\ CMconn' = [CMconn EXCEPT ![r] = "watched"]
    /\ Signal(r)
    /\ UNCHANGED <<writerVars, arrived, streamVars, pc, npc, walk, timer, collVars, outVars,
                   freedTouched>>

(* A message of the writer for this rank, which has activated the stream *)
Incoming(r, kinds) ==
    /\ CMconn[r] = "watched" /\ Status[r] \notin {"NotOpen", "Destroyed"}
    /\ npc[r] = "idle"
    /\ arrived[r] < Len(log) /\ log[arrived[r] + 1].kind \in kinds
    /\ arrived' = [arrived EXCEPT ![r] = @ + 1]

Notice(r) == CPCommPattern = "Peer" /\ log[arrived[r] + 1].kind = "notice"

(* In the Peer pattern the notice that a step was discarded only carries its *)
(* formats and attributes.                                                    *)
DiscardNotice(r) ==
    /\ Incoming(r, {"notice"}) /\ Notice(r)
    /\ NoLock(r)
    /\ InstallPrecious(r, <<log[arrived[r] + 1].Timestep>>)
    /\ freedTouched' = freedTouched \cup FreedBy(r, "net")
    /\ UNCHANGED <<writerVars, CMconn, queueVars, statusVars, stepVars, pc, npc, walk, asleep, timer,
                   collVars, outVars>>

(* defect: the step that was settled on counts as late when it arrives *)
LateReleaseOffByOne(r, t, data) == t <= DiscardPriorTimestep[r] /\ data

(* defect: a step that is late for DiscardPriorTimestep is not released *)
NoLateRelease(r, t, data) == FALSE

LateRelease(r, t, data) == t < DiscardPriorTimestep[r] /\ data

(* queueTimestepMetadataMsgAndNotify; where the newest step is wanted, the   *)
(* network thread goes on to release what it supersedes.                     *)
TimestepMetadata(r) ==
    LET m == log[arrived[r] + 1]
        entry == [Timestep |-> m.Timestep, Metadata |-> m.kind = "step"]
    IN  /\ Incoming(r, {"step", "notice"}) /\ ~Notice(r)
        /\ Timesteps' = [Timesteps EXCEPT ![r] = Append(@, entry)]
        /\ IF LateRelease(r, m.Timestep, entry.Metadata)
           THEN Release(r, m.Timestep) ELSE UNCHANGED released
        /\ Signal(r)
        /\ IF r = 0 /\ CPCommPattern = "Min" /\ AlwaysProvideLatestTimestep
           THEN /\ Lock(r, "net")
                /\ npc' = [npc EXCEPT ![r] = "walk"]
                /\ walk' = [walk EXCEPT ![r]["net"] =
                       Walker(Head0(Timesteps'[r]), m.Timestep)]
           ELSE NoLock(r) /\ UNCHANGED <<npc, walk>>
        /\ UNCHANGED <<writerVars, CMconn, DiscardPriorTimestep, infoVars, statusVars, stepVars, pc,
                       timer, collVars, inStep, results, requests, freedTouched>>

(* the network thread in releasePriorTimesteps *)
WalkNet(r) ==
    /\ npc[r] = "walk" /\ lock[r] # "main"
    /\ WalkTurn(r, "net")
    /\ npc' = [npc EXCEPT ![r] = IF WalkDone(r, "net") THEN "idle" ELSE @]
    /\ Unlock(r)
    /\ UNCHANGED <<writerVars, arrived, CMconn, DiscardPriorTimestep, statusVars, stepVars, pc,
                   asleep, timer, collVars, inStep, results, requests>>

CP_WriterCloseHandler(r) ==
    /\ Incoming(r, {"close"})
    /\ NoLock(r)
    /\ FinalTimestep' = [FinalTimestep EXCEPT ![r] = log[arrived[r] + 1].Timestep]
    /\ Status' = [Status EXCEPT ![r] = "PeerClosed"]
    /\ Signal(r)
    /\ UNCHANGED <<writerVars, CMconn, queueVars, infoVars, stepVars, pc, npc, walk, timer, collVars,
                   outVars, freedTouched>>

(* A connection whose writer is gone is closed, after what it still brings. *)
(* Nothing happens where no close handler is registered, and the handler    *)
(* acts in one status only.                                                 *)
ReaderConnCloseHandler(r) ==
    /\ ~writerUp /\ CMconn[r] \in {"up", "watched"} /\ npc[r] = "idle"
    /\ NoLock(r)
    /\ CMconn' = [CMconn EXCEPT ![r] = "lost"]
    /\ IF CMconn[r] = "watched" /\ Status[r] = "Established"
       THEN Status' = [Status EXCEPT ![r] = "PeerFailed"] /\ Signal(r)
       ELSE UNCHANGED <<Status, asleep>>
    /\ UNCHANGED <<writerVars, arrived, queueVars, infoVars, FinalTimestep, stepVars, pc, npc, walk,
                   timer, collVars, outVars, freedTouched>>

(* The delayed task wakes main; one that was forgotten does, too. *)
triggerDataCondition(r) ==
    /\ timer[r] \in {"set", "stale"}
    /\ NoLock(r)
    /\ timer' = [timer EXCEPT ![r] = IF @ = "set" THEN "fired" ELSE "off"]
    /\ Signal(r)
    /\ UNCHANGED <<writerVars, arrived, CMconn, streamVars, pc, npc, walk, collVars, outVars,
                   freedTouched>>

-----------------------------------------------------------------------------
(* The writer *)

Logged(kinds) == {log[i].Timestep : i \in {j \in DOMAIN log : log[j].kind \in kinds}}
Closed == \E i \in DOMAIN log : log[i].kind = "close"

writerOnly == <<config, arrived, CMconn, streamVars, threadVars, collVars, outVars, freedTouched>>

WriterResponds ==
    /\ writerUp /\ ~response /\ response' = TRUE
    /\ UNCHANGED <<log, writerUp, writerOnly>>

(* The next step is provided, or discarded with a notice.  A writer that *)
(* distributes on demand has a request for each step it sends.           *)
WriterProvides(kind) ==
    /\ writerUp /\ response /\ ~Closed
    /\ Len(log) < MaxSteps
    /\ StepDistributionMode = "OnDemand" => requests[0] > Cardinality(Logged({"step"}))
    /\ log' = Append(log, [kind |-> kind, Timestep |-> Len(log)])
    /\ UNCHANGED <<writerUp, response, writerOnly>>

(* defect: the last step is announced as one too early *)
FinalStepOffByOne == Len(log) - 2

FinalStep == Len(log) - 1

WriterCloses ==
    /\ writerUp /\ response /\ ~Closed
    /\ log' = Append(log, [kind |-> "close", Timestep |-> FinalStep])
    /\ UNCHANGED <<writerUp, response, writerOnly>>

WriterDies ==
    /\ \/ config.WriterFails = "any"
       \/ config.WriterFails = "established" /\ \A r \in Rank : Status[r] # "NotOpen"
    /\ writerUp /\ writerUp' = FALSE
    /\ UNCHANGED <<log, response, writerOnly>>

Writer ==
    \/ WriterResponds
    \/ WriterProvides("step")
    \/ config.Discards /\ WriterProvides("notice")
    \/ WriterCloses
    \/ WriterDies

-----------------------------------------------------------------------------
Main(r) ==
    /\ UNCHANGED config
    /\ \/ OpenResponse(r) \/ OpenEstablish(r)
       \/ BeginStep(r)
       \/ r = 0 /\ GatherDecide(r)
       \/ TimedWait(r) \/ WalkMain(r) \/ NextMetadata(r) \/ Follow(r)
       \/ SstGetAttributeData(r) \/ InstallAttributes(r)
       \/ EndStep(r) \/ SendRelease(r)
       \/ SstReaderClose(r) \/ SstStreamDestroy(r)

Net(r) ==
    /\ UNCHANGED config
    /\ \/ CP_PeerSetupHandler(r)
       \/ DiscardNotice(r) \/ TimestepMetadata(r) \/ WalkNet(r)
       \/ CP_WriterCloseHandler(r) \/ ReaderConnCloseHandler(r)
       \/ triggerDataCondition(r)

Init ==
    /\ config \in Configs
    /\ log = <<>> /\ writerUp = TRUE /\ response = FALSE
    /\ arrived = [r \in Rank |-> 0]
    /\ CMconn = [r \in Rank |-> IF CPCommPattern = "Min" /\ r = 0 THEN "up" ELSE "none"]
    /\ Status = [r \in Rank |-> "NotOpen"]
    /\ Timesteps = [r \in Rank |-> <<>>]
    /\ DiscardPriorTimestep = [r \in Rank |-> Nothing]
    /\ FinalTimestep = [r \in Rank |-> Infinity]
    /\ ReaderTimestep = [r \in Rank |-> Nothing]
    /\ CurrentWorkingTimestep = [r \in Rank |-> Nothing]
    /\ formats = [r \in Rank |-> {}]
    /\ InternalAttrDataInfo = [r \in Rank |-> <<>>]
    /\ AttrsRetrieved = [r \in Rank |-> FALSE]
    /\ lock = [r \in Rank |-> "free"]
    /\ pc = [r \in Rank |-> "opening"]
    /\ npc = [r \in Rank |-> "idle"]
    /\ walk = [r \in Rank |-> [th \in {"main", "net"} |-> Resting]]
    /\ asleep = [r \in Rank |-> FALSE]
    /\ timer = [r \in Rank |-> "off"]
    /\ contribution = [r \in Rank |-> <<>>]
    /\ decision = [r \in Rank |-> <<>>]
    /\ inStep = [r \in Rank |-> FALSE]
    /\ results = [r \in Rank |-> <<>>]
    /\ released = [r \in Rank |-> [t \in 0 .. MaxSteps - 1 |-> 0]]
    /\ requests = [r \in Rank |-> 0]
    /\ freedTouched = {}

(* A use of freed memory ends what can be said of the program (Undefined). *)
Reader ==
    /\ freedTouched = {}
    /\ \/ \E r \in Rank : Main(r) \/ Net(r)
       \/ Barrier

Finished == (\A r \in Rank : pc[r] = "done") /\ UNCHANGED vars
Undefined == freedTouched # {} /\ UNCHANGED vars

Next == Reader \/ (freedTouched = {} /\ Writer) \/ Finished \/ Undefined

(* The threads of the readers run, the network delivers, a delayed task runs, *)
(* and MPI completes; each of them is scheduled by someone else.              *)
ReaderFairness ==
    /\ \A r \in Rank : /\ WF_vars(freedTouched = {} /\ Main(r))
                       /\ WF_vars(freedTouched = {} /\ Net(r))
    /\ WF_vars(freedTouched = {} /\ Barrier)

(* A writer whose application keeps providing steps and closes in the end *)
WriterFairness == WF_vars(freedTouched = {} /\ (WriterResponds \/ WriterProvides("step") \/ WriterCloses))

Spec == Init /\ [][Next]_vars
FairSpec == Spec /\ ReaderFairness /\ WriterFairness
=============================================================================
