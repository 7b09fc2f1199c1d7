------------------------------ MODULE SstWriter ------------------------------
(***************************************************************************)
(* The control plane of an SST writer: the queue of timesteps, the reader  *)
(* cohorts attached to the stream and the two threads that work on them    *)
(* under the stream's DataLock (source/adios2/toolkit/sst/cp/cp_writer.c). *)
(*                                                                         *)
(* "main" is the application's thread inside SstWriterOpen, EndStep        *)
(* (SstInternalProvideTimestep) and SstWriterClose.  "net" is the network  *)
(* thread, which runs one message handler or delayed task at a time.  The  *)
(* writer has one rank, so CommMin and CommPeer coincide and the MPI       *)
(* collectives are local.  A step of the model is what a thread does       *)
(* between two places where the other thread can run: it takes the lock    *)
(* (lock = "none"), or holds it since an earlier step, and gives it up     *)
(* again or stops at a loop head with the lock held.                       *)
(*                                                                         *)
(* Readers are seen through what reaches the writer from them: messages,   *)
(* a closed connection, the result of a CMwrite.  The environment actions  *)
(* at the end say when each can occur.                                     *)
(***************************************************************************)
EXTENDS Integers, FiniteSets, Sequences, FiniteSetsExt

CONSTANTS
    Cohorts,               \* the reader cohorts that may open the stream
    MaxSteps,              \* bound: the application provides at most this many steps
    QueueLimit,            \* engine parameters, as documented in sst.rst
    QueueFullPolicy,
    ReserveQueueLimit,
    FirstTimestepPrecious,
    StepDistributionMode,
    Rendezvous,            \* the RendezvousReaderCount parameter
    Latest,                \* cohorts opened with AlwaysProvideLatestTimestep
    MayLeave,              \* cohorts that may close before the end of the stream
    MayFail                \* cohorts that may crash

Steps == 0 .. MaxSteps - 1

ASSUME ConstantsAssumption ==
    /\ IsFiniteSet(Cohorts)
    /\ MaxSteps \in Nat
    /\ QueueLimit \in Nat
    /\ QueueFullPolicy \in {"Block", "Discard"}
    /\ ReserveQueueLimit \in Nat
    /\ FirstTimestepPrecious \in BOOLEAN
    /\ StepDistributionMode \in {"AllToAll", "RoundRobin", "OnDemand"}
    /\ Rendezvous \in Nat
    /\ Latest \subseteq Cohorts /\ MayLeave \subseteq Cohorts /\ MayFail \subseteq Cohorts

VARIABLES
    (* the stream (struct _SstStream) *)
    Status, WriterTimestep, LastProvidedTimestep, RendezvousReaderCount,
    ReserveCount,          \* ConfigParams->ReserveQueueLimit, zeroed by SstWriterClose
    Readers,               \* Stream->Readers, in order of arrival
    ReaderRegisterQueue, StepRequestQueue,
    NextRRDistribution, LastDemandTimestep, CloseTimestepCount, CloseMessagesSent,
    (* the timestep queue: an entry is a step, the list is in step order *)
    QueuedTimesteps, ReferenceCount, Expired, PreciousTimestep, InProgressFlag,
    Emptied,               \* entries whose Msg->Metadata was set to NULL
    (* per reader (struct _WS_ReaderInfo) *)
    ReaderStatus, StartingTimestep, LastReleasedTimestep, SentTimestepList,
    CMconn, DP_WSR_Stream, \* the readers whose pointer is not NULL
    Delayed,               \* readers with a scheduled CloseWSRStream task
    (* the threads *)
    lock, pc, ret, rdr, step, idx, cursor, newState,
    asleep,                \* main is in STREAM_CONDITION_WAIT and was not signalled
    (* locals of SstInternalProvideTimestep *)
    snapshot, arriving, pending, discard,
    (* the readers, as the writer's network sees them *)
    peer, delivered, received, gotClose, requested

markVars   == <<InProgressFlag, Emptied>>
queueVars  == <<QueuedTimesteps, ReferenceCount, Expired, PreciousTimestep, markVars>>
openVars   == <<Status, RendezvousReaderCount>>
stepVars   == <<WriterTimestep, LastProvidedTimestep>>
distVars   == <<NextRRDistribution, LastDemandTimestep>>
closeVars  == <<CloseTimestepCount, CloseMessagesSent>>
streamVars == <<openVars, stepVars, distVars, closeVars, ReserveCount>>
listVars   == <<Readers, ReaderRegisterQueue, StepRequestQueue>>
linkVars   == <<CMconn, DP_WSR_Stream, Delayed>>
readerVars == <<ReaderStatus, StartingTimestep, LastReleasedTimestep, SentTimestepList,
                linkVars>>
callVars   == <<ret, rdr, step, cursor, newState>>
localVars  == <<snapshot, arriving, pending, discard>>
peerVars   == <<peer, delivered, received, gotClose, requested>>
dataVars   == <<queueVars, streamVars, listVars, readerVars, callVars, localVars, peerVars>>
vars == <<dataVars, lock, pc, idx, asleep>>

Threads  == {"main", "net"}
NoReader == "none"
Departed == {"PeerClosed", "PeerFailed", "Closed"}

Goto(th, p) == pc' = [pc EXCEPT ![th] = p]
Lock(th)    == lock = "none" /\ lock' = th
Unlock      == lock' = "none"
NoLock      == lock = "none" /\ UNCHANGED lock   \* taken and given up in one step

-----------------------------------------------------------------------------
(* Queue maintenance *)

(* The definitions marked "defect" change the one that follows in the way a *)
(* mistake in the code would; the model never uses them.                    *)

(* defect: readers that have left are waited for, too *)
EligibleDeparted(status, last) ==
    {t \in QueuedTimesteps :
        \A r \in Cohorts : status[r] # "NotOpen" => t <= last[r]}

(* The entries no established reader still has to release. *)
Eligible(status, last) ==
    {t \in QueuedTimesteps :
        \A r \in Cohorts : status[r] = "Established" => t <= last[r]}

(* defect: one step too many is tagged *)
PastReserveOffByOne(ref, prec, status, last, reserve) ==
    LET eligible == Eligible(status, last)
        left == reserve - Cardinality({t \in QueuedTimesteps \cap prec : ref[t] = 0})
    IN {t \in eligible : Cardinality({u \in eligible : u >= t}) >= left}

(* Walking from the newest entry, everything eligible past the reserve. *)
PastReserve(ref, prec, status, last, reserve) ==
    LET eligible == Eligible(status, last)
        left == reserve - Cardinality({t \in QueuedTimesteps \cap prec : ref[t] = 0})
    IN {t \in eligible : Cardinality({u \in eligible : u >= t}) > left}

(* defect: a reference does not keep the entry *)
RemovableReferenced(exp, ref, prec) ==
    {t \in QueuedTimesteps : t \in exp /\ t \notin prec}

(* RemoveQueueEntries frees these; the data plane releases them with it. *)
Removable(exp, ref, prec) ==
    {t \in QueuedTimesteps : t \in exp /\ t \notin prec /\ ref[t] = 0}

(* defect: queue maintenance goes on while a reader is opening *)
MaintenanceNotSuspended(status) == Status # "Established"

MaintenanceSuspended(status) ==
    Status # "Established" \/ \E r \in Cohorts : status[r] = "Opening"

(* defect: the queue is cut at the newest release of any reader *)
MaintainedToNewestRelease(exp, ref, prec, status, last, reserve) ==
    LET gone == {t \in QueuedTimesteps \ prec :
                    \E r \in Cohorts : status[r] = "Established" /\ t <= last[r]}
    IN  [queued |-> QueuedTimesteps \ gone, expired |-> exp \ gone]

(* What QueueMaintenance does to the queue, given the entries tagged so far *)
(* and the values of the other fields when it is called.                    *)
Maintained(exp, ref, prec, status, last, reserve) ==
    IF MaintenanceSuspended(status)
    THEN [queued |-> QueuedTimesteps, expired |-> exp]
    ELSE LET tagged == exp \cup PastReserve(ref, prec, status, last, reserve)
             gone   == Removable(tagged, ref, prec)
         IN  [queued |-> QueuedTimesteps \ gone, expired |-> tagged \ gone]

QueueMaintenance(exp) ==
    LET m == Maintained(exp, ReferenceCount', PreciousTimestep', ReaderStatus',
                        LastReleasedTimestep', ReserveCount')
    IN  QueuedTimesteps' = m.queued /\ Expired' = m.expired

(* RemoveQueueEntries signals when it removed something; a caller may       *)
(* signal too.                                                              *)
SignalIf(cond) == asleep' = (asleep /\ ~cond)
SignalNothing  == UNCHANGED asleep   \* defect: removals are not signalled
SignalRemoval  == SignalIf(QueuedTimesteps' # QueuedTimesteps)

(* defect: the last reference is never dropped *)
SubRefTimestepFloored(t) ==
    ReferenceCount' = [ReferenceCount EXCEPT ![t] = IF @ > 1 THEN @ - 1 ELSE @]

SubRefTimestep(t) == ReferenceCount' = [ReferenceCount EXCEPT ![t] = @ - 1]

-----------------------------------------------------------------------------
(* CP_PeerFailCloseWSReader: entered with the lock, returns to "back" with  *)
(* the lock.  DerefAllSentTimesteps gives the lock up after every entry it  *)
(* dereferences and resumes from the list pointer it saved before.          *)

QueueHead == IF QueuedTimesteps = {} THEN -1 ELSE Max(QueuedTimesteps)
NextEntry(t) ==
    LET older == {u \in QueuedTimesteps : u < t}
    IN  IF older = {} THEN -1 ELSE Max(older)

PeerFailCloseWSReader(th, r, new, back) ==
    /\ UNCHANGED <<ReferenceCount, PreciousTimestep, LastReleasedTimestep,
                   ReserveCount>>
    /\ ret' = [ret EXCEPT ![th] = back]
    /\ rdr' = [rdr EXCEPT ![th] = r]
    /\ newState' = [newState EXCEPT ![th] = new]
    /\ IF Status # "Established" \/ ReaderStatus[r] = new
       THEN /\ Goto(th, back)
            /\ UNCHANGED <<ReaderStatus, QueuedTimesteps, Expired, cursor, asleep>>
       ELSE /\ ReaderStatus' = [ReaderStatus EXCEPT ![r] = new]
            /\ SignalIf(TRUE)
            /\ IF new \in Departed
               THEN /\ Goto(th, "derefLoop")
                    /\ cursor' = [cursor EXCEPT ![th] = QueueHead]
                    /\ UNCHANGED <<QueuedTimesteps, Expired>>
               ELSE /\ Goto(th, back)
                    /\ QueueMaintenance(Expired)
                    /\ UNCHANGED cursor

DerefAllSentTimesteps(th) ==
    LET r == rdr[th]
        todo == {t \in QueuedTimesteps \cap SentTimestepList[r] : t <= cursor[th]}
        t == Max(todo)
    IN  /\ pc[th] = "derefLoop"
        /\ todo # {}
        /\ SentTimestepList' = [SentTimestepList EXCEPT ![r] = @ \ {t}]
        /\ SubRefTimestep(t)
        /\ cursor' = [cursor EXCEPT ![th] = NextEntry(t)]
        /\ Unlock
        /\ Goto(th, "derefRelease")
        /\ UNCHANGED <<QueuedTimesteps, Expired, PreciousTimestep, markVars, streamVars,
                       listVars, ReaderStatus, StartingTimestep, LastReleasedTimestep,
                       linkVars, ret, rdr, step, newState, idx, asleep, localVars,
                       peerVars>>

(* the data plane's readerReleaseTimestep has returned *)
DerefRelocked(th) ==
    /\ pc[th] = "derefRelease"
    /\ Lock(th)
    /\ Goto(th, "derefLoop")
    /\ UNCHANGED <<dataVars, idx, asleep>>

PeerFailCloseFinish(th) ==
    LET r == rdr[th] IN
    /\ pc[th] = "derefLoop"
    /\ ~\E t \in QueuedTimesteps \cap SentTimestepList[r] : t <= cursor[th]
    /\ CMconn' = CMconn \ {r}
    /\ IF newState[th] = "PeerFailed"
       THEN Delayed' = Delayed \cup {r} /\ UNCHANGED DP_WSR_Stream
       ELSE DP_WSR_Stream' = DP_WSR_Stream \ {r} /\ UNCHANGED Delayed
    /\ UNCHANGED <<ReferenceCount, PreciousTimestep, markVars, streamVars, ReaderStatus,
                   StartingTimestep, LastReleasedTimestep, SentTimestepList>>
    /\ QueueMaintenance(Expired)
    /\ SignalRemoval
    /\ Goto(th, ret[th])
    /\ UNCHANGED <<listVars, lock, callVars, idx, localVars, peerVars>>

-----------------------------------------------------------------------------
(* Sending *)

(* SendTimestepEntryToSingleReader up to the call of the data plane's       *)
(* readerRegisterTimestep, for an established reader.                       *)
SendTimestepEntryToSingleReader(th, r, t, back) ==
    /\ ReferenceCount' = [ReferenceCount EXCEPT ![t] = @ + 1]
    /\ SentTimestepList' = [SentTimestepList EXCEPT ![r] = @ \cup {t}]
    /\ ret' = [ret EXCEPT ![th] = back]
    /\ rdr' = [rdr EXCEPT ![th] = r]
    /\ step' = [step EXCEPT ![th] = t]
    /\ Unlock
    /\ Goto(th, "register")
    /\ UNCHANGED <<QueuedTimesteps, Expired, PreciousTimestep, markVars, openVars,
                   stepVars, ReserveCount, closeVars, Readers, ReaderRegisterQueue,
                   ReaderStatus, StartingTimestep, LastReleasedTimestep, linkVars,
                   cursor, newState, asleep, localVars, peer, delivered, received,
                   gotClose>>

(* sendOneToWSRCohort up to the CMwrite: a reader without connection is skipped. *)
Sendable(r) == ReaderStatus[r] = "Established" /\ r \in CMconn

(* The lock is taken, the status looked at again, and given up for the CMwrite. *)
Registered(th) ==
    /\ pc[th] = "register"
    /\ IF Sendable(rdr[th])
       THEN NoLock /\ Goto(th, "write")
       ELSE Lock(th) /\ Goto(th, ret[th])
    /\ UNCHANGED <<dataVars, idx, asleep>>

MetadataSends == {"queuedLoop", "sendLoop", "requestSent"}

(* CMwrite, with the lock given up: it fails on a connection that is known *)
(* to be closed and may fail when the reader has left; a message to a      *)
(* reader that is there reaches it.                                        *)
CMwrite(th, ok) ==
    LET r == rdr[th]
        here == ok /\ peer[r] = "live"
        metadata == ret[th] \in MetadataSends
    IN  /\ pc[th] = "write"
        /\ IF ok THEN peer[r] # "gone" ELSE peer[r] # "live"
        /\ Goto(th, IF ok THEN "written" ELSE "failed")
        /\ delivered' = IF here /\ (metadata \/ (ret[th] = "discardLoop" /\ r \in Latest))
                        THEN [delivered EXCEPT ![r] = @ \cup {step[th]}]
                        ELSE delivered
        /\ received' = IF here /\ metadata
                       THEN [received EXCEPT ![r] = @ \cup {step[th]}] ELSE received
        /\ requested' = IF here /\ ret[th] # "discardLoop" THEN requested \ {r} ELSE requested
        /\ gotClose' = IF here /\ ret[th] = "closeLoop" THEN gotClose \cup {r} ELSE gotClose
        /\ UNCHANGED <<queueVars, streamVars, listVars, readerVars, lock, callVars, idx,
                       asleep, localVars, peer>>

(* defect: the lock is not taken again *)
WrittenUnlocked(th) ==
    /\ pc[th] = "written"
    /\ NoLock
    /\ Goto(th, ret[th])
    /\ UNCHANGED <<dataVars, idx, asleep>>

Written(th) ==
    /\ pc[th] = "written"
    /\ Lock(th)
    /\ Goto(th, ret[th])
    /\ UNCHANGED <<dataVars, idx, asleep>>

WriteFailed(th) ==
    /\ pc[th] = "failed"
    /\ Lock(th)
    /\ PeerFailCloseWSReader(th, rdr[th], "PeerFailed", ret[th])
    /\ UNCHANGED <<markVars, openVars, stepVars, distVars, closeVars, listVars,
                   StartingTimestep, SentTimestepList, linkVars, step, idx, localVars,
                   peerVars>>

(* Walking Stream->Readers from position idx[th]: the next one that is in S. *)
NextReader(th, S) ==
    LET at == {i \in idx[th] .. Len(Readers) : Readers[i] \in S}
    IN  IF at = {} THEN 0 ELSE Min(at)

IsEstablished(r) == ReaderStatus[r] = "Established"
EstablishedReaders == {r \in Cohorts : IsEstablished(r)}
SendableReaders    == {r \in Cohorts : Sendable(r)}

(* sendOneToEachReaderRank gives the lock up for the CMwrite to the reader  *)
(* at position i.                                                           *)
WriteToReader(th, i, back) ==
    /\ rdr' = [rdr EXCEPT ![th] = Readers[i]]
    /\ ret' = [ret EXCEPT ![th] = back]
    /\ idx' = [idx EXCEPT ![th] = i + 1]
    /\ Unlock
    /\ Goto(th, "write")
    /\ UNCHANGED <<queueVars, streamVars, listVars, readerVars, step, cursor, newState,
                   asleep, localVars, peerVars>>

-----------------------------------------------------------------------------
(* SstWriterOpen and the admission of a reader (main) *)

SstWriterOpenRendezvous ==
    /\ pc["main"] = "rendezvous"
    /\ ~asleep
    /\ IF RendezvousReaderCount = 0
       THEN /\ Status' = "Established"   \* without the lock
            /\ Goto("main", "app")
            /\ UNCHANGED <<asleep, lock>>
       ELSE /\ NoLock
            /\ UNCHANGED Status
            /\ IF ReaderRegisterQueue = <<>>
               THEN asleep' = TRUE /\ UNCHANGED pc
               ELSE Goto("main", "participate") /\ UNCHANGED asleep
    /\ UNCHANGED <<queueVars, stepVars, RendezvousReaderCount, ReserveCount, distVars,
                   closeVars, listVars, readerVars, callVars, idx, localVars, peerVars>>

(* defect: the last step the reader has not to see instead of the first it has *)
earliestMinusOne == Min(QueuedTimesteps \cup {WriterTimestep}) - 1

earliestAvailableTimestepNumber == Min(QueuedTimesteps \cup {WriterTimestep})

(* The request is dequeued, the reader enters Stream->Readers as Opening    *)
(* and is told its first step; the response is sent to its rank 0.          *)
WriterParticipateInReaderOpen ==
    LET r == Head(ReaderRegisterQueue) IN
    /\ pc["main"] = "participate"
    /\ NoLock
    /\ ReaderRegisterQueue' = Tail(ReaderRegisterQueue)
    /\ Readers' = Append(Readers, r)
    /\ ReaderStatus' = [ReaderStatus EXCEPT ![r] = "Opening"]
    /\ StartingTimestep' = [StartingTimestep EXCEPT
          ![r] = IF earliestAvailableTimestepNumber = -1 THEN 0
                 ELSE earliestAvailableTimestepNumber]
    /\ CMconn' = CMconn \cup {r}
    /\ DP_WSR_Stream' = DP_WSR_Stream \cup {r}
    /\ rdr' = [rdr EXCEPT !["main"] = r]
    /\ Goto("main", "awaitReader")
    /\ UNCHANGED <<queueVars, streamVars, StepRequestQueue, LastReleasedTimestep,
                   SentTimestepList, Delayed, ret, step, cursor, newState, idx, asleep,
                   localVars, peerVars>>

(* Back from waitForReaderResponseAndSendQueued: to the rendezvous loop of  *)
(* SstWriterOpen or to the pending readers of a step.                       *)
ReaderAdmitted ==
    IF Status = "Established"
    THEN Goto("main", "pending") /\ UNCHANGED RendezvousReaderCount
    ELSE Goto("main", "rendezvous") /\ RendezvousReaderCount' = RendezvousReaderCount - 1

(* A reader that left right after it was established is reported, the lock  *)
(* is given up, and the function runs on to its final unlock.               *)
waitForReaderResponse ==
    LET r == rdr["main"] IN
    /\ pc["main"] = "awaitReader"
    /\ ~asleep
    /\ \/ /\ ReaderStatus[r] = "Opening"
          /\ NoLock
          /\ asleep' = TRUE
          /\ UNCHANGED <<pc, idx, RendezvousReaderCount>>
       \/ /\ ReaderStatus[r] = "Established"
          /\ StepDistributionMode = "AllToAll"
          /\ Lock("main")
          /\ idx' = [idx EXCEPT !["main"] = StartingTimestep[r]]
          /\ Goto("main", "queuedLoop")
          /\ UNCHANGED <<asleep, RendezvousReaderCount>>
       \/ /\ ReaderStatus[r] = "Established"
          /\ StepDistributionMode # "AllToAll"
          /\ NoLock
          /\ ReaderAdmitted
          /\ UNCHANGED <<asleep, idx>>
       \/ /\ ReaderStatus[r] \notin {"Opening", "Established"}
          /\ NoLock
          /\ Goto("main", "strayUnlock")
          /\ UNCHANGED <<asleep, idx, RendezvousReaderCount>>
    /\ UNCHANGED <<queueVars, Status, stepVars, ReserveCount, distVars, closeVars,
                   listVars, readerVars, callVars, localVars, peerVars>>

StrayUnlock ==
    /\ pc["main"] = "strayUnlock"
    /\ Unlock
    /\ ReaderAdmitted
    /\ UNCHANGED <<queueVars, Status, stepVars, ReserveCount, distVars, closeVars,
                   listVars, readerVars, callVars, idx, asleep, localVars, peerVars>>

(* defect: a precious step that has expired is skipped *)
QueuedForReaderUnexpired(r) ==
    {t \in QueuedTimesteps :
        /\ ReaderStatus[r] = "Established"
        /\ idx["main"] <= t /\ t <= LastProvidedTimestep
        /\ t \notin Expired}

(* defect: the walk stops before the last provided step *)
QueuedForReaderOffByOne(r) ==
    {t \in QueuedTimesteps :
        /\ ReaderStatus[r] = "Established"
        /\ idx["main"] <= t /\ t < LastProvidedTimestep
        /\ t \notin Expired \/ t \in PreciousTimestep}

(* Of the queued steps from idx on, the one the new reader gets next. *)
QueuedForReader(r) ==
    {t \in QueuedTimesteps :
        /\ ReaderStatus[r] = "Established"
        /\ idx["main"] <= t /\ t <= LastProvidedTimestep
        /\ t \notin Expired \/ t \in PreciousTimestep}

(* defect: the list is walked as it is linked, newest entry first *)
SendQueuedNewestFirst ==
    LET r == rdr["main"]
        unsent == QueuedForReader(r) \ received[r]
    IN  /\ pc["main"] = "queuedLoop"
        /\ unsent # {}
        /\ SendTimestepEntryToSingleReader("main", r, Max(unsent), "queuedLoop")
        /\ UNCHANGED <<distVars, StepRequestQueue, requested, idx>>

SendQueued ==
    LET r == rdr["main"]
        t == Min(QueuedForReader(r))
    IN  /\ pc["main"] = "queuedLoop"
        /\ QueuedForReader(r) # {}
        /\ idx' = [idx EXCEPT !["main"] = t + 1]
        /\ SendTimestepEntryToSingleReader("main", r, t, "queuedLoop")
        /\ UNCHANGED <<distVars, StepRequestQueue, requested>>

SendQueuedDone ==
    /\ pc["main"] = "queuedLoop"
    /\ QueuedForReader(rdr["main"]) = {}
    /\ Unlock
    /\ ReaderAdmitted
    /\ UNCHANGED <<queueVars, Status, stepVars, ReserveCount, distVars, closeVars,
                   listVars, readerVars, callVars, idx, asleep, localVars, peerVars>>

-----------------------------------------------------------------------------
(* SstInternalProvideTimestep (main) *)

(* The reference the entry starts with is the provider's own. *)
EntryNoReference == 0        \* defect
EntryInitialReferences == 1

ProvideTimestep ==
    LET t == WriterTimestep + 1 IN
    /\ pc["main"] = "app"
    /\ NoLock
    /\ t < MaxSteps
    /\ WriterTimestep' = t
    /\ LastProvidedTimestep' = t
    /\ QueuedTimesteps' = QueuedTimesteps \cup {t}
    /\ ReferenceCount' = [ReferenceCount EXCEPT ![t] = EntryInitialReferences]
    /\ PreciousTimestep' = IF FirstTimestepPrecious /\ t = 0
                           THEN PreciousTimestep \cup {t} ELSE PreciousTimestep
    /\ InProgressFlag' = InProgressFlag \cup {t}
    /\ Goto("main", "decide")
    /\ UNCHANGED <<Expired, Emptied, openVars, ReserveCount, distVars, closeVars,
                   listVars, readerVars, lock, callVars, idx, asleep, localVars,
                   peerVars>>

(* defect: one entry too many is allowed *)
QueueFullOffByOne(queued) == QueueLimit > 0 /\ Cardinality(queued) > QueueLimit + 1

(* With Discard a limit of 0 is a limit. *)
QueueFull(queued) ==
    /\ QueueLimit > 0 \/ QueueFullPolicy = "Discard"
    /\ Cardinality(queued) > QueueLimit

(* defect: every reader in the list is taken to be established *)
TakeSnapshotEstablished(anyArriving) ==
    /\ snapshot' = [r \in Cohorts |-> IF \E i \in 1 .. Len(Readers) : Readers[i] = r
                                     THEN "Established" ELSE "NotOpen"]
    /\ pending' = IF anyArriving THEN Len(ReaderRegisterQueue) ELSE 0
    /\ Goto("main", "distribute")

(* defect: a reader is taken to have been there when the count began *)
TakeSnapshotCountedTwice(anyArriving) ==
    /\ snapshot' = ReaderStatus
    /\ pending' = Len(ReaderRegisterQueue) + IF anyArriving THEN 1 ELSE 0
    /\ Goto("main", "distribute")

(* What rank 0 distributes: the readers waiting to be admitted, counted     *)
(* only if there was one before the wait, and the status of every reader.   *)
TakeSnapshot(anyArriving) ==
    /\ snapshot' = ReaderStatus
    /\ pending' = IF anyArriving THEN Len(ReaderRegisterQueue) ELSE 0
    /\ Goto("main", "distribute")

DecideTimestep ==
    /\ pc["main"] = "decide"
    /\ NoLock
    /\ arriving' = (ReaderRegisterQueue # <<>>)
    /\ UNCHANGED <<ReferenceCount, PreciousTimestep, readerVars, streamVars>>
    /\ QueueMaintenance(Expired)
    /\ IF QueueFullPolicy = "Block" /\ QueueFull(QueuedTimesteps')
       THEN /\ Goto("main", "blocked")
            /\ asleep' = TRUE
            /\ UNCHANGED <<snapshot, pending, discard>>
       ELSE /\ TakeSnapshot(ReaderRegisterQueue # <<>>)
            /\ discard' = QueueFull(QueuedTimesteps')
            /\ UNCHANGED asleep
    /\ UNCHANGED <<markVars, listVars, callVars, idx, peerVars>>

BlockedOnQueueFull ==
    /\ pc["main"] = "blocked"
    /\ NoLock
    /\ ~asleep
    /\ IF QueueFull(QueuedTimesteps)
       THEN asleep' = TRUE /\ UNCHANGED <<pc, snapshot, pending, discard>>
       ELSE TakeSnapshot(arriving) /\ discard' = FALSE /\ UNCHANGED asleep
    /\ UNCHANGED <<queueVars, streamVars, listVars, readerVars, callVars, idx, arriving,
                   peerVars>>

(* ProcessReaderStatusList brings every reader to its status in the snapshot. *)
ProcessReaderStatusListBegin ==
    /\ pc["main"] = "distribute"
    /\ Lock("main")
    /\ Goto("main", "statusLoop")
    /\ idx' = [idx EXCEPT !["main"] = 1]
    /\ UNCHANGED <<dataVars, asleep>>

StatusDiffers == {r \in Cohorts : ReaderStatus[r] # snapshot[r]}

ProcessReaderStatusList ==
    LET i == NextReader("main", StatusDiffers) IN
    /\ pc["main"] = "statusLoop"
    /\ i # 0
    /\ idx' = [idx EXCEPT !["main"] = i + 1]
    /\ PeerFailCloseWSReader("main", Readers[i], snapshot[Readers[i]], "statusLoop")
    /\ UNCHANGED <<markVars, openVars, stepVars, distVars, closeVars, listVars,
                   StartingTimestep, SentTimestepList, linkVars, lock, step, localVars,
                   peerVars>>

ProcessReaderStatusListDone ==
    /\ pc["main"] = "statusLoop"
    /\ NextReader("main", StatusDiffers) = 0
    /\ Unlock
    /\ Goto("main", "deliver")
    /\ UNCHANGED <<dataVars, idx, asleep>>

DeliverBegin ==
    /\ pc["main"] = "deliver"
    /\ Lock("main")
    /\ Goto("main", IF discard THEN "discardLoop" ELSE "sendLoop")
    /\ step' = [step EXCEPT !["main"] = WriterTimestep]
    /\ idx' = [idx EXCEPT !["main"] = 1]
    /\ Emptied' = IF discard THEN Emptied \cup {WriterTimestep} ELSE Emptied
    /\ UNCHANGED <<QueuedTimesteps, ReferenceCount, Expired, PreciousTimestep,
                   InProgressFlag, streamVars, listVars, readerVars, ret, rdr, cursor,
                   newState, asleep, localVars, peerVars>>

(* SendTimestepEntryToReaders, by StepDistributionMode *)
SendToAll ==
    LET i == NextReader("main", EstablishedReaders) IN
    /\ pc["main"] = "sendLoop"
    /\ StepDistributionMode = "AllToAll"
    /\ i # 0
    /\ idx' = [idx EXCEPT !["main"] = i + 1]
    /\ SendTimestepEntryToSingleReader("main", Readers[i], step["main"], "sendLoop")
    /\ UNCHANGED <<distVars, StepRequestQueue, requested>>

RoundRobinDue ==
    StepDistributionMode = "RoundRobin" /\ idx["main"] = 1 /\ Readers # <<>>

(* The case has no break: a round-robin send goes on to the request queue. *)
RequestDue ==
    /\ Readers # <<>> /\ StepRequestQueue # <<>>
    /\ \/ StepDistributionMode = "OnDemand" /\ idx["main"] = 1
       \/ StepDistributionMode = "RoundRobin" /\ idx["main"] = 2

(* defect: the last reader never gets its turn *)
NextInTurnOffByOne == IF NextRRDistribution >= Len(Readers) - 1 THEN 0 ELSE NextRRDistribution

NextInTurn == IF NextRRDistribution >= Len(Readers) THEN 0 ELSE NextRRDistribution

SendRoundRobin ==
    LET r == Readers[NextInTurn + 1]
    IN  /\ pc["main"] = "sendLoop"
        /\ RoundRobinDue
        /\ NextRRDistribution' = NextInTurn + 1
        /\ idx' = [idx EXCEPT !["main"] = 2]
        /\ IF IsEstablished(r)
           THEN /\ SendTimestepEntryToSingleReader("main", r, step["main"], "sendLoop")
                /\ UNCHANGED <<LastDemandTimestep, StepRequestQueue, requested>>
           ELSE UNCHANGED <<queueVars, openVars, stepVars, ReserveCount,
                            LastDemandTimestep, closeVars, listVars, readerVars, lock,
                            pc, callVars, asleep, localVars, peerVars>>

SendOnDemand ==
    LET r == Head(StepRequestQueue) IN
    /\ pc["main"] = "sendLoop"
    /\ RequestDue
    /\ StepRequestQueue' = Tail(StepRequestQueue)
    /\ IF IsEstablished(r)
       THEN /\ LastDemandTimestep' = step["main"]
            /\ idx' = [idx EXCEPT !["main"] = 3]
            /\ SendTimestepEntryToSingleReader("main", r, step["main"], "sendLoop")
            /\ UNCHANGED <<NextRRDistribution, requested>>
       ELSE UNCHANGED <<queueVars, streamVars, Readers, ReaderRegisterQueue, readerVars,
                        lock, pc, callVars, idx, asleep, localVars, peerVars>>

(* Every reader was served: the provider drops its own reference. *)
ProvideTimestepSent ==
    /\ pc["main"] = "sendLoop"
    /\ StepDistributionMode = "AllToAll" => NextReader("main", EstablishedReaders) = 0
    /\ ~RoundRobinDue /\ ~RequestDue
    /\ InProgressFlag' = InProgressFlag \ {step["main"]}
    /\ SubRefTimestep(step["main"])
    /\ UNCHANGED <<PreciousTimestep, streamVars, readerVars>>
    /\ QueueMaintenance(Expired)
    /\ SignalRemoval
    /\ Unlock
    /\ Goto("main", "pending")
    /\ UNCHANGED <<Emptied, listVars, callVars, idx, localVars, peerVars>>

(* The notice of a discarded step goes to every established reader. *)
SendDiscarded ==
    /\ pc["main"] = "discardLoop"
    /\ NextReader("main", SendableReaders) # 0
    /\ WriteToReader("main", NextReader("main", SendableReaders), "discardLoop")

ProvideTimestepDiscarded ==
    /\ pc["main"] = "discardLoop"
    /\ NextReader("main", SendableReaders) = 0
    /\ ReferenceCount' = [ReferenceCount EXCEPT ![step["main"]] = 0]
    /\ UNCHANGED <<PreciousTimestep, streamVars, readerVars>>
    /\ QueueMaintenance(Expired \cup {step["main"]})
    /\ SignalRemoval
    /\ Unlock
    /\ Goto("main", "pending")
    /\ UNCHANGED <<markVars, listVars, callVars, idx, localVars, peerVars>>

HandlePendingReaders ==
    /\ pc["main"] = "pending"
    /\ IF pending > 0
       THEN pending' = pending - 1 /\ Goto("main", "participate")
       ELSE Goto("main", "app") /\ UNCHANGED pending
    /\ UNCHANGED <<queueVars, streamVars, listVars, readerVars, lock, callVars, idx,
                   asleep, snapshot, arriving, discard, peerVars>>

-----------------------------------------------------------------------------
(* SstWriterClose and SstStreamDestroy (main); SendCloseMsgs (both threads) *)

CloseNowWhenDemanded == LastDemandTimestep = WriterTimestep   \* defect: for every mode

(* The close messages go out at once, unless requests are still to come. *)
CloseNow ==
    StepDistributionMode # "OnDemand" \/ LastDemandTimestep = WriterTimestep

SstWriterClose ==
    /\ pc["main"] = "app"
    /\ Lock("main")
    /\ CloseTimestepCount' = WriterTimestep
    /\ idx' = [idx EXCEPT !["main"] = 1]
    /\ Goto("main", IF CloseNow THEN "closeLoop" ELSE "untag")
    /\ UNCHANGED <<queueVars, openVars, stepVars, ReserveCount, distVars,
                   CloseMessagesSent, listVars, readerVars, callVars, asleep, localVars,
                   peerVars>>

SendCloseMsgs(th) ==
    /\ pc[th] = "closeLoop"
    /\ NextReader(th, SendableReaders) # 0
    /\ WriteToReader(th, NextReader(th, SendableReaders), "closeLoop")

SendCloseMsgsDone(th) ==
    /\ pc[th] = "closeLoop"
    /\ NextReader(th, SendableReaders) = 0
    /\ CloseMessagesSent' = TRUE
    /\ IF th = "main" THEN Goto(th, "untag") /\ UNCHANGED lock
                      ELSE Goto(th, "idle") /\ Unlock
    /\ UNCHANGED <<queueVars, openVars, stepVars, ReserveCount, distVars,
                   CloseTimestepCount, listVars, readerVars, callVars, idx, asleep,
                   localVars, peerVars>>

(* UntagPreciousTimesteps, no reserve any more, QueueMaintenance *)
UntagPreciousTimesteps ==
    /\ pc["main"] = "untag"
    /\ PreciousTimestep' = {}
    /\ ReserveCount' = 0
    /\ UNCHANGED <<ReferenceCount, readerVars>>
    /\ QueueMaintenance(Expired \cup (PreciousTimestep \cap QueuedTimesteps))
    /\ Unlock
    /\ Goto("main", "closing")
    /\ UNCHANGED <<markVars, openVars, stepVars, distVars, closeVars, listVars,
                   callVars, idx, asleep, localVars, peerVars>>

(* The loop that waits for the queue to drain; open requests are freed first. *)
WriterCloseDrain ==
    /\ pc["main"] \in {"closing", "drain"}
    /\ NoLock
    /\ ~asleep
    /\ StepRequestQueue' = IF pc["main"] = "closing" THEN <<>> ELSE StepRequestQueue
    /\ IF QueuedTimesteps = {}
       THEN Goto("main", "closed") /\ UNCHANGED asleep
       ELSE Goto("main", "drain") /\ asleep' = TRUE
    /\ UNCHANGED <<queueVars, streamVars, Readers, ReaderRegisterQueue, readerVars,
                   callVars, idx, localVars, peerVars>>

SstStreamDestroy ==
    /\ pc["main"] = "closed"
    /\ NoLock
    /\ Status' = "Destroyed"
    /\ StepRequestQueue' = <<>>
    /\ Readers' = <<>>
    /\ CMconn' = {}
    /\ Goto("main", "destroyed")
    /\ UNCHANGED <<queueVars, stepVars, RendezvousReaderCount, ReserveCount, distVars,
                   closeVars, ReaderRegisterQueue, ReaderStatus, StartingTimestep,
                   LastReleasedTimestep, SentTimestepList, DP_WSR_Stream, Delayed,
                   callVars, idx, asleep, localVars, peerVars>>

-----------------------------------------------------------------------------
(* Message handlers and delayed tasks (net) *)

queueReaderRegisterMsgAndNotify(r) ==
    /\ pc["net"] = "idle"
    /\ NoLock
    /\ ReaderRegisterQueue' = Append(ReaderRegisterQueue, r)
    /\ SignalIf(TRUE)
    /\ UNCHANGED <<queueVars, streamVars, Readers, StepRequestQueue, readerVars, pc,
                   callVars, idx, localVars>>

CP_ReaderActivateHandler(r) ==
    /\ pc["net"] = "idle"
    /\ NoLock
    /\ ReaderStatus' = [ReaderStatus EXCEPT ![r] = "Established"]
    /\ SignalIf(TRUE)
    /\ UNCHANGED <<queueVars, streamVars, listVars, StartingTimestep,
                   LastReleasedTimestep, SentTimestepList, linkVars, pc, callVars, idx,
                   localVars>>

(* what the handlers that call CP_PeerFailCloseWSReader leave alone *)
HandlerFrame ==
    UNCHANGED <<markVars, openVars, stepVars, distVars, closeVars, listVars,
                StartingTimestep, SentTimestepList, CMconn, step, idx, localVars>>

CP_ReaderCloseHandler(r) ==
    /\ pc["net"] = "idle"
    /\ \/ /\ Status = "Established"
          /\ Lock("net")
          /\ PeerFailCloseWSReader("net", r, "PeerClosed", "handlerDone")
          /\ HandlerFrame
          /\ UNCHANGED <<DP_WSR_Stream, Delayed>>
       \/ /\ Status # "Established"
          /\ NoLock
          /\ UNCHANGED <<queueVars, streamVars, listVars, readerVars, pc, callVars, idx,
                         asleep, localVars>>

WriterConnCloseHandler(r) ==
    /\ pc["net"] = "idle"
    /\ \/ /\ Status # "Destroyed"
          /\ ReaderStatus[r] = "Established"
          /\ Lock("net")
          /\ PeerFailCloseWSReader("net", r, "PeerFailed", "connCloseDone")
          /\ HandlerFrame
          /\ UNCHANGED <<DP_WSR_Stream, Delayed>>
       \/ /\ Status # "Destroyed"
          /\ ReaderStatus[r] \in {"Opening", "PeerClosed", "Closed"}
          /\ NoLock
          /\ UNCHANGED <<ReferenceCount, PreciousTimestep, streamVars, readerVars>>
          /\ QueueMaintenance(Expired)
          /\ SignalIf(ReaderStatus[r] = "Opening" \/ QueuedTimesteps' # QueuedTimesteps)
          /\ UNCHANGED <<markVars, listVars, pc, callVars, idx, localVars>>
       \/ /\ Status = "Destroyed" \/ ReaderStatus[r] \in {"NotOpen", "PeerFailed"}
          /\ NoLock
          /\ UNCHANGED <<queueVars, streamVars, listVars, readerVars, pc, callVars, idx,
                         asleep, localVars>>

ConnCloseDone ==
    /\ pc["net"] = "connCloseDone"
    /\ UNCHANGED <<ReferenceCount, PreciousTimestep, streamVars, readerVars>>
    /\ QueueMaintenance(Expired)
    /\ SignalRemoval
    /\ Unlock
    /\ Goto("net", "idle")
    /\ UNCHANGED <<markVars, listVars, callVars, idx, localVars, peerVars>>

(* The task scheduled two seconds after a failure. *)
CloseWSRStream(r) ==
    /\ pc["net"] = "idle"
    /\ r \in Delayed
    /\ Lock("net")
    /\ Delayed' = Delayed \ {r}
    /\ PeerFailCloseWSReader("net", r, "PeerClosed", "handlerDone")
    /\ DP_WSR_Stream' = IF pc'["net"] = "handlerDone" THEN DP_WSR_Stream \ {r}
                        ELSE DP_WSR_Stream   \* destroyed when the sent list is done
    /\ HandlerFrame
    /\ UNCHANGED peerVars

HandlerDone ==
    /\ pc["net"] = "handlerDone"
    /\ Unlock
    /\ Goto("net", "idle")
    /\ UNCHANGED <<dataVars, idx, asleep>>

(* defect: an entry main is still distributing is handed out, too *)
NextOnDemandInProgress ==
    {t \in QueuedTimesteps :
        t = LastDemandTimestep + 1 /\ (t \notin Expired \/ t \in PreciousTimestep)}

(* defect: any entry will do *)
NextOnDemandAny ==
    {t \in QueuedTimesteps \ InProgressFlag : t \notin Expired \/ t \in PreciousTimestep}

(* The step a request can be answered with at once. *)
NextOnDemand ==
    {t \in QueuedTimesteps \ InProgressFlag :
        t = LastDemandTimestep + 1 /\ (t \notin Expired \/ t \in PreciousTimestep)}

CP_ReaderRequestStepHandler(r) ==
    /\ pc["net"] = "idle"
    /\ lock = "none"
    /\ \/ /\ CloseMessagesSent \/ r \notin {Readers[i] : i \in 1 .. Len(Readers)}
          /\ UNCHANGED <<queueVars, streamVars, listVars, readerVars, lock, pc,
                         callVars, idx, asleep, localVars, peer, delivered, received,
                         gotClose>>
       \/ /\ ~CloseMessagesSent /\ r \in {Readers[i] : i \in 1 .. Len(Readers)}
          /\ IsEstablished(r)
          /\ \E t \in NextOnDemand :
                /\ LastDemandTimestep' = t
                /\ SendTimestepEntryToSingleReader("net", r, t, "requestSent")
                /\ UNCHANGED <<NextRRDistribution, StepRequestQueue, idx>>
       \/ /\ ~CloseMessagesSent /\ r \in {Readers[i] : i \in 1 .. Len(Readers)}
          /\ ~IsEstablished(r) \/ NextOnDemand = {}
          /\ StepRequestQueue' = Append(StepRequestQueue, r)
          /\ UNCHANGED <<queueVars, streamVars, Readers, ReaderRegisterQueue,
                         readerVars, lock, pc, callVars, idx, asleep, localVars, peer,
                         delivered, received, gotClose>>

(* The last step was demanded: now the close messages can go out. *)
RequestSent ==
    /\ pc["net"] = "requestSent"
    /\ IF LastDemandTimestep = CloseTimestepCount
       THEN Goto("net", "closeLoop") /\ UNCHANGED lock
       ELSE Goto("net", "idle") /\ Unlock
    /\ idx' = [idx EXCEPT !["net"] = 1]
    /\ UNCHANGED <<dataVars, asleep>>

CP_ReleaseTimestepHandler(r, t) ==
    /\ pc["net"] = "idle"
    /\ lock = "none"
    /\ \/ /\ Status = "Destroyed"
          /\ UNCHANGED <<queueVars, readerVars, lock, pc, rdr, step, asleep>>
       \/ /\ Status # "Destroyed"
          /\ LastReleasedTimestep' = [LastReleasedTimestep EXCEPT ![r] = t]
          /\ rdr' = [rdr EXCEPT !["net"] = r]
          /\ step' = [step EXCEPT !["net"] = t]
          /\ IF t \in SentTimestepList[r]
             THEN /\ SentTimestepList' = [SentTimestepList EXCEPT ![r] = @ \ {t}]
                  /\ SubRefTimestep(t)
                  /\ UNCHANGED lock
                  /\ Goto("net", "releaseRelease")
             ELSE /\ UNCHANGED <<SentTimestepList, ReferenceCount>>
                  /\ lock' = "net"
                  /\ Goto("net", "releaseDone")
          /\ UNCHANGED <<QueuedTimesteps, Expired, PreciousTimestep, markVars,
                         ReaderStatus, StartingTimestep, linkVars, asleep>>
    /\ UNCHANGED <<streamVars, listVars, ret, cursor, newState, idx, localVars>>

(* the data plane's readerReleaseTimestep has returned *)
ReleaseRelocked ==
    /\ pc["net"] = "releaseRelease"
    /\ Lock("net")
    /\ Goto("net", "releaseDone")
    /\ UNCHANGED <<dataVars, idx, asleep>>

ReleaseDone ==
    /\ pc["net"] = "releaseDone"
    /\ UNCHANGED <<ReferenceCount, PreciousTimestep, streamVars, readerVars>>
    /\ QueueMaintenance(Expired)
    /\ SignalIf(TRUE)
    /\ Unlock
    /\ Goto("net", "idle")
    /\ UNCHANGED <<markVars, listVars, callVars, idx, localVars, peerVars>>

-----------------------------------------------------------------------------
(* What the readers do, as far as the writer can tell.                      *)
(* peer[r] is "absent" before r opens the stream, "registered" once it has  *)
(* sent its registration, "live" once it has activated; "closed" when it    *)
(* has closed, "crashed" when it died, "gone" when its connection has been  *)
(* seen to close.  delivered[r] are the steps r holds and has not released, *)
(* received[r] all it ever got.                                             *)

ReaderRegisters(r) ==
    /\ peer[r] = "absent"
    /\ peer' = [peer EXCEPT ![r] = "registered"]
    /\ queueReaderRegisterMsgAndNotify(r)
    /\ UNCHANGED <<delivered, received, gotClose, requested>>

ReaderActivates(r) ==
    /\ peer[r] = "registered"
    /\ ReaderStatus[r] = "Opening"
    /\ peer' = [peer EXCEPT ![r] = "live"]
    /\ CP_ReaderActivateHandler(r)
    /\ UNCHANGED <<delivered, received, gotClose, requested>>

(* A reader releases the steps it got in order.  One that skips to the      *)
(* latest releases what is older when a message arrives, discard notices    *)
(* included, and the step in use when it is done with it.  What a reader    *)
(* sent before it died may still arrive.                                    *)
ReaderReleases(r, t) ==
    /\ t \in delivered[r]
    /\ r \in Latest \/ \A u \in delivered[r] : t <= u
    /\ t \in Emptied => \E u \in delivered[r] : t < u
    /\ \/ peer[r] = "live"
       \/ peer[r] = "crashed"
    /\ delivered' = [delivered EXCEPT ![r] = @ \ {t}]
    /\ CP_ReleaseTimestepHandler(r, t)
    /\ UNCHANGED <<peer, received, gotClose, requested>>

(* BeginStep in OnDemand mode: one request at a time, after EndStep. *)
ReaderRequests(r) ==
    /\ StepDistributionMode = "OnDemand"
    /\ peer[r] = "live"
    /\ r \notin requested /\ r \notin gotClose /\ delivered[r] \subseteq Emptied
    /\ requested' = requested \cup {r}
    /\ CP_ReaderRequestStepHandler(r)
    /\ UNCHANGED <<peer, delivered, received, gotClose>>

ReaderCloses(r) ==
    /\ peer[r] = "live"
    /\ r \in MayLeave \/ (r \in gotClose /\ delivered[r] \subseteq Emptied)
    /\ peer' = [peer EXCEPT ![r] = "closed"]
    /\ CP_ReaderCloseHandler(r)
    /\ UNCHANGED <<delivered, received, gotClose, requested>>

ReaderCrashes(r) ==
    /\ r \in MayFail
    /\ peer[r] \in {"registered", "live"}
    /\ peer' = [peer EXCEPT ![r] = "crashed"]
    /\ UNCHANGED <<queueVars, streamVars, listVars, readerVars, lock, pc, callVars, idx,
                   asleep, localVars, delivered, received, gotClose, requested>>

ConnectionCloses(r) ==
    /\ peer[r] \in {"closed", "crashed"}
    /\ ReaderStatus[r] # "NotOpen"
    /\ peer' = [peer EXCEPT ![r] = "gone"]
    /\ WriterConnCloseHandler(r)
    /\ UNCHANGED <<delivered, received, gotClose, requested>>

-----------------------------------------------------------------------------
Init ==
    /\ Status = "NotOpen"
    /\ WriterTimestep = -1
    /\ LastProvidedTimestep = 0
    /\ RendezvousReaderCount = Rendezvous
    /\ ReserveCount = ReserveQueueLimit
    /\ Readers = <<>>
    /\ ReaderRegisterQueue = <<>>
    /\ StepRequestQueue = <<>>
    /\ NextRRDistribution = 0
    /\ LastDemandTimestep = -1
    /\ CloseTimestepCount = -1
    /\ CloseMessagesSent = FALSE
    /\ QueuedTimesteps = {}
    /\ ReferenceCount = [t \in Steps |-> 0]
    /\ Expired = {}
    /\ PreciousTimestep = {}
    /\ InProgressFlag = {}
    /\ Emptied = {}
    /\ ReaderStatus = [r \in Cohorts |-> "NotOpen"]
    /\ StartingTimestep = [r \in Cohorts |-> 0]
    /\ LastReleasedTimestep = [r \in Cohorts |-> -1]
    /\ SentTimestepList = [r \in Cohorts |-> {}]
    /\ CMconn = {}
    /\ DP_WSR_Stream = {}
    /\ Delayed = {}
    /\ lock = "none"
    /\ pc = [th \in Threads |-> IF th = "main" THEN "rendezvous" ELSE "idle"]
    /\ ret = [th \in Threads |-> "none"]
    /\ rdr = [th \in Threads |-> NoReader]
    /\ step = [th \in Threads |-> 0]
    /\ idx = [th \in Threads |-> 1]
    /\ cursor = [th \in Threads |-> -1]
    /\ newState = [th \in Threads |-> "NotOpen"]
    /\ asleep = FALSE
    /\ snapshot = [r \in Cohorts |-> "NotOpen"]
    /\ arriving = FALSE
    /\ pending = 0
    /\ discard = FALSE
    /\ peer = [r \in Cohorts |-> "absent"]
    /\ delivered = [r \in Cohorts |-> {}]
    /\ received = [r \in Cohorts |-> {}]
    /\ gotClose = {}
    /\ requested = {}

(* steps either thread takes inside the shared procedures *)
Shared(th) ==
    \/ DerefAllSentTimesteps(th)
    \/ DerefRelocked(th)
    \/ PeerFailCloseFinish(th)
    \/ Registered(th)
    \/ \E ok \in BOOLEAN : CMwrite(th, ok)
    \/ Written(th)
    \/ WriteFailed(th)
    \/ SendCloseMsgs(th)
    \/ SendCloseMsgsDone(th)

(* Inside an SST call; only the application decides to call the next one. *)
MainInCall ==
    \/ Shared("main")
    \/ SstWriterOpenRendezvous
    \/ WriterParticipateInReaderOpen
    \/ waitForReaderResponse
    \/ StrayUnlock
    \/ SendQueued
    \/ SendQueuedDone
    \/ DecideTimestep
    \/ BlockedOnQueueFull
    \/ ProcessReaderStatusListBegin
    \/ ProcessReaderStatusList
    \/ ProcessReaderStatusListDone
    \/ DeliverBegin
    \/ SendToAll
    \/ SendRoundRobin
    \/ SendOnDemand
    \/ ProvideTimestepSent
    \/ SendDiscarded
    \/ ProvideTimestepDiscarded
    \/ HandlePendingReaders
    \/ UntagPreciousTimesteps
    \/ WriterCloseDrain

MainCalls == ProvideTimestep \/ SstWriterClose \/ SstStreamDestroy

NetInHandler ==
    \/ Shared("net")
    \/ ConnCloseDone
    \/ HandlerDone
    \/ RequestSent
    \/ ReleaseRelocked
    \/ ReleaseDone
    \/ \E r \in Cohorts : CloseWSRStream(r)

Environment ==
    \E r \in Cohorts :
        \/ ReaderRegisters(r)
        \/ ReaderActivates(r)
        \/ \E t \in Steps : ReaderReleases(r, t)
        \/ ReaderRequests(r)
        \/ ReaderCloses(r)
        \/ ReaderCrashes(r)
        \/ ConnectionCloses(r)

(* Nothing is left to do: the stream is destroyed and no reader is around. *)
Terminated ==
    /\ pc["main"] = "destroyed" /\ pc["net"] = "idle"
    /\ UNCHANGED vars

Next == MainInCall \/ MainCalls \/ NetInHandler \/ Environment \/ Terminated

Spec == Init /\ [][Next]_vars

=============================================================================
