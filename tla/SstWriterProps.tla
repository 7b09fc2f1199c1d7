--------------------------- MODULE SstWriterProps ---------------------------
(* What the SST writer's control plane promises. *)
EXTENDS SstWriter

Statuses == {"NotOpen", "Opening", "Established", "PeerClosed", "PeerFailed"}
MainPcs == {"rendezvous", "participate", "awaitReader", "strayUnlock", "queuedLoop", "app",
            "decide", "blocked", "distribute", "statusLoop", "deliver", "sendLoop",
            "discardLoop", "pending", "untag", "closing", "drain", "closed", "destroyed"}
NetPcs == {"idle", "handlerDone", "connCloseDone", "requestSent", "releaseRelease",
           "releaseDone"}
CallPcs == {"register", "write", "written", "failed", "derefLoop", "derefRelease",
            "closeLoop"}

QueueTypes ==
    /\ QueuedTimesteps \subseteq Steps
    /\ ReferenceCount \in [Steps -> Int]
    /\ Expired \subseteq Steps
    /\ PreciousTimestep \subseteq Steps
    /\ InProgressFlag \subseteq Steps
    /\ Emptied \subseteq Steps

StreamTypes ==
    /\ Status \in {"NotOpen", "Established", "Destroyed"}
    /\ WriterTimestep \in Steps \cup {-1}
    /\ LastProvidedTimestep \in Steps \cup {0}
    /\ RendezvousReaderCount \in Int
    /\ ReserveCount \in Nat
    /\ NextRRDistribution \in Nat
    /\ LastDemandTimestep \in Steps \cup {-1}
    /\ CloseTimestepCount \in Steps \cup {-1}
    /\ CloseMessagesSent \in BOOLEAN
    /\ Readers \in Seq(Cohorts)
    /\ ReaderRegisterQueue \in Seq(Cohorts)
    /\ StepRequestQueue \in Seq(Cohorts)

ReaderTypes ==
    /\ ReaderStatus \in [Cohorts -> Statuses]
    /\ StartingTimestep \in [Cohorts -> Nat]
    /\ LastReleasedTimestep \in [Cohorts -> Steps \cup {-1}]
    /\ SentTimestepList \in [Cohorts -> SUBSET Steps]
    /\ CMconn \subseteq Cohorts
    /\ DP_WSR_Stream \subseteq Cohorts
    /\ Delayed \subseteq Cohorts

ThreadTypes ==
    /\ lock \in Threads \cup {"none"}
    /\ pc \in [Threads -> MainPcs \cup NetPcs \cup CallPcs]
    /\ pc["main"] \in MainPcs \cup CallPcs
    /\ pc["net"] \in NetPcs \cup CallPcs
    /\ ret \in [Threads -> MainPcs \cup NetPcs \cup CallPcs \cup {"none"}]
    /\ rdr \in [Threads -> Cohorts \cup {NoReader}]
    /\ step \in [Threads -> Steps \cup {0}]
    /\ idx \in [Threads -> Int]
    /\ cursor \in [Threads -> Steps \cup {-1}]
    /\ newState \in [Threads -> Statuses]
    /\ asleep \in BOOLEAN
    /\ snapshot \in [Cohorts -> Statuses]
    /\ arriving \in BOOLEAN
    /\ pending \in Int
    /\ discard \in BOOLEAN

PeerTypes ==
    /\ peer \in [Cohorts -> {"absent", "registered", "live", "closed", "crashed", "gone"}]
    /\ delivered \in [Cohorts -> SUBSET Steps]
    /\ received \in [Cohorts -> SUBSET Steps]
    /\ gotClose \subseteq Cohorts
    /\ requested \subseteq Cohorts

(* Every variable has the type its C declaration gives it; a reference     *)
(* count is an int and may in principle become negative.                   *)
TypeOK == QueueTypes /\ StreamTypes /\ ReaderTypes /\ ThreadTypes /\ PeerTypes

-----------------------------------------------------------------------------
(* The timestep queue and its references *)

(* main is inside SstInternalProvideTimestep, between the insertion of the *)
(* entry and the statement that drops the provider's reference to it.      *)
Providing ==
    \/ pc["main"] \in {"decide", "blocked", "distribute", "statusLoop", "deliver", "sendLoop",
                       "discardLoop"}
    \/ /\ pc["main"] \in CallPcs \ {"closeLoop"}
       /\ ret["main"] \in {"statusLoop", "sendLoop", "discardLoop"}

Holders(t) == {r \in Cohorts : t \in SentTimestepList[r]}
ProviderReference(t) == IF Providing /\ t = WriterTimestep THEN 1 ELSE 0

(* The reference count of a queued step is exactly the number of readers   *)
(* it was sent to and who have not given it back, plus the provider's own  *)
(* reference while the step is being provided: whichever of a release, a   *)
(* close, a failed write and a failed connection came first, and on        *)
(* whichever thread, each reference is dropped once.                       *)
ReferencesCounted ==
    \A t \in QueuedTimesteps :
        ReferenceCount[t] = Cardinality(Holders(t)) + ProviderReference(t)

(* A step that is in some reader's sent list is still in the queue, so its *)
(* data can still be read through the data plane.                          *)
SentStepsRetained ==
    \A r \in Cohorts : SentTimestepList[r] \subseteq QueuedTimesteps

(* The same from the reader's side: a step that a live reader got and has  *)
(* not released is still held by the writer.                               *)
DeliveredStepsRetained ==
    \A r \in Cohorts :
        peer[r] = "live" => delivered[r] \ Emptied \subseteq QueuedTimesteps

(* "holding one for us, so it doesn't disappear under us": the entry being *)
(* provided stays queued until SstInternalProvideTimestep lets go of it,   *)
(* although the lock is given up many times in between.                    *)
ProvidedEntryKept == Providing => WriterTimestep \in QueuedTimesteps

(* Queue maintenance is abandoned while a reader is opening and spares     *)
(* what an established reader has not released: the first step a reader    *)
(* was promised, unless it had expired before, is neither tagged nor       *)
(* removed until the reader is done with it or gone, unless it is          *)
(* discarded itself or a precious step that SstWriterClose untags.         *)
StartingStepKept ==
    [][\A r \in Cohorts :
          LET s == StartingTimestep[r] IN
          (/\ ReaderStatus[r] \in {"Opening", "Established"}
           /\ LastReleasedTimestep'[r] < s
           /\ s \in QueuedTimesteps \ Expired)
             => \/ s \in QueuedTimesteps' \ Expired'
                \/ ReaderStatus'[r] \in Departed
                \/ s \in Emptied
                \/ pc["main"] = "untag" /\ s \in PreciousTimestep]_vars

(* Between calls the queue is within QueueLimit; with QueueFullPolicy      *)
(* Discard as well as Block.                                               *)
QueueWithinLimit ==
    (QueueLimit > 0 /\ pc["main"] \in {"pending", "app"}) =>
        Cardinality(QueuedTimesteps) <= QueueLimit

(* "The default value of 0 is interpreted as no limit": with QueueLimit 0   *)
(* no step is discarded.  With QueueFullPolicy Discard TLC refutes it.      *)
UnlimitedKeepsAll == QueueLimit = 0 => Emptied = {}

(* Between calls, if a step was removed that was not discarded, at least    *)
(* ReserveQueueLimit newer or precious ones are in the queue for readers    *)
(* that come late ("the number of steps which the writer will keep in the   *)
(* queue"), or one less when the newest step was discarded: it takes a      *)
(* place in the reserve while its notice is sent, and an older step may be  *)
(* removed in favour of it before it is removed itself.                     *)
ReserveKept ==
    pc["main"] = "app" =>
        \A t \in (0 .. WriterTimestep) \ (QueuedTimesteps \cup Emptied) :
            Cardinality({u \in QueuedTimesteps : u > t \/ u \in PreciousTimestep})
                >= ReserveQueueLimit - (IF WriterTimestep \in Emptied THEN 1 ELSE 0)

(* The reserve is kept without that exception.  TLC refutes it when the    *)
(* last reader leaves while the notice of a discarded step is sent.        *)
ReserveQueued ==
    pc["main"] = "app" =>
        \A t \in (0 .. WriterTimestep) \ (QueuedTimesteps \cup Emptied) :
            Cardinality({u \in QueuedTimesteps : u > t \/ u \in PreciousTimestep})
                >= ReserveQueueLimit

-----------------------------------------------------------------------------
(* Delivery *)

(* AllToAll: between calls a live, admitted reader got what is in the queue *)
(* from its first step on, and after the first step it got every other,    *)
(* except the discarded ones.  (What has expired when it is admitted it     *)
(* does not get, though it may be told to start with it; and with a         *)
(* precious first step there is a gap after that, see PreciousPresented.)   *)
NoStepMissed ==
    (StepDistributionMode = "AllToAll" /\ ~FirstTimestepPrecious /\ pc["main"] = "app") =>
        \A r \in Cohorts : (peer[r] = "live" /\ ReaderStatus[r] = "Established") =>
            /\ received[r] \subseteq StartingTimestep[r] .. WriterTimestep
            /\ (QueuedTimesteps \cap (StartingTimestep[r] .. WriterTimestep)) \ Expired
                  \subseteq received[r]
            /\ \A t \in received[r] : (t .. WriterTimestep) \ Emptied \subseteq received[r]

(* "assert((Stream->ReaderRegisterQueue))": main never sets out to admit a *)
(* reader without a registration waiting for it, although the number of    *)
(* pending readers was counted before the step was distributed.            *)
RegistrationQueued == pc["main"] = "participate" => ReaderRegisterQueue # <<>>

(* A precious first step is "presented as a first timestep to any reader   *)
(* that joins at a later time", however long ago it was provided, unless   *)
(* it was discarded (a QueueLimit of 0 does that, see UnlimitedKeepsAll).  *)
PreciousPresented ==
    (StepDistributionMode = "AllToAll" /\ FirstTimestepPrecious /\ pc["main"] = "app"
        /\ WriterTimestep # -1 /\ 0 \notin Emptied) =>
        \A r \in Cohorts :
            (peer[r] = "live" /\ ReaderStatus[r] = "Established") => 0 \in received[r]

(* RoundRobin and OnDemand: two threads hand steps out, and still no step  *)
(* goes to two readers.                                                    *)
DeliveredOnce ==
    StepDistributionMode # "AllToAll" =>
        \A r, s \in Cohorts : r # s => received[r] \cap received[s] = {}

(* RoundRobin: the turns are even, whatever the pace of the readers. *)
RoundRobinEven ==
    (StepDistributionMode = "RoundRobin" /\ pc["main"] = "app") =>
        \A i, j \in 1 .. Len(Readers) :
            i < j => Cardinality(received[Readers[i]]) - Cardinality(received[Readers[j]])
                        \in {0, 1}

(* A step reaches a reader after all earlier steps sent to that reader.    *)
InOrder ==
    [][\A r \in Cohorts : \A t \in received'[r] \ received[r] :
            \A u \in received[r] : u < t]_vars

(* No step is handed to two demands and none is gone back to.              *)
DemandsAdvance ==
    [][LastDemandTimestep' # LastDemandTimestep =>
            LastDemandTimestep < LastDemandTimestep']_vars

(* When SstWriterClose has returned, every reader still connected has been *)
(* told that the stream is over.                                           *)
CloseAnnounced ==
    (StepDistributionMode # "OnDemand" /\ pc["main"] = "closed") =>
        \A r \in Cohorts : (peer[r] = "live" /\ r \in CMconn) => r \in gotClose

-----------------------------------------------------------------------------
(* The lock, the condition variable and the readers' status *)

LockedPcs == {"queuedLoop", "statusLoop", "sendLoop", "discardLoop", "closeLoop", "untag",
              "derefLoop", "requestSent", "handlerDone", "connCloseDone", "releaseDone"}

(* A thread that works on the queue or on the readers owns DataLock.       *)
LockHeld == \A th \in Threads : pc[th] \in LockedPcs => lock = th

(* main never sleeps on a condition that has come true: whoever makes it   *)
(* true signals.                                                           *)
NoLostWakeup ==
    asleep =>
        /\ pc["main"] = "rendezvous" => ReaderRegisterQueue = <<>>
        /\ pc["main"] = "awaitReader" => ReaderStatus[rdr["main"]] = "Opening"
        /\ pc["main"] = "blocked" => QueueFull(QueuedTimesteps)
        /\ pc["main"] = "drain" => QueuedTimesteps # {}

(* The entry a thread goes on to use after it gave the lock up to send it  *)
(* is still queued: main walking the queue for a new reader, net answering *)
(* a request.                                                              *)
SentEntryAlive ==
    /\ (pc["main"] \in CallPcs \ {"closeLoop"} /\ ret["main"] = "queuedLoop")
           => step["main"] \in QueuedTimesteps
    /\ (pc["net"] = "write" /\ ret["net"] = "requestSent") => step["net"] \in QueuedTimesteps

(* A reader that has closed or failed is never treated as established      *)
(* again.                                                                  *)
NoResurrection ==
    [][\A r \in Cohorts :
            ReaderStatus[r] \in Departed => ReaderStatus'[r] # "Established"]_vars

-----------------------------------------------------------------------------
(* Progress.  Both threads are scheduled, the network delivers, and the    *)
(* readers go on reading: they activate, ask for steps, release what they  *)
(* got and close at the end of the stream.  The application may stop.      *)
Fairness ==
    /\ WF_vars(MainInCall)
    /\ WF_vars(NetInHandler)
    /\ \A r \in Cohorts :
          /\ WF_vars(ReaderActivates(r))
          /\ WF_vars(\E t \in Steps \ Emptied : ReaderReleases(r, t))
          /\ WF_vars(ReaderRequests(r))
          /\ WF_vars(r \in gotClose /\ ReaderCloses(r))
          /\ WF_vars(ConnectionCloses(r))

FairSpec == Spec /\ Fairness

(* The windows in which a departure goes wrong (see NoResurrection,        *)
(* LockHeld and ReaderAwaited): before a reader that registered has        *)
(* activated and main has seen it, and between the snapshot of the         *)
(* readers' status and the end of ProcessReaderStatusList.                 *)
Window ==
    \/ pc["main"] \in {"awaitReader", "distribute", "statusLoop"}
    \/ pc["main"] \in CallPcs /\ ret["main"] = "statusLoop"

LeavesInWindow ==
    \E r \in Cohorts :
        /\ peer'[r] # peer[r] /\ peer'[r] \in {"closed", "crashed", "gone"}
        /\ Window \/ peer[r] = "registered"

(* Readers leave at any other time. *)
OrderlySpec == Init /\ [][Next /\ ~LeavesInWindow]_vars /\ Fairness

(* The wait for a new reader to activate ends; the handler of a connection *)
(* that closes in state Opening says "handling failure" and wakes main.    *)
ReaderAwaited == (pc["main"] = "awaitReader") ~> (pc["main"] # "awaitReader")

(* EndStep returns: a writer blocked on a full queue is unblocked.         *)
EndStepReturns == (pc["main"] = "decide") ~> (pc["main"] = "app")

(* SstWriterClose returns: the queue drains.                               *)
CloseReturns == (pc["main"] = "untag") ~> (pc["main"] = "closed")

=============================================================================
