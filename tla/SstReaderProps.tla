--------------------------- MODULE SstReaderProps ---------------------------
(* What makes the control plane of an SST reader correct. *)
EXTENDS SstReader

-----------------------------------------------------------------------------
(* Every variable holds a value of its C type that the code can give it. *)
Results == [status : {"OK", "Timeout", "EndOfStream", "FatalError", "NoStream"},
            step : Nothing .. MaxSteps - 1]
TypeOK ==
    /\ \A i \in DOMAIN log : log[i] \in [kind : {"step", "notice", "close"},
                                          Timestep : Nothing .. MaxSteps - 1]
    /\ writerUp \in BOOLEAN /\ response \in BOOLEAN
    /\ arrived \in [Rank -> 0 .. MaxSteps + 1]
    /\ CMconn \in [Rank -> {"none", "up", "watched", "lost"}]
    /\ Status \in [Rank -> {"NotOpen", "Established", "PeerClosed", "PeerFailed", "Destroyed"}]
    /\ \A r \in Rank : \A i \in DOMAIN Timesteps[r] :
           Timesteps[r][i] \in [Timestep : 0 .. MaxSteps - 1, Metadata : BOOLEAN]
    /\ DiscardPriorTimestep \in [Rank -> Nothing .. MaxSteps]
    /\ FinalTimestep \in [Rank -> Nothing .. Infinity]
    /\ ReaderTimestep \in [Rank -> Nothing .. MaxSteps]
    /\ CurrentWorkingTimestep \in [Rank -> Nothing .. MaxSteps]
    /\ \A r \in Rank : ToSet(results[r]) \subseteq Results
    /\ released \in [Rank -> [0 .. MaxSteps - 1 -> Nat]]
    /\ freedTouched \subseteq {"entry", "attributes"}

-----------------------------------------------------------------------------
Known(r, kinds) == {log[i].Timestep : i \in {j \in 1 .. arrived[r] : log[j].kind \in kinds}}

(* A step the application works on, until EndStep has let go of its entry *)
Working(r) == (inStep[r] /\ pc[r] = "user") \/ pc[r] \in {"get_attributes", "install"}
Unreleased(r) == Working(r) \/ pc[r] \in {"end_barrier", "send_release"}

(* releasePriorTimesteps, SstReleaseStep and the arrival of a late step each   *)
(* send releases, from two threads: the writer never hears of the step the     *)
(* application is working on, and of no step twice; but for a step that came   *)
(* late, which may do so while releasePriorTimesteps sends a message, and be   *)
(* released by both.                                                           *)
MayComeLate == CPCommPattern = "Peer" /\ AlwaysProvideLatestTimestep

ReleasedOnce ==
    \A r \in Peered : \A t \in DOMAIN released[r] :
        released[r][t] <= (IF Unreleased(r) /\ t = ReaderTimestep[r] THEN 0
                           ELSE IF MayComeLate THEN 2 ELSE 1)

(* A step that has arrived is in the queue, or in use, or the writer has been *)
(* told that it is not needed: otherwise the writer keeps it for ever.        *)
StepsAccountedFor ==
    \A r \in Peered : Status[r] # "Destroyed" =>
        \A t \in Known(r, {"step"}) :
            \/ t \in Steps(Timesteps[r])
            \/ released[r][t] > 0
            \/ (Unreleased(r) /\ t = ReaderTimestep[r])

(* The entry of the step in use stays in the queue until EndStep, which       *)
(* follows the head of the queue without looking whether there is one.        *)
CurrentEntryQueued ==
    \A r \in Peered : Working(r) => ReaderTimestep[r] \in Steps(Timesteps[r])

(* Formats are sent once, with the step that first uses them, or with the     *)
(* notice that it was discarded: whatever became of the earlier steps, a rank *)
(* with a writer peer that is given a step has the formats of all of them.    *)
FormatsComplete ==
    \A r \in Peered : Working(r) =>
        \A t \in Logged({"step", "notice"}) : t <= ReaderTimestep[r] => t \in formats[r]

(* Attribute blocks overwrite one another when they are installed, so they    *)
(* must be listed in the order of their steps.  (In the Peer pattern a notice *)
(* installs its blocks when it arrives, before those of steps in the queue.)  *)
AttributesInOrder ==
    CPCommPattern = "Min" =>
        \A r \in Rank : \A i, j \in DOMAIN InternalAttrDataInfo[r] :
            i < j => InternalAttrDataInfo[r][i] < InternalAttrDataInfo[r][j]

(* BeginStep is collective: call by call, all ranks are told the same.        *)
SameEverywhere ==
    \A q, r \in Rank : \A i \in DOMAIN results[q] \cap DOMAIN results[r] :
        results[q][i] = results[r][i]

-----------------------------------------------------------------------------
(* What rank r sees is a StepStream. *)
Outcomes(r) == {results[r][i].status : i \in DOMAIN results[r]}
Delivered(r) == Selected([i \in DOMAIN results[r] |-> results[r][i].step],
                         {i \in DOMAIN results[r] : results[r][i].status = "OK"})
WrittenSteps == Selected([i \in DOMAIN log |-> log[i].Timestep],
                         {i \in DOMAIN log : log[i].kind = "step"})

Stream(r) == INSTANCE StepStream WITH
    skips <- AlwaysProvideLatestTimestep,
    written <- WrittenSteps,
    closed <- Closed,
    broken <- ~writerUp,
    read <- Delivered(r),
    outcome <- IF "EndOfStream" \in Outcomes(r) THEN "ended"
               ELSE IF Outcomes(r) \cap {"FatalError", "NoStream"} # {} THEN "failed" ELSE "open"

(* Steps are delivered once and in order, none is passed over (but for a newer *)
(* one, where the newest is wanted), the end is reported when nothing is left, *)
(* and failure only when the writer is gone.                                   *)
StreamKept ==
    /\ \A r \in Rank : Stream(r)!Init
    /\ [][\A r \in Rank : [Stream(r)!Next]_(Stream(r)!vars)]_vars

-----------------------------------------------------------------------------
(* BeginStep, EndStep and Close return, on every rank, when the writer goes on *)
(* to provide steps or to close, and in the face of its failure.               *)
CallsReturn ==
    \A r \in Rank : (pc[r] # "user") ~> (pc[r] \in {"user", "done"} \/ freedTouched # {})

-----------------------------------------------------------------------------
(* What the code's comments say and TLC refutes, each in the configuration its *)
(* comment names.  The runs leave these out.                                   *)

(* The end of the stream is not reported while a step of it is undelivered     *)
(* (SstAdvanceStepPeer for the next step, with a timeout; refuted in "Peer"    *)
(* with a Timeout, when one rank's metadata is late).                          *)
EndIsTheEnd ==
    \A r \in Rank : "EndOfStream" \in Outcomes(r) /\ ~AlwaysProvideLatestTimestep
                       => Delivered(r) = WrittenSteps

(* A step that is released when it arrives late is not released again (refuted *)
(* in "Peer" with the newest of at least four steps wanted).                   *)
LateReleasedOnce == \A r \in Peered : \A t \in DOMAIN released[r] : released[r][t] <= 1

(* releasePriorTimesteps, in the middle of the list when it gives the lock up, *)
(* finds the entries it left (refuted in "Min" with the newest step wanted,    *)
(* where both threads walk).                                                   *)
ListEntriesAlive == "entry" \notin freedTouched

(* The attribute blocks an application is installing are not freed (refuted in *)
(* "Peer" with Discards).                                                      *)
AttributesAlive == "attributes" \notin freedTouched

(* Formats of discarded steps reach every rank (refuted in "Min" with Discards *)
(* on the ranks that follow rank 0).                                           *)
FormatsEverywhere ==
    \A r \in Rank : Working(r) =>
        \A t \in Logged({"step", "notice"}) : t <= ReaderTimestep[r] => t \in formats[r]

(* SstReaderOpen returns on every rank (refuted when the writer may fail at    *)
(* "any" time: rank 0 leaves alone).                                           *)
OpenReturns ==
    \A r \in Rank : (pc[r] \in {"opening", "wait_peers"})
                        ~> (pc[r] \notin {"opening", "wait_peers"})
=============================================================================
