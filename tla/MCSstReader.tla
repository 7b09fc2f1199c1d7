----------------------------- MODULE MCSstReader -----------------------------
(* SstReader on small instances: the streams a cohort of two opens. *)
EXTENDS SstReaderProps

Plain == [CPCommPattern |-> "Min", AlwaysProvideLatestTimestep |-> FALSE,
          StepDistributionMode |-> "AllToAll", Timeout |-> "none",
          MaxSteps |-> 3, MaxCalls |-> 4, Discards |-> FALSE, WriterFails |-> "never"]

(* rank 0 alone hears the writer, which may die *)
MinStream == [Plain EXCEPT !.WriterFails = "established"]
(* notices of discarded steps in the queue *)
DiscardStream == [Plain EXCEPT !.Discards = TRUE]
(* each rank has its own connection *)
PeerStream == [Plain EXCEPT !.CPCommPattern = "Peer", !.Discards = TRUE, !.MaxCalls = 3]
(* the newest step only, when the metadata reaches the ranks at different times *)
LatestPeerStream == [Plain EXCEPT !.CPCommPattern = "Peer", !.AlwaysProvideLatestTimestep = TRUE,
                                  !.MaxSteps = 4, !.MaxCalls = 3]
(* the newest step only, released by both threads of rank 0 *)
LatestMinStream == [Plain EXCEPT !.AlwaysProvideLatestTimestep = TRUE, !.Timeout = "zero"]
(* one step for each request *)
OnDemandStream == [Plain EXCEPT !.StepDistributionMode = "OnDemand"]
(* a timeout, and a writer that may die *)
TimeoutStream == [Plain EXCEPT !.Timeout = "some", !.MaxSteps = 2, !.MaxCalls = 3,
                               !.WriterFails = "established"]

Streams == {MinStream, DiscardStream, PeerStream, LatestPeerStream, LatestMinStream,
            OnDemandStream, TimeoutStream}
=============================================================================
