---------------------- MODULE SstWriterDeliveryProofs -----------------------
(* What the writer delivers, for every number of cohorts and steps and every *)
(* configuration: delivered steps are retained, the queue stays within its   *)
(* limit, a new reader finds the step it starts with, every reader is told   *)
(* of the end, none comes back, steps come once, in order and without a gap, *)
(* and a precious first step comes to all; and the reserve is kept.          *)
EXTENDS SstWriterRefProofs

-----------------------------------------------------------------------------
(* What the readers hold *)

(* A thread that has a step to write to a reader *)
Sending(th) == pc[th] \in {"register", "write"} /\ ret[th] \in MetadataSends

(* main tells the readers that the step is discarded. *)
Discarding == MainAt("discardLoop")

(* The steps that are discarded *)
Discards ==
    /\ Emptied \subseteq InProgressFlag
    /\ \A t \in InProgressFlag : t <= WriterTimestep
    /\ Providing => (WriterTimestep \in Emptied <=> Discarding)

(* A reader holds nothing before it is admitted, nor what is yet to be sent to it. *)
Unsent ==
    /\ StepDistributionMode # "OnDemand" => ~Sending("net")
    /\ \A r \in Cohorts : peer[r] \in {"absent", "registered"} => delivered[r] = {}
    /\ (pc["main"] = "awaitReader" /\ StepDistributionMode = "AllToAll"
          /\ peer[rdr["main"]] = "live") => delivered[rdr["main"]] = {}
    /\ MainAt("queuedLoop") =>
          /\ peer[rdr["main"]] = "live" => \A t \in delivered[rdr["main"]] : t < idx["main"]
          /\ Sending("main") => step["main"] < idx["main"]

Held ==
    /\ \A r \in Cohorts : peer[r] = "live" => delivered[r] \ Emptied \subseteq SentTimestepList[r]
    /\ \A th \in Threads : (Sending(th) /\ peer[rdr[th]] = "live") =>
           step[th] \in SentTimestepList[rdr[th]] /\ step[th] \notin delivered[rdr[th]]
    /\ (Sending("main") /\ Sending("net") /\ rdr["main"] = rdr["net"]
           /\ peer[rdr["net"]] = "live") => step["main"] # step["net"]

(* What the readers hold: with the counts of references, the inductive *)
(* invariant of what is sent to them.                                  *)
HeldInv == Discards /\ Unsent /\ Held

(* No step is discarded and the one being discarded stays the same. *)
DiscardsKept ==
    /\ UNCHANGED <<Emptied, InProgressFlag, WriterTimestep>>
    /\ Providing' => Providing /\ (Discarding' <=> Discarding)

(* What discards no step keeps what is known of the discarded ones. *)
LEMMA DiscardsKeptHolds ==
    ASSUME Discards, DiscardsKept
    PROVE  Discards'
BY DEF Discards, DiscardsKept

(* What readers hold only shrinks, and no reader becomes live. *)
HoldingKept ==
    \A r \in Cohorts :
        /\ delivered'[r] \subseteq delivered[r]
        /\ peer'[r] \in {"absent", "registered"} => peer[r] \in {"absent", "registered"}
        /\ peer'[r] = "live" =>
              /\ peer[r] = "live"
              /\ \A t \in SentTimestepList[r] \ SentTimestepList'[r] :
                    t \in delivered[r] /\ t \notin delivered'[r]

(* What a thread is about to write stays what it was. *)
SendingKept ==
    \A th \in Threads : Sending(th)' => Sending(th) /\ rdr'[th] = rdr[th] /\ step'[th] = step[th]

(* The admission of a reader goes on, or another starts with nothing sent. *)
QueuedKept ==
    /\ (pc'["main"] = "awaitReader" /\ StepDistributionMode = "AllToAll") =>
          \/ pc["main"] = "awaitReader" /\ rdr'["main"] = rdr["main"]
          \/ peer'[rdr'["main"]] # "live"
    /\ MainAt("queuedLoop")' =>
          \/ /\ MainAt("queuedLoop") /\ rdr'["main"] = rdr["main"] /\ idx'["main"] = idx["main"]
          \/ /\ pc["main"] = "awaitReader" /\ StepDistributionMode = "AllToAll"
             /\ rdr'["main"] = rdr["main"]

(* What hands no step out keeps what is known of those held. *)
LEMMA HeldKept ==
    ASSUME TypeInv, Unsent, Held, HoldingKept, SendingKept, QueuedKept, Emptied \subseteq Emptied'
    PROVE  Unsent' /\ Held'
<1>1. /\ \A th \in Threads : Sending(th) => rdr[th] \in Cohorts
      /\ MainAt("queuedLoop") => rdr["main"] \in Cohorts
      /\ pc["main"] = "awaitReader" => rdr["main"] \in Cohorts
    BY DEF TypeInv, Positioned, Sending, InCall, CallPcs, MainAt, Threads
<1>2. \A r \in Cohorts : peer'[r] = "live" => delivered'[r] \ Emptied' \subseteq SentTimestepList'[r]
    <2> SUFFICES ASSUME NEW r \in Cohorts, peer'[r] = "live", NEW t \in delivered'[r] \ Emptied'
                 PROVE  t \in SentTimestepList'[r]
        OBVIOUS
    <2>1. t \in SentTimestepList[r]
        BY DEF HoldingKept, Held
    <2>2. QED
        BY <2>1 DEF HoldingKept
<1>3. \A th \in Threads : (Sending(th)' /\ peer'[rdr'[th]] = "live") =>
           step'[th] \in SentTimestepList'[rdr'[th]] /\ step'[th] \notin delivered'[rdr'[th]]
    <2> SUFFICES ASSUME NEW th \in Threads, Sending(th)', peer'[rdr'[th]] = "live"
                 PROVE  step'[th] \in SentTimestepList'[rdr'[th]] /\ step'[th] \notin delivered'[rdr'[th]]
        OBVIOUS
    <2>1. Sending(th) /\ rdr'[th] = rdr[th] /\ step'[th] = step[th] /\ rdr[th] \in Cohorts
        BY <1>1 DEF SendingKept
    <2>2. peer[rdr[th]] = "live"
        BY <2>1 DEF HoldingKept
    <2>3. step[th] \in SentTimestepList[rdr[th]] /\ step[th] \notin delivered[rdr[th]]
        BY <2>1, <2>2 DEF Held
    <2>4. QED
        BY <2>1, <2>3 DEF HoldingKept
<1>4. (Sending("main")' /\ Sending("net")' /\ rdr'["main"] = rdr'["net"]
           /\ peer'[rdr'["net"]] = "live") => step'["main"] # step'["net"]
    <2> SUFFICES ASSUME Sending("main")', Sending("net")', rdr'["main"] = rdr'["net"],
                        peer'[rdr'["net"]] = "live"
                 PROVE  step'["main"] # step'["net"]
        OBVIOUS
    <2>1. /\ Sending("main") /\ rdr'["main"] = rdr["main"] /\ step'["main"] = step["main"]
          /\ Sending("net") /\ rdr'["net"] = rdr["net"] /\ step'["net"] = step["net"]
        BY DEF SendingKept, Threads
    <2>2. peer[rdr["net"]] = "live"
        BY <1>1, <2>1 DEF HoldingKept, Threads
    <2>3. QED
        BY <2>1, <2>2 DEF Held
<1>5. /\ StepDistributionMode # "OnDemand" => ~Sending("net")'
      /\ \A r \in Cohorts : peer'[r] \in {"absent", "registered"} => delivered'[r] = {}
    BY DEF HoldingKept, Unsent, SendingKept, Threads
<1>6. (pc'["main"] = "awaitReader" /\ StepDistributionMode = "AllToAll"
          /\ peer'[rdr'["main"]] = "live") => delivered'[rdr'["main"]] = {}
    BY <1>1 DEF HoldingKept, Unsent, QueuedKept
<1>7. MainAt("queuedLoop")' =>
          /\ peer'[rdr'["main"]] = "live" => \A t \in delivered'[rdr'["main"]] : t < idx'["main"]
          /\ Sending("main")' => step'["main"] < idx'["main"]
    <2>1. CASE MainAt("queuedLoop") /\ rdr'["main"] = rdr["main"] /\ idx'["main"] = idx["main"]
        BY <1>1, <2>1 DEF HoldingKept, Unsent, SendingKept, Threads
    <2>2. CASE pc["main"] = "awaitReader" /\ StepDistributionMode = "AllToAll"
               /\ rdr'["main"] = rdr["main"]
        <3>1. ~Sending("main")
            BY <2>2 DEF Sending
        <3>2. QED
            BY <1>1, <2>2, <3>1 DEF HoldingKept, Unsent, SendingKept, Threads
    <2>3. QED
        BY <2>1, <2>2 DEF QueuedKept
<1>8. QED
    BY <1>2, <1>3, <1>4, <1>5, <1>6, <1>7 DEF Unsent, Held

(* A step in which nothing is handed out, written or discarded. *)
HeldFrame ==
    /\ DiscardsKept /\ SendingKept /\ QueuedKept
    /\ HoldingKept

(* It keeps the invariant. *)
LEMMA HeldFrameKept ==
    ASSUME TypeInv, HeldInv, HeldFrame
    PROVE  HeldInv'
<1>1. Emptied \subseteq Emptied'
    BY DEF HeldFrame, DiscardsKept
<1>2. QED
    BY <1>1, HeldKept, DiscardsKeptHolds DEF HeldFrame, HeldInv

(* So do the procedures that both threads call: a write that succeeds    *)
(* delivers a step that is on the list of those sent, and one that fails *)
(* gives the reader up.                                                  *)
LEMMA SharedHeld ==
    ASSUME TypeInv, RefInv, LiveInv, HeldInv, NEW th \in Threads, Shared(th)
    PROVE  HeldInv'
<1> USE DEF Threads, CallPcs, markVars, queueVars, openVars, stepVars, distVars,
            closeVars, streamVars, listVars, linkVars, readerVars, callVars, localVars,
            peerVars, dataVars, Goto
<1>0. ThreadTypes /\ ReaderTypes /\ PeerTypes /\ ReturnOK
    BY DEF TypeInv, TypeOK
<1>a. /\ InCall(th) => rdr[th] \in Cohorts /\ peer[rdr[th]] \in {"live"} \cup Left
      /\ pc[th] \in GivingUp => rdr[th] \in Cohorts /\ peer[rdr[th]] \in Left
    BY DEF TypeInv, Positioned, LiveInv, Calls, InCall, GivingUp
<1>b. ASSUME InCall(th),
             pc'[th] \in (CallPcs \ {"closeLoop"}) \cup {ret[th]},
             pc[th] = "register" \/ pc'[th] # "register",
             pc[th] = "register" \/ pc'[th] # "write",
             UNCHANGED <<idx, Emptied, InProgressFlag, WriterTimestep, step>>, ret'[th] = ret[th], rdr'[th] = rdr[th],
             \A o \in Threads \ {th} : pc'[o] = pc[o] /\ ret'[o] = ret[o] /\ rdr'[o] = rdr[o]
      PROVE  DiscardsKept /\ SendingKept /\ QueuedKept
    <2>1. ControlKept /\ (Providing' <=> Providing)
        BY <1>b, CallKeepsControl
    <2>2. ret["main"] \in DerefRets \/ th = "net"
        BY <1>b, <1>0 DEF ReturnOK, InCall, DerefRets, WriteRets, SendRets
    <2>3. Discarding' <=> Discarding
        BY <1>b, <2>2 DEF Discarding, MainAt, InCall, DerefRets, WriteRets, SendRets
    <2>4. MainAt("queuedLoop")' => MainAt("queuedLoop") /\ rdr'["main"] = rdr["main"]
        BY <1>b, <2>2 DEF MainAt, InCall, DerefRets, WriteRets, SendRets
    <2>5. pc'["main"] = "awaitReader" => pc["main"] = "awaitReader" /\ rdr'["main"] = rdr["main"]
        BY <2>1 DEF ControlKept
    <2>6. QueuedKept
        BY <1>b, <2>4, <2>5 DEF QueuedKept
    <2>7. SendingKept
        <3> SUFFICES ASSUME NEW o \in Threads, Sending(o)'
                     PROVE  Sending(o) /\ rdr'[o] = rdr[o] /\ step'[o] = step[o]
            BY DEF SendingKept
        <3>1. CASE o = th
            BY <1>0, <1>b, <3>1 DEF Sending, MetadataSends, InCall
        <3>2. CASE o # th
            BY <1>b, <3>2 DEF Sending
        <3>3. QED
            BY <3>1, <3>2
    <2>8. DiscardsKept
        BY <1>b, <2>1, <2>3 DEF DiscardsKept
    <2>9. QED
        BY <2>6, <2>7, <2>8
<1>1. CASE DerefAllSentTimesteps(th)
    <2>0. pc[th] = "derefLoop" /\ pc' = [pc EXCEPT ![th] = "derefRelease"]
          /\ UNCHANGED <<ret, rdr, step, idx, Emptied, InProgressFlag, WriterTimestep>>
        BY <1>1 DEF DerefAllSentTimesteps
    <2>1. DiscardsKept /\ SendingKept /\ QueuedKept
        BY <1>0, <2>0, <1>b DEF ThreadTypes, InCall
    <2>2. HoldingKept
        BY <1>0, <1>1, <1>a DEF DerefAllSentTimesteps, HoldingKept, GivingUp, Left, ReaderTypes
    <2>3. QED
        BY <2>1, <2>2, HeldFrameKept DEF HeldFrame
<1>2. CASE DerefRelocked(th) \/ PeerFailCloseFinish(th) \/ Registered(th) \/ Written(th)
    <2>0. /\ pc[th] \in CallPcs \ {"closeLoop"}
          /\ \E p \in {"derefLoop", ret[th]} \cup (IF pc[th] = "register" THEN {"write"} ELSE {}) :
                pc' = [pc EXCEPT ![th] = p]
          /\ UNCHANGED <<ret, rdr, step, idx, Emptied, InProgressFlag, WriterTimestep>>
        BY <1>2 DEF DerefRelocked, PeerFailCloseFinish, Registered, Written
    <2>b. ret[th] # "register" /\ ret[th] # "write"
        BY <1>0, <2>0 DEF ReturnOK, DerefRets, WriteRets, SendRets, NetDerefRets, NetWriteRets
    <2>c. /\ InCall(th) /\ pc'[th] \in (CallPcs \ {"closeLoop"}) \cup {ret[th]}
          /\ pc[th] = "register" \/ (pc'[th] # "register" /\ pc'[th] # "write")
          /\ \A o \in Threads \ {th} : pc'[o] = pc[o]
        BY <1>0, <2>0, <2>b DEF ThreadTypes, InCall
    <2>1. DiscardsKept /\ SendingKept /\ QueuedKept
        BY <2>0, <2>c, <1>b
    <2>2. HoldingKept
        BY <1>2 DEF DerefRelocked, PeerFailCloseFinish, Registered, Written, HoldingKept
    <2>3. QED
        BY <2>1, <2>2, HeldFrameKept DEF HeldFrame
<1>3. CASE WriteFailed(th)
    <2>1. /\ rdr[th] \in Cohorts /\ pc[th] = "failed"
          /\ StatusEffect(th, rdr[th], "PeerFailed", ret[th])
        BY <1>3, <1>a, PeerFailCloseStatus DEF WriteFailed, TypeInv, GivingUp
    <2>2. UNCHANGED <<idx, Emptied, InProgressFlag, WriterTimestep, step, delivered, peer, SentTimestepList>>
        BY <1>3 DEF WriteFailed
    <2>b. ret[th] # "register" /\ ret[th] # "write"
        BY <1>0, <2>1 DEF ReturnOK, DerefRets, WriteRets, SendRets, NetDerefRets, NetWriteRets
    <2>3. DiscardsKept /\ SendingKept /\ QueuedKept
        BY <1>0, <1>b, <2>1, <2>2, <2>b DEF StatusEffect, ThreadTypes, InCall
    <2>4. HoldingKept
        BY <2>2 DEF HoldingKept
    <2>5. QED
        BY <2>3, <2>4, HeldFrameKept DEF HeldFrame
<1>4. ASSUME NEW ok \in BOOLEAN, CMwrite(th, ok)
      PROVE  HeldInv'
    <2>1. InCall(th) /\ pc[th] = "write" /\ rdr[th] \in Cohorts
        BY <1>4, <1>a DEF CMwrite, InCall
    <2>2. DiscardsKept /\ SendingKept /\ QueuedKept
        BY <1>0, <1>4, <1>b, <2>1 DEF CMwrite, ThreadTypes
    <2>3. CASE delivered' = delivered
        <3>1. HoldingKept
            BY <1>4, <2>3 DEF CMwrite, HoldingKept
        <3>2. QED
            BY <2>2, <3>1, HeldFrameKept DEF HeldFrame
    <2>4. CASE delivered' # delivered
        <3> DEFINE r == rdr[th]
                   t == step[th]
        <3>1. /\ peer[r] = "live" /\ r \in Cohorts
              /\ delivered' = [delivered EXCEPT ![r] = @ \cup {t}]
              /\ \/ ret[th] \in MetadataSends /\ Sending(th)
                 \/ ret[th] = "discardLoop" /\ th = "main"
              /\ pc' = [pc EXCEPT ![th] = IF ok THEN "written" ELSE "failed"]
              /\ UNCHANGED <<rdr, step, idx, ret, peer, SentTimestepList, Emptied>>
            BY <1>0, <1>4, <2>1, <2>4 DEF CMwrite, Sending, ReturnOK, NetWriteRets, WriteRets, SendRets
        <3>2. ASSUME ret[th] \in MetadataSends, Sending(th)
              PROVE  Unsent' /\ Held'
            <4>1. t \in SentTimestepList[r] /\ t \notin delivered[r]
                BY <3>1, <3>2 DEF HeldInv, Held
            <4>2. ~Sending(th)'
                BY <1>0, <3>1 DEF Sending, ThreadTypes
            <4>3. \A o \in Threads : Sending(o)' => o # th /\ Sending(o)
                BY <2>2, <4>2 DEF SendingKept
            <4>4. \A s \in Cohorts : peer'[s] = "live" => delivered'[s] \ Emptied' \subseteq SentTimestepList'[s]
                BY <1>0, <3>1, <4>1 DEF HeldInv, Held, PeerTypes
            <4>5. \A o \in Threads : (Sending(o)' /\ peer'[rdr'[o]] = "live") =>
                      step'[o] \in SentTimestepList'[rdr'[o]] /\ step'[o] \notin delivered'[rdr'[o]]
                <5> SUFFICES ASSUME NEW o \in Threads, Sending(o)', peer[rdr[o]] = "live"
                             PROVE  step[o] \in SentTimestepList[rdr[o]] /\ step[o] \notin delivered'[rdr[o]]
                    BY <3>1
                <5>1. step[o] \in SentTimestepList[rdr[o]] /\ step[o] \notin delivered[rdr[o]]
                    BY <4>3 DEF HeldInv, Held
                <5>2. rdr[o] = r => step[o] # t
                    BY <3>1, <3>2, <4>3 DEF HeldInv, Held
                <5>3. rdr[o] \in Cohorts
                    BY <4>3 DEF Sending, TypeInv, Positioned, InCall
                <5>4. QED
                    BY <1>0, <3>1, <5>1, <5>2, <5>3 DEF PeerTypes
            <4>6. ~(Sending("main")' /\ Sending("net")')
                BY <4>2
            <4>7. \A s \in Cohorts : peer'[s] \in {"absent", "registered"} => delivered'[s] = {}
                BY <1>0, <3>1 DEF HeldInv, Unsent, PeerTypes
            <4>8. pc["main"] = "awaitReader" \/ MainAt("queuedLoop") => th = "main" \/ StepDistributionMode # "AllToAll"
                BY <3>2 DEF HeldInv, Unsent
            <4>9. pc'["main"] = "awaitReader" /\ StepDistributionMode = "AllToAll" => pc["main"] = "awaitReader" /\ th = "net"
                BY <1>0, <3>1 DEF ThreadTypes
            <4>10. ~(pc'["main"] = "awaitReader" /\ StepDistributionMode = "AllToAll")
                BY <3>2, <4>9 DEF HeldInv, Unsent
            <4>11. MainAt("queuedLoop")' => th = "main" /\ ret["main"] = "queuedLoop" /\ MainAt("queuedLoop")
                <5>1. MainAt("queuedLoop")' => MainAt("queuedLoop")
                    BY <1>0, <2>1, <3>1 DEF MainAt, InCall, ThreadTypes
                <5>2. MainAt("queuedLoop") => StepDistributionMode = "AllToAll"
                    BY DEF RefInv, SentOnce, QueuedUnsent
                <5>3. MainAt("queuedLoop")' => th = "main"
                    BY <3>2, <5>1, <5>2 DEF HeldInv, Unsent
                <5>4. QED
                    BY <2>1, <5>1, <5>3 DEF MainAt, InCall
            <4>12. MainAt("queuedLoop")' =>
                      /\ peer'[rdr'["main"]] = "live" => \A u \in delivered'[rdr'["main"]] : u < idx'["main"]
                      /\ Sending("main")' => step'["main"] < idx'["main"]
                BY <1>0, <3>1, <3>2, <4>2, <4>11 DEF HeldInv, Unsent, PeerTypes
            <4>13. StepDistributionMode # "OnDemand" => ~Sending("net")'
                BY <4>3 DEF HeldInv, Unsent
            <4>14. QED
                BY <4>4, <4>5, <4>6, <4>7, <4>10, <4>12, <4>13 DEF Unsent, Held
        <3>3. ASSUME ret[th] = "discardLoop", th = "main"
              PROVE  Unsent' /\ Held'
            <4>1. Providing /\ Discarding /\ Unserved /\ t = WriterTimestep
                BY <2>1, <3>3 DEF Providing, Discarding, Unserved, MainAt, TypeInv, Serving
            <4>2. t \in Emptied /\ \A s \in Cohorts : t \notin SentTimestepList[s]
                BY <4>1 DEF HeldInv, Discards, RefInv, SentOnce, StepUnsent
            <4>3. \A o \in Threads : Sending(o)' => o = "net" /\ Sending(o)
                BY <2>2, <3>1, <3>3 DEF SendingKept, Sending, MetadataSends
            <4>4. \A s \in Cohorts : peer'[s] = "live" => delivered'[s] \ Emptied' \subseteq SentTimestepList'[s]
                BY <1>0, <3>1, <4>2 DEF HeldInv, Held, PeerTypes
            <4>5. \A o \in Threads : (Sending(o)' /\ peer'[rdr'[o]] = "live") =>
                      step'[o] \in SentTimestepList'[rdr'[o]] /\ step'[o] \notin delivered'[rdr'[o]]
                <5> SUFFICES ASSUME NEW o \in Threads, Sending(o)', peer[rdr[o]] = "live"
                             PROVE  step[o] \in SentTimestepList[rdr[o]] /\ step[o] \notin delivered'[rdr[o]]
                    BY <3>1
                <5>1. step[o] \in SentTimestepList[rdr[o]] /\ step[o] \notin delivered[rdr[o]]
                    BY <4>3 DEF HeldInv, Held
                <5>3. rdr[o] \in Cohorts
                    BY <4>3 DEF Sending, TypeInv, Positioned, InCall
                <5>2. step[o] # t
                    BY <5>1, <5>3, <4>2
                <5>4. QED
                    BY <1>0, <3>1, <5>1, <5>2, <5>3 DEF PeerTypes
            <4>6. ~Sending("main")'
                BY <4>3
            <4>7. \A s \in Cohorts : peer'[s] \in {"absent", "registered"} => delivered'[s] = {}
                BY <1>0, <3>1 DEF HeldInv, Unsent, PeerTypes
            <4>8. pc'["main"] # "awaitReader" /\ ~MainAt("queuedLoop")'
                BY <1>0, <3>1, <3>3 DEF ThreadTypes, MainAt
            <4>9. StepDistributionMode # "OnDemand" => ~Sending("net")'
                BY <4>3 DEF HeldInv, Unsent
            <4>10. QED
                BY <4>4, <4>5, <4>6, <4>7, <4>8, <4>9 DEF Unsent, Held
        <3>4. Discards'
            BY <2>2, DiscardsKeptHolds DEF HeldInv
        <3>5. QED
            BY <3>1, <3>2, <3>3, <3>4 DEF HeldInv
    <2>5. QED
        BY <2>3, <2>4
<1>5. CASE SendCloseMsgs(th) \/ SendCloseMsgsDone(th)
    <2>1. /\ pc[th] = "closeLoop"
          /\ \/ pc' = [pc EXCEPT ![th] = "write"] /\ ret' = [ret EXCEPT ![th] = "closeLoop"]
             \/ pc' = [pc EXCEPT ![th] = IF th = "main" THEN "untag" ELSE "idle"] /\ ret' = ret
          /\ \A o \in Threads \ {th} : rdr'[o] = rdr[o] /\ idx'[o] = idx[o]
          /\ UNCHANGED <<Emptied, InProgressFlag, WriterTimestep, step, delivered, peer, SentTimestepList>>
        BY <1>0, <1>5 DEF SendCloseMsgs, SendCloseMsgsDone, WriteToReader, ThreadTypes
    <2>2. DiscardsKept
        BY <1>0, <2>1 DEF DiscardsKept, Providing, Discarding, MainAt, InCall, ThreadTypes
    <2>3. SendingKept
        BY <1>0, <2>1 DEF SendingKept, Sending, MetadataSends, ThreadTypes
    <2>4. QueuedKept
        BY <1>0, <2>1 DEF QueuedKept, MainAt, InCall, ThreadTypes
    <2>5. HoldingKept
        BY <2>1 DEF HoldingKept
    <2>6. QED
        BY <2>2, <2>3, <2>4, <2>5, HeldFrameKept DEF HeldFrame
<1>6. QED
    BY <1>1, <1>2, <1>3, <1>4, <1>5 DEF Shared

(* So do main's steps outside of its sends and its calls. *)
LEMMA QuietMainHeld ==
    ASSUME TypeInv, RefInv, LiveInv, HeldInv, QuietMain
    PROVE  HeldInv'
<1> USE DEF Threads, CallPcs, markVars, queueVars, openVars, stepVars, distVars,
            closeVars, streamVars, listVars, linkVars, readerVars, callVars, localVars,
            peerVars, dataVars, Goto
<1>0. ThreadTypes /\ ReaderTypes
    BY DEF TypeInv, TypeOK
<1>1. CASE \/ SstWriterOpenRendezvous \/ waitForReaderResponse \/ StrayUnlock \/ SendQueuedDone
           \/ ProcessReaderStatusListBegin \/ ProcessReaderStatusListDone
           \/ HandlePendingReaders \/ UntagPreciousTimesteps \/ SstWriterClose
           \/ DecideTimestep \/ BlockedOnQueueFull
    <2> USE DEF SstWriterOpenRendezvous, waitForReaderResponse, StrayUnlock, SendQueuedDone,
            ProcessReaderStatusListBegin, ProcessReaderStatusListDone,
            HandlePendingReaders, UntagPreciousTimesteps, SstWriterClose, ReaderAdmitted,
            DecideTimestep, BlockedOnQueueFull, TakeSnapshot
    <2>1. DiscardsKept
        BY <1>0, <1>1 DEF DiscardsKept, Providing, Discarding, MainAt, InCall, ThreadTypes
    <2>2. SendingKept
        BY <1>0, <1>1 DEF SendingKept, Sending, MetadataSends, ThreadTypes
    <2>3. QueuedKept
        BY <1>0, <1>1 DEF QueuedKept, MainAt, InCall, ThreadTypes
    <2>4. HoldingKept
        BY <1>1 DEF HoldingKept
    <2>5. QED
        BY <2>1, <2>2, <2>3, <2>4, HeldFrameKept DEF HeldFrame
<1>2. CASE DeliverBegin
    <2> USE <1>2 DEF DeliverBegin
    <2>1. Discards'
        BY <1>0 DEF HeldInv, Discards, RefInv, SentOnce, StepUnsent, Providing, Discarding, MainAt, InCall, ThreadTypes
    <2>2. SendingKept
        BY <1>0 DEF SendingKept, Sending, MetadataSends, ThreadTypes
    <2>3. QueuedKept
        BY <1>0 DEF QueuedKept, MainAt, InCall, ThreadTypes
    <2>4. HoldingKept /\ Emptied \subseteq Emptied'
        BY DEF HoldingKept
    <2>5. QED
        BY <2>1, <2>2, <2>3, <2>4, HeldKept DEF HeldInv
<1>3. CASE ProcessReaderStatusList
    <2> DEFINE i == NextReader("main", StatusDiffers)
               r == Readers[i]
    <2>1. i \in 1 .. Len(Readers) /\ r \in Cohorts /\ r \in StatusDiffers
        BY <1>0, <1>3, NextReaderIsReader
        DEF ProcessReaderStatusList, TypeInv, TypeOK, StreamTypes, ThreadTypes, Positioned, MainAt
    <2>2. StatusEffect("main", r, snapshot[r], "statusLoop") /\ pc["main"] = "statusLoop"
        BY <1>3, <2>1, PeerFailCloseStatus DEF ProcessReaderStatusList, TypeInv
    <2> HIDE DEF r
    <2>3. UNCHANGED <<peer, delivered, SentTimestepList, Emptied, InProgressFlag, WriterTimestep, step>>
        BY <1>3 DEF ProcessReaderStatusList
    <2>4. DiscardsKept
        BY <1>0, <2>2, <2>3 DEF StatusEffect, DiscardsKept, Providing, Discarding, MainAt, InCall, ThreadTypes
    <2>5. SendingKept
        BY <1>0, <2>2, <2>3 DEF StatusEffect, SendingKept, Sending, MetadataSends, ThreadTypes
    <2>6. QueuedKept
        BY <1>0, <2>2 DEF StatusEffect, QueuedKept, MainAt, InCall, ThreadTypes
    <2>7. HoldingKept
        BY <2>3 DEF HoldingKept
    <2>8. QED
        BY <2>4, <2>5, <2>6, <2>7, HeldFrameKept DEF HeldFrame
<1>4. CASE SendDiscarded
    <2>1. pc["main"] = "discardLoop" /\ ret' = [ret EXCEPT !["main"] = "discardLoop"]
          /\ pc' = [pc EXCEPT !["main"] = "write"]
          /\ rdr'["net"] = rdr["net"]
          /\ UNCHANGED <<peer, delivered, SentTimestepList, Emptied, InProgressFlag, WriterTimestep, step>>
        BY <1>0, <1>4 DEF SendDiscarded, WriteToReader, ThreadTypes
    <2>4. DiscardsKept
        BY <1>0, <2>1 DEF DiscardsKept, Providing, Discarding, MainAt, InCall, ThreadTypes
    <2>5. SendingKept
        BY <1>0, <2>1 DEF SendingKept, Sending, MetadataSends, ThreadTypes
    <2>6. QueuedKept
        BY <1>0, <2>1 DEF QueuedKept, MainAt, InCall, ThreadTypes
    <2>7. HoldingKept
        BY <2>1 DEF HoldingKept
    <2>8. QED
        BY <2>4, <2>5, <2>6, <2>7, HeldFrameKept DEF HeldFrame
<1>5. QED
    BY <1>1, <1>2, <1>3, <1>4 DEF QuietMain

(* A step that the reader does not hold is handed to it. *)
LEMMA HandoutHeld ==
    ASSUME TypeInv, RefInv, LiveInv, HeldInv, NEW th \in Threads, NEW r \in Cohorts, NEW t,
           NEW back \in MetadataSends, Handout(th, r, t, back),
           th = "main" => pc["main"] = back /\ back \in {"queuedLoop", "sendLoop"},
           th = "net" => back = "requestSent" /\ pc["net"] = "idle" /\ StepDistributionMode = "OnDemand",
           peer[r] = "live" => t \notin delivered[r],
           UNCHANGED InProgressFlag,
           back = "queuedLoop" => /\ r = rdr["main"] /\ idx["main"] <= t
                                  /\ idx' = [idx EXCEPT !["main"] = t + 1],
           th = "net" => UNCHANGED idx
    PROVE  HeldInv'
<1> USE DEF Threads, CallPcs, Goto
<1>0. ThreadTypes /\ ReaderTypes /\ PeerTypes
    BY DEF TypeInv, TypeOK
<1>1. /\ pc' = [pc EXCEPT ![th] = "register"] /\ ret' = [ret EXCEPT ![th] = back]
      /\ rdr' = [rdr EXCEPT ![th] = r] /\ step' = [step EXCEPT ![th] = t]
      /\ SentTimestepList' = [SentTimestepList EXCEPT ![r] = @ \cup {t}]
      /\ UNCHANGED <<Emptied, InProgressFlag, WriterTimestep, peer, delivered>>
      /\ t \in Steps /\ t \notin SentTimestepList[r]
    BY DEF Handout, SendTimestepEntryToSingleReader, markVars, stepVars
<1>2. Discards'
    <2>1. DiscardsKept
        BY <1>0, <1>1 DEF DiscardsKept, Providing, Discarding, MainAt, InCall, ThreadTypes
    <2>2. QED
        BY <2>1, DiscardsKeptHolds DEF HeldInv
<1>3. \A s \in Cohorts : peer'[s] = "live" => delivered'[s] \ Emptied' \subseteq SentTimestepList'[s]
    BY <1>0, <1>1 DEF HeldInv, Held, ReaderTypes
<1>4. \A o \in Threads \ {th} : Sending(o)' = Sending(o) /\ rdr'[o] = rdr[o] /\ step'[o] = step[o]
    BY <1>0, <1>1 DEF Sending, ThreadTypes
<1>5. rdr'[th] = r /\ step'[th] = t
    BY <1>0, <1>1 DEF ThreadTypes
<1>6. \A o \in Threads : (Sending(o)' /\ peer'[rdr'[o]] = "live") =>
                      step'[o] \in SentTimestepList'[rdr'[o]] /\ step'[o] \notin delivered'[rdr'[o]]
    <2> SUFFICES ASSUME NEW o \in Threads, Sending(o)', peer[rdr'[o]] = "live"
                 PROVE  step'[o] \in SentTimestepList'[rdr'[o]] /\ step'[o] \notin delivered[rdr'[o]]
        BY <1>1
    <2>1. CASE o = th
        BY <1>0, <1>1, <1>5, <2>1 DEF ReaderTypes
    <2>2. CASE o # th
        <3>1. rdr[o] \in Cohorts /\ Sending(o)
            BY <1>4, <2>2 DEF Sending, TypeInv, Positioned, InCall
        <3>2. QED
            BY <1>0, <1>1, <1>4, <2>2, <3>1 DEF HeldInv, Held, ReaderTypes
    <2>3. QED
        BY <2>1, <2>2
<1>7. (Sending("main")' /\ Sending("net")' /\ rdr'["main"] = rdr'["net"]
           /\ peer'[rdr'["net"]] = "live") => step'["main"] # step'["net"]
    <2> SUFFICES ASSUME NEW o \in Threads \ {th}, Sending(o), rdr[o] = r, peer[r] = "live"
                 PROVE  step[o] # t
        BY <1>1, <1>4, <1>5
    <2>1. step[o] \in SentTimestepList[r]
        BY DEF HeldInv, Held
    <2>2. QED
        BY <1>1, <2>1
<1>8. StepDistributionMode # "OnDemand" => ~Sending("net")'
    BY <1>4 DEF HeldInv, Unsent
<1>9. \A s \in Cohorts : peer'[s] \in {"absent", "registered"} => delivered'[s] = {}
    BY <1>1 DEF HeldInv, Unsent
<1>10. (pc'["main"] = "awaitReader" /\ StepDistributionMode = "AllToAll"
          /\ peer'[rdr'["main"]] = "live") => delivered'[rdr'["main"]] = {}
    BY <1>0, <1>1, <1>4 DEF HeldInv, Unsent, ThreadTypes
<1>11. MainAt("queuedLoop")' =>
          /\ peer'[rdr'["main"]] = "live" => \A u \in delivered'[rdr'["main"]] : u < idx'["main"]
          /\ Sending("main")' => step'["main"] < idx'["main"]
    <2>1. CASE th = "net"
        BY <1>0, <1>1, <1>4, <2>1 DEF HeldInv, Unsent, MainAt, InCall, ThreadTypes
    <2>2. CASE th = "main" /\ back = "queuedLoop"
        <3>1. idx'["main"] = t + 1 /\ t \in Int /\ idx["main"] \in Int
            BY <1>0, <1>1, <2>2 DEF ThreadTypes, Steps
        <3>2. MainAt("queuedLoop")
            BY <2>2 DEF MainAt
        <3>3. peer[r] = "live" => \A u \in delivered[r] : u < idx["main"] /\ u \in Int
            BY <1>0, <2>2, <3>2 DEF HeldInv, Unsent, PeerTypes, Steps
        <3>4. peer[r] = "live" => \A u \in delivered[r] : u < t + 1
            BY <2>2, <3>1, <3>3
        <3>5. QED
            BY <1>1, <1>5, <2>2, <3>1, <3>4
    <2>3. CASE th = "main" /\ back = "sendLoop"
        BY <1>0, <1>1, <2>3 DEF MainAt, ThreadTypes
    <2>4. QED
        BY <2>1, <2>2, <2>3
<1>12. QED
    BY <1>2, <1>3, <1>6, <1>7, <1>8, <1>9, <1>10, <1>11 DEF HeldInv, Unsent, Held

(* The provided step was never sent before. *)
LEMMA ProvidesHeld ==
    ASSUME TypeInv, RefInv, LiveInv, HeldInv, NEW r \in Cohorts, Provides(r), UNCHANGED InProgressFlag
    PROVE  HeldInv'
<1>1. WriterTimestep \notin Emptied /\ WriterTimestep \notin SentTimestepList[r]
    BY DEF Provides, HeldInv, Discards, Discarding, MainAt, InCall, CallPcs, Handout
<1>2. peer[r] = "live" => WriterTimestep \notin delivered[r]
    BY <1>1 DEF HeldInv, Held
<1>3. QED
    BY <1>2, HandoutHeld DEF Provides, MetadataSends, Threads

(* main's loops keep it. *)
LEMMA SendingHeld ==
    ASSUME TypeInv, RefInv, LiveInv, HeldInv, SendQueued \/ SendToAll \/ SendRoundRobin \/ SendOnDemand
    PROVE  HeldInv'
<1> USE DEF Threads, markVars, queueVars, openVars, stepVars, distVars,
            closeVars, streamVars, listVars, linkVars, readerVars, callVars, localVars,
            peerVars, dataVars, Goto
<1>1. \A th, r, t, back : Handout(th, r, t, back) => UNCHANGED InProgressFlag
    BY DEF Handout, SendTimestepEntryToSingleReader
<1>2. \A r \in Cohorts : Provides(r) => UNCHANGED InProgressFlag
    BY <1>1 DEF Provides
<1>3. CASE SendQueued
    <2>1. PICK t \in QueuedForReader(rdr["main"]) :
              /\ Handout("main", rdr["main"], t, "queuedLoop")
              /\ idx["main"] <= t /\ idx' = [idx EXCEPT !["main"] = t + 1]
              /\ pc["main"] = "queuedLoop"
        BY <1>3, QueuedHandout
    <2>2. rdr["main"] \in Cohorts /\ idx["main"] \in Int /\ t \in Int
        BY <2>1 DEF Handout, TypeInv, TypeOK, ThreadTypes, Steps
    <2>3. peer[rdr["main"]] = "live" => \A u \in delivered[rdr["main"]] : u < idx["main"] /\ u \in Int
        BY <2>1, <2>2 DEF HeldInv, Unsent, MainAt, TypeInv, TypeOK, PeerTypes, Steps
    <2>4. peer[rdr["main"]] = "live" => t \notin delivered[rdr["main"]]
        BY <2>1, <2>2, <2>3
    <2>5. QED
        BY <1>1, <2>1, <2>2, <2>4, HandoutHeld DEF MetadataSends
<1>4. CASE SendToAll
    <2>1. PICK i \in 1 .. Len(Readers) : Provides(Readers[i])
        BY <1>4, AllHandout
    <2>2. QED
        BY <1>2, <2>1, ProvidesHeld DEF Provides, Handout
<1>5. ASSUME pc["main"] = "sendLoop",
             UNCHANGED <<peer, delivered, SentTimestepList, Emptied, InProgressFlag, WriterTimestep, step, pc, ret, rdr>>
      PROVE  HeldInv'
    <2>1. DiscardsKept
        BY <1>5 DEF DiscardsKept, Providing, Discarding, MainAt, InCall
    <2>2. SendingKept
        BY <1>5 DEF SendingKept, Sending
    <2>3. QueuedKept
        BY <1>5 DEF QueuedKept, MainAt, InCall, CallPcs
    <2>4. HoldingKept
        BY <1>5 DEF HoldingKept
    <2>5. QED
        BY <2>1, <2>2, <2>3, <2>4, HeldFrameKept DEF HeldFrame
<1>6. CASE SendRoundRobin
    BY <1>2, <1>5, <1>6, RoundRobinHandout, ProvidesHeld
<1>7. CASE SendOnDemand
    BY <1>2, <1>5, <1>7, OnDemandHandout, ProvidesHeld
<1>8. QED
    BY <1>3, <1>4, <1>6, <1>7

(* Providing and discarding a step, admitting a reader and closing keep it. *)
LEMMA OtherMainHeld ==
    ASSUME TypeInv, RefInv, LiveInv, HeldInv,
           \/ ProvideTimestep \/ ProvideTimestepSent \/ ProvideTimestepDiscarded
           \/ WriterParticipateInReaderOpen \/ WriterCloseDrain \/ SstStreamDestroy
    PROVE  HeldInv'
<1> USE DEF Threads, CallPcs, markVars, queueVars, openVars, stepVars, distVars,
            closeVars, streamVars, listVars, linkVars, readerVars, callVars, localVars,
            peerVars, dataVars, Goto
<1>0. ThreadTypes /\ ReaderTypes /\ PeerTypes
    BY DEF TypeInv, TypeOK
<1>1. ASSUME NEW p \in MainPcs, pc' = [pc EXCEPT !["main"] = p], p # "queuedLoop", ~InCall("main"),
             p = "awaitReader" => peer'[rdr'["main"]] # "live",
             UNCHANGED <<peer, delivered, SentTimestepList, Emptied, step, ret>>, rdr'["net"] = rdr["net"]
      PROVE  SendingKept /\ QueuedKept /\ HoldingKept /\ Emptied \subseteq Emptied'
    <2>1. SendingKept
        BY <1>0, <1>1 DEF SendingKept, Sending, ThreadTypes, MainPcs
    <2>a. pc'["main"] = p /\ p \notin CallPcs
        BY <1>0, <1>1 DEF ThreadTypes, MainPcs
    <2>b. ~MainAt("queuedLoop")'
        BY <1>1, <2>a DEF MainAt, InCall
    <2>c. pc'["main"] = "awaitReader" => peer'[rdr'["main"]] # "live"
        BY <1>1, <2>a
    <2>2. QueuedKept
        BY <2>b, <2>c DEF QueuedKept
    <2>3. HoldingKept
        BY <1>1 DEF HoldingKept
    <2>4. QED
        BY <1>1, <2>1, <2>2, <2>3
<1>2. CASE ProvideTimestep
    <2>1. SendingKept /\ QueuedKept /\ HoldingKept /\ Emptied \subseteq Emptied'
        BY <1>1, <1>2 DEF ProvideTimestep, MainPcs, InCall
    <2>2. /\ WriterTimestep' = WriterTimestep + 1 /\ InProgressFlag' = InProgressFlag \cup {WriterTimestep + 1}
          /\ Emptied' = Emptied /\ pc' = [pc EXCEPT !["main"] = "decide"]
          /\ WriterTimestep \in Int /\ \A t \in InProgressFlag : t \in Int
        BY <1>2 DEF ProvideTimestep, TypeInv, TypeOK, StreamTypes, QueueTypes, Steps
    <2>3. Emptied' \subseteq InProgressFlag' /\ \A t \in InProgressFlag' : t <= WriterTimestep'
        BY <2>2 DEF HeldInv, Discards
    <2>4. WriterTimestep' \notin Emptied'
        BY <2>2 DEF HeldInv, Discards
    <2>5. ~Discarding'
        BY <1>0, <2>2 DEF Discarding, MainAt, InCall, ThreadTypes
    <2>6. Discards'
        BY <2>3, <2>4, <2>5 DEF Discards
    <2>7. QED
        BY <2>1, <2>6, HeldKept DEF HeldInv
<1>3. CASE ProvideTimestepSent
    <2>1. SendingKept /\ QueuedKept /\ HoldingKept /\ Emptied \subseteq Emptied'
        BY <1>1, <1>3 DEF ProvideTimestepSent, MainPcs, InCall
    <2>2. /\ UNCHANGED <<WriterTimestep, Emptied>> /\ InProgressFlag' = InProgressFlag \ {step["main"]}
          /\ pc["main"] = "sendLoop" /\ pc' = [pc EXCEPT !["main"] = "pending"]
        BY <1>3 DEF ProvideTimestepSent
    <2>3. WriterTimestep \notin Emptied /\ step["main"] = WriterTimestep /\ ~Providing'
        BY <1>0, <2>2 DEF HeldInv, Discards, Providing, Discarding, MainAt, InCall, TypeInv, Serving, ThreadTypes
    <2>4. Discards'
        BY <2>2, <2>3 DEF Discards, HeldInv
    <2>5. QED
        BY <2>1, <2>4, HeldKept DEF HeldInv
<1>4. CASE ProvideTimestepDiscarded \/ WriterCloseDrain \/ SstStreamDestroy
    <2> USE DEF ProvideTimestepDiscarded, WriterCloseDrain, SstStreamDestroy
    <2>1. UNCHANGED <<WriterTimestep, Emptied, InProgressFlag>>
          /\ \E p \in {"pending", "closed", "drain", "destroyed"} : pc' = [pc EXCEPT !["main"] = p]
          /\ ~InCall("main") /\ UNCHANGED <<peer, delivered, SentTimestepList, Emptied, step, ret, rdr>>
        BY <1>4 DEF InCall
    <2>2. SendingKept /\ QueuedKept /\ HoldingKept
        BY <1>1, <2>1 DEF MainPcs
    <2>3. DiscardsKept
        BY <1>0, <2>1 DEF DiscardsKept, Providing, ThreadTypes
    <2>4. QED
        BY <2>2, <2>3, HeldFrameKept DEF HeldFrame
<1>5. CASE WriterParticipateInReaderOpen
    <2>1. PICK r \in Cohorts : r = Head(ReaderRegisterQueue) /\ InQueue(r)
        <3>1. ReaderRegisterQueue \in Seq(Cohorts) /\ ReaderRegisterQueue # <<>>
            BY <1>5 DEF TypeInv, TypeOK, StreamTypes, Admissions, WriterParticipateInReaderOpen
        <3>2. 1 \in 1 .. Len(ReaderRegisterQueue) /\ ReaderRegisterQueue[1] = Head(ReaderRegisterQueue)
              /\ ReaderRegisterQueue[1] \in Cohorts
            BY <3>1
        <3>3. QED
            BY <3>2 DEF InQueue
    <2>2. peer[r] # "live"
        BY <2>1 DEF RefInv, Admitted, ListedOnce
    <2>3. /\ UNCHANGED <<WriterTimestep, Emptied, InProgressFlag, peer, delivered, SentTimestepList, step, ret>>
          /\ pc' = [pc EXCEPT !["main"] = "awaitReader"] /\ pc["main"] = "participate"
          /\ rdr' = [rdr EXCEPT !["main"] = r]
        BY <1>5, <2>1 DEF WriterParticipateInReaderOpen
    <2>4. SendingKept /\ QueuedKept /\ HoldingKept
        BY <1>0, <1>1, <2>2, <2>3 DEF MainPcs, InCall, ThreadTypes
    <2>5. DiscardsKept
        BY <1>0, <2>3 DEF DiscardsKept, Providing, ThreadTypes
    <2>6. QED
        BY <2>4, <2>5, HeldFrameKept DEF HeldFrame
<1>6. QED
    BY <1>2, <1>3, <1>4, <1>5

(* net does not touch what main works on *)
LEMMA NetHeldFrame ==
    ASSUME TypeInv, NEW p \in (NetPcs \cup CallPcs) \ {"register", "write"}, pc' = [pc EXCEPT !["net"] = p],
           ret'["main"] = ret["main"], rdr'["main"] = rdr["main"], idx'["main"] = idx["main"],
           step'["main"] = step["main"],
           UNCHANGED <<Emptied, InProgressFlag, WriterTimestep>>
    PROVE  DiscardsKept /\ SendingKept /\ QueuedKept
<1>0. ThreadTypes /\ pc'["main"] = pc["main"] /\ pc'["net"] = p
    BY DEF TypeInv, TypeOK, ThreadTypes, Threads
<1>1. \A at : MainAt(at)' <=> MainAt(at)
    BY <1>0 DEF MainAt, InCall
<1>2. Providing' <=> Providing
    BY <1>0 DEF Providing
<1>3. DiscardsKept
    BY <1>1, <1>2 DEF DiscardsKept, Discarding
<1>4. QueuedKept
    BY <1>0, <1>1 DEF QueuedKept
<1>5. SendingKept
    BY <1>0 DEF SendingKept, Sending, Threads
<1>6. QED
    BY <1>3, <1>4, <1>5

(* A reader that has left is given up by net. *)
LEMMA GiveUpHeld ==
    ASSUME TypeInv, HeldInv, NEW r \in Cohorts, NEW new, NEW back \in {"handlerDone", "connCloseDone"},
           PeerFailCloseWSReader("net", r, new, back),
           UNCHANGED <<Emptied, InProgressFlag, WriterTimestep, delivered, SentTimestepList, idx, step>>,
           \A s \in Cohorts : peer'[s] = peer[s] \/ peer'[s] \in Left
    PROVE  HeldInv'
<1>0. ThreadTypes
    BY DEF TypeInv, TypeOK
<1>1. StatusEffect("net", r, new, back)
    BY PeerFailCloseStatus DEF TypeInv, Threads
<1>2. \E p \in {back, "derefLoop"} : pc' = [pc EXCEPT !["net"] = p]
    BY <1>1 DEF StatusEffect
<1>3. ret'["main"] = ret["main"] /\ rdr'["main"] = rdr["main"]
    BY <1>0, <1>1 DEF StatusEffect, ThreadTypes, Threads
<1>4. DiscardsKept /\ SendingKept /\ QueuedKept
    BY <1>2, <1>3, NetHeldFrame DEF NetPcs, CallPcs
<1>5. HoldingKept
    BY DEF HoldingKept, Left
<1>6. QED
    BY <1>4, <1>5, HeldFrameKept DEF HeldFrame

(* net's handlers keep it. *)
LEMMA NetHeld ==
    ASSUME TypeInv, RefInv, LiveInv, HeldInv, NetInHandler
    PROVE  HeldInv'
<1> USE DEF Threads, markVars, queueVars, openVars, stepVars, distVars,
            closeVars, streamVars, listVars, linkVars, readerVars, callVars, localVars,
            peerVars, dataVars, Goto
<1>0. ThreadTypes /\ ReaderTypes
    BY DEF TypeInv, TypeOK
<1>1. CASE Shared("net")
    BY <1>1, SharedHeld
<1>2. CASE ConnCloseDone \/ ReleaseDone \/ HandlerDone \/ RequestSent \/ ReleaseRelocked
    <2> USE DEF ConnCloseDone, ReleaseDone, HandlerDone, RequestSent, ReleaseRelocked
    <2>1. /\ \E p \in {"idle", "closeLoop", "releaseDone"} : pc' = [pc EXCEPT !["net"] = p]
          /\ UNCHANGED <<Emptied, InProgressFlag, WriterTimestep, delivered, SentTimestepList, step, ret, rdr, peer>>
          /\ idx'["main"] = idx["main"]
        BY <1>0, <1>2 DEF ThreadTypes
    <2>2. DiscardsKept /\ SendingKept /\ QueuedKept
        BY <2>1, NetHeldFrame DEF NetPcs, CallPcs
    <2>3. HoldingKept
        BY <2>1 DEF HoldingKept
    <2>4. QED
        BY <2>2, <2>3, HeldFrameKept DEF HeldFrame
<1>3. ASSUME NEW r \in Cohorts, CloseWSRStream(r)
      PROVE  HeldInv'
    BY <1>3, GiveUpHeld DEF CloseWSRStream, HandlerFrame
<1>4. QED
    BY <1>1, <1>2, <1>3 DEF NetInHandler

(* What readers do keeps it: a release takes the step off the list of those *)
(* sent, and the reader has let go of it.                                   *)
LEMMA EnvironmentHeld ==
    ASSUME TypeInv, RefInv, LiveInv, HeldInv, Environment
    PROVE  HeldInv'
<1> USE DEF Threads, markVars, queueVars, openVars, stepVars, distVars,
            closeVars, streamVars, listVars, linkVars, readerVars, callVars, localVars,
            peerVars, dataVars, Goto
<1>0. ThreadTypes /\ ReaderTypes /\ PeerTypes
    BY DEF TypeInv, TypeOK
<1>f. ASSUME UNCHANGED <<pc, ret, rdr, idx, step, Emptied, InProgressFlag, WriterTimestep>>
      PROVE  DiscardsKept /\ SendingKept /\ QueuedKept
    BY <1>f DEF DiscardsKept, SendingKept, QueuedKept, Providing, Discarding, Sending, MainAt, InCall
<1>1. ASSUME NEW r \in Cohorts, ReaderRegisters(r)
      PROVE  HeldInv'
    <2> USE DEF ReaderRegisters, queueReaderRegisterMsgAndNotify
    <2>1. DiscardsKept /\ SendingKept /\ QueuedKept
        BY <1>1, <1>f
    <2>2. HoldingKept
        BY <1>0, <1>1 DEF HoldingKept, PeerTypes
    <2>3. QED
        BY <2>1, <2>2, HeldFrameKept DEF HeldFrame
<1>2. ASSUME NEW r \in Cohorts, ReaderActivates(r)
      PROVE  HeldInv'
    <2>1. /\ UNCHANGED <<pc, ret, rdr, idx, step, Emptied, InProgressFlag, WriterTimestep, delivered, SentTimestepList>>
          /\ peer[r] = "registered" /\ peer' = [peer EXCEPT ![r] = "live"]
        BY <1>2 DEF ReaderActivates, CP_ReaderActivateHandler
    <2>2. delivered[r] = {} /\ \A th \in Threads : Sending(th) => rdr[th] # r
        BY <2>1 DEF HeldInv, Unsent, LiveInv, Calls, Sending, InCall, CallPcs, Left
    <2>3. \A s \in Cohorts \ {r} : peer'[s] = peer[s]
        BY <1>0, <2>1 DEF PeerTypes
    <2>4. peer'[r] = "live"
        BY <1>0, <2>1 DEF PeerTypes
    <2>5. Discards'
        BY <1>f, <2>1, DiscardsKeptHolds DEF HeldInv
    <2>6. \A th \in Threads : Sending(th) => rdr[th] \in Cohorts
        BY DEF Sending, TypeInv, Positioned, InCall, CallPcs
    <2>7. Held'
        BY <2>1, <2>2, <2>3, <2>6 DEF HeldInv, Held, Sending
    <2>8. Unsent'
        <3>0. ReaderStatus[r] = "Opening"
            BY <1>2 DEF ReaderActivates
        <3>1. ~MainAt("queuedLoop")
            BY <3>0 DEF MainAt, LiveInv, Peers, InCall, CallPcs
        <3>2. /\ StepDistributionMode # "OnDemand" => ~Sending("net")'
              /\ \A s \in Cohorts : peer'[s] \in {"absent", "registered"} => delivered'[s] = {}
            BY <2>1, <2>3, <2>4 DEF HeldInv, Unsent, Sending
        <3>3. pc["main"] = "awaitReader" => rdr["main"] \in Cohorts
            BY DEF TypeInv, Positioned
        <3>4. (pc'["main"] = "awaitReader" /\ StepDistributionMode = "AllToAll"
                /\ peer'[rdr'["main"]] = "live") => delivered'[rdr'["main"]] = {}
            BY <2>1, <2>2, <2>3, <3>3 DEF HeldInv, Unsent
        <3>5. ~MainAt("queuedLoop")'
            BY <2>1, <3>1 DEF MainAt, InCall
        <3>6. QED
            BY <3>2, <3>4, <3>5 DEF Unsent
    <2>9. QED
        BY <2>5, <2>7, <2>8 DEF HeldInv
<1>3. ASSUME NEW r \in Cohorts, NEW t \in Steps, ReaderReleases(r, t)
      PROVE  HeldInv'
    <2> USE DEF ReaderReleases, CP_ReleaseTimestepHandler
    <2>1. HoldingKept
        BY <1>0, <1>3 DEF HoldingKept, ReaderTypes, PeerTypes
    <2>2. CASE Status = "Destroyed" /\ UNCHANGED <<pc, rdr, step>>
        BY <1>3, <1>f, <2>1, <2>2, HeldFrameKept DEF HeldFrame
    <2>3. CASE pc'["net"] \in {"releaseRelease", "releaseDone"}
        <3>1. /\ \E p \in {"releaseRelease", "releaseDone"} : pc' = [pc EXCEPT !["net"] = p]
              /\ UNCHANGED <<ret, idx, Emptied, InProgressFlag, WriterTimestep>>
              /\ rdr'["main"] = rdr["main"] /\ step'["main"] = step["main"]
            BY <1>0, <1>3, <2>3 DEF ThreadTypes
        <3>2. DiscardsKept /\ SendingKept /\ QueuedKept
            BY <3>1, NetHeldFrame DEF NetPcs, CallPcs
        <3>3. QED
            BY <2>1, <3>2, HeldFrameKept DEF HeldFrame
    <2>4. QED
        BY <1>0, <1>3, <2>2, <2>3 DEF ThreadTypes
<1>4. ASSUME NEW r \in Cohorts, ReaderRequests(r)
      PROVE  HeldInv'
    <2>1. CASE \E t \in NextOnDemand :
                    /\ Handout("net", r, t, "requestSent")
                    /\ t \notin InProgressFlag
        <3>1. PICK t \in NextOnDemand : Handout("net", r, t, "requestSent") /\ t \notin InProgressFlag
            BY <2>1
        <3>2. UNCHANGED <<InProgressFlag, idx>> /\ StepDistributionMode = "OnDemand" /\ pc["net"] = "idle"
            BY <1>4, <3>1, RequestHandout DEF Handout, SendTimestepEntryToSingleReader
        <3>3. t \notin SentTimestepList[r]
            BY <3>1 DEF Handout
        <3>4. peer[r] = "live" => t \notin delivered[r]
            BY <3>1, <3>3 DEF HeldInv, Held, Discards
        <3>5. QED
            BY <3>1, <3>2, <3>4, HandoutHeld DEF MetadataSends
    <2>2. CASE UNCHANGED <<queueVars, streamVars, readerVars, pc, callVars>>
        <3>1. UNCHANGED <<peer, delivered, idx>>
            BY <1>4, RequestHandout
        <3>2. HoldingKept
            BY <2>2, <3>1 DEF HoldingKept
        <3>3. QED
            BY <1>f, <2>2, <3>1, <3>2, HeldFrameKept DEF HeldFrame
    <2>3. QED
        BY <1>4, <2>1, <2>2, RequestHandout
<1>5. ASSUME NEW r \in Cohorts, ReaderCloses(r)
      PROVE  HeldInv'
    <2>1. /\ peer' = [peer EXCEPT ![r] = "closed"] /\ UNCHANGED delivered
          /\ \A s \in Cohorts : peer'[s] = peer[s] \/ peer'[s] \in Left
          /\ CP_ReaderCloseHandler(r)
        BY <1>0, <1>5 DEF ReaderCloses, PeerTypes, Left
    <2>2. CASE Status = "Established"
        BY <2>1, <2>2, GiveUpHeld DEF CP_ReaderCloseHandler, HandlerFrame
    <2>3. CASE Status # "Established"
        <3>1. HoldingKept
            BY <2>1, <2>3 DEF CP_ReaderCloseHandler, HoldingKept, Left
        <3>2. QED
            BY <1>f, <2>1, <2>3, <3>1, HeldFrameKept DEF CP_ReaderCloseHandler, HeldFrame
    <2>4. QED
        BY <2>2, <2>3
<1>6. ASSUME NEW r \in Cohorts, ReaderCrashes(r)
      PROVE  HeldInv'
    <2>1. HoldingKept
        BY <1>0, <1>6 DEF ReaderCrashes, HoldingKept, PeerTypes
    <2>2. QED
        BY <1>6, <1>f, <2>1, HeldFrameKept DEF ReaderCrashes, HeldFrame
<1>7. ASSUME NEW r \in Cohorts, ConnectionCloses(r)
      PROVE  HeldInv'
    <2>1. /\ peer' = [peer EXCEPT ![r] = "gone"] /\ UNCHANGED delivered
          /\ \A s \in Cohorts : peer'[s] = peer[s] \/ peer'[s] \in Left
          /\ WriterConnCloseHandler(r)
        BY <1>0, <1>7 DEF ConnectionCloses, PeerTypes, Left
    <2>2. PeerFailCloseWSReader("net", r, "PeerFailed", "connCloseDone") /\ HandlerFrame => HeldInv'
        BY <2>1, GiveUpHeld DEF HandlerFrame
    <2>3. UNCHANGED <<markVars, readerVars, pc, callVars, streamVars, idx>> => HeldInv'
        <3>1. SUFFICES ASSUME UNCHANGED <<markVars, readerVars, pc, callVars, streamVars, idx>> PROVE HeldInv'
            OBVIOUS
        <3>2. HoldingKept
            BY <2>1, <3>1 DEF HoldingKept, Left
        <3>3. QED
            BY <1>f, <3>1, <3>2, HeldFrameKept DEF HeldFrame
    <2>4. QED
        BY <2>1, <2>2, <2>3 DEF WriterConnCloseHandler
<1>8. QED
    BY <1>1, <1>2, <1>3, <1>4, <1>5, <1>6, <1>7 DEF Environment

(* Every step keeps it. *)
LEMMA NextHeld ==
    ASSUME TypeInv, RefInv, LiveInv, HeldInv, [Next]_vars
    PROVE  HeldInv'
<1>1. CASE MainInCall
    BY <1>1, SharedHeld, QuietMainHeld, SendingHeld, OtherMainHeld DEF MainInCall, QuietMain, Threads
<1>2. CASE MainCalls
    BY <1>2, QuietMainHeld, OtherMainHeld DEF MainCalls, QuietMain
<1>3. CASE UNCHANGED vars
    <2> USE DEF vars, dataVars, queueVars, markVars, streamVars, openVars, stepVars, distVars,
                closeVars, listVars, readerVars, linkVars, callVars, localVars, peerVars
    <2>1. DiscardsKept /\ SendingKept /\ QueuedKept
        BY <1>3 DEF DiscardsKept, SendingKept, QueuedKept, Providing, Discarding, Sending, MainAt, InCall
    <2>2. HoldingKept
        BY <1>3 DEF HoldingKept
    <2>3. QED
        BY <2>1, <2>2, HeldFrameKept DEF HeldFrame
<1>4. CASE Terminated
    BY <1>3, <1>4 DEF Terminated
<1>5. QED
    BY <1>1, <1>2, <1>3, <1>4, NetHeld, EnvironmentHeld DEF Next

(* Each step that a live reader was delivered is on its list of sent steps *)
(* until it is released, but for discarded ones, whose message holds no    *)
(* data.                                                                   *)
LEMMA HeldInvariance == Spec => []HeldInv
<1>1. Init => HeldInv
    <2>1. Init => pc["main"] = "rendezvous" /\ pc["net"] = "idle"
        BY DEF Init, Threads
    <2>2. Init => Discards
        BY <2>1 DEF Init, Discards, Providing, CallPcs
    <2>3. Init => Unsent /\ Held
        BY <2>1 DEF Init, Unsent, Held, Sending, MainAt, InCall, CallPcs, Threads
    <2>4. QED
        BY <2>2, <2>3 DEF HeldInv
<1>2. TypeInv /\ RefInv /\ LiveInv /\ HeldInv /\ [Next]_vars => HeldInv'
    BY NextHeld
<1>3. QED
    BY <1>1, <1>2, TypeInvariance, RefInvariance, LiveInvariance, PTL DEF Spec

(* A step that was delivered to a live reader and not released by it is in *)
(* the queue: QueueMaintenance frees no data that a reader may still read. *)
THEOREM DeliveredStepsAreRetained == Spec => []DeliveredStepsRetained
<1>1. RefInv /\ HeldInv => DeliveredStepsRetained
    BY DEF RefInv, Counted, SentStepsRetained, HeldInv, Held, DeliveredStepsRetained
<1>2. QED
    BY <1>1, RefInvariance, HeldInvariance, PTL

-----------------------------------------------------------------------------
(* The end of the stream *)

(* What net and the readers leave alone *)
NetFrame ==
    /\ pc'["main"] = pc["main"] /\ ret'["main"] = ret["main"] /\ rdr'["main"] = rdr["main"]
    /\ step'["main"] = step["main"] /\ idx'["main"] = idx["main"]
    /\ UNCHANGED <<markVars, openVars, stepVars, ReserveCount, CloseTimestepCount, Readers,
                   PreciousTimestep, StartingTimestep, localVars>>
    /\ QueuedTimesteps' \subseteq QueuedTimesteps
    /\ gotClose \subseteq gotClose' /\ CMconn' \subseteq CMconn
    /\ \A r \in Cohorts : peer'[r] = "live" => peer[r] = "live" \/ ReaderStatus[r] = "Opening"

(* net and the readers do not move main, its variables or its list of *)
(* readers.                                                           *)
LEMMA NetEffect ==
    ASSUME TypeInv, NetInHandler \/ Environment
    PROVE  NetFrame
<1> USE DEF Threads, markVars, queueVars, openVars, stepVars, distVars,
            closeVars, streamVars, listVars, linkVars, readerVars, callVars, localVars,
            peerVars, dataVars, Goto
<1>0. ThreadTypes /\ QueueTypes /\ PeerTypes
    BY DEF TypeInv, TypeOK
<1>g. ASSUME NEW r \in Cohorts, NEW new \in Statuses, NEW back \in NetPcs \cup CallPcs,
             PeerFailCloseWSReader("net", r, new, back)
      PROVE  /\ pc'["main"] = pc["main"] /\ ret'["main"] = ret["main"] /\ rdr'["main"] = rdr["main"]
             /\ QueuedTimesteps' \subseteq QueuedTimesteps
             /\ UNCHANGED <<PreciousTimestep, ReserveCount>>
    <2>1. PeerFailEffect("net", r, back)
        BY <1>g, PeerFailCloseEffect DEF TypeInv
    <2>2. QED
        BY <1>0, <2>1 DEF PeerFailEffect, ThreadTypes
<1>q. ASSUME QueueMaintenance(Expired) PROVE QueuedTimesteps' \subseteq QueuedTimesteps
    BY <1>0, <1>q, MaintenanceEffect DEF QueueTypes
<1>1. CASE Shared("net")
    <2>1. CASE DerefAllSentTimesteps("net") \/ DerefRelocked("net")
        BY <1>0, <2>1 DEF DerefAllSentTimesteps, DerefRelocked, NetFrame, ThreadTypes
    <2>2. CASE PeerFailCloseFinish("net")
        BY <1>0, <1>q, <2>2 DEF PeerFailCloseFinish, NetFrame, ThreadTypes
    <2>3. CASE Registered("net") \/ Written("net")
        BY <1>0, <2>3 DEF Registered, Written, NetFrame, ThreadTypes
    <2>4. ASSUME NEW ok \in BOOLEAN, CMwrite("net", ok) PROVE NetFrame
        BY <1>0, <2>4 DEF CMwrite, NetFrame, ThreadTypes
    <2>5. CASE WriteFailed("net")
        <3>1. rdr["net"] \in Cohorts /\ ret["net"] \in NetPcs \cup CallPcs
            BY <2>5 DEF WriteFailed, TypeInv, Positioned, InCall, CallPcs, ReturnOK, NetWriteRets, NetPcs
        <3>2. QED
            BY <1>0, <1>g, <2>5, <3>1 DEF WriteFailed, NetFrame, Statuses
    <2>6. CASE SendCloseMsgs("net") \/ SendCloseMsgsDone("net")
        BY <1>0, <2>6 DEF SendCloseMsgs, WriteToReader, SendCloseMsgsDone, NetFrame, ThreadTypes
    <2>7. QED
        BY <1>1, <2>1, <2>2, <2>3, <2>4, <2>5, <2>6 DEF Shared
<1>2. CASE ConnCloseDone \/ ReleaseDone \/ HandlerDone \/ RequestSent \/ ReleaseRelocked
    BY <1>0, <1>q, <1>2 DEF ConnCloseDone, ReleaseDone, HandlerDone, RequestSent, ReleaseRelocked,
        NetFrame, ThreadTypes
<1>3. ASSUME NEW r \in Cohorts, CloseWSRStream(r) PROVE NetFrame
    BY <1>0, <1>g, <1>3 DEF CloseWSRStream, HandlerFrame, NetFrame, NetPcs, Statuses
<1>4. ASSUME NEW r \in Cohorts, ReaderRegisters(r) PROVE NetFrame
    BY <1>0, <1>4 DEF ReaderRegisters, queueReaderRegisterMsgAndNotify, NetFrame, PeerTypes
<1>5. ASSUME NEW r \in Cohorts, ReaderActivates(r) PROVE NetFrame
    BY <1>0, <1>5 DEF ReaderActivates, CP_ReaderActivateHandler, NetFrame, PeerTypes
<1>6. ASSUME NEW r \in Cohorts, NEW t \in Steps, ReaderReleases(r, t) PROVE NetFrame
    BY <1>0, <1>6 DEF ReaderReleases, CP_ReleaseTimestepHandler, NetFrame, ThreadTypes
<1>7. ASSUME NEW r \in Cohorts, ReaderRequests(r) PROVE NetFrame
    BY <1>0, <1>7 DEF ReaderRequests, CP_ReaderRequestStepHandler, NetFrame, ThreadTypes,
        SendTimestepEntryToSingleReader
<1>8. ASSUME NEW r \in Cohorts, ReaderCloses(r) PROVE NetFrame
    <2>0. \A s \in Cohorts : peer'[s] = "live" => peer[s] = "live"
        BY <1>0, <1>8 DEF ReaderCloses, PeerTypes
    <2>1. CASE Status = "Established"
        BY <1>0, <1>g, <1>8, <2>0, <2>1 DEF ReaderCloses, CP_ReaderCloseHandler, HandlerFrame, NetFrame, NetPcs, Statuses
    <2>2. CASE Status # "Established"
        BY <1>8, <2>0, <2>2 DEF ReaderCloses, CP_ReaderCloseHandler, NetFrame
    <2>3. QED
        BY <2>1, <2>2
<1>9. ASSUME NEW r \in Cohorts, ReaderCrashes(r) PROVE NetFrame
    BY <1>0, <1>9 DEF ReaderCrashes, NetFrame, PeerTypes
<1>10. ASSUME NEW r \in Cohorts, ConnectionCloses(r) PROVE NetFrame
    <2>0. /\ \A s \in Cohorts : peer'[s] = "live" => peer[s] = "live"
          /\ UNCHANGED <<delivered, received, gotClose, requested>> /\ WriterConnCloseHandler(r)
        BY <1>0, <1>10 DEF ConnectionCloses, PeerTypes
    <2>1. PeerFailCloseWSReader("net", r, "PeerFailed", "connCloseDone") /\ HandlerFrame => NetFrame
        BY <1>0, <1>g, <2>0 DEF HandlerFrame, NetFrame, NetPcs, Statuses
    <2>2. /\ UNCHANGED <<ReferenceCount, PreciousTimestep, streamVars, readerVars, markVars, listVars, pc,
                         callVars, idx, localVars>>
          /\ QueueMaintenance(Expired) \/ UNCHANGED QueuedTimesteps
          => NetFrame
        BY <1>q, <2>0 DEF NetFrame
    <2>3. QED
        BY <2>0, <2>1, <2>2 DEF WriterConnCloseHandler
<1>11. QED
    BY <1>1, <1>2, <1>3, <1>4, <1>5, <1>6, <1>7, <1>8, <1>9, <1>10 DEF NetInHandler, Environment

(* NextReader finds the first reader of a kind: none is passed over. *)
LEMMA NextReaderIsFirst ==
    ASSUME Readers \in Seq(Cohorts), NEW th \in Threads, idx[th] \in Int, idx[th] >= 1,
           NEW S, NextReader(th, S) # 0,
           NEW j \in idx[th] .. Len(Readers), Readers[j] \in S
    PROVE  NextReader(th, S) <= j
<1> DEFINE at == {i \in idx[th] .. Len(Readers) : Readers[i] \in S}
<1>1. at \in SUBSET Nat /\ j \in at
    OBVIOUS
<1>2. NextReader(th, S) = Min(at)
    BY <1>1 DEF NextReader
<1>3. QED
    BY <1>1, <1>2, MinInSet

(* r was told that the stream is over, or cannot be reached any more. *)
Told(r) == (peer[r] = "live" /\ r \in CMconn) => r \in gotClose

(* main has told every reader that the stream is over. *)
ClosingPcs == {"untag", "closing", "drain", "closed"}

(* Every reader that sendOneToEachReaderRank has passed was told that the  *)
(* stream is over, or has lost its connection; the one it is writing to is *)
(* about to be.                                                            *)
Closing ==
    StepDistributionMode # "OnDemand" =>
        /\ MainAt("closeLoop") =>
              \A i \in 1 .. Len(Readers) : i < idx["main"] =>
                  \/ Told(Readers[i])
                  \/ pc["main"] = "write" /\ rdr["main"] = Readers[i]
        /\ pc["main"] \in ClosingPcs => \A r \in Cohorts : Told(r)

(* A reader that was told stays told. *)
ToldKept == \A r \in Cohorts : Told(r) => Told(r)'

(* What tells no reader keeps it, if no reader becomes live. *)
LEMMA ClosingKept ==
    ASSUME TypeInv, Closing, UNCHANGED Readers,
           (MainAt("closeLoop") \/ pc["main"] \in ClosingPcs) => ToldKept,
           MainAt("closeLoop")' =>
               /\ MainAt("closeLoop") /\ idx'["main"] = idx["main"]
               /\ rdr'["main"] = rdr["main"]
               /\ pc["main"] = "write" => pc'["main"] = "write" \/ Told(rdr["main"])',
           pc'["main"] \in ClosingPcs => pc["main"] \in ClosingPcs
    PROVE  Closing'
<1>1. Readers \in Seq(Cohorts)
    BY DEF TypeInv, TypeOK, StreamTypes
<1>2. \A i \in 1 .. Len(Readers) : Readers[i] \in Cohorts
    BY <1>1
<1>3. QED
    BY <1>2 DEF Closing, ToldKept

(* A write that succeeds tells the reader, and one that fails finds its *)
(* connection gone.                                                     *)
LEMMA SharedClosing ==
    ASSUME TypeInv, LiveInv, Closing, Shared("main")
    PROVE  Closing'
<1> USE DEF Threads, markVars, queueVars, openVars, stepVars, distVars,
            closeVars, streamVars, listVars, linkVars, readerVars, callVars, localVars,
            peerVars, dataVars, Goto
<1>0. /\ ThreadTypes /\ ReturnOK /\ gotClose \subseteq Cohorts
      /\ InCall("main") => rdr["main"] \in Cohorts
    BY DEF TypeInv, TypeOK, Positioned, PeerTypes
<1> USE DEF ThreadTypes, ClosingPcs
<1>1. CASE DerefAllSentTimesteps("main") \/ DerefRelocked("main") \/ Registered("main") \/ Written("main")
    <2>0. CASE DerefAllSentTimesteps("main")
        <3>1. ToldKept
            BY <2>0 DEF DerefAllSentTimesteps, ToldKept, Told
        <3>2. QED
            BY <1>0, <2>0, <3>1, ClosingKept DEF DerefAllSentTimesteps, MainAt, InCall, CallPcs
    <2>1. CASE DerefRelocked("main") \/ Registered("main") \/ Written("main")
        <3>1. ToldKept
            BY <2>1 DEF DerefRelocked, Registered, Written, ToldKept, Told
        <3>2. QED
            BY <1>0, <2>1, <3>1, ClosingKept DEF DerefRelocked, Registered, Written, MainAt, InCall, CallPcs,
                ReturnOK, WriteRets, SendRets
    <2>2. QED
        BY <1>1, <2>0, <2>1
<1>2. CASE PeerFailCloseFinish("main")
    <2>1. ToldKept
        BY <1>2 DEF PeerFailCloseFinish, ToldKept, Told
    <2>2. QED
        BY <1>0, <1>2, <2>1, ClosingKept DEF PeerFailCloseFinish, MainAt, InCall, CallPcs,
                ReturnOK, WriteRets, SendRets, DerefRets
<1>3. ASSUME NEW ok \in BOOLEAN, CMwrite("main", ok) PROVE Closing'
    <2>1. ToldKept
        BY <1>3 DEF CMwrite, ToldKept, Told
    <2>2. MainAt("closeLoop") => Told(rdr["main"])'
        BY <1>0, <1>3 DEF CMwrite, Told, MainAt, InCall, CallPcs
    <2>3. QED
        BY <1>0, <1>3, <2>1, <2>2, ClosingKept DEF CMwrite, MainAt, InCall, CallPcs
<1>4. CASE WriteFailed("main")
    <2>1. StatusEffect("main", rdr["main"], "PeerFailed", ret["main"]) /\ pc["main"] = "failed"
        BY <1>4, <1>0, PeerFailCloseStatus DEF WriteFailed, TypeInv, InCall, CallPcs
    <2>2. ToldKept /\ UNCHANGED <<Readers, idx>>
        BY <1>4 DEF WriteFailed, ToldKept, Told
    <2>3. QED
        BY <1>0, <2>1, <2>2, ClosingKept DEF StatusEffect, MainAt, InCall, CallPcs, ReturnOK, WriteRets, SendRets
<1>5. CASE SendCloseMsgs("main")
    <2> DEFINE n == NextReader("main", SendableReaders)
    <2>1. /\ Readers \in Seq(Cohorts) /\ idx["main"] \in Int /\ idx["main"] >= 1
          /\ pc["main"] = "closeLoop" /\ n # 0
        BY <1>0, <1>5 DEF SendCloseMsgs, TypeInv, TypeOK, StreamTypes, Positioned, MainAt
    <2>2. n \in idx["main"] .. Len(Readers)
        BY <2>1, NextReaderIsReader
    <2>3. /\ pc'["main"] = "write" /\ rdr'["main"] = Readers[n] /\ idx'["main"] = n + 1
          /\ UNCHANGED <<Readers, peer, CMconn, gotClose>>
        BY <1>0, <1>5 DEF SendCloseMsgs, WriteToReader
    <2>4. ASSUME NEW i \in 1 .. Len(Readers), i < n, StepDistributionMode # "OnDemand"
          PROVE  Told(Readers[i])
        <3>1. CASE i < idx["main"]
            BY <2>1, <2>4, <3>1 DEF Closing, MainAt
        <3>2. CASE i >= idx["main"]
            <4>1. i \in idx["main"] .. Len(Readers) /\ Readers[i] \in Cohorts
                BY <2>1, <3>2
            <4>2. Readers[i] \notin SendableReaders
                BY <2>1, <2>2, <2>4, <4>1, NextReaderIsFirst
            <4>3. QED
                BY <4>1, <4>2 DEF SendableReaders, Sendable, Told, LiveInv, Peers
        <3>3. QED
            BY <2>1, <3>1, <3>2
    <2> HIDE DEF n
    <2>5. ASSUME NEW i \in 1 .. Len(Readers), i < n + 1, StepDistributionMode # "OnDemand"
          PROVE  \/ Told(Readers[i])'
                 \/ pc'["main"] = "write" /\ rdr'["main"] = Readers[i]
        <3>1. CASE i = n
            BY <2>3, <3>1
        <3>2. CASE i < n
            BY <2>3, <2>4, <2>5, <3>2 DEF Told
        <3>3. QED
            BY <2>1, <2>2, <2>5, <3>1, <3>2
    <2>6. QED
        BY <2>3, <2>5 DEF Closing
<1>6. CASE SendCloseMsgsDone("main")
    <2>1. /\ Readers \in Seq(Cohorts) /\ idx["main"] \in Int /\ idx["main"] >= 1
          /\ pc["main"] = "closeLoop" /\ Status # "Destroyed"
        BY <1>0, <1>6 DEF SendCloseMsgsDone, TypeInv, TypeOK, StreamTypes, Positioned, MainAt, Admissions
    <2>2. \A i \in idx["main"] .. Len(Readers) : Readers[i] \notin SendableReaders
        BY <1>6, <2>1, NextReaderIsReader DEF SendCloseMsgsDone
    <2>3. ASSUME NEW r \in Cohorts, StepDistributionMode # "OnDemand"
          PROVE  Told(r)
        <3>1. CASE InReaders(r)
            <4>1. PICK i \in 1 .. Len(Readers) : Readers[i] = r
                BY <3>1 DEF InReaders
            <4>2. CASE i < idx["main"]
                BY <2>1, <2>3, <4>1, <4>2 DEF Closing, MainAt
            <4>3. CASE i >= idx["main"]
                <5>1. r \notin SendableReaders
                    BY <2>1, <2>2, <4>1, <4>3
                <5>2. QED
                    BY <5>1 DEF SendableReaders, Sendable, Told, LiveInv, Peers
            <4>4. QED
                BY <2>1, <4>2, <4>3
        <3>2. CASE ~InReaders(r)
            BY <2>1, <3>2 DEF Told, LiveInv, Peers
        <3>3. QED
            BY <3>1, <3>2
    <2>4. /\ pc'["main"] = "untag" /\ UNCHANGED <<peer, CMconn, gotClose>>
        BY <1>0, <1>6 DEF SendCloseMsgsDone
    <2>5. QED
        BY <2>3, <2>4 DEF Closing, Told, MainAt, InCall, CallPcs
<1>7. QED
    BY <1>1, <1>2, <1>3, <1>4, <1>5, <1>6 DEF Shared

(* Every step keeps it. *)
LEMMA NextClosing ==
    ASSUME TypeInv, LiveInv, Closing, [Next]_vars
    PROVE  Closing'
<1> USE DEF Threads, markVars, queueVars, openVars, stepVars, distVars,
            closeVars, streamVars, listVars, linkVars, readerVars, callVars, localVars,
            peerVars, dataVars, Goto
<1>0. ThreadTypes
    BY DEF TypeInv, TypeOK
<1> USE DEF ThreadTypes, ClosingPcs
<1>1. CASE Shared("main")
    BY <1>1, SharedClosing
<1>2. ASSUME ~MainAt("closeLoop")', pc'["main"] \notin ClosingPcs
      PROVE  Closing'
    BY <1>2 DEF Closing
<1>3. CASE \/ SstWriterOpenRendezvous \/ WriterParticipateInReaderOpen \/ waitForReaderResponse
           \/ StrayUnlock \/ SendQueuedDone \/ DecideTimestep \/ BlockedOnQueueFull
           \/ ProcessReaderStatusListBegin \/ ProcessReaderStatusListDone \/ DeliverBegin
           \/ ProvideTimestepSent \/ ProvideTimestepDiscarded \/ HandlePendingReaders
           \/ ProvideTimestep \/ SstStreamDestroy
    <2>1. \E p \in MainPcs \ (ClosingPcs \cup {"closeLoop"}) : pc' = [pc EXCEPT !["main"] = p] \/ (pc' = pc /\ pc["main"] = p)
        BY <1>0, <1>3 DEF SstWriterOpenRendezvous, WriterParticipateInReaderOpen, waitForReaderResponse,
            StrayUnlock, SendQueuedDone, DecideTimestep, BlockedOnQueueFull, TakeSnapshot, ReaderAdmitted,
            ProcessReaderStatusListBegin, ProcessReaderStatusListDone, DeliverBegin,
            ProvideTimestepSent, ProvideTimestepDiscarded, HandlePendingReaders,
            ProvideTimestep, SstStreamDestroy, MainPcs
    <2>2. QED
        BY <1>0, <1>2, <2>1 DEF MainAt, InCall, CallPcs, MainPcs
<1>4. CASE SendQueued \/ SendToAll \/ SendDiscarded
    BY <1>0, <1>2, <1>4 DEF SendQueued, SendToAll, SendDiscarded, SendTimestepEntryToSingleReader,
        WriteToReader, MainAt, InCall, CallPcs
<1>5. CASE SendRoundRobin
    BY <1>0, <1>2, <1>5 DEF SendRoundRobin, SendTimestepEntryToSingleReader, MainAt, InCall, CallPcs
<1>6. CASE SendOnDemand
    BY <1>0, <1>2, <1>6 DEF SendOnDemand, SendTimestepEntryToSingleReader, MainAt, InCall, CallPcs
<1>7. CASE ProcessReaderStatusList
    <2>1. pc'["main"] \in {"statusLoop", "derefLoop"} /\ ret'["main"] = "statusLoop"
        BY <1>0, <1>7 DEF ProcessReaderStatusList, PeerFailCloseWSReader
    <2>2. QED
        BY <1>2, <2>1 DEF MainAt, InCall, CallPcs
<1>8. CASE SstWriterClose
    <2>1. StepDistributionMode # "OnDemand" => pc'["main"] = "closeLoop"
        BY <1>0, <1>8 DEF SstWriterClose, CloseNow
    <2>2. idx'["main"] = 1
        BY <1>0, <1>8 DEF SstWriterClose
    <2>3. QED
        BY <2>1, <2>2 DEF Closing
<1>9. CASE UntagPreciousTimesteps \/ WriterCloseDrain
    <2>1. ToldKept /\ UNCHANGED Readers /\ pc["main"] \in ClosingPcs
        BY <1>9 DEF UntagPreciousTimesteps, WriterCloseDrain, ToldKept, Told
    <2>2. pc'["main"] \in ClosingPcs
        BY <1>0, <1>9 DEF UntagPreciousTimesteps, WriterCloseDrain
    <2>3. QED
        BY <2>1, <2>2, ClosingKept DEF MainAt, InCall, CallPcs
<1>10. CASE NetInHandler \/ Environment
    <2>1. NetFrame
        BY <1>10, NetEffect
    <2>2. (MainAt("closeLoop") \/ pc["main"] \in ClosingPcs) => ToldKept
        BY <2>1 DEF NetFrame, ToldKept, Told, LiveInv, Peers, MainAt, InCall, CallPcs
    <2>3. QED
        BY <2>1, <2>2, ClosingKept DEF NetFrame, MainAt, InCall
<1>11. CASE UNCHANGED vars
    BY <1>11 DEF vars, Closing, Told, MainAt, InCall
<1>12. QED
    BY <1>1, <1>3, <1>4, <1>5, <1>6, <1>7, <1>8, <1>9, <1>10, <1>11
       DEF Next, MainInCall, MainCalls, Terminated

(* SstWriterClose passes over no reader of the list. *)
THEOREM ClosingInvariance == Spec => []Closing
<1>1. Init => Closing
    BY DEF Init, Closing, ClosingPcs, MainAt, InCall, CallPcs, Threads
<1>2. TypeInv /\ LiveInv /\ Closing /\ [Next]_vars => Closing'
    BY NextClosing
<1>3. QED
    BY <1>1, <1>2, TypeInvariance, LiveInvariance, PTL DEF Spec

(* When SstWriterClose returns, every live reader with a connection was    *)
(* told that the stream is over (in OnDemand mode the queue may drain with *)
(* steps nobody asked for, and no reader is told).                         *)
THEOREM CloseIsAnnounced == Spec => []CloseAnnounced
<1>1. Closing => CloseAnnounced
    BY DEF Closing, CloseAnnounced, ClosingPcs, Told
<1>2. QED
    BY <1>1, ClosingInvariance, PTL

-----------------------------------------------------------------------------
(* The queue's limit *)

(* Where main goes on after the procedures that both threads call. *)
Loops == DerefRets \cup {"untag"}

(* What a step of main inside a shared procedure leaves alone *)
CallFrame ==
    /\ pc["main"] \in CallPcs /\ pc'["main"] \in CallPcs \cup Loops
    /\ \A l \in DerefRets : MainAt(l)' => MainAt(l)
    /\ Providing' <=> Providing
    /\ pc["main"] = "closeLoop" \/ (rdr'["main"] = rdr["main"] /\ idx' = idx)
    /\ UNCHANGED <<step, markVars, openVars, stepVars, distVars, ReserveCount, CloseTimestepCount,
                   Readers, ReaderRegisterQueue, StepRequestQueue, PreciousTimestep,
                   StartingTimestep, LastReleasedTimestep, localVars, peer>>
    /\ QueuedTimesteps' \subseteq QueuedTimesteps

(* main in a shared procedure does nothing else. *)
LEMMA CallEffect ==
    ASSUME TypeInv, Shared("main")
    PROVE  CallFrame
<1> USE DEF Threads, CallPcs, Loops, DerefRets, WriteRets, SendRets, markVars, queueVars, openVars,
            stepVars, distVars, closeVars, streamVars, listVars, linkVars, readerVars, callVars,
            localVars, peerVars, dataVars, Goto
<1>0. ThreadTypes /\ QueueTypes /\ ReturnOK
    BY DEF TypeInv, TypeOK
<1>c. ASSUME InCall("main"), pc'["main"] \in (CallPcs \ {"closeLoop"}) \cup {ret["main"]},
             ret'["main"] = ret["main"]
      PROVE  /\ pc["main"] \in CallPcs /\ pc'["main"] \in CallPcs \cup Loops
             /\ \A l \in DerefRets : MainAt(l)' => MainAt(l)
             /\ Providing' <=> Providing
    <2>1. ret["main"] \in DerefRets
        BY <1>0, <1>c DEF InCall, ReturnOK
    <2>2. QED
        BY <1>c, <2>1 DEF InCall, MainAt, Providing
<1>1. CASE DerefAllSentTimesteps("main") \/ DerefRelocked("main")
    BY <1>0, <1>1, <1>c DEF DerefAllSentTimesteps, DerefRelocked, CallFrame, ThreadTypes, InCall
<1>2. CASE PeerFailCloseFinish("main")
    <2>1. QueuedTimesteps' \subseteq QueuedTimesteps
        BY <1>0, <1>2, MaintenanceEffect DEF PeerFailCloseFinish, QueueTypes
    <2>2. QED
        BY <1>0, <1>2, <1>c, <2>1 DEF PeerFailCloseFinish, CallFrame, ThreadTypes, InCall
<1>3. CASE Registered("main") \/ Written("main")
    BY <1>0, <1>3, <1>c DEF Registered, Written, CallFrame, ThreadTypes, InCall
<1>4. ASSUME NEW ok \in BOOLEAN, CMwrite("main", ok) PROVE CallFrame
    BY <1>0, <1>4, <1>c DEF CMwrite, CallFrame, ThreadTypes, InCall
<1>5. CASE WriteFailed("main")
    <2>1. rdr["main"] \in Cohorts /\ ret["main"] \in MainPcs \cup NetPcs \cup CallPcs
        BY <1>0, <1>5 DEF WriteFailed, TypeInv, Positioned, InCall, ReturnOK, MainPcs
    <2>2. PeerFailEffect("main", rdr["main"], ret["main"])
        BY <1>5, <2>1, PeerFailCloseEffect DEF WriteFailed, TypeInv, Statuses
    <2>3. pc'["main"] \in {ret["main"], "derefLoop"} /\ ret'["main"] = ret["main"] /\ rdr'["main"] = rdr["main"]
        BY <1>0, <2>2 DEF PeerFailEffect, ThreadTypes
    <2>4. QED
        BY <1>0, <1>5, <1>c, <2>2, <2>3 DEF WriteFailed, CallFrame, InCall, PeerFailEffect
<1>6. CASE SendCloseMsgs("main") \/ SendCloseMsgsDone("main")
    <2>1. /\ pc["main"] = "closeLoop" /\ (pc'["main"] = "untag" \/ (pc'["main"] = "write" /\ ret'["main"] = "closeLoop"))
        BY <1>0, <1>6 DEF SendCloseMsgs, WriteToReader, SendCloseMsgsDone, ThreadTypes
    <2>2. \A l \in DerefRets : MainAt(l)' => MainAt(l)
        BY <2>1 DEF MainAt, InCall
    <2>3. Providing' <=> Providing
        BY <2>1 DEF Providing
    <2>4. QED
        BY <1>6, <2>1, <2>2, <2>3 DEF SendCloseMsgs, WriteToReader, SendCloseMsgsDone, CallFrame
<1>7. QED
    BY <1>1, <1>2, <1>3, <1>4, <1>5, <1>6 DEF Shared

-----------------------------------------------------------------------------
(* Between the insertion of the entry and the decision, and for a step that *)
(* is discarded, there is one entry too many.                               *)
Deciding == pc["main"] \in {"decide", "blocked"}

(* Where the queue may hold one step more than its limit. *)
Spare == Deciding \/ (Providing /\ discard)

(* The queue's length, with what is known of the precious first step, which *)
(* a limit never discards.                                                  *)
Limited ==
    /\ Status = "NotOpen" => QueuedTimesteps = {} /\ WriterTimestep = -1
    /\ PreciousTimestep \subseteq {0}
    /\ MainAt("sendLoop") => ~discard
    /\ MainAt("discardLoop") => discard
    /\ QueueLimit > 0 =>
          /\ Cardinality(QueuedTimesteps) <= IF Spare THEN QueueLimit + 1 ELSE QueueLimit
          /\ discard /\ Providing /\ ~Deciding => WriterTimestep # 0

(* There are finitely many steps, and a part of a set of them is not *)
(* larger.                                                           *)
LEMMA StepsFinite ==
    /\ IsFiniteSet(Steps)
    /\ \A S \in SUBSET Steps : IsFiniteSet(S) /\ Cardinality(S) \in Nat
    /\ \A S \in SUBSET Steps : \A T \in SUBSET S : Cardinality(T) <= Cardinality(S)
<1>1. IsFiniteSet(Steps)
    BY FS_Interval, ConstantsAssumption DEF Steps
<1>2. QED
    BY <1>1, FS_Subset, FS_CardinalityType

(* What only takes from the queue. *)
LimitKept ==
    /\ Status' = "NotOpen" => Status = "NotOpen"
    /\ UNCHANGED WriterTimestep
    /\ QueuedTimesteps' \subseteq QueuedTimesteps /\ PreciousTimestep' \subseteq PreciousTimestep
    /\ discard' = discard
    /\ MainAt("sendLoop")' => MainAt("sendLoop")
    /\ MainAt("discardLoop")' => MainAt("discardLoop")
    /\ Providing' <=> Providing
    /\ Deciding' <=> Deciding

(* It keeps the limit. *)
LEMMA LimitedKept ==
    ASSUME TypeInv, Limited, LimitKept
    PROVE  Limited'
<1>1. QueuedTimesteps \in SUBSET Steps
    BY DEF TypeInv, TypeOK, QueueTypes
<1>2. /\ Cardinality(QueuedTimesteps') <= Cardinality(QueuedTimesteps)
      /\ Cardinality(QueuedTimesteps') \in Nat /\ Cardinality(QueuedTimesteps) \in Nat
    BY <1>1, StepsFinite DEF LimitKept
<1>3. QueueLimit \in Nat
    BY ConstantsAssumption
<1>4. Spare' <=> Spare
    BY DEF LimitKept, Spare
<1>5. QED
    BY <1>2, <1>3, <1>4 DEF Limited, LimitKept

(* main's steps that insert nothing and decide nothing keep it. *)
LEMMA QuietLimited ==
    ASSUME TypeInv, RefInv, Limited,
           QuietMain \/ SendQueued \/ SendToAll \/ SendRoundRobin \/ SendOnDemand \/ WriterCloseDrain
             \/ WriterParticipateInReaderOpen \/ SstStreamDestroy,
           ~DecideTimestep, ~BlockedOnQueueFull, ~DeliverBegin
    PROVE  Limited'
<1> USE DEF Threads, markVars, queueVars, openVars, stepVars, distVars,
            closeVars, streamVars, listVars, linkVars, readerVars, callVars, localVars,
            peerVars, dataVars, Goto
<1>0. ThreadTypes /\ QueueTypes /\ Positioned
    BY DEF TypeInv, TypeOK
<1> USE DEF ThreadTypes
<1>1. CASE \/ SstWriterOpenRendezvous \/ waitForReaderResponse \/ StrayUnlock \/ SendQueuedDone
           \/ HandlePendingReaders \/ SstWriterClose
           \/ WriterParticipateInReaderOpen \/ WriterCloseDrain \/ SstStreamDestroy
    <2> USE DEF SstWriterOpenRendezvous, waitForReaderResponse, StrayUnlock, SendQueuedDone,
            HandlePendingReaders, SstWriterClose, WriterParticipateInReaderOpen, WriterCloseDrain,
            SstStreamDestroy, ReaderAdmitted
    <2>1. ~Providing /\ ~Providing' /\ ~Deciding /\ ~Deciding'
        BY <1>0, <1>1 DEF Providing, Deciding, CallPcs
    <2>2. ~MainAt("sendLoop")' /\ ~MainAt("discardLoop")'
        BY <1>0, <1>1 DEF MainAt, InCall, CallPcs
    <2>3. Status' = "NotOpen" => Status = "NotOpen"
        BY <1>1
    <2>4. LimitKept
        BY <1>1, <2>1, <2>2, <2>3 DEF LimitKept
    <2>5. QED
        BY <2>4, LimitedKept
<1>2. CASE UntagPreciousTimesteps
    <2>1. QueuedTimesteps' \subseteq QueuedTimesteps
        <3>1. (Expired \cup (PreciousTimestep \cap QueuedTimesteps)) \in SUBSET Steps
            BY <1>0 DEF QueueTypes
        <3>2. QED
            BY <1>0, <1>2, <3>1, MaintenanceEffect DEF UntagPreciousTimesteps
    <2>2. LimitKept
        BY <1>0, <1>2, <2>1 DEF UntagPreciousTimesteps, LimitKept, Providing, Deciding, MainAt, InCall, CallPcs
    <2>3. QED
        BY <2>2, LimitedKept
<1>3. CASE ProcessReaderStatusListBegin \/ ProcessReaderStatusListDone
    <2>1. LimitKept
        BY <1>0, <1>3 DEF ProcessReaderStatusListBegin, ProcessReaderStatusListDone,
            LimitKept, Providing, Deciding, MainAt, InCall, CallPcs
    <2>2. QED
        BY <2>1, LimitedKept
<1>4. CASE ProcessReaderStatusList
    <2> DEFINE i == NextReader("main", StatusDiffers)
    <2>0. pc["main"] = "statusLoop" /\ Readers[i] \in Cohorts
        BY <1>0, <1>4, NextReaderIsReader
        DEF ProcessReaderStatusList, TypeInv, TypeOK, StreamTypes, Positioned, MainAt
    <2>1. PeerFailEffect("main", Readers[i], "statusLoop")
        BY <1>0, <1>4, <2>0, PeerFailCloseEffect DEF ProcessReaderStatusList, TypeInv, MainPcs
    <2>2. pc'["main"] \in {"statusLoop", "derefLoop"} /\ ret'["main"] = "statusLoop"
        BY <1>0, <2>1 DEF PeerFailEffect
    <2>3. LimitKept
        BY <1>4, <2>0, <2>1, <2>2 DEF ProcessReaderStatusList, PeerFailEffect,
            LimitKept, Providing, Deciding, MainAt, InCall, CallPcs
    <2>4. QED
        BY <2>3, LimitedKept
<1>5. CASE SendQueued
    <2>1. LimitKept
        BY <1>0, <1>5 DEF SendQueued, SendTimestepEntryToSingleReader,
            LimitKept, Providing, Deciding, MainAt, InCall, CallPcs
    <2>2. QED
        BY <2>1, LimitedKept
<1>6. CASE SendToAll \/ SendRoundRobin \/ SendOnDemand
    <2>1. \/ pc'["main"] = "register" /\ ret'["main"] = "sendLoop" \* a reader is served
          \/ UNCHANGED <<pc, ret>>
        BY <1>0, <1>6 DEF SendToAll, SendRoundRobin, SendOnDemand, SendTimestepEntryToSingleReader
    <2>2. pc["main"] = "sendLoop" /\ UNCHANGED <<Status, WriterTimestep, QueuedTimesteps, PreciousTimestep, discard>>
        BY <1>6 DEF SendToAll, SendRoundRobin, SendOnDemand, SendTimestepEntryToSingleReader
    <2>3. LimitKept
        BY <2>1, <2>2 DEF LimitKept, Providing, Deciding, MainAt, InCall, CallPcs
    <2>4. QED
        BY <2>3, LimitedKept
<1>7. CASE SendDiscarded
    <2>1. LimitKept
        BY <1>0, <1>7 DEF SendDiscarded, WriteToReader,
            LimitKept, Providing, Deciding, MainAt, InCall, CallPcs
    <2>2. QED
        BY <2>1, LimitedKept
<1>8. QED
    BY <1>1, <1>2, <1>3, <1>4, <1>5, <1>6, <1>7 DEF QuietMain

(* When the queue is full main marks the new step for discarding, or waits *)
(* until it is not full.                                                   *)
LEMMA DecideLimited ==
    ASSUME TypeInv, RefInv, Limited, DecideTimestep \/ BlockedOnQueueFull
    PROVE  Limited'
<1> USE DEF Threads, markVars, queueVars, openVars, stepVars, distVars, streamVars, closeVars,
            localVars, Goto, TakeSnapshot
<1>0. /\ ThreadTypes /\ QueueTypes /\ QueueLimit \in Nat /\ Status # "NotOpen"
      /\ QueuedTimesteps \in SUBSET Steps /\ Deciding
    BY ConstantsAssumption DEF TypeInv, TypeOK, QueueTypes, Admissions, MainAt, InCall, CallPcs, DecideTimestep,
        BlockedOnQueueFull, Deciding
<1> USE DEF ThreadTypes
<1>1. QueuedTimesteps' \subseteq QueuedTimesteps
    BY <1>0, MaintenanceEffect DEF DecideTimestep, BlockedOnQueueFull, QueueTypes
<1>2. /\ Cardinality(QueuedTimesteps') <= Cardinality(QueuedTimesteps)
      /\ Cardinality(QueuedTimesteps') \in Nat /\ Cardinality(QueuedTimesteps) \in Nat
    BY <1>0, <1>1, StepsFinite
<1>3. /\ UNCHANGED <<Status, WriterTimestep, PreciousTimestep>>
      /\ \/ pc'["main"] = "blocked"
         \/ pc'["main"] = "distribute" /\ (discard' <=> QueueFull(QueuedTimesteps'))
    BY <1>0 DEF DecideTimestep, BlockedOnQueueFull
<1>4. ~MainAt("sendLoop")' /\ ~MainAt("discardLoop")'
    BY <1>3 DEF MainAt, InCall, CallPcs
<1>5. ASSUME QueueLimit > 0
      PROVE  /\ Cardinality(QueuedTimesteps') <= (IF Spare' THEN QueueLimit + 1 ELSE QueueLimit)
             /\ discard' /\ Providing' /\ ~Deciding' => WriterTimestep' # 0
    <2>0. Cardinality(QueuedTimesteps') <= QueueLimit + 1
        BY <1>0, <1>2, <1>5 DEF Limited, Spare
    <2>1. CASE pc'["main"] = "blocked"
        BY <2>0, <2>1 DEF Spare, Deciding
    <2>2. CASE pc'["main"] = "distribute" /\ (discard' <=> QueueFull(QueuedTimesteps'))
        <3>1. discard' <=> Cardinality(QueuedTimesteps') > QueueLimit
            BY <1>5, <2>2 DEF QueueFull
        <3>2. Providing' /\ ~Deciding'
            BY <2>2 DEF Providing, Deciding
        <3>3. discard' => WriterTimestep # 0
            <4> SUFFICES ASSUME discard', WriterTimestep = 0 PROVE FALSE
                OBVIOUS
            <4>1. QueuedTimesteps' \subseteq {0}
                <5>1. \A t \in QueuedTimesteps : t <= 0
                    BY DEF RefInv, Counted, QueueInOrder
                <5>2. \A t \in Steps : t \in Nat
                    BY DEF Steps
                <5>3. QED
                    BY <1>0, <1>1, <5>1, <5>2
            <4>2. Cardinality({0}) = 1 /\ IsFiniteSet({0})
                BY FS_Singleton
            <4>3. Cardinality(QueuedTimesteps') <= 1
                BY <4>1, <4>2, FS_Subset
            <4>4. QED
                BY <1>0, <1>2, <1>5, <3>1, <4>3
        <3>4. QED
            BY <1>0, <1>2, <1>3, <2>0, <3>1, <3>2, <3>3 DEF Spare
    <2>3. QED
        BY <1>3, <2>1, <2>2
<1>6. QED
    BY <1>0, <1>3, <1>4, <1>5 DEF Limited

(* A step that is to be delivered fits into the queue. *)
LEMMA DeliverLimited ==
    ASSUME TypeInv, Limited, DeliverBegin
    PROVE  Limited'
<1>0. ThreadTypes
    BY DEF TypeInv, TypeOK
<1>1. /\ pc["main"] = "deliver" /\ pc'["main"] = IF discard THEN "discardLoop" ELSE "sendLoop"
      /\ UNCHANGED <<Status, WriterTimestep, QueuedTimesteps, PreciousTimestep, discard>>
    BY <1>0 DEF DeliverBegin, Goto, streamVars, openVars, stepVars, localVars, ThreadTypes, Threads
<1>2. Providing /\ Providing' /\ ~Deciding /\ ~Deciding'
    BY <1>1 DEF Providing, Deciding
<1>3. (MainAt("sendLoop")' => ~discard) /\ (MainAt("discardLoop")' => discard)
    BY <1>1 DEF MainAt, InCall, CallPcs
<1>4. QED
    BY <1>1, <1>2, <1>3 DEF Limited, Spare

(* SstInternalProvideTimestep inserts into a queue that does not exceed its *)
(* limit.                                                                   *)
LEMMA ProvideLimited ==
    ASSUME TypeInv, Limited, ProvideTimestep
    PROVE  Limited'
<1>0. /\ ThreadTypes /\ QueueLimit \in Nat /\ WriterTimestep \in Int
      /\ QueuedTimesteps \in SUBSET Steps /\ IsFiniteSet(QueuedTimesteps)
      /\ Cardinality(QueuedTimesteps) \in Nat
    BY ConstantsAssumption, StepsFinite DEF TypeInv, TypeOK, QueueTypes, StreamTypes, Steps
<1>1. /\ pc["main"] = "app" /\ pc'["main"] = "decide"
      /\ QueuedTimesteps' = QueuedTimesteps \cup {WriterTimestep + 1}
      /\ PreciousTimestep' \subseteq PreciousTimestep \cup {0}
      /\ UNCHANGED Status
    BY <1>0 DEF ProvideTimestep, Goto, ThreadTypes, Threads, openVars
<1>2. Status # "NotOpen"
    BY <1>1 DEF TypeInv, Admissions, MainAt, InCall, CallPcs
<1>3. ~Spare /\ Deciding'
    BY <1>1 DEF Spare, Deciding, Providing, CallPcs
<1>4. Cardinality(QueuedTimesteps') <= Cardinality(QueuedTimesteps) + 1
    BY <1>0, <1>1, FS_AddElement
<1>5. Cardinality(QueuedTimesteps') \in Nat
    BY <1>0, <1>1, FS_AddElement
<1>6. ~MainAt("sendLoop")' /\ ~MainAt("discardLoop")'
    BY <1>1 DEF MainAt, InCall, CallPcs
<1>7. QED
    BY <1>0, <1>1, <1>2, <1>3, <1>4, <1>5, <1>6 DEF Limited, Spare

(* A discarded step is taken out of the queue again. *)
LEMMA ProvidedLimited ==
    ASSUME TypeInv, RefInv, LiveInv, Limited, ProvideTimestepSent \/ ProvideTimestepDiscarded
    PROVE  Limited'
<1>0. /\ ThreadTypes /\ QueueTypes /\ QueueLimit \in Nat /\ step["main"] \in Steps
      /\ step["main"] = WriterTimestep /\ WriterTimestep \in QueuedTimesteps
      /\ pc["main"] \in {"sendLoop", "discardLoop"}
    BY ConstantsAssumption DEF TypeInv, TypeOK, Serving, RefInv, Counted, ProvidedEntryKept, MainAt, Providing,
        ProvideTimestepSent, ProvideTimestepDiscarded
<1>1. /\ pc'["main"] = "pending" /\ UNCHANGED <<WriterTimestep, PreciousTimestep, discard>>
      /\ UNCHANGED <<Status, ReaderStatus>>
    BY <1>0 DEF ProvideTimestepSent, ProvideTimestepDiscarded, Goto, streamVars, stepVars, openVars,
        localVars, readerVars, ThreadTypes, Threads
<1>2. QueuedTimesteps' \subseteq QueuedTimesteps
    <2>1. (Expired \cup {step["main"]}) \in SUBSET Steps /\ Expired \in SUBSET Steps
        BY <1>0 DEF QueueTypes
    <2>2. QED
        BY <1>0, <2>1, MaintenanceEffect DEF ProvideTimestepSent, ProvideTimestepDiscarded
<1>3. ~Spare' /\ ~Providing' /\ ~MainAt("sendLoop")' /\ ~MainAt("discardLoop")'
    BY <1>1 DEF Spare, Deciding, Providing, MainAt, InCall, CallPcs
<1>4. QueuedTimesteps \in SUBSET Steps
    BY <1>0 DEF QueueTypes
<1>5. /\ Cardinality(QueuedTimesteps') <= Cardinality(QueuedTimesteps)
      /\ Cardinality(QueuedTimesteps') \in Nat /\ Cardinality(QueuedTimesteps) \in Nat
    BY <1>2, <1>4, StepsFinite
<1>6. ASSUME QueueLimit > 0
      PROVE  Cardinality(QueuedTimesteps') <= QueueLimit
    <2>1. CASE ProvideTimestepSent
        <3>1. pc["main"] = "sendLoop" /\ ~discard
            BY <2>1 DEF ProvideTimestepSent, Limited, MainAt
        <3>2. ~Spare
            BY <3>1 DEF Spare, Deciding
        <3>3. QED
            BY <1>0, <1>5, <1>6, <3>2 DEF Limited
    <2>2. CASE ProvideTimestepDiscarded
        <3>1. pc["main"] = "discardLoop" /\ discard /\ Providing /\ ~Deciding
            BY <2>2 DEF ProvideTimestepDiscarded, Limited, MainAt, Providing, Deciding
        <3>2. WriterTimestep \notin PreciousTimestep
            BY <1>6, <3>1 DEF Limited
        <3>3. Status = "Established" /\ \A r \in Cohorts : ReaderStatus[r] # "Opening"
            <4>1. Status \in {"NotOpen", "Established", "Destroyed"}
                BY DEF TypeInv, TypeOK, StreamTypes
            <4>2. Status # "NotOpen" /\ Status # "Destroyed"
                BY <3>1 DEF TypeInv, Admissions, MainAt, InCall, CallPcs
            <4>3. QED
                BY <3>1, <4>1, <4>2 DEF LiveInv, Peers
        <3>4. ~MaintenanceSuspended(ReaderStatus')
            BY <1>1, <3>3 DEF MaintenanceSuspended
        <3>5. WriterTimestep \notin QueuedTimesteps'
            <4>1. ReferenceCount'[WriterTimestep] = 0
                BY <1>0, <2>2 DEF ProvideTimestepDiscarded, QueueTypes
            <4>2. QueueMaintenance(Expired \cup {WriterTimestep})
                BY <1>0, <2>2 DEF ProvideTimestepDiscarded
            <4>3. QED
                BY <1>0, <1>1, <3>2, <3>4, <4>1, <4>2 DEF QueueMaintenance, Maintained, Removable
        <3>6. QueuedTimesteps' \subseteq QueuedTimesteps \ {WriterTimestep}
            BY <1>2, <3>5
        <3>7. Cardinality(QueuedTimesteps \ {WriterTimestep}) = Cardinality(QueuedTimesteps) - 1
            BY <1>0, <1>4, StepsFinite, FS_RemoveElement
        <3>8. Cardinality(QueuedTimesteps') <= Cardinality(QueuedTimesteps \ {WriterTimestep})
            BY <1>4, <3>6, StepsFinite
        <3>9. Cardinality(QueuedTimesteps) <= QueueLimit + 1
            BY <1>0, <1>5, <1>6 DEF Limited
        <3>10. QED
            BY <1>0, <1>5, <3>7, <3>8, <3>9
    <2>3. QED
        BY <2>1, <2>2
<1>7. Status' # "NotOpen"
    BY <1>0, <1>1 DEF TypeInv, Admissions, MainAt, InCall, CallPcs
<1>8. QED
    BY <1>1, <1>3, <1>6, <1>7 DEF Limited

(* Every step keeps it. *)
LEMMA NextLimited ==
    ASSUME TypeInv, RefInv, LiveInv, Limited, [Next]_vars
    PROVE  Limited'
<1>1. CASE Shared("main")
    <2>1. CallFrame
        BY <1>1, CallEffect
    <2>2. LimitKept
        BY <2>1 DEF CallFrame, LimitKept, Deciding, CallPcs, Loops, DerefRets, WriteRets, SendRets,
            openVars, stepVars, localVars
    <2>3. QED
        BY <2>2, LimitedKept
<1>2. CASE NetInHandler \/ Environment
    <2>1. NetFrame
        BY <1>2, NetEffect
    <2>2. LimitKept
        BY <2>1 DEF NetFrame, LimitKept, Deciding, Providing, MainAt, InCall,
            openVars, stepVars, localVars
    <2>3. QED
        BY <2>2, LimitedKept
<1>3. CASE UNCHANGED vars
    BY <1>3 DEF vars, dataVars, queueVars, streamVars, openVars, stepVars, localVars, Limited, Spare, Deciding, Providing,
        MainAt, InCall, callVars
<1>4. QED
    BY <1>1, <1>2, <1>3, QuietLimited, DecideLimited, DeliverLimited, ProvideLimited, ProvidedLimited
       DEF Next, MainInCall, MainCalls, Terminated, QuietMain

(* The queue never exceeds its limit by more than the step being provided. *)
THEOREM LimitInvariance == Spec => []Limited
<1>1. Init => Limited
    BY FS_EmptySet, ConstantsAssumption
    DEF Init, Limited, Spare, Deciding, Providing, MainAt, InCall, CallPcs, Threads
<1>2. TypeInv /\ RefInv /\ LiveInv /\ Limited /\ [Next]_vars => Limited'
    BY NextLimited
<1>3. QED
    BY <1>1, <1>2, TypeInvariance, RefInvariance, LiveInvariance, PTL DEF Spec

(* Between two calls of the application the queue holds at most QueueLimit *)
(* steps, whether the policy is to block or to discard.                    *)
THEOREM QueueStaysWithinLimit == Spec => []QueueWithinLimit
<1>1. Limited => QueueWithinLimit
    BY DEF Limited, QueueWithinLimit, Spare, Deciding, Providing, CallPcs
<1>2. QED
    BY <1>1, LimitInvariance, PTL

-----------------------------------------------------------------------------
(* The step a reader starts with *)

(* QueueMaintenance keeps a step that a reader in Opening or Established *)
(* has yet to release.                                                   *)
LEMMA MaintenanceSpares ==
    ASSUME TypeInv, TypeOK', NEW exp, QueueMaintenance(exp), NEW r \in Cohorts,
           ReaderStatus'[r] \in {"Opening", "Established"},
           NEW s \in QueuedTimesteps \ exp, LastReleasedTimestep'[r] < s
    PROVE  s \in QueuedTimesteps' \ Expired'
<1>0. s \in Int /\ LastReleasedTimestep'[r] \in Int
    BY DEF TypeInv, TypeOK, QueueTypes, ReaderTypes, Steps
<1>1. CASE MaintenanceSuspended(ReaderStatus')
    BY <1>1 DEF QueueMaintenance, Maintained
<1>2. CASE ~MaintenanceSuspended(ReaderStatus')
    <2>1. ReaderStatus'[r] = "Established"
        BY <1>2 DEF MaintenanceSuspended
    <2>2. s \notin Eligible(ReaderStatus', LastReleasedTimestep')
        BY <1>0, <2>1 DEF Eligible
    <2>3. s \notin PastReserve(ReferenceCount', PreciousTimestep', ReaderStatus', LastReleasedTimestep', ReserveCount')
        BY <2>2 DEF PastReserve
    <2>4. QED
        BY <1>2, <2>3 DEF QueueMaintenance, Maintained, Removable
<1>3. QED
    BY <1>1, <1>2

(* The queue is as it was but for what QueueMaintenance takes from it. *)
QueueUntouched == UNCHANGED <<QueuedTimesteps, Expired>> \/ QueueMaintenance(Expired)

(* CP_PeerFailCloseWSReader takes nothing else from the queue. *)
LEMMA CloseQueueStep ==
    ASSUME NEW th, NEW r, NEW new, NEW back, PeerFailCloseWSReader(th, r, new, back)
    PROVE  QueueUntouched
BY DEF PeerFailCloseWSReader, QueueUntouched

(* Only four of the steps do anything else to the queue. *)
LEMMA QueueStep ==
    ASSUME [Next]_vars
    PROVE  \/ QueueUntouched
           \/ ProvideTimestep
           \/ ProvideTimestepDiscarded
           \/ UntagPreciousTimesteps
<1> USE DEF markVars, queueVars, dataVars
<1>1. ASSUME NEW th \in Threads, Shared(th) PROVE QueueUntouched
    <2>1. CASE DerefAllSentTimesteps(th) \/ DerefRelocked(th) \/ PeerFailCloseFinish(th) \/ Registered(th)
               \/ (\E ok \in BOOLEAN : CMwrite(th, ok)) \/ Written(th)
        BY <2>1 DEF DerefAllSentTimesteps, DerefRelocked, PeerFailCloseFinish, Registered, CMwrite, Written,
            QueueUntouched
    <2>2. CASE WriteFailed(th)
        BY <2>2, CloseQueueStep DEF WriteFailed
    <2>3. CASE SendCloseMsgs(th) \/ SendCloseMsgsDone(th)
        BY <2>3 DEF SendCloseMsgs, WriteToReader, SendCloseMsgsDone, QueueUntouched
    <2>4. QED
        BY <1>1, <2>1, <2>2, <2>3 DEF Shared
<1>2. CASE \/ SstWriterOpenRendezvous \/ WriterParticipateInReaderOpen \/ waitForReaderResponse
           \/ StrayUnlock \/ SendQueuedDone \/ DecideTimestep \/ BlockedOnQueueFull
           \/ ProcessReaderStatusListBegin \/ ProcessReaderStatusListDone \/ DeliverBegin
           \/ ProvideTimestepSent \/ HandlePendingReaders \/ WriterCloseDrain
           \/ SstWriterClose \/ SstStreamDestroy
    BY <1>2 DEF SstWriterOpenRendezvous, WriterParticipateInReaderOpen, waitForReaderResponse,
        StrayUnlock, SendQueuedDone, DecideTimestep, BlockedOnQueueFull,
        ProcessReaderStatusListBegin, ProcessReaderStatusListDone, DeliverBegin,
        ProvideTimestepSent, HandlePendingReaders, WriterCloseDrain,
        SstWriterClose, SstStreamDestroy, QueueUntouched
<1>3. CASE ProcessReaderStatusList
    BY <1>3, CloseQueueStep DEF ProcessReaderStatusList
<1>4. CASE SendQueued \/ SendToAll \/ SendRoundRobin \/ SendOnDemand \/ SendDiscarded
    BY <1>4 DEF SendQueued, SendToAll, SendRoundRobin, SendOnDemand, SendDiscarded,
        SendTimestepEntryToSingleReader, WriteToReader, QueueUntouched
<1>5. CASE NetInHandler
    <2>1. CASE ConnCloseDone \/ ReleaseDone \/ HandlerDone \/ RequestSent \/ ReleaseRelocked
        BY <2>1 DEF ConnCloseDone, ReleaseDone, HandlerDone, RequestSent, ReleaseRelocked, QueueUntouched
    <2>2. ASSUME NEW r \in Cohorts, CloseWSRStream(r) PROVE QueueUntouched
        BY <2>2, CloseQueueStep DEF CloseWSRStream
    <2>3. QED
        BY <1>1, <1>5, <2>1, <2>2 DEF NetInHandler, Threads
<1>6. CASE Environment
    <2>1. ASSUME NEW r \in Cohorts,
                 \/ ReaderRegisters(r) \/ ReaderActivates(r) \/ ReaderCrashes(r)
                 \/ \E t \in Steps : ReaderReleases(r, t)
          PROVE  QueueUntouched
        BY <2>1 DEF ReaderRegisters, queueReaderRegisterMsgAndNotify, ReaderActivates, CP_ReaderActivateHandler,
            ReaderCrashes, ReaderReleases, CP_ReleaseTimestepHandler, QueueUntouched
    <2>2. ASSUME NEW r \in Cohorts, ReaderRequests(r) PROVE QueueUntouched
        BY <2>2 DEF ReaderRequests, CP_ReaderRequestStepHandler, SendTimestepEntryToSingleReader, QueueUntouched
    <2>3. ASSUME NEW r \in Cohorts, ReaderCloses(r) PROVE QueueUntouched
        <3>1. CP_ReaderCloseHandler(r)
            BY <2>3 DEF ReaderCloses
        <3>2. PeerFailCloseWSReader("net", r, "PeerClosed", "handlerDone") => QueueUntouched
            BY CloseQueueStep
        <3>3. UNCHANGED queueVars => QueueUntouched
            BY DEF QueueUntouched
        <3>4. QED
            BY <3>1, <3>2, <3>3 DEF CP_ReaderCloseHandler
    <2>4. ASSUME NEW r \in Cohorts, ConnectionCloses(r) PROVE QueueUntouched
        <3>1. WriterConnCloseHandler(r)
            BY <2>4 DEF ConnectionCloses
        <3>2. PeerFailCloseWSReader("net", r, "PeerFailed", "connCloseDone") => QueueUntouched
            BY CloseQueueStep
        <3>3. UNCHANGED queueVars \/ QueueMaintenance(Expired) => QueueUntouched
            BY DEF QueueUntouched
        <3>4. QED
            BY <3>1, <3>2, <3>3 DEF WriterConnCloseHandler
    <2>5. QED
        BY <1>6, <2>1, <2>2, <2>3, <2>4 DEF Environment
<1>7. CASE UNCHANGED vars
    BY <1>7 DEF vars, QueueUntouched
<1>8. QED
    BY <1>1, <1>2, <1>3, <1>4, <1>5, <1>6, <1>7 DEF Next, MainInCall, MainCalls, Terminated, Threads

-----------------------------------------------------------------------------

(* A reader that is known stays known. *)
KnownStays == \A r \in Cohorts : ReaderStatus[r] # "NotOpen" => ReaderStatus'[r] # "NotOpen"

(* No step forgets a reader. *)
LEMMA StatusStep ==
    ASSUME TypeInv, RefInv, LiveInv, [Next]_vars
    PROVE  KnownStays
<1> USE DEF readerVars, dataVars
<1>0. ReaderStatus \in [Cohorts -> Statuses]
    BY DEF TypeInv, TypeOK, ReaderTypes
<1>g. ASSUME NEW th \in Threads, NEW r \in Cohorts, NEW new, NEW back, new # "NotOpen",
             PeerFailCloseWSReader(th, r, new, back)
      PROVE  KnownStays
    BY <1>0, <1>g, PeerFailCloseStatus DEF StatusEffect, KnownStays, TypeInv
<1>1. ASSUME NEW th \in Threads, Shared(th) PROVE KnownStays
    <2>1. CASE DerefAllSentTimesteps(th) \/ DerefRelocked(th) \/ PeerFailCloseFinish(th) \/ Registered(th)
               \/ (\E ok \in BOOLEAN : CMwrite(th, ok)) \/ Written(th)
        BY <2>1 DEF DerefAllSentTimesteps, DerefRelocked, PeerFailCloseFinish, Registered, CMwrite, Written,
            KnownStays
    <2>2. CASE WriteFailed(th)
        <3>1. rdr[th] \in Cohorts
            BY <2>2 DEF WriteFailed, TypeInv, Positioned, InCall, CallPcs
        <3>2. QED
            BY <1>g, <2>2, <3>1 DEF WriteFailed
    <2>3. CASE SendCloseMsgs(th) \/ SendCloseMsgsDone(th)
        BY <2>3 DEF SendCloseMsgs, WriteToReader, SendCloseMsgsDone, KnownStays
    <2>4. QED
        BY <1>1, <2>1, <2>2, <2>3 DEF Shared
<1>2. CASE \/ SstWriterOpenRendezvous \/ waitForReaderResponse
           \/ StrayUnlock \/ SendQueuedDone \/ DecideTimestep \/ BlockedOnQueueFull
           \/ ProcessReaderStatusListBegin \/ ProcessReaderStatusListDone \/ DeliverBegin
           \/ ProvideTimestepSent \/ HandlePendingReaders \/ WriterCloseDrain
           \/ SstWriterClose \/ SstStreamDestroy
           \/ ProvideTimestep \/ ProvideTimestepDiscarded \/ UntagPreciousTimesteps
    BY <1>2 DEF SstWriterOpenRendezvous, waitForReaderResponse,
        StrayUnlock, SendQueuedDone, DecideTimestep, BlockedOnQueueFull,
        ProcessReaderStatusListBegin, ProcessReaderStatusListDone, DeliverBegin,
        ProvideTimestepSent, HandlePendingReaders, WriterCloseDrain,
        SstWriterClose, SstStreamDestroy, ProvideTimestep, ProvideTimestepDiscarded, UntagPreciousTimesteps,
        KnownStays
<1>a. CASE WriterParticipateInReaderOpen
    BY <1>0, <1>a DEF WriterParticipateInReaderOpen, KnownStays
<1>3. CASE ProcessReaderStatusList
    <2> DEFINE i == NextReader("main", StatusDiffers)
    <2>1. /\ Readers \in Seq(Cohorts) /\ idx["main"] \in Int /\ idx["main"] >= 1
          /\ pc["main"] = "statusLoop" /\ i # 0
        BY <1>3 DEF ProcessReaderStatusList, TypeInv, TypeOK, StreamTypes, ThreadTypes, Positioned, MainAt, Threads
    <2>2. i \in 1 .. Len(Readers) /\ Readers[i] \in Cohorts
        BY <2>1, NextReaderIsReader DEF Threads
    <2>3. snapshot[Readers[i]] # "NotOpen"
        BY <2>1, <2>2 DEF LiveInv, Snapshots, InWindow, InReaders
    <2>4. PeerFailCloseWSReader("main", Readers[i], snapshot[Readers[i]], "statusLoop")
        BY <1>3 DEF ProcessReaderStatusList
    <2>5. QED
        BY <1>g, <2>2, <2>3, <2>4 DEF Threads
<1>4. CASE SendQueued \/ SendToAll \/ SendRoundRobin \/ SendOnDemand \/ SendDiscarded
    BY <1>4 DEF SendQueued, SendToAll, SendRoundRobin, SendOnDemand, SendDiscarded,
        SendTimestepEntryToSingleReader, WriteToReader, KnownStays
<1>5. CASE NetInHandler
    <2>1. CASE ConnCloseDone \/ ReleaseDone \/ HandlerDone \/ RequestSent \/ ReleaseRelocked
        BY <2>1 DEF ConnCloseDone, ReleaseDone, HandlerDone, RequestSent, ReleaseRelocked, KnownStays
    <2>2. ASSUME NEW r \in Cohorts, CloseWSRStream(r) PROVE KnownStays
        BY <1>g, <2>2 DEF CloseWSRStream, Threads
    <2>3. QED
        BY <1>1, <1>5, <2>1, <2>2 DEF NetInHandler, Threads
<1>6. CASE Environment
    <2>1. ASSUME NEW r \in Cohorts,
                 \/ ReaderRegisters(r) \/ ReaderActivates(r) \/ ReaderCrashes(r)
                 \/ \E t \in Steps : ReaderReleases(r, t)
          PROVE  KnownStays
        BY <1>0, <2>1 DEF ReaderRegisters, queueReaderRegisterMsgAndNotify, ReaderActivates, CP_ReaderActivateHandler,
            ReaderCrashes, ReaderReleases, CP_ReleaseTimestepHandler, KnownStays
    <2>2. ASSUME NEW r \in Cohorts, ReaderRequests(r) PROVE KnownStays
        BY <2>2 DEF ReaderRequests, CP_ReaderRequestStepHandler, SendTimestepEntryToSingleReader, KnownStays
    <2>3. ASSUME NEW r \in Cohorts, ReaderCloses(r) PROVE KnownStays
        <3>1. CP_ReaderCloseHandler(r)
            BY <2>3 DEF ReaderCloses
        <3>2. PeerFailCloseWSReader("net", r, "PeerClosed", "handlerDone") => KnownStays
            BY <1>g DEF Threads
        <3>3. UNCHANGED readerVars => KnownStays
            BY DEF KnownStays
        <3>4. QED
            BY <3>1, <3>2, <3>3 DEF CP_ReaderCloseHandler
    <2>4. ASSUME NEW r \in Cohorts, ConnectionCloses(r) PROVE KnownStays
        <3>1. WriterConnCloseHandler(r)
            BY <2>4 DEF ConnectionCloses
        <3>2. PeerFailCloseWSReader("net", r, "PeerFailed", "connCloseDone") => KnownStays
            BY <1>g DEF Threads
        <3>3. UNCHANGED readerVars => KnownStays
            BY DEF KnownStays
        <3>4. QED
            BY <3>1, <3>2, <3>3 DEF WriterConnCloseHandler
    <2>5. QED
        BY <1>6, <2>1, <2>2, <2>3, <2>4 DEF Environment
<1>7. CASE UNCHANGED vars
    BY <1>7 DEF vars, KnownStays
<1>8. QED
    BY <1>1, <1>2, <1>a, <1>3, <1>4, <1>5, <1>6, <1>7 DEF Next, MainInCall, MainCalls, Terminated, Threads

(* From the moment a reader is told which step it starts with, that step *)
(* and those after it stay queued until the reader has released them or  *)
(* left, but for discarded steps and a precious one that SstWriterClose  *)
(* untags.                                                               *)
THEOREM StartingStepIsKept == Spec => StartingStepKept
<1>1. ASSUME TypeInv, TypeInv', RefInv, LiveInv, HeldInv, [Next]_vars, NEW r \in Cohorts,
             NEW s, s = StartingTimestep[r],
             ReaderStatus[r] \in {"Opening", "Established"},
             LastReleasedTimestep'[r] < s,
             s \in QueuedTimesteps \ Expired,
             s \notin Emptied,
             ~(pc["main"] = "untag" /\ s \in PreciousTimestep),
             ReaderStatus'[r] \notin Departed
      PROVE  s \in QueuedTimesteps' \ Expired'
    <2>1. ReaderStatus'[r] \in {"Opening", "Established"} /\ TypeOK'
        BY <1>1, StatusStep DEF KnownStays, TypeInv, TypeOK, ReaderTypes, Statuses, Departed
    <2>2. CASE QueueUntouched
        BY <1>1, <2>1, <2>2, MaintenanceSpares DEF QueueUntouched
    <2>3. CASE ProvideTimestep
        BY <1>1, <2>3 DEF ProvideTimestep
    <2>4. CASE ProvideTimestepDiscarded
        <3>1. QueueMaintenance(Expired \cup {step["main"]})
            BY <2>4 DEF ProvideTimestepDiscarded
        <3>a. pc["main"] = "discardLoop"
            BY <2>4 DEF ProvideTimestepDiscarded
        <3>b. Providing /\ MainAt("discardLoop")
            BY <3>a DEF Providing, MainAt
        <3>c. step["main"] = WriterTimestep
            BY <1>1, <3>b DEF TypeInv, Serving
        <3>d. WriterTimestep \in Emptied
            BY <1>1, <3>b DEF HeldInv, Discards, Discarding
        <3>3. step["main"] \in Emptied
            BY <3>c, <3>d
        <3>4. QED
            BY <1>1, <2>1, <3>1, <3>3, MaintenanceSpares
    <2>5. CASE UntagPreciousTimesteps
        <3>1. QueueMaintenance(Expired \cup (PreciousTimestep \cap QueuedTimesteps)) /\ pc["main"] = "untag"
            BY <2>5 DEF UntagPreciousTimesteps
        <3>2. QED
            BY <1>1, <2>1, <3>1, MaintenanceSpares
    <2>6. QED
        BY <1>1, <2>2, <2>3, <2>4, <2>5, QueueStep
<1>2. TypeInv /\ TypeInv' /\ RefInv /\ LiveInv /\ HeldInv /\ [Next]_vars =>
        [\A r \in Cohorts :
          LET s == StartingTimestep[r] IN
          (/\ ReaderStatus[r] \in {"Opening", "Established"}
           /\ LastReleasedTimestep'[r] < s
           /\ s \in QueuedTimesteps \ Expired)
             => \/ s \in QueuedTimesteps' \ Expired'
                \/ ReaderStatus'[r] \in Departed
                \/ s \in Emptied
                \/ pc["main"] = "untag" /\ s \in PreciousTimestep]_vars
    BY <1>1
<1>3. QED
    BY <1>2, TypeInvariance, RefInvariance, LiveInvariance, HeldInvariance, PTL DEF Spec, StartingStepKept

-----------------------------------------------------------------------------
(* The lock, when no reader leaves while it is admitted *)

(* A thread that lets go of the lock, or enters a statement that needs it *)
(* with the lock taken, leaves the other's hold alone.                    *)
LEMMA LockKept ==
    ASSUME LockHeld, NEW th \in Threads,
           \A o \in Threads \ {th} : pc'[o] = pc[o],
           \/ lock' = lock \/ lock = "none" \/ pc[th] \in LockedPcs,
           pc'[th] \in LockedPcs => lock' = th
    PROVE  LockHeld'
<1>1. ASSUME NEW o \in Threads, pc'[o] \in LockedPcs, o # th PROVE lock' = o
    <2>1. pc[o] \in LockedPcs /\ lock = o
        BY <1>1 DEF LockHeld
    <2>2. lock # "none" /\ pc[th] \notin LockedPcs
        BY <1>1, <2>1 DEF LockHeld, Threads
    <2>3. QED
        BY <2>1, <2>2
<1>2. QED
    BY <1>1 DEF LockHeld

(* The procedures that both threads call lock and unlock in pairs. *)
LEMMA SharedLock ==
    ASSUME TypeInv, LockHeld, NEW th \in Threads, Shared(th)
    PROVE  LockHeld'
<1> USE DEF Threads, dataVars, callVars, Goto, Lock, Unlock, NoLock, LockedPcs
<1>0. ThreadTypes
    BY DEF TypeInv, TypeOK
<1> USE DEF ThreadTypes
<1>1. CASE DerefAllSentTimesteps(th) \/ DerefRelocked(th) \/ PeerFailCloseFinish(th) \/ Registered(th) \/ Written(th)
    <2>1. CASE DerefAllSentTimesteps(th) \/ DerefRelocked(th)
        BY <1>0, <2>1, LockKept DEF DerefAllSentTimesteps, DerefRelocked
    <2>2. CASE PeerFailCloseFinish(th)
        BY <1>0, <2>2, LockKept DEF PeerFailCloseFinish, LockHeld
    <2>3. CASE Registered(th) \/ Written(th)
        BY <1>0, <2>3, LockKept DEF Registered, Written
    <2>4. QED
        BY <1>1, <2>1, <2>2, <2>3
<1>2. ASSUME NEW ok \in BOOLEAN, CMwrite(th, ok) PROVE LockHeld'
    BY <1>0, <1>2, LockKept DEF CMwrite
<1>3. CASE WriteFailed(th)
    <2>1. rdr[th] \in Cohorts
        BY <1>3 DEF WriteFailed, TypeInv, Positioned, InCall, CallPcs
    <2>2. StatusEffect(th, rdr[th], "PeerFailed", ret[th])
        BY <1>3, <2>1, PeerFailCloseStatus DEF WriteFailed, TypeInv
    <2>3. QED
        BY <1>0, <1>3, <2>2, LockKept DEF WriteFailed, StatusEffect
<1>4. CASE SendCloseMsgs(th) \/ SendCloseMsgsDone(th)
    BY <1>0, <1>4, LockKept DEF SendCloseMsgs, WriteToReader, SendCloseMsgsDone, LockHeld
<1>5. QED
    BY <1>1, <1>2, <1>3, <1>4 DEF Shared

(* main locks and unlocks in pairs, but for the unlock of a reader that *)
(* failed while it was being admitted.                                  *)
LEMMA MainLock ==
    ASSUME TypeInv, LockHeld, pc["main"] # "strayUnlock", MainInCall \/ MainCalls
    PROVE  LockHeld'
<1> USE DEF Threads, dataVars, callVars, Goto, Lock, Unlock, NoLock, LockedPcs
<1>0. ThreadTypes
    BY DEF TypeInv, TypeOK
<1> USE DEF ThreadTypes
<1>1. CASE \/ SstWriterOpenRendezvous \/ WriterParticipateInReaderOpen \/ waitForReaderResponse
           \/ SendQueuedDone
    BY <1>0, <1>1, LockKept DEF SstWriterOpenRendezvous, WriterParticipateInReaderOpen, waitForReaderResponse,
        SendQueuedDone, ReaderAdmitted
<1>2. CASE DecideTimestep \/ BlockedOnQueueFull \/ ProcessReaderStatusListBegin \/ ProcessReaderStatusListDone
           \/ DeliverBegin
    BY <1>0, <1>2, LockKept DEF DecideTimestep, BlockedOnQueueFull, TakeSnapshot,
        ProcessReaderStatusListBegin, ProcessReaderStatusListDone, DeliverBegin
<1>3. CASE ProvideTimestepSent \/ ProvideTimestepDiscarded \/ HandlePendingReaders \/ WriterCloseDrain
           \/ UntagPreciousTimesteps
    BY <1>0, <1>3, LockKept DEF ProvideTimestepSent, ProvideTimestepDiscarded, HandlePendingReaders,
        WriterCloseDrain, UntagPreciousTimesteps
<1>4. CASE SstWriterClose \/ SstStreamDestroy \/ ProvideTimestep
    BY <1>0, <1>4, LockKept DEF SstWriterClose, SstStreamDestroy, ProvideTimestep
<1>5. CASE ProcessReaderStatusList
    <2> DEFINE i == NextReader("main", StatusDiffers)
    <2>1. pc["main"] = "statusLoop" /\ UNCHANGED lock
          /\ PeerFailCloseWSReader("main", Readers[i], snapshot[Readers[i]], "statusLoop")
        BY <1>5 DEF ProcessReaderStatusList
    <2>2. pc' \in {[pc EXCEPT !["main"] = "statusLoop"], [pc EXCEPT !["main"] = "derefLoop"]}
        BY <2>1 DEF PeerFailCloseWSReader
    <2>3. QED
        BY <1>0, <2>1, <2>2, LockKept DEF LockHeld
<1>6. CASE SendQueued \/ SendToAll \/ SendDiscarded
    BY <1>0, <1>6, LockKept DEF SendQueued, SendToAll, SendDiscarded, SendTimestepEntryToSingleReader, WriteToReader
<1>7. CASE SendRoundRobin \/ SendOnDemand
    <2>1. pc["main"] = "sendLoop" /\ \/ pc' = [pc EXCEPT !["main"] = "register"] /\ lock' = "none"
                                     \/ pc' = pc /\ lock' = lock
        BY <1>7 DEF SendRoundRobin, SendOnDemand, SendTimestepEntryToSingleReader
    <2>2. QED
        BY <1>0, <2>1, LockKept DEF LockHeld
<1>8. CASE Shared("main")
    BY <1>8, SharedLock
<1>9. QED
    BY <1>1, <1>2, <1>3, <1>4, <1>5, <1>6, <1>7, <1>8 DEF MainInCall, MainCalls, StrayUnlock

(* net's handlers lock and unlock in pairs. *)
LEMMA NetLock ==
    ASSUME TypeInv, LockHeld, NetInHandler \/ Environment
    PROVE  LockHeld'
<1> USE DEF Threads, dataVars, callVars, Goto, Lock, Unlock, NoLock, LockedPcs
<1>0. ThreadTypes
    BY DEF TypeInv, TypeOK
<1> USE DEF ThreadTypes
<1>g. ASSUME NEW r \in Cohorts, NEW new, NEW back,
             PeerFailCloseWSReader("net", r, new, back), lock = "none" /\ lock' = "net"
      PROVE  LockHeld'
    <2>1. pc' \in {[pc EXCEPT !["net"] = back], [pc EXCEPT !["net"] = "derefLoop"]}
        BY <1>g DEF PeerFailCloseWSReader
    <2>2. QED
        BY <1>0, <1>g, <2>1, LockKept
<1>h. (UNCHANGED <<pc, lock>>) => LockHeld'
    BY DEF LockHeld
<1>1. CASE ConnCloseDone \/ ReleaseDone \/ HandlerDone \/ RequestSent \/ ReleaseRelocked
    BY <1>0, <1>1, LockKept DEF ConnCloseDone, ReleaseDone, HandlerDone, RequestSent, ReleaseRelocked, LockHeld
<1>2. ASSUME NEW r \in Cohorts, CloseWSRStream(r) PROVE LockHeld'
    BY <1>g, <1>2 DEF CloseWSRStream
<1>3. ASSUME NEW r \in Cohorts, ReaderRegisters(r) \/ ReaderActivates(r) \/ ReaderCrashes(r) PROVE LockHeld'
    BY <1>h, <1>3 DEF ReaderRegisters, queueReaderRegisterMsgAndNotify, ReaderActivates, CP_ReaderActivateHandler,
        ReaderCrashes
<1>4. ASSUME NEW r \in Cohorts, NEW t \in Steps, ReaderReleases(r, t) PROVE LockHeld'
    BY <1>0, <1>h, <1>4, LockKept DEF ReaderReleases, CP_ReleaseTimestepHandler
<1>5. ASSUME NEW r \in Cohorts, ReaderRequests(r) PROVE LockHeld'
    BY <1>0, <1>h, <1>5, LockKept DEF ReaderRequests, CP_ReaderRequestStepHandler, SendTimestepEntryToSingleReader
<1>6. ASSUME NEW r \in Cohorts, ReaderCloses(r) PROVE LockHeld'
    BY <1>g, <1>h, <1>6 DEF ReaderCloses, CP_ReaderCloseHandler
<1>7. ASSUME NEW r \in Cohorts, ConnectionCloses(r) PROVE LockHeld'
    <2>1. WriterConnCloseHandler(r)
        BY <1>7 DEF ConnectionCloses
    <2>2. PeerFailCloseWSReader("net", r, "PeerFailed", "connCloseDone") /\ Lock("net") => LockHeld'
        BY <1>g
    <2>3. UNCHANGED <<pc, lock>> => LockHeld'
        BY <1>h
    <2>4. QED
        BY <2>1, <2>2, <2>3 DEF WriterConnCloseHandler
<1>8. QED
    BY <1>1, <1>2, <1>3, <1>4, <1>5, <1>6, <1>7, SharedLock DEF NetInHandler, Environment

(* What net and the readers do to a reader *)
FateOf(r) ==
    /\ \/ ReaderStatus'[r] = ReaderStatus[r]
       \/ /\ ReaderStatus'[r] \in Departed /\ peer'[r] \in Left
          /\ peer'[r] # peer[r] \/ r \in Delayed \/ pc["net"] = "failed"
       \/ ReaderStatus[r] = "Opening" /\ ReaderStatus'[r] = "Established" /\ peer'[r] = "live"
    /\ \/ peer'[r] = peer[r]
       \/ peer'[r] \in Left
       \/ peer[r] = "registered" /\ peer'[r] = "live" /\ ReaderStatus[r] = "Opening"
       \/ peer[r] = "absent" /\ peer'[r] = "registered"

(* Registrations are only added. *)
QueueFate ==
    \/ UNCHANGED ReaderRegisterQueue
    \/ \E r \in Cohorts : ReaderRegisterQueue' = Append(ReaderRegisterQueue, r) /\ peer'[r] = "registered"

(* What net and the readers do to the registrations and to all readers. *)
NetFate == QueueFate /\ \A r \in Cohorts : FateOf(r)

(* That is all they do to them. *)
LEMMA NetReaders ==
    ASSUME TypeInv, LiveInv, NetInHandler \/ Environment
    PROVE  NetFate
<1> USE DEF dataVars, listVars, readerVars, peerVars
<1>0. ReaderStatus \in [Cohorts -> Statuses] /\ PeerTypes
    BY DEF TypeInv, TypeOK, ReaderTypes
<1>h. UNCHANGED <<ReaderStatus, ReaderRegisterQueue, peer>> => NetFate
    BY DEF NetFate, QueueFate, FateOf
<1>1. CASE Shared("net")
    <2>1. CASE ~WriteFailed("net")
        BY <1>1, <1>h, <2>1 DEF Shared, DerefAllSentTimesteps, DerefRelocked, PeerFailCloseFinish, Registered,
            CMwrite, Written, SendCloseMsgs, WriteToReader, SendCloseMsgsDone
    <2>2. CASE WriteFailed("net")
        <3>1. rdr["net"] \in Cohorts /\ peer[rdr["net"]] \in Left /\ pc["net"] = "failed"
            BY <2>2 DEF WriteFailed, TypeInv, Positioned, InCall, CallPcs, LiveInv, Calls, GivingUp, Threads
        <3>2. StatusEffect("net", rdr["net"], "PeerFailed", ret["net"])
            BY <2>2, <3>1, PeerFailCloseStatus DEF WriteFailed, TypeInv, Threads
        <3>3. UNCHANGED <<ReaderRegisterQueue, peer>>
            BY <2>2 DEF WriteFailed
        <3>4. QED
            BY <3>1, <3>2, <3>3 DEF StatusEffect, NetFate, QueueFate, FateOf, Departed
    <2>3. QED
        BY <2>1, <2>2
<1>2. CASE ConnCloseDone \/ ReleaseDone \/ HandlerDone \/ RequestSent \/ ReleaseRelocked
    BY <1>h, <1>2 DEF ConnCloseDone, ReleaseDone, HandlerDone, RequestSent, ReleaseRelocked
<1>3. ASSUME NEW r \in Cohorts, CloseWSRStream(r) PROVE NetFate
    <2>1. peer[r] \in Left /\ r \in Delayed
        BY <1>3 DEF CloseWSRStream, LiveInv, Peers
    <2>2. StatusEffect("net", r, "PeerClosed", "handlerDone")
        BY <1>3, PeerFailCloseStatus DEF CloseWSRStream, TypeInv, Threads
    <2>3. UNCHANGED <<ReaderRegisterQueue, peer>>
        BY <1>3 DEF CloseWSRStream, HandlerFrame
    <2>4. QED
        BY <2>1, <2>2, <2>3 DEF StatusEffect, NetFate, QueueFate, FateOf, Departed
<1>4. ASSUME NEW r \in Cohorts, ReaderRegisters(r) PROVE NetFate
    <2>1. UNCHANGED ReaderStatus /\ ReaderRegisterQueue' = Append(ReaderRegisterQueue, r)
          /\ peer[r] = "absent" /\ peer' = [peer EXCEPT ![r] = "registered"]
        BY <1>4 DEF ReaderRegisters, queueReaderRegisterMsgAndNotify
    <2>2. QED
        BY <1>0, <2>1 DEF NetFate, QueueFate, FateOf, PeerTypes
<1>5. ASSUME NEW r \in Cohorts, ReaderActivates(r) PROVE NetFate
    BY <1>0, <1>5 DEF ReaderActivates, CP_ReaderActivateHandler, NetFate, QueueFate, FateOf, PeerTypes
<1>6. ASSUME NEW r \in Cohorts, NEW t \in Steps, ReaderReleases(r, t) PROVE NetFate
    BY <1>h, <1>6 DEF ReaderReleases, CP_ReleaseTimestepHandler
<1>7. ASSUME NEW r \in Cohorts, ReaderRequests(r) PROVE NetFate
    BY <1>h, <1>7 DEF ReaderRequests, CP_ReaderRequestStepHandler, SendTimestepEntryToSingleReader
<1>8. ASSUME NEW r \in Cohorts, ReaderCloses(r) PROVE NetFate
    <2>1. /\ peer' = [peer EXCEPT ![r] = "closed"] /\ peer'[r] = "closed" /\ peer[r] = "live"
          /\ UNCHANGED ReaderRegisterQueue
        BY <1>0, <1>8 DEF ReaderCloses, PeerTypes, CP_ReaderCloseHandler, HandlerFrame
    <2>2. CASE UNCHANGED ReaderStatus
        BY <1>0, <2>1, <2>2 DEF NetFate, QueueFate, FateOf, PeerTypes, Left
    <2>3. CASE PeerFailCloseWSReader("net", r, "PeerClosed", "handlerDone")
        <3>1. StatusEffect("net", r, "PeerClosed", "handlerDone")
            BY <2>3, PeerFailCloseStatus DEF TypeInv, Threads
        <3>2. QED
            BY <1>0, <2>1, <3>1 DEF StatusEffect, NetFate, QueueFate, FateOf, PeerTypes, Left, Departed
    <2>4. QED
        BY <1>8, <2>2, <2>3 DEF ReaderCloses, CP_ReaderCloseHandler
<1>9. ASSUME NEW r \in Cohorts, ReaderCrashes(r) PROVE NetFate
    BY <1>0, <1>9 DEF ReaderCrashes, NetFate, QueueFate, FateOf, PeerTypes, Left
<1>10. ASSUME NEW r \in Cohorts, ConnectionCloses(r) PROVE NetFate
    <2>1. /\ peer' = [peer EXCEPT ![r] = "gone"] /\ peer'[r] = "gone" /\ peer[r] # "gone"
          /\ UNCHANGED ReaderRegisterQueue /\ WriterConnCloseHandler(r)
        BY <1>0, <1>10 DEF ConnectionCloses, PeerTypes, WriterConnCloseHandler, HandlerFrame
    <2>2. UNCHANGED ReaderStatus => NetFate
        BY <1>0, <2>1 DEF NetFate, QueueFate, FateOf, PeerTypes, Left
    <2>3. PeerFailCloseWSReader("net", r, "PeerFailed", "connCloseDone") => NetFate
        <3>1. SUFFICES ASSUME PeerFailCloseWSReader("net", r, "PeerFailed", "connCloseDone") PROVE NetFate
            OBVIOUS
        <3>2. StatusEffect("net", r, "PeerFailed", "connCloseDone")
            BY <3>1, PeerFailCloseStatus DEF TypeInv, Threads
        <3>3. QED
            BY <1>0, <2>1, <3>2 DEF StatusEffect, NetFate, QueueFate, FateOf, PeerTypes, Left, Departed
    <2>4. QED
        BY <2>1, <2>2, <2>3 DEF WriterConnCloseHandler
<1>11. QED
    BY <1>1, <1>2, <1>3, <1>4, <1>5, <1>6, <1>7, <1>8, <1>9, <1>10 DEF NetInHandler, Environment

-----------------------------------------------------------------------------
(* With OrderlySpec a reader that registered stays until main has seen it.  *)
Awaited ==
    /\ pc["main"] # "strayUnlock"
    /\ pc["main"] = "awaitReader" =>
          /\ peer[rdr["main"]] \in {"registered", "live"}
          /\ ReaderStatus[rdr["main"]] \in {"Opening", "Established"}
    /\ \A r \in Cohorts : InQueue(r) => peer[r] = "registered"

(* The lock is held where it is needed, and no reader leaves while it is *)
(* being admitted.                                                       *)
Orderly == LockHeld /\ Awaited

(* net's handlers fail no reader that is being admitted, unless it left. *)
LEMMA OrderlyNet ==
    ASSUME TypeInv, RefInv, LiveInv, Awaited, NetInHandler \/ Environment, ~LeavesInWindow
    PROVE  Awaited'
<1>1. NetFrame /\ NetFate
    BY NetEffect, NetReaders
<1>2. PeerTypes /\ ReaderRegisterQueue \in Seq(Cohorts)
    BY DEF TypeInv, TypeOK, StreamTypes
<1>3. \A r \in Cohorts : peer[r] = "registered" => peer'[r] \in {"registered", "live"}
    BY <1>1 DEF NetFate, FateOf, LeavesInWindow, Left
<1>4. \A r \in Cohorts : InQueue(r)' => peer'[r] = "registered"
    <2> SUFFICES ASSUME NEW r \in Cohorts, InQueue(r)' PROVE peer'[r] = "registered"
        OBVIOUS
    <2>1. InQueue(r) \/ peer'[r] = "registered"
        <3>1. CASE UNCHANGED ReaderRegisterQueue
            BY <3>1 DEF InQueue
        <3>2. CASE \E s \in Cohorts : ReaderRegisterQueue' = Append(ReaderRegisterQueue, s) /\ peer'[s] = "registered"
            <4>1. PICK s \in Cohorts : ReaderRegisterQueue' = Append(ReaderRegisterQueue, s) /\ peer'[s] = "registered"
                BY <3>2
            <4>2. PICK i \in 1 .. Len(ReaderRegisterQueue') : ReaderRegisterQueue'[i] = r
                BY DEF InQueue
            <4>3. CASE i = Len(ReaderRegisterQueue) + 1
                BY <1>2, <4>1, <4>2, <4>3
            <4>4. CASE i # Len(ReaderRegisterQueue) + 1
                <5>1. i \in 1 .. Len(ReaderRegisterQueue) /\ ReaderRegisterQueue[i] = r
                    BY <1>2, <4>1, <4>2, <4>4
                <5>2. QED
                    BY <5>1 DEF InQueue
            <4>5. QED
                BY <4>3, <4>4
        <3>3. QED
            BY <1>1, <3>1, <3>2 DEF NetFate, QueueFate
    <2>2. CASE InQueue(r)
        <3>1. peer[r] = "registered" /\ ReaderStatus[r] # "Opening"
            BY <2>2 DEF Awaited, RefInv, Admitted, Unknown, NewReader
        <3>2. QED
            BY <1>1, <1>3, <3>1 DEF NetFate, FateOf, Left
    <2>3. QED
        BY <2>1, <2>2
<1>5. pc'["main"] = "awaitReader" =>
          /\ peer'[rdr'["main"]] \in {"registered", "live"}
          /\ ReaderStatus'[rdr'["main"]] \in {"Opening", "Established"}
    <2> SUFFICES ASSUME pc["main"] = "awaitReader"
                 PROVE  /\ peer'[rdr["main"]] \in {"registered", "live"}
                        /\ ReaderStatus'[rdr["main"]] \in {"Opening", "Established"}
        BY <1>1 DEF NetFrame
    <2>1. /\ rdr["main"] \in Cohorts /\ peer[rdr["main"]] \in {"registered", "live"}
          /\ ReaderStatus[rdr["main"]] \in {"Opening", "Established"}
        BY DEF Awaited, TypeInv, Positioned
    <2>2. FateOf(rdr["main"])
        BY <1>1, <2>1 DEF NetFate
    <2>3. peer'[rdr["main"]] \notin Left
        BY <2>1, <2>2 DEF LeavesInWindow, Window, Left
    <2>4. QED
        BY <2>1, <2>2, <2>3 DEF FateOf, Left
<1>6. QED
    BY <1>1, <1>4, <1>5 DEF NetFrame, Awaited

(* main finds every registered reader still there. *)
LEMMA OrderlyMain ==
    ASSUME TypeInv, RefInv, LiveInv, Awaited, MainInCall \/ MainCalls
    PROVE  Awaited'
<1> USE DEF Threads, dataVars, callVars, listVars, peerVars, readerVars, Goto
<1>0. ThreadTypes /\ ReaderStatus \in [Cohorts -> Statuses]
    BY DEF TypeInv, TypeOK, ReaderTypes
<1> USE DEF ThreadTypes
<1>a. ASSUME pc'["main"] \notin {"strayUnlock", "awaitReader"}, UNCHANGED <<ReaderRegisterQueue, peer>>
      PROVE  Awaited'
    BY <1>a DEF Awaited, InQueue
<1>1. CASE Shared("main")
    <2>1. CallFrame
        BY <1>1, CallEffect
    <2>2. QED
        BY <1>a, <2>1 DEF CallFrame, CallPcs, Loops, DerefRets, WriteRets, SendRets
<1>2. CASE \/ SstWriterOpenRendezvous \/ StrayUnlock \/ SendQueuedDone \/ HandlePendingReaders \/ WriterCloseDrain
           \/ UntagPreciousTimesteps \/ SstWriterClose \/ SstStreamDestroy \/ ProvideTimestep
    BY <1>0, <1>a, <1>2 DEF SstWriterOpenRendezvous, StrayUnlock, SendQueuedDone, HandlePendingReaders,
        WriterCloseDrain, UntagPreciousTimesteps, SstWriterClose, SstStreamDestroy, ProvideTimestep,
        ReaderAdmitted
<1>3. CASE \/ DecideTimestep \/ BlockedOnQueueFull \/ ProcessReaderStatusListBegin \/ ProcessReaderStatusListDone
           \/ DeliverBegin \/ ProvideTimestepSent \/ ProvideTimestepDiscarded
    BY <1>0, <1>a, <1>3 DEF DecideTimestep, BlockedOnQueueFull, TakeSnapshot,
        ProcessReaderStatusListBegin, ProcessReaderStatusListDone, DeliverBegin, ProvideTimestepSent,
        ProvideTimestepDiscarded
<1>4. CASE ProcessReaderStatusList
    <2>1. pc'["main"] \in {"statusLoop", "derefLoop"} /\ UNCHANGED <<ReaderRegisterQueue, peer>>
        BY <1>0, <1>4 DEF ProcessReaderStatusList, PeerFailCloseWSReader
    <2>2. QED
        BY <1>a, <2>1
<1>5. CASE SendQueued \/ SendToAll \/ SendDiscarded \/ SendRoundRobin \/ SendOnDemand
    <2>1. pc'["main"] \in {"register", "write", "sendLoop"} /\ UNCHANGED <<ReaderRegisterQueue, peer>>
        BY <1>0, <1>5 DEF SendQueued, SendToAll, SendDiscarded, SendRoundRobin, SendOnDemand,
            SendTimestepEntryToSingleReader, WriteToReader
    <2>2. QED
        BY <1>a, <2>1
<1>6. CASE waitForReaderResponse
    <2>1. /\ pc["main"] = "awaitReader" /\ UNCHANGED <<ReaderRegisterQueue, peer, rdr, ReaderStatus>>
          /\ ReaderStatus[rdr["main"]] \in {"Opening", "Established"} => pc'["main"] # "strayUnlock"
        BY <1>0, <1>6 DEF waitForReaderResponse, ReaderAdmitted
    <2>2. QED
        BY <2>1 DEF Awaited, InQueue
<1>7. CASE WriterParticipateInReaderOpen
    <2>1. ReaderRegisterQueue \in Seq(Cohorts) /\ ReaderRegisterQueue # <<>>
        BY <1>7 DEF TypeInv, TypeOK, StreamTypes, Admissions, WriterParticipateInReaderOpen
    <2>2. PICK r \in Cohorts : r = Head(ReaderRegisterQueue)
        BY <2>1
    <2>3. InQueue(r)
        <3>1. 1 \in 1 .. Len(ReaderRegisterQueue) /\ ReaderRegisterQueue[1] = r
            BY <2>1, <2>2
        <3>2. QED
            BY <3>1 DEF InQueue
    <2>4. /\ pc'["main"] = "awaitReader" /\ rdr'["main"] = r /\ ReaderStatus'[r] = "Opening"
          /\ ReaderRegisterQueue' = Tail(ReaderRegisterQueue) /\ UNCHANGED peer
        BY <1>0, <1>7, <2>2 DEF WriterParticipateInReaderOpen
    <2>5. \A s \in Cohorts : InQueue(s)' => InQueue(s)
        <3> SUFFICES ASSUME NEW s \in Cohorts, InQueue(s)' PROVE InQueue(s)
            OBVIOUS
        <3>1. PICK i \in 1 .. Len(ReaderRegisterQueue') : ReaderRegisterQueue'[i] = s
            BY DEF InQueue
        <3>2. i + 1 \in 1 .. Len(ReaderRegisterQueue) /\ ReaderRegisterQueue[i + 1] = s
            BY <2>1, <2>4, <3>1
        <3>3. QED
            BY <3>2 DEF InQueue
    <2>6. QED
        BY <2>3, <2>4, <2>5 DEF Awaited
<1>8. QED
    BY <1>1, <1>2, <1>3, <1>4, <1>5, <1>6, <1>7 DEF MainInCall, MainCalls

(* Every step that lets no reader leave in the window keeps it. *)
LEMMA NextOrderly ==
    ASSUME TypeInv, RefInv, LiveInv, Orderly, [Next /\ ~LeavesInWindow]_vars
    PROVE  Orderly'
<1>1. CASE UNCHANGED vars
    BY <1>1 DEF vars, dataVars, callVars, listVars, peerVars, readerVars, Orderly, Awaited, LockHeld, InQueue
<1>2. CASE MainInCall \/ MainCalls
    BY <1>2, OrderlyMain, MainLock DEF Orderly, Awaited
<1>3. CASE (NetInHandler \/ Environment) /\ ~LeavesInWindow
    BY <1>3, OrderlyNet, NetLock DEF Orderly
<1>4. QED
    BY <1>1, <1>2, <1>3 DEF Next, Terminated

(* OrderlySpec only leaves behaviours out. *)
LEMMA OrderlyIsSpec == OrderlySpec => Spec
<1>1. [Next /\ ~LeavesInWindow]_vars => [Next]_vars
    OBVIOUS
<1>2. QED
    BY <1>1, PTL DEF OrderlySpec, Spec

(* When no reader leaves between its registration and its activation, main *)
(* never comes to the stray unlock.                                        *)
LEMMA OrderlyInvariance == OrderlySpec => []Orderly
<1>1. Init => Orderly
    BY DEF Init, Orderly, LockHeld, LockedPcs, Awaited, InQueue, Threads
<1>2. TypeInv /\ RefInv /\ LiveInv /\ Orderly /\ [Next /\ ~LeavesInWindow]_vars => Orderly'
    BY NextOrderly
<1>3. QED
    BY <1>1, <1>2, OrderlyIsSpec, TypeInvariance, RefInvariance, LiveInvariance, PTL DEF OrderlySpec

(* Then each thread holds the lock wherever the code relies on it. *)
THEOREM LockIsHeld == OrderlySpec => []LockHeld
<1>1. Orderly => LockHeld
    BY DEF Orderly
<1>2. QED
    BY <1>1, OrderlyInvariance, PTL

-----------------------------------------------------------------------------

(* A thread lets go of the steps of a reader that left. *)
Derefing(th) == pc[th] \in {"derefLoop", "derefRelease"}

(* What is done for a reader that left is done for one known to have left.  *)
Givens ==
    /\ pc["net"] \notin {"register", "write", "written", "failed", "closeLoop", "requestSent"}
    /\ Derefing("net") => ret["net"] \in {"handlerDone", "connCloseDone"}
    /\ \A r \in Delayed : ReaderStatus[r] \in Departed
    /\ \A th \in Threads : Derefing(th) => ReaderStatus[rdr[th]] \in Departed

(* What the snapshot takes for established is so. *)
Settled == InWindow => \A r \in Cohorts : snapshot[r] = "Established" => ReaderStatus[r] = "Established"

(* No reader comes back. *)
Parting == \A r \in Cohorts : ReaderStatus[r] \in Departed => ReaderStatus'[r] \in Departed

(* CP_PeerFailCloseWSReader lets go of the steps of a reader whose status *)
(* says that it left.                                                     *)
LEMMA DerefEntry ==
    ASSUME TypeOK, NEW th \in Threads, NEW r \in Cohorts, NEW new, NEW back,
           back \notin {"derefLoop", "derefRelease"},
           PeerFailCloseWSReader(th, r, new, back)
    PROVE  Derefing(th)' => rdr'[th] = r /\ ReaderStatus'[r] \in Departed
BY DEF PeerFailCloseWSReader, Goto, Derefing, TypeOK, ThreadTypes, ReaderTypes

(* No reader comes back, and what begins for a reader begins for one that left. *)
GivensKept ==
    /\ Parting
    /\ pc'["net"] \notin {"register", "write", "written", "failed", "closeLoop", "requestSent"}
    /\ Derefing("net")' => ret'["net"] \in {"handlerDone", "connCloseDone"}
    /\ \A r \in Cohorts : r \in Delayed' => r \in Delayed \/ ReaderStatus'[r] \in Departed
    /\ \A th \in Threads : Derefing(th)' => \/ Derefing(th) /\ rdr'[th] = rdr[th]
                                            \/ ReaderStatus'[rdr'[th]] \in Departed

(* What keeps this of each step keeps it. *)
LEMMA GivensHold ==
    ASSUME TypeInv, TypeInv', Givens, GivensKept
    PROVE  Givens'
<1>1. \A th \in Threads : Derefing(th) => rdr[th] \in Cohorts
    BY DEF TypeInv, Positioned, Derefing, InCall, CallPcs
<1>2. Delayed' \subseteq Cohorts
    BY DEF TypeInv, TypeOK, ReaderTypes
<1>3. QED
    BY <1>1, <1>2 DEF Givens, GivensKept, Parting

(* net's handlers give no reader that left a better status. *)
LEMMA NetGivens ==
    ASSUME TypeInv, LiveInv, Givens, StepDistributionMode # "OnDemand", NetInHandler \/ Environment
    PROVE  GivensKept
<1> USE DEF Threads, dataVars, callVars, listVars, peerVars, readerVars, linkVars, Goto
<1>0. ThreadTypes /\ ReaderTypes
    BY DEF TypeInv, TypeOK
<1> USE DEF ThreadTypes
<1>1. Parting /\ NetFrame
    BY NetReaders, NetEffect DEF NetFate, FateOf, Parting, Departed
<1>2. \A r \in Cohorts : ReaderStatus[r] \in Departed => ReaderStatus'[r] \in Departed
    BY <1>1 DEF Parting
<1>3. Derefing("main")' => \/ Derefing("main") /\ rdr'["main"] = rdr["main"]
    BY <1>1 DEF NetFrame, Derefing
<1>a. ASSUME NEW p \in {"idle", "handlerDone", "connCloseDone", "releaseRelease", "releaseDone"},
             pc'["net"] = p, \A r \in Cohorts : r \in Delayed' => r \in Delayed
      PROVE  GivensKept
    BY <1>1, <1>3, <1>a DEF GivensKept, Derefing
<1>g. ASSUME NEW r \in Cohorts, NEW new, NEW back \in {"handlerDone", "connCloseDone"},
             PeerFailCloseWSReader("net", r, new, back), Delayed' \subseteq Delayed
      PROVE  GivensKept
    <2>1. StatusEffect("net", r, new, back)
        BY <1>g, PeerFailCloseStatus DEF TypeInv
    <2>2. pc'["net"] \in {back, "derefLoop"} /\ ret'["net"] = back
        BY <1>0, <2>1 DEF StatusEffect
    <2>3. Derefing("net")' => rdr'["net"] = r /\ ReaderStatus'[r] \in Departed
        BY <1>g, DerefEntry DEF TypeInv
    <2>4. QED
        BY <1>1, <1>3, <1>g, <2>2, <2>3 DEF GivensKept
<1>4. CASE Shared("net")
    <2>1. DerefAllSentTimesteps("net") \/ DerefRelocked("net") \/ PeerFailCloseFinish("net")
        BY <1>4 DEF Shared, Givens, Registered, CMwrite, Written, WriteFailed, SendCloseMsgs, SendCloseMsgsDone
    <2>2. Derefing("net") /\ ReaderStatus[rdr["net"]] \in Departed /\ rdr["net"] \in Cohorts
          /\ ret["net"] \in {"handlerDone", "connCloseDone"}
        BY <2>1 DEF DerefAllSentTimesteps, DerefRelocked, PeerFailCloseFinish, Derefing, Givens,
            TypeInv, Positioned, InCall, CallPcs
    <2>3. CASE DerefAllSentTimesteps("net") \/ DerefRelocked("net")
        BY <1>0, <1>1, <1>3, <2>2, <2>3 DEF DerefAllSentTimesteps, DerefRelocked, GivensKept
    <2>4. CASE PeerFailCloseFinish("net")
        <3>1. pc'["net"] = ret["net"] /\ Delayed' \subseteq Delayed \cup {rdr["net"]}
            BY <1>0, <2>4 DEF PeerFailCloseFinish
        <3>2. ReaderStatus'[rdr["net"]] \in Departed
            BY <1>2, <2>2
        <3>3. QED
            BY <1>1, <1>3, <2>2, <3>1, <3>2 DEF GivensKept, Derefing
    <2>5. QED
        BY <2>1, <2>3, <2>4
<1>5. CASE ConnCloseDone \/ ReleaseDone \/ HandlerDone \/ ReleaseRelocked
    BY <1>0, <1>a, <1>5 DEF ConnCloseDone, ReleaseDone, HandlerDone, ReleaseRelocked
<1>6. ~RequestSent
    BY DEF RequestSent, Givens
<1>7. ASSUME NEW r \in Cohorts, CloseWSRStream(r) PROVE GivensKept
    BY <1>g, <1>7 DEF CloseWSRStream
<1>8. ASSUME NEW r \in Cohorts, ReaderRegisters(r) \/ ReaderActivates(r) PROVE GivensKept
    BY <1>a, <1>8 DEF ReaderRegisters, queueReaderRegisterMsgAndNotify, ReaderActivates,
        CP_ReaderActivateHandler
<1>b. ASSUME UNCHANGED <<pc, ret, rdr, Delayed>> PROVE GivensKept
    BY <1>1, <1>b DEF GivensKept, Derefing, Givens
<1>9. ASSUME NEW r \in Cohorts, ReaderCrashes(r) PROVE GivensKept
    BY <1>b, <1>9 DEF ReaderCrashes
<1>10. ASSUME NEW r \in Cohorts, NEW t \in Steps, ReaderReleases(r, t) PROVE GivensKept
    BY <1>0, <1>a, <1>10 DEF ReaderReleases, CP_ReleaseTimestepHandler
<1>11. ASSUME NEW r \in Cohorts, ReaderRequests(r) PROVE GivensKept
    BY <1>11 DEF ReaderRequests
<1>12. ASSUME NEW r \in Cohorts, ReaderCloses(r) PROVE GivensKept
    BY <1>b, <1>g, <1>12 DEF ReaderCloses, CP_ReaderCloseHandler
<1>13. ASSUME NEW r \in Cohorts, ConnectionCloses(r) PROVE GivensKept
    <2>1. WriterConnCloseHandler(r)
        BY <1>13 DEF ConnectionCloses
    <2>2. PeerFailCloseWSReader("net", r, "PeerFailed", "connCloseDone") /\ UNCHANGED Delayed => GivensKept
        BY <1>g
    <2>3. UNCHANGED <<pc, callVars, Delayed>> => GivensKept
        BY <1>b
    <2>4. QED
        BY <2>1, <2>2, <2>3 DEF WriterConnCloseHandler
<1>14. QED
    BY <1>4, <1>5, <1>6, <1>7, <1>8, <1>9, <1>10, <1>11, <1>12, <1>13 DEF NetInHandler, Environment

(* No reader leaves between the snapshot and the adjustment. *)
LEMMA NetSettled ==
    ASSUME TypeInv, LiveInv, Givens, Settled, NetInHandler \/ Environment, ~LeavesInWindow
    PROVE  Settled'
<1>1. NetFrame /\ NetFate
    BY NetEffect, NetReaders
<1>2. (InWindow' <=> InWindow) /\ snapshot' = snapshot
    BY <1>1 DEF NetFrame, InWindow, MainAt, InCall, localVars
<1>3. InWindow => Window
    BY DEF InWindow, Window, MainAt, InCall
<1>4. ASSUME NEW r \in Cohorts, InWindow, ReaderStatus[r] = "Established"
      PROVE  ReaderStatus'[r] = "Established"
    <2>1. FateOf(r)
        BY <1>1 DEF NetFate
    <2>2. r \notin Delayed /\ pc["net"] # "failed"
        BY <1>4 DEF Givens, Departed
    <2>3. peer'[r] # peer[r] => peer'[r] \notin Left
        BY <1>3, <1>4 DEF LeavesInWindow, Left
    <2>4. QED
        BY <1>4, <2>1, <2>2, <2>3 DEF FateOf
<1>5. QED
    BY <1>2, <1>4 DEF Settled

(* main adjusts the status of established readers only. *)
LEMMA MainStatus ==
    ASSUME TypeInv, TypeInv', RefInv, LiveInv, Givens, Settled, MainInCall \/ MainCalls
    PROVE  GivensKept /\ Settled'
<1> USE DEF Threads, dataVars, callVars, listVars, peerVars, readerVars, linkVars, localVars, Goto
<1>0. ThreadTypes /\ ReaderTypes /\ ReturnOK
    BY DEF TypeInv, TypeOK
<1> USE DEF ThreadTypes
<1>n. ASSUME pc'["net"] = pc["net"], ret'["net"] = ret["net"], rdr'["net"] = rdr["net"],
             Parting, Derefing("main")' => \/ Derefing("main") /\ rdr'["main"] = rdr["main"]
                                           \/ ReaderStatus'[rdr'["main"]] \in Departed,
             \A r \in Cohorts : r \in Delayed' => r \in Delayed \/ ReaderStatus'[r] \in Departed
      PROVE  GivensKept
    BY <1>n DEF GivensKept, Derefing, Givens
<1>p. UNCHANGED ReaderStatus => Parting
    BY DEF Parting
<1>1. CASE Shared("main")
    <2>1. CallFrame
        BY <1>1, CallEffect
    <2>2. InWindow' => InWindow /\ snapshot' = snapshot /\ pc["main"] # "failed"
        BY <1>0, <2>1 DEF CallFrame, InWindow, CallPcs, Loops, DerefRets, WriteRets, SendRets, MainAt, InCall, ReturnOK
    <2>3. CASE DerefAllSentTimesteps("main") \/ DerefRelocked("main") \/ Registered("main") \/ Written("main")
               \/ (\E ok \in BOOLEAN : CMwrite("main", ok)) \/ SendCloseMsgs("main") \/ SendCloseMsgsDone("main")
        <3>1. /\ UNCHANGED <<ReaderStatus, Delayed>> /\ pc'["net"] = pc["net"] /\ ret'["net"] = ret["net"]
              /\ rdr'["net"] = rdr["net"]
              /\ Derefing("main")' => Derefing("main") /\ rdr'["main"] = rdr["main"]
            BY <1>0, <2>3 DEF DerefAllSentTimesteps, DerefRelocked, Registered, Written, CMwrite, SendCloseMsgs,
                WriteToReader, SendCloseMsgsDone, Derefing, ReturnOK, WriteRets, SendRets
        <3>2. GivensKept
            BY <1>n, <1>p, <3>1
        <3>3. QED
            BY <2>2, <3>1, <3>2 DEF Settled
    <2>4. CASE PeerFailCloseFinish("main")
        <3>1. /\ UNCHANGED ReaderStatus /\ Delayed' \subseteq Delayed \cup {rdr["main"]}
              /\ pc'["net"] = pc["net"] /\ ret'["net"] = ret["net"] /\ rdr'["net"] = rdr["net"]
              /\ ~Derefing("main")' /\ Derefing("main")
            BY <1>0, <2>4 DEF PeerFailCloseFinish, Derefing, ReturnOK, DerefRets, WriteRets, SendRets
        <3>2. ReaderStatus'[rdr["main"]] \in Departed
            BY <3>1 DEF Givens
        <3>3. GivensKept
            BY <1>n, <1>p, <3>1, <3>2
        <3>4. QED
            BY <2>2, <3>1, <3>3 DEF Settled
    <2>5. CASE WriteFailed("main")
        <3>1. /\ rdr["main"] \in Cohorts /\ pc["main"] = "failed" /\ ret["main"] \notin {"derefLoop", "derefRelease"}
              /\ PeerFailCloseWSReader("main", rdr["main"], "PeerFailed", ret["main"]) /\ UNCHANGED Delayed
            BY <1>0, <2>5 DEF WriteFailed, TypeInv, Positioned, InCall, CallPcs, ReturnOK, WriteRets, SendRets
        <3>2. StatusEffect("main", rdr["main"], "PeerFailed", ret["main"])
            BY <3>1, PeerFailCloseStatus DEF TypeInv
        <3>3. Derefing("main")' => rdr'["main"] = rdr["main"] /\ ReaderStatus'[rdr["main"]] \in Departed
            BY <3>1, DerefEntry DEF TypeInv
        <3>4. Parting
            BY <3>2 DEF StatusEffect, Parting, Departed
        <3>5. pc'["net"] = pc["net"] /\ ret'["net"] = ret["net"] /\ rdr'["net"] = rdr["net"]
            BY <1>0, <3>2 DEF StatusEffect
        <3>6. GivensKept
            BY <1>n, <3>1, <3>3, <3>4, <3>5
        <3>7. QED
            BY <2>2, <3>1, <3>6 DEF Settled
    <2>6. QED
        BY <1>1, <2>3, <2>4, <2>5 DEF Shared
<1>a. ASSUME UNCHANGED <<ReaderStatus, Delayed>>, NEW p \in MainPcs \cup {"register", "write"},
             pc' = [pc EXCEPT !["main"] = p], p \notin {"distribute", "statusLoop"},
             p \in {"register", "write"} => ret'["main"] \in {"queuedLoop", "sendLoop", "discardLoop"},
             ret'["net"] = ret["net"], rdr'["net"] = rdr["net"]
      PROVE  GivensKept /\ Settled'
    <2>1. pc'["main"] = p /\ pc'["net"] = pc["net"]
        BY <1>0, <1>a
    <2>2. GivensKept
        BY <1>n, <1>p, <1>a, <2>1 DEF Derefing, MainPcs
    <2>3. ~InWindow'
        BY <1>a, <2>1 DEF InWindow, MainAt, InCall, CallPcs, MainPcs
    <2>4. QED
        BY <2>2, <2>3 DEF Settled
<1>b. ASSUME UNCHANGED <<ReaderStatus, Delayed, pc, ret, rdr>>, pc["main"] \notin {"distribute", "statusLoop"},
             ~InCall("main")
      PROVE  GivensKept /\ Settled'
    BY <1>n, <1>p, <1>b DEF Derefing, InWindow, MainAt, InCall, Settled
<1>2. CASE \/ SstWriterOpenRendezvous \/ waitForReaderResponse \/ StrayUnlock \/ SendQueuedDone
           \/ HandlePendingReaders \/ WriterCloseDrain
    <2>1. /\ UNCHANGED <<ReaderStatus, Delayed, ret, rdr>>
          /\ pc["main"] \notin {"distribute", "statusLoop"} \cup CallPcs
          /\ \/ pc' = pc
             \/ \E p \in MainPcs : pc' = [pc EXCEPT !["main"] = p] /\ p \notin {"distribute", "statusLoop"}
        BY <1>2 DEF SstWriterOpenRendezvous, waitForReaderResponse, StrayUnlock, SendQueuedDone, HandlePendingReaders,
            WriterCloseDrain, ReaderAdmitted, MainPcs, CallPcs
    <2>2. QED
        BY <1>a, <1>b, <2>1 DEF InCall, MainPcs
<1>3. CASE \/ UntagPreciousTimesteps \/ SstWriterClose \/ SstStreamDestroy \/ ProvideTimestep
           \/ DeliverBegin \/ ProvideTimestepSent \/ ProvideTimestepDiscarded \/ ProcessReaderStatusListDone
    <2>0. \E p \in MainPcs \cup {"closeLoop"} : pc' = [pc EXCEPT !["main"] = p] /\ p \notin {"distribute", "statusLoop"}
        BY <1>3 DEF UntagPreciousTimesteps, SstWriterClose, SstStreamDestroy, ProvideTimestep, DeliverBegin,
            ProvideTimestepSent, ProvideTimestepDiscarded, ProcessReaderStatusListDone, MainPcs
    <2>1. PICK p \in MainPcs \cup {"closeLoop"} : pc' = [pc EXCEPT !["main"] = p] /\ p \notin {"distribute", "statusLoop"}
        BY <2>0
    <2>2. UNCHANGED <<ReaderStatus, Delayed, ret, rdr>>
        BY <1>3 DEF UntagPreciousTimesteps, SstWriterClose, SstStreamDestroy, ProvideTimestep, DeliverBegin,
            ProvideTimestepSent, ProvideTimestepDiscarded, ProcessReaderStatusListDone
    <2>3. pc'["main"] = p /\ pc'["net"] = pc["net"]
        BY <1>0, <2>1
    <2>4. ~InWindow' /\ ~Derefing("main")'
        BY <2>1, <2>3 DEF InWindow, MainAt, InCall, CallPcs, MainPcs, Derefing
    <2>5. QED
        BY <1>n, <1>p, <2>2, <2>3, <2>4 DEF Settled
<1>4. CASE DecideTimestep \/ BlockedOnQueueFull \/ ProcessReaderStatusListBegin
    <2>0. CASE DecideTimestep
        <3>1. /\ UNCHANGED <<ReaderStatus, Delayed, ret, rdr>>
              /\ \/ pc' = [pc EXCEPT !["main"] = "blocked"]
                 \/ pc' = [pc EXCEPT !["main"] = "distribute"] /\ snapshot' = ReaderStatus
            BY <2>0 DEF DecideTimestep, TakeSnapshot
        <3>2. pc'["net"] = pc["net"] /\ ~Derefing("main")'
            BY <1>0, <3>1 DEF Derefing
        <3>3. InWindow' => snapshot' = ReaderStatus
            BY <1>0, <3>1 DEF InWindow, MainAt, InCall, CallPcs
        <3>4. QED
            BY <1>n, <1>p, <3>1, <3>2, <3>3 DEF Settled
    <2>1. CASE BlockedOnQueueFull
        <3>1. /\ UNCHANGED <<ReaderStatus, Delayed, ret, rdr>> /\ pc["main"] = "blocked"
              /\ \/ pc' = pc
                 \/ pc' = [pc EXCEPT !["main"] = "distribute"] /\ snapshot' = ReaderStatus
            BY <2>1 DEF BlockedOnQueueFull, TakeSnapshot
        <3>2. pc'["net"] = pc["net"] /\ ~Derefing("main")'
            BY <1>0, <3>1 DEF Derefing
        <3>3. InWindow' => snapshot' = ReaderStatus
            BY <1>0, <3>1 DEF InWindow, MainAt, InCall, CallPcs
        <3>4. QED
            BY <1>n, <1>p, <3>1, <3>2, <3>3 DEF Settled
    <2>2. CASE ProcessReaderStatusListBegin
        <3>1. /\ UNCHANGED <<ReaderStatus, Delayed, ret, rdr, snapshot>> /\ InWindow
              /\ pc' = [pc EXCEPT !["main"] = "statusLoop"]
            BY <2>2 DEF ProcessReaderStatusListBegin, InWindow
        <3>2. pc'["net"] = pc["net"] /\ ~Derefing("main")'
            BY <1>0, <3>1 DEF Derefing
        <3>3. QED
            BY <1>n, <1>p, <3>1, <3>2 DEF Settled
    <2>3. QED
        BY <1>4, <2>0, <2>1, <2>2
<1>5. CASE ProcessReaderStatusList
    <2> DEFINE i == NextReader("main", StatusDiffers)
    <2>1. /\ Readers \in Seq(Cohorts) /\ idx["main"] \in Int /\ idx["main"] >= 1
          /\ pc["main"] = "statusLoop" /\ i # 0 /\ InWindow
        BY <1>0, <1>5 DEF ProcessReaderStatusList, TypeInv, TypeOK, StreamTypes, Positioned, MainAt, InWindow
    <2>2. i \in 1 .. Len(Readers) /\ Readers[i] \in Cohorts /\ Readers[i] \in StatusDiffers
        BY <2>1, NextReaderIsReader
    <2>3. PICK r \in Cohorts : r = Readers[i] /\ ReaderStatus[r] # snapshot[r] /\ InReaders(r)
        BY <2>2 DEF StatusDiffers, InReaders
    <2>4. snapshot[r] \in Departed
        <3>1. snapshot[r] \notin {"NotOpen", "Opening"}
            BY <2>1, <2>3 DEF LiveInv, Snapshots
        <3>2. snapshot[r] # "Established"
            BY <2>1, <2>3 DEF Settled
        <3>3. QED
            BY <1>0, <3>1, <3>2 DEF Statuses, Departed
    <2>5. PeerFailCloseWSReader("main", r, snapshot[r], "statusLoop") /\ UNCHANGED <<Delayed, snapshot>>
        BY <1>5, <2>3 DEF ProcessReaderStatusList
    <2>6. StatusEffect("main", r, snapshot[r], "statusLoop")
        BY <2>5, PeerFailCloseStatus DEF TypeInv
    <2>7. Derefing("main")' => rdr'["main"] = r /\ ReaderStatus'[r] \in Departed
        BY <2>5, DerefEntry DEF TypeInv
    <2>8. Parting
        BY <2>4, <2>6 DEF StatusEffect, Parting
    <2>9. pc'["net"] = pc["net"] /\ ret'["net"] = ret["net"] /\ rdr'["net"] = rdr["net"]
        BY <1>0, <2>6 DEF StatusEffect
    <2>10. GivensKept
        BY <1>n, <2>5, <2>7, <2>8, <2>9
    <2>11. Settled'
        BY <2>1, <2>4, <2>5, <2>6 DEF Settled, StatusEffect, Departed
    <2>12. QED
        BY <2>10, <2>11
<1>6. CASE SendQueued \/ SendToAll \/ SendDiscarded
    <2>1. \E p \in {"register", "write"} : pc' = [pc EXCEPT !["main"] = p]
        BY <1>6 DEF SendQueued, SendToAll, SendDiscarded, SendTimestepEntryToSingleReader, WriteToReader
    <2>2. /\ UNCHANGED <<ReaderStatus, Delayed>> /\ ret'["net"] = ret["net"] /\ rdr'["net"] = rdr["net"]
          /\ ret'["main"] \in {"queuedLoop", "sendLoop", "discardLoop"}
        BY <1>0, <1>6 DEF SendQueued, SendToAll, SendDiscarded, SendTimestepEntryToSingleReader, WriteToReader
    <2>3. QED
        BY <1>a, <2>1, <2>2
<1>7. CASE SendRoundRobin \/ SendOnDemand
    <2>1. /\ UNCHANGED <<ReaderStatus, Delayed>> /\ pc["main"] = "sendLoop"
          /\ \/ UNCHANGED <<pc, ret, rdr>>
             \/ /\ pc' = [pc EXCEPT !["main"] = "register"] /\ ret'["main"] = "sendLoop"
                /\ ret'["net"] = ret["net"] /\ rdr'["net"] = rdr["net"]
        BY <1>0, <1>7 DEF SendRoundRobin, SendOnDemand, SendTimestepEntryToSingleReader
    <2>2. QED
        BY <1>a, <1>b, <2>1 DEF InCall, CallPcs
<1>8. CASE WriterParticipateInReaderOpen
    <2>1. ReaderRegisterQueue \in Seq(Cohorts) /\ ReaderRegisterQueue # <<>>
        BY <1>8 DEF TypeInv, TypeOK, StreamTypes, Admissions, WriterParticipateInReaderOpen
    <2>2. PICK r \in Cohorts : r = Head(ReaderRegisterQueue)
        BY <2>1
    <2>3. InQueue(r)
        <3>1. 1 \in 1 .. Len(ReaderRegisterQueue) /\ ReaderRegisterQueue[1] = r
            BY <2>1, <2>2
        <3>2. QED
            BY <3>1 DEF InQueue
    <2>4. ReaderStatus[r] = "NotOpen"
        BY <2>3 DEF RefInv, Admitted, Unknown, NewReader
    <2>5. /\ pc'["main"] = "awaitReader" /\ ReaderStatus' = [ReaderStatus EXCEPT ![r] = "Opening"]
          /\ UNCHANGED Delayed /\ pc'["net"] = pc["net"] /\ ret'["net"] = ret["net"] /\ rdr'["net"] = rdr["net"]
        BY <1>0, <1>8, <2>2 DEF WriterParticipateInReaderOpen
    <2>6. Parting /\ ~InWindow' /\ ~Derefing("main")'
        BY <1>0, <2>4, <2>5 DEF Parting, InWindow, MainAt, InCall, CallPcs, Derefing, ReaderTypes, Departed
    <2>7. QED
        BY <1>n, <2>5, <2>6 DEF Settled
<1>9. QED
    BY <1>1, <1>2, <1>3, <1>4, <1>5, <1>6, <1>7, <1>8 DEF MainInCall, MainCalls

(* Every step that lets no reader leave in the window keeps a reader that *)
(* left as it is.                                                         *)
LEMMA NextStatus ==
    ASSUME TypeInv, TypeInv', RefInv, LiveInv, Givens, Settled,
           StepDistributionMode # "OnDemand", [Next /\ ~LeavesInWindow]_vars
    PROVE  Givens' /\ Settled' /\ Parting
<1>1. CASE UNCHANGED vars
    BY <1>1 DEF vars, dataVars, callVars, readerVars, linkVars, localVars, Givens, Settled, Parting, Derefing, InWindow,
        MainAt, InCall
<1>2. CASE MainInCall \/ MainCalls
    BY <1>2, MainStatus, GivensHold DEF GivensKept
<1>3. CASE (NetInHandler \/ Environment) /\ ~LeavesInWindow
    BY <1>3, NetGivens, NetSettled, GivensHold DEF GivensKept
<1>4. QED
    BY <1>1, <1>2, <1>3 DEF Next, Terminated

(* In AllToAll and RoundRobin mode a reader whose status is PeerClosed,   *)
(* PeerFailed or Closed never becomes established again, when none leaves *)
(* between the snapshot and the adjustment of the statuses.               *)
THEOREM NoReaderReturns ==
    ASSUME StepDistributionMode # "OnDemand"
    PROVE  OrderlySpec => NoResurrection
<1>1. Init => Givens /\ Settled
    BY DEF Init, Givens, Settled, Derefing, InWindow, MainAt, InCall, CallPcs, Threads
<1>2. TypeInv /\ TypeInv' /\ RefInv /\ LiveInv /\ Givens /\ Settled /\ [Next /\ ~LeavesInWindow]_vars
        => Givens' /\ Settled'
    BY NextStatus
<1>3. TypeInv /\ TypeInv' /\ RefInv /\ LiveInv /\ Givens /\ Settled /\ [Next /\ ~LeavesInWindow]_vars
        => [\A r \in Cohorts : ReaderStatus[r] \in Departed => ReaderStatus'[r] # "Established"]_vars
    BY NextStatus DEF Parting, Departed
<1>4. QED
    BY <1>1, <1>2, <1>3, OrderlyIsSpec, TypeInvariance, RefInvariance, LiveInvariance, PTL
       DEF OrderlySpec, NoResurrection

-----------------------------------------------------------------------------
(* The order of the steps *)

(* The provider has not come to a reader with the step it provides. *)
NobodyServed == Unserved \/ (MainAt("sendLoop") /\ idx["main"] = 1)

(* The steps of S are older than t. *)
Below(S, t) == \A u \in S : u < t

(* What is handed out on demand is the last step demanded or older. *)
Demands ==
    /\ LastDemandTimestep <= WriterTimestep
    /\ StepDistributionMode = "OnDemand" =>
          /\ NobodyServed => LastDemandTimestep < WriterTimestep
          /\ \A r \in Cohorts : \A t \in received[r] : t <= LastDemandTimestep
          /\ \A th \in Threads : Sending(th) => step[th] <= LastDemandTimestep

(* What is yet to be sent to a reader is newer than all it got. *)
Handed ==
    /\ \A r \in Cohorts : \A t \in received[r] : t <= WriterTimestep
    /\ NobodyServed => \A r \in Cohorts : Below(received[r], WriterTimestep)
    /\ (MainAt("sendLoop") /\ StepDistributionMode = "AllToAll") =>
          \A i \in 1 .. Len(Readers) :
              i >= idx["main"] => Below(received[Readers[i]], WriterTimestep)
    /\ \A th \in Threads : Sending(th) =>
          step[th] <= WriterTimestep /\ Below(received[rdr[th]], step[th])
    /\ (Sending("main") /\ ret["main"] = "sendLoop") =>
          /\ idx["main"] > 1
          /\ StepDistributionMode = "AllToAll" =>
                \A i \in 1 .. Len(Readers) : i >= idx["main"] => Readers[i] # rdr["main"]

(* A reader that is admitted starts with nothing and gets the queued steps in order. *)
Fresh ==
    /\ \A r \in Cohorts : NewReader(r) => received[r] = {}
    /\ (pc["main"] = "awaitReader" /\ StepDistributionMode = "AllToAll") =>
          received[rdr["main"]] = {}
    /\ MainAt("queuedLoop") => Below(received[rdr["main"]], idx["main"])

(* A reader that asks for a step asks for one, and has no other under way. *)
Asked ==
    StepDistributionMode = "OnDemand" =>
        /\ \A i \in 1 .. Len(StepRequestQueue) : peer[StepRequestQueue[i]] \in {"live"} \cup Left
        /\ \A i, j \in 1 .. Len(StepRequestQueue) :
              (StepRequestQueue[i] = StepRequestQueue[j] /\ peer[StepRequestQueue[i]] = "live") => i = j
        /\ \A i \in 1 .. Len(StepRequestQueue) :
              peer[StepRequestQueue[i]] = "live" =>
                 /\ StepRequestQueue[i] \in requested \cup gotClose
                 /\ \A th \in Threads : Sending(th) => rdr[th] # StepRequestQueue[i]
        /\ \A th \in Threads : (Sending(th) /\ peer[rdr[th]] = "live") =>
              rdr[th] \in requested \cup gotClose
        /\ (Sending("main") /\ Sending("net") /\ peer[rdr["net"]] = "live") =>
              rdr["main"] # rdr["net"]

(* No step is sent, or about to be sent, twice. *)
Apart ==
    StepDistributionMode # "AllToAll" =>
        /\ DeliveredOnce
        /\ \A th \in Threads : Sending(th) => \A r \in Cohorts : step[th] \notin received[r]
        /\ (Sending("main") /\ Sending("net")) => step["main"] # step["net"]

(* The order in which steps are handed out and delivered, for the three *)
(* modes: the inductive invariant.                                      *)
OrderInv == Demands /\ Handed /\ Fresh /\ Asked /\ Apart

(* Requests are only taken off the queue, from its front or all at once. *)
Shorter ==
    \/ StepRequestQueue' \in {StepRequestQueue, <<>>}
    \/ StepRequestQueue # <<>> /\ StepRequestQueue' = Tail(StepRequestQueue)

(* A step in which nothing is handed out and nothing reaches a reader *)
OrderFrame ==
    /\ UNCHANGED <<received, WriterTimestep, LastDemandTimestep>>
    /\ (requested \cup gotClose) \subseteq (requested' \cup gotClose') /\ Shorter
    /\ \A th \in Threads : Sending(th)' =>
          Sending(th) /\ rdr'[th] = rdr[th] /\ step'[th] = step[th] /\ ret'[th] = ret[th]
    /\ Sending("main")' => idx'["main"] = idx["main"] /\ Readers' = Readers
    /\ NobodyServed' => NobodyServed
    /\ (MainAt("sendLoop")' /\ StepDistributionMode = "AllToAll") =>
          \/ MainAt("sendLoop") /\ idx'["main"] = idx["main"] /\ Readers' = Readers
          \/ NobodyServed /\ Readers' = Readers
    /\ (pc'["main"] = "awaitReader" /\ StepDistributionMode = "AllToAll") =>
          \/ pc["main"] = "awaitReader" /\ rdr'["main"] = rdr["main"]
          \/ rdr'["main"] \in Cohorts /\ NewReader(rdr'["main"])
    /\ MainAt("queuedLoop")' =>
          \/ MainAt("queuedLoop") /\ rdr'["main"] = rdr["main"] /\ idx'["main"] = idx["main"]
          \/ /\ pc["main"] = "awaitReader" /\ StepDistributionMode = "AllToAll"
             /\ rdr'["main"] = rdr["main"]
    /\ \A r \in Cohorts : NewReader(r)' => NewReader(r)
    /\ \A r \in Cohorts : peer[r] \in {"live"} \cup Left => peer'[r] = peer[r] \/ peer'[r] \in Left

(* Every request still in the queue was in it before. *)
LEMMA RequestsKept ==
    ASSUME TypeOK, Shorter
    PROVE  \E k \in {0, 1} : \A i \in 1 .. Len(StepRequestQueue') :
              i + k \in 1 .. Len(StepRequestQueue) /\ StepRequestQueue'[i] = StepRequestQueue[i + k]
<1>0. StepRequestQueue \in Seq(Cohorts)
    BY DEF TypeOK, StreamTypes
<1>1. CASE StepRequestQueue' = StepRequestQueue
    <2>1. \A i \in 1 .. Len(StepRequestQueue) : i + 0 = i
        BY <1>0
    <2>2. QED
        BY <1>1, <2>1
<1>2. CASE StepRequestQueue' = <<>>
    <2>1. Len(StepRequestQueue') = 0
        BY <1>2
    <2>2. \A i \in 1 .. Len(StepRequestQueue') : FALSE
        BY <2>1
    <2>3. QED
        BY <2>2
<1>3. CASE StepRequestQueue # <<>> /\ StepRequestQueue' = Tail(StepRequestQueue)
    <2>1. \A i \in 1 .. Len(StepRequestQueue') :
              i + 1 \in 1 .. Len(StepRequestQueue) /\ StepRequestQueue'[i] = StepRequestQueue[i + 1]
        BY <1>0, <1>3
    <2>2. QED
        BY <2>1
<1>4. QED
    BY <1>1, <1>2, <1>3 DEF Shorter

(* What hands no step out keeps the requests apart. *)
LEMMA AskedKept ==
    ASSUME TypeInv, LiveInv, Asked, OrderFrame
    PROVE  Asked'
<1> SUFFICES ASSUME StepDistributionMode = "OnDemand"
             PROVE  Asked'
    BY DEF Asked
<1>0. StepRequestQueue \in Seq(Cohorts)
    BY DEF TypeInv, TypeOK, StreamTypes
<1>1. PICK k \in {0, 1} : \A i \in 1 .. Len(StepRequestQueue') :
              i + k \in 1 .. Len(StepRequestQueue) /\ StepRequestQueue'[i] = StepRequestQueue[i + k]
    BY RequestsKept DEF OrderFrame, TypeInv
<1>2. \A i \in 1 .. Len(StepRequestQueue) : StepRequestQueue[i] \in Cohorts
    BY <1>0
<1>3. \A th \in Threads : Sending(th) => rdr[th] \in Cohorts /\ peer[rdr[th]] \in {"live"} \cup Left
    BY DEF Sending, TypeInv, Positioned, InCall, CallPcs, LiveInv, Calls
<1>4. \A r \in Cohorts : peer[r] \in {"live"} \cup Left =>
          peer'[r] \in {"live"} \cup Left /\ (peer'[r] = "live" => peer[r] = "live")
    BY DEF OrderFrame, Left
<1>5. \A i \in 1 .. Len(StepRequestQueue') : \E j \in 1 .. Len(StepRequestQueue) :
          /\ j = i + k /\ StepRequestQueue'[i] = StepRequestQueue[j] /\ StepRequestQueue[j] \in Cohorts
          /\ peer[StepRequestQueue[j]] \in {"live"} \cup Left
    BY <1>1, <1>2 DEF Asked
<1>6. \A i \in 1 .. Len(StepRequestQueue') : peer'[StepRequestQueue'[i]] \in {"live"} \cup Left
    BY <1>4, <1>5
<1>7. ASSUME NEW i \in 1 .. Len(StepRequestQueue'), NEW j \in 1 .. Len(StepRequestQueue'),
             StepRequestQueue'[i] = StepRequestQueue'[j], peer'[StepRequestQueue'[i]] = "live"
      PROVE  i = j
    <2>1. PICK a \in 1 .. Len(StepRequestQueue) :
          /\ a = i + k /\ StepRequestQueue'[i] = StepRequestQueue[a] /\ StepRequestQueue[a] \in Cohorts
          /\ peer[StepRequestQueue[a]] \in {"live"} \cup Left
        BY <1>5
    <2>2. PICK b \in 1 .. Len(StepRequestQueue) :
          b = j + k /\ StepRequestQueue'[j] = StepRequestQueue[b]
        BY <1>5
    <2>3. a = b
        BY <1>4, <1>7, <2>1, <2>2 DEF Asked
    <2>4. i \in Int /\ j \in Int /\ k \in Int
        OBVIOUS
    <2>5. QED
        BY <2>1, <2>2, <2>3, <2>4
<1>8. ASSUME NEW i \in 1 .. Len(StepRequestQueue'), peer'[StepRequestQueue'[i]] = "live"
      PROVE  /\ StepRequestQueue'[i] \in requested' \cup gotClose'
             /\ \A th \in Threads : Sending(th)' => rdr'[th] # StepRequestQueue'[i]
    <2>1. PICK a \in 1 .. Len(StepRequestQueue) :
          /\ StepRequestQueue'[i] = StepRequestQueue[a] /\ StepRequestQueue[a] \in Cohorts
          /\ peer[StepRequestQueue[a]] \in {"live"} \cup Left
        BY <1>5
    <2>2. peer[StepRequestQueue[a]] = "live"
        BY <1>4, <1>8, <2>1
    <2>3. QED
        BY <2>1, <2>2 DEF Asked, OrderFrame
<1>9. \A th \in Threads : (Sending(th)' /\ peer'[rdr'[th]] = "live") =>
              Sending(th) /\ peer[rdr[th]] = "live" /\ rdr'[th] = rdr[th]
    BY <1>3, <1>4 DEF OrderFrame
<1>10. \A th \in Threads : (Sending(th)' /\ peer'[rdr'[th]] = "live") =>
              rdr'[th] \in requested' \cup gotClose'
    BY <1>9 DEF Asked, OrderFrame
<1>11. (Sending("main")' /\ Sending("net")' /\ peer'[rdr'["net"]] = "live") => rdr'["main"] # rdr'["net"]
    BY <1>9 DEF Asked, OrderFrame, Threads
<1>12. QED
    BY <1>6, <1>7, <1>8, <1>10, <1>11 DEF Asked

(* What hands no step out keeps the order. *)
LEMMA OrderKept ==
    ASSUME TypeInv, LiveInv, OrderInv, OrderFrame
    PROVE  OrderInv'
<1>0. /\ Readers \in Seq(Cohorts)
      /\ \A th \in Threads : Sending(th) => rdr[th] \in Cohorts
      /\ pc["main"] = "awaitReader" \/ MainAt("queuedLoop") => rdr["main"] \in Cohorts
    BY DEF TypeInv, TypeOK, StreamTypes, Sending, Positioned, InCall, CallPcs, MainAt, Threads
<1>1. Asked'
    BY AskedKept DEF OrderInv
<1>2. Demands'
    BY DEF OrderInv, Demands, OrderFrame
<1>3. Apart'
    BY DEF OrderInv, Apart, OrderFrame, DeliveredOnce, Threads
<1>4. Fresh'
    <2>1. \A r \in Cohorts : NewReader(r)' => received'[r] = {}
        BY DEF OrderInv, Fresh, OrderFrame
    <2>2. (pc'["main"] = "awaitReader" /\ StepDistributionMode = "AllToAll") => received'[rdr'["main"]] = {}
        BY DEF OrderInv, Fresh, OrderFrame
    <2>3. MainAt("queuedLoop")' => Below(received'[rdr'["main"]], idx'["main"])
        BY DEF OrderInv, Fresh, OrderFrame, Below
    <2>4. QED
        BY <2>1, <2>2, <2>3 DEF Fresh, Below
<1>5. Handed'
    <2>1. \A r \in Cohorts : \A t \in received'[r] : t <= WriterTimestep'
        BY DEF OrderInv, Handed, OrderFrame
    <2>2. NobodyServed' => \A r \in Cohorts : Below(received'[r], WriterTimestep')
        BY DEF OrderInv, Handed, OrderFrame, Below
    <2>3. (MainAt("sendLoop")' /\ StepDistributionMode = "AllToAll") =>
          \A i \in 1 .. Len(Readers') :
              i >= idx'["main"] => Below(received'[Readers'[i]], WriterTimestep')
        <3>1. CASE MainAt("sendLoop") /\ idx'["main"] = idx["main"] /\ Readers' = Readers
            BY <3>1 DEF OrderInv, Handed, OrderFrame, Below
        <3>2. CASE NobodyServed /\ Readers' = Readers
            <4>1. \A r \in Cohorts : Below(received[r], WriterTimestep)
                BY <3>2 DEF OrderInv, Handed
            <4>2. \A i \in 1 .. Len(Readers) : Readers[i] \in Cohorts
                BY <1>0
            <4>3. UNCHANGED <<received, WriterTimestep>>
                BY DEF OrderFrame
            <4>4. QED
                BY <3>2, <4>1, <4>2, <4>3 DEF Below
        <3>3. QED
            BY <3>1, <3>2 DEF OrderFrame
    <2>4. \A th \in Threads : Sending(th)' =>
              step'[th] <= WriterTimestep' /\ Below(received'[rdr'[th]], step'[th])
        BY DEF OrderInv, Handed, OrderFrame, Below
    <2>5. (Sending("main")' /\ ret'["main"] = "sendLoop") =>
          /\ idx'["main"] > 1
          /\ StepDistributionMode = "AllToAll" =>
                \A i \in 1 .. Len(Readers') : i >= idx'["main"] => Readers'[i] # rdr'["main"]
        BY DEF OrderInv, Handed, OrderFrame, Threads
    <2>6. QED
        BY <2>1, <2>2, <2>3, <2>4, <2>5 DEF Handed, Below
<1>6. QED
    BY <1>1, <1>2, <1>3, <1>4, <1>5 DEF OrderInv

(* A write that succeeds delivers a step that is newer than all the reader *)
(* got.                                                                    *)
LEMMA WriteOrder ==
    ASSUME TypeInv, RefInv, LiveInv, HeldInv, OrderInv,
           NEW th \in Threads, NEW ok \in BOOLEAN, CMwrite(th, ok)
    PROVE  OrderInv' /\ \A r \in Cohorts : \A t \in received'[r] \ received[r] : Below(received[r], t)
<1> USE DEF Threads, markVars, queueVars, openVars, stepVars, distVars,
            closeVars, streamVars, listVars, linkVars, readerVars, callVars, localVars, Goto
<1>0. ThreadTypes /\ PeerTypes /\ Readers \in Seq(Cohorts)
    BY DEF TypeInv, TypeOK, StreamTypes
<1>1. PICK r \in Cohorts : r = rdr[th]
    BY DEF CMwrite, TypeInv, Positioned, InCall, CallPcs
<1>2. /\ pc[th] = "write" /\ (pc' = [pc EXCEPT ![th] = "written"] \/ pc' = [pc EXCEPT ![th] = "failed"])
      /\ UNCHANGED <<ret, rdr, step, idx, peer, Readers, ReaderRegisterQueue, StepRequestQueue,
                     WriterTimestep, LastDemandTimestep>>
    BY DEF CMwrite
<1>3. /\ \A at \in {"statusLoop", "discardLoop", "sendLoop", "queuedLoop"} : MainAt(at)' <=> MainAt(at)
      /\ NobodyServed' <=> NobodyServed
      /\ pc'["main"] = "awaitReader" <=> pc["main"] = "awaitReader"
    BY <1>0, <1>2 DEF MainAt, InCall, CallPcs, NobodyServed, Unserved, ThreadTypes
<1>4. ~Sending(th)' /\ \A o \in Threads \ {th} : Sending(o)' <=> Sending(o)
    BY <1>0, <1>2 DEF Sending, ThreadTypes
<1>5. /\ ret["main"] \in WriteRets \/ th = "net"
      /\ ret["net"] \in NetWriteRets \/ th = "main"
    BY <1>2 DEF TypeInv, ReturnOK
<1>6. \A q \in Cohorts : NewReader(q)' <=> NewReader(q)
    BY <1>2 DEF NewReader, InQueue
<1> DEFINE here == ok /\ peer[r] = "live"
           told == here /\ ret[th] \in MetadataSends
<1>7. CASE ~told
    <2>1. received' = received
        BY <1>1, <1>7 DEF CMwrite
    <2>2. (requested \cup gotClose) \subseteq (requested' \cup gotClose')
        <3>1. ret[th] \notin MetadataSends /\ ret[th] # "discardLoop" => ret[th] = "closeLoop"
            BY <1>5 DEF WriteRets, SendRets, NetWriteRets, MetadataSends
        <3>2. CASE here /\ ret[th] = "closeLoop"
            <4>1. requested' = requested \ {r} /\ gotClose' = gotClose \cup {r}
                BY <1>1, <3>2 DEF CMwrite
            <4>2. QED
                BY <4>1
        <3>3. CASE ~here \/ ret[th] = "discardLoop"
            <4>1. requested' = requested /\ (gotClose' = gotClose \/ gotClose' = gotClose \cup {r})
                BY <1>1, <3>3 DEF CMwrite
            <4>2. QED
                BY <4>1
        <3>4. QED
            BY <1>7, <3>1, <3>2, <3>3
    <2>3. OrderFrame
        BY <1>2, <1>3, <1>4, <1>6, <2>1, <2>2 DEF OrderFrame, Shorter
    <2>4. QED
        BY <2>1, <2>3, OrderKept
<1>8. CASE told
    <2>1. /\ received' = [received EXCEPT ![r] = @ \cup {step[th]}]
          /\ requested' = requested \ {r} /\ gotClose' = gotClose
        BY <1>1, <1>8 DEF CMwrite, MetadataSends
    <2>2. Sending(th) /\ peer[r] = "live" /\ rdr[th] = r
        BY <1>1, <1>2, <1>8 DEF Sending
    <2> DEFINE s == step[th]
    <2>3. /\ received'[r] = received[r] \cup {s}
          /\ \A q \in Cohorts \ {r} : received'[q] = received[q]
        BY <1>0, <2>1 DEF PeerTypes
    <2>4. th = "net" => StepDistributionMode = "OnDemand"
        BY <2>2 DEF HeldInv, Unsent
    <2>5. th = "main" => ret["main"] \in {"queuedLoop", "sendLoop"}
        BY <1>5, <2>2 DEF Sending, WriteRets, SendRets, MetadataSends
    <2>6. s <= WriterTimestep /\ Below(received[r], s)
        BY <2>2 DEF OrderInv, Handed
    <2>7. \A o \in Threads \ {th} : Sending(o) => rdr[o] # r
        <3> SUFFICES ASSUME NEW o \in Threads \ {th}, Sending(o) PROVE rdr[o] # r
            OBVIOUS
        <3>1. StepDistributionMode = "OnDemand" /\ Sending("main") /\ Sending("net")
            BY <2>2 DEF HeldInv, Unsent
        <3>2. QED
            BY <2>2, <3>1 DEF OrderInv, Asked
    <2>8. NobodyServed => s < WriterTimestep
        <3> SUFFICES ASSUME NobodyServed PROVE s < WriterTimestep
            OBVIOUS
        <3>1. th # "main"
            BY <1>2, <2>2, <2>5 DEF NobodyServed, Unserved, MainAt, InCall, CallPcs, OrderInv, Handed
        <3>2. StepDistributionMode = "OnDemand"
            BY <2>4, <3>1
        <3>3. s <= LastDemandTimestep /\ LastDemandTimestep < WriterTimestep
            BY <2>2, <3>2 DEF OrderInv, Demands
        <3>4. s \in Int /\ LastDemandTimestep \in Int /\ WriterTimestep \in Int
            BY <1>0 DEF TypeInv, TypeOK, StreamTypes, ThreadTypes, Steps
        <3>5. QED
            BY <3>3, <3>4
    <2>9. Demands'
        BY <1>2, <1>3, <1>4, <2>2, <2>3 DEF OrderInv, Demands
    <2>10. Handed'
        <3>1. \A q \in Cohorts : \A t \in received'[q] : t <= WriterTimestep'
            BY <1>2, <2>3, <2>6 DEF OrderInv, Handed
        <3>2. NobodyServed' => \A q \in Cohorts : Below(received'[q], WriterTimestep')
            BY <1>2, <1>3, <2>3, <2>8 DEF OrderInv, Handed, Below
        <3>3. (MainAt("sendLoop")' /\ StepDistributionMode = "AllToAll") =>
                \A i \in 1 .. Len(Readers') :
                    i >= idx'["main"] => Below(received'[Readers'[i]], WriterTimestep')
            <4> SUFFICES ASSUME MainAt("sendLoop"), StepDistributionMode = "AllToAll",
                                NEW i \in 1 .. Len(Readers), i >= idx["main"]
                         PROVE  Below(received'[Readers[i]], WriterTimestep)
                BY <1>2, <1>3 DEF Below
            <4>1. th = "main" /\ ret["main"] = "sendLoop"
                BY <1>2, <2>4 DEF MainAt
            <4>2. Readers[i] \in Cohorts /\ Readers[i] # r
                BY <1>0, <2>2, <4>1 DEF OrderInv, Handed
            <4>3. QED
                BY <2>3, <4>2 DEF OrderInv, Handed
        <3>4. \A o \in Threads : Sending(o)' =>
                  step'[o] <= WriterTimestep' /\ Below(received'[rdr'[o]], step'[o])
            <4> SUFFICES ASSUME NEW o \in Threads \ {th}, Sending(o)
                         PROVE  step[o] <= WriterTimestep /\ Below(received'[rdr[o]], step[o])
                BY <1>2, <1>4 DEF Below
            <4>1. rdr[o] \in Cohorts /\ rdr[o] # r
                BY <2>7 DEF Sending, TypeInv, Positioned, InCall, CallPcs
            <4>2. QED
                BY <2>3, <4>1 DEF OrderInv, Handed
        <3>5. (Sending("main")' /\ ret'["main"] = "sendLoop") =>
                  /\ idx'["main"] > 1
                  /\ StepDistributionMode = "AllToAll" =>
                        \A i \in 1 .. Len(Readers') : i >= idx'["main"] => Readers'[i] # rdr'["main"]
            BY <1>2, <1>4 DEF OrderInv, Handed
        <3>6. QED
            BY <3>1, <3>2, <3>3, <3>4, <3>5 DEF Handed, Below
    <2>11. Fresh'
        <3>1. ~NewReader(r)
            BY <2>2 DEF NewReader, RefInv, Admitted, ListedOnce
        <3>2. \A q \in Cohorts : NewReader(q)' => received'[q] = {}
            BY <1>6, <2>3, <3>1 DEF OrderInv, Fresh
        <3>3. pc'["main"] = "awaitReader" => StepDistributionMode # "AllToAll"
            BY <1>2, <1>3, <2>4
        <3>4. MainAt("queuedLoop")' => Below(received'[rdr'["main"]], idx'["main"])
            <4> SUFFICES ASSUME MainAt("queuedLoop") PROVE Below(received'[rdr["main"]], idx["main"])
                BY <1>2, <1>3 DEF Below
            <4>1. th = "main"
                BY <2>4 DEF RefInv, SentOnce, QueuedUnsent
            <4>2. s < idx["main"]
                BY <2>2, <4>1 DEF HeldInv, Unsent
            <4>3. QED
                BY <2>2, <2>3, <4>1, <4>2 DEF OrderInv, Fresh, Below
        <3>5. QED
            BY <3>2, <3>3, <3>4 DEF Fresh, Below
    <2>12. Asked'
        <3> SUFFICES ASSUME StepDistributionMode = "OnDemand" PROVE Asked'
            BY DEF Asked
        <3>1. \A i \in 1 .. Len(StepRequestQueue) :
              peer[StepRequestQueue[i]] = "live" => StepRequestQueue[i] # r
            BY <2>2 DEF OrderInv, Asked
        <3>2. \A i \in 1 .. Len(StepRequestQueue) :
              peer[StepRequestQueue[i]] = "live" =>
                 /\ StepRequestQueue[i] \in requested' \cup gotClose'
                 /\ \A o \in Threads : Sending(o)' => rdr[o] # StepRequestQueue[i]
            BY <1>4, <2>1, <3>1 DEF OrderInv, Asked
        <3>3. \A o \in Threads : (Sending(o)' /\ peer[rdr[o]] = "live") => rdr[o] \in requested' \cup gotClose'
            BY <1>4, <2>1, <2>7 DEF OrderInv, Asked
        <3>4. ~(Sending("main")' /\ Sending("net")')
            BY <1>4
        <3>5. QED
            BY <1>2, <3>2, <3>3, <3>4 DEF OrderInv, Asked
    <2>13. Apart'
        <3> SUFFICES ASSUME StepDistributionMode # "AllToAll" PROVE Apart'
            BY DEF Apart
        <3>1. \A q \in Cohorts : s \notin received[q]
            BY <2>2 DEF OrderInv, Apart
        <3>2. DeliveredOnce'
            BY <2>3, <3>1 DEF OrderInv, Apart, DeliveredOnce
        <3>3. \A o \in Threads : Sending(o)' => \A q \in Cohorts : step'[o] \notin received'[q]
            <4> SUFFICES ASSUME NEW o \in Threads \ {th}, Sending(o), NEW q \in Cohorts
                         PROVE  step[o] \notin received'[q]
                BY <1>2, <1>4
            <4>1. step[o] # s /\ step[o] \notin received[q]
                BY <2>2 DEF OrderInv, Apart
            <4>2. QED
                BY <2>3, <4>1
        <3>4. ~(Sending("main")' /\ Sending("net")')
            BY <1>4
        <3>5. QED
            BY <3>2, <3>3, <3>4 DEF Apart
    <2>14. \A q \in Cohorts : \A t \in received'[q] \ received[q] : Below(received[q], t)
        BY <2>3, <2>6
    <2>15. QED
        BY <2>9, <2>10, <2>11, <2>12, <2>13, <2>14 DEF OrderInv
<1>9. QED
    BY <1>7, <1>8

(* What a thread hands out is newer than all the reader got, *)
(* and where one reader gets a step newer than all any got.  *)
Newest(r, t) ==
    /\ t <= WriterTimestep /\ Below(received[r], t)
    /\ StepDistributionMode # "AllToAll" => \A q \in Cohorts : Below(received[q], t)
    /\ StepDistributionMode = "OnDemand" => LastDemandTimestep < t /\ LastDemandTimestep' = t
    /\ StepDistributionMode # "OnDemand" => LastDemandTimestep' = LastDemandTimestep

(* A step newer than all a reader got may be handed to it: this keeps the *)
(* order, if the request it answers is the only one.                      *)
LEMMA HandoutOrder ==
    ASSUME TypeInv, RefInv, LiveInv, HeldInv, OrderInv, NEW th \in Threads, NEW r \in Cohorts, NEW t,
           NEW back \in MetadataSends, Handout(th, r, t, back), Newest(r, t),
           th = "main" => pc["main"] = back /\ back \in {"queuedLoop", "sendLoop"},
           th = "net" => /\ back = "requestSent" /\ pc["net"] = "idle" /\ UNCHANGED idx
                         /\ StepDistributionMode = "OnDemand" /\ (NobodyServed => t < WriterTimestep),
           back = "queuedLoop" => /\ r = rdr["main"] /\ StepDistributionMode = "AllToAll"
                                  /\ idx' = [idx EXCEPT !["main"] = t + 1],
           back = "sendLoop" => /\ idx'["main"] \in Int /\ idx'["main"] > 1 /\ idx'["main"] >= idx["main"]
                                /\ StepDistributionMode = "AllToAll" =>
                                      \A i \in 1 .. Len(Readers) :
                                          i >= idx'["main"] => Readers[i] # r,
           Asked'
    PROVE  OrderInv'
<1> USE DEF Threads, Goto
<1>0. ThreadTypes /\ PeerTypes /\ Readers \in Seq(Cohorts)
    BY DEF TypeInv, TypeOK, StreamTypes
<1>1. /\ pc' = [pc EXCEPT ![th] = "register"] /\ ret' = [ret EXCEPT ![th] = back]
      /\ rdr' = [rdr EXCEPT ![th] = r] /\ step' = [step EXCEPT ![th] = t]
      /\ UNCHANGED <<WriterTimestep, peer, received, Readers, ReaderRegisterQueue>>
      /\ t \in Steps
    BY DEF Handout, SendTimestepEntryToSingleReader, markVars, stepVars
<1>2. \A o \in Threads \ {th} : /\ Sending(o)' <=> Sending(o)
                                /\ rdr'[o] = rdr[o] /\ step'[o] = step[o] /\ ret'[o] = ret[o]
    BY <1>0, <1>1 DEF Sending, ThreadTypes
<1>3. rdr'[th] = r /\ step'[th] = t /\ ret'[th] = back /\ Sending(th)'
    BY <1>0, <1>1 DEF ThreadTypes, Sending
<1>4. /\ \A at \in {"statusLoop", "discardLoop", "sendLoop", "queuedLoop"} : MainAt(at)' <=> MainAt(at)
      /\ pc'["main"] = "awaitReader" <=> pc["main"] = "awaitReader"
      /\ Unserved' <=> Unserved
    BY <1>0, <1>1 DEF MainAt, InCall, CallPcs, Unserved, ThreadTypes, MetadataSends
<1>5. /\ NobodyServed' => th = "net" /\ NobodyServed
      /\ th = "net" => idx'["main"] = idx["main"] /\ rdr'["main"] = rdr["main"]
    BY <1>0, <1>1, <1>2, <1>4 DEF NobodyServed, Unserved, MainAt, InCall, CallPcs, ThreadTypes
<1>6. \A q \in Cohorts : NewReader(q)' <=> NewReader(q)
    BY <1>1 DEF NewReader, InQueue
<1>7. t \in Int /\ WriterTimestep \in Int /\ LastDemandTimestep \in Int /\ idx["main"] \in Int
      /\ (\A o \in Threads : step[o] \in Int)
      /\ \A q \in Cohorts : \A u \in received[q] : u \in Int
    BY <1>0, <1>1 DEF TypeInv, TypeOK, StreamTypes, ThreadTypes, PeerTypes, Steps
<1>8. Demands'
    <2>1. LastDemandTimestep' <= WriterTimestep'
        BY <1>1 DEF Newest, OrderInv, Demands
    <2>2. CASE StepDistributionMode = "OnDemand"
        <3>1. LastDemandTimestep' = t /\ LastDemandTimestep < t
            BY <2>2 DEF Newest
        <3>2. NobodyServed' => LastDemandTimestep' < WriterTimestep'
            BY <1>1, <1>5, <3>1
        <3>3. \A q \in Cohorts : \A u \in received'[q] : u <= LastDemandTimestep'
            BY <1>1, <1>7, <2>2, <3>1 DEF OrderInv, Demands
        <3>4. \A o \in Threads : Sending(o)' => step'[o] <= LastDemandTimestep'
            BY <1>2, <1>3, <1>7, <2>2, <3>1 DEF OrderInv, Demands
        <3>5. QED
            BY <2>1, <3>2, <3>3, <3>4 DEF Demands
    <2>3. QED
        BY <2>1, <2>2 DEF Demands
<1>9. Handed'
    <2>1. \A q \in Cohorts : \A u \in received'[q] : u <= WriterTimestep'
        BY <1>1 DEF OrderInv, Handed
    <2>2. NobodyServed' => \A q \in Cohorts : Below(received'[q], WriterTimestep')
        BY <1>1, <1>5 DEF OrderInv, Handed, Below
    <2>3. (MainAt("sendLoop")' /\ StepDistributionMode = "AllToAll") =>
                \A i \in 1 .. Len(Readers') :
                    i >= idx'["main"] => Below(received'[Readers'[i]], WriterTimestep')
        <3> SUFFICES ASSUME MainAt("sendLoop"), StepDistributionMode = "AllToAll",
                            NEW i \in 1 .. Len(Readers), i >= idx'["main"]
                     PROVE  Below(received[Readers[i]], WriterTimestep)
            BY <1>1, <1>4 DEF Below
        <3>1. th = "main" /\ back = "sendLoop"
            BY DEF MainAt, InCall, CallPcs
        <3>2. i >= idx["main"]
            BY <1>7, <3>1
        <3>3. QED
            BY <3>2 DEF OrderInv, Handed
    <2>4. \A o \in Threads : Sending(o)' =>
                  step'[o] <= WriterTimestep' /\ Below(received'[rdr'[o]], step'[o])
        BY <1>1, <1>2, <1>3 DEF OrderInv, Handed, Newest, Below
    <2>5. (Sending("main")' /\ ret'["main"] = "sendLoop") =>
                  /\ idx'["main"] > 1
                  /\ StepDistributionMode = "AllToAll" =>
                        \A i \in 1 .. Len(Readers') : i >= idx'["main"] => Readers'[i] # rdr'["main"]
        <3>1. CASE th = "main"
            BY <1>1, <1>3, <3>1
        <3>2. CASE th = "net"
            BY <1>1, <1>2, <1>5, <3>2 DEF OrderInv, Handed
        <3>3. QED
            BY <3>1, <3>2
    <2>6. QED
        BY <2>1, <2>2, <2>3, <2>4, <2>5 DEF Handed, Below
<1>10. Fresh'
    <2>1. \A q \in Cohorts : NewReader(q)' => received'[q] = {}
        BY <1>1, <1>6 DEF OrderInv, Fresh
    <2>2. (pc'["main"] = "awaitReader" /\ StepDistributionMode = "AllToAll") => received'[rdr'["main"]] = {}
        BY <1>1, <1>4, <1>5 DEF OrderInv, Fresh, MetadataSends
    <2>3. MainAt("queuedLoop")' => Below(received'[rdr'["main"]], idx'["main"])
        <3>1. CASE th = "net"
            BY <1>1, <1>4, <1>5, <3>1 DEF OrderInv, Fresh, Below
        <3>2. CASE th = "main" /\ MainAt("queuedLoop")
            <4>1. back = "queuedLoop"
                BY <3>2 DEF MainAt, InCall, CallPcs
            <4>2. idx'["main"] = t + 1 /\ rdr'["main"] = r
                BY <1>0, <1>3, <3>2, <4>1 DEF ThreadTypes
            <4>3. \A u \in received[r] : u < t + 1
                BY <1>7 DEF Newest, Below
            <4>4. QED
                BY <1>1, <4>2, <4>3 DEF Below
        <3>3. QED
            BY <1>4, <3>1, <3>2
    <2>4. QED
        BY <2>1, <2>2, <2>3 DEF Fresh, Below
<1>11. Apart'
    <2> SUFFICES ASSUME StepDistributionMode # "AllToAll" PROVE Apart'
        BY DEF Apart
    <2>1. DeliveredOnce'
        BY <1>1 DEF OrderInv, Apart, DeliveredOnce
    <2>2. \A q \in Cohorts : t \notin received[q]
        BY <1>7 DEF Newest, Below
    <2>3. \A o \in Threads : Sending(o)' => \A q \in Cohorts : step'[o] \notin received'[q]
        BY <1>1, <1>2, <1>3, <2>2 DEF OrderInv, Apart
    <2>4. (Sending("main")' /\ Sending("net")') => step'["main"] # step'["net"]
        <3> SUFFICES ASSUME Sending("main")', Sending("net")' PROVE step'["main"] # step'["net"]
            OBVIOUS
        <3>1. PICK o \in Threads \ {th} : Sending(o)
            BY <1>2
        <3>2. StepDistributionMode = "OnDemand"
            BY <1>2 DEF HeldInv, Unsent
        <3>3. step[o] <= LastDemandTimestep /\ LastDemandTimestep < t
            BY <3>1, <3>2 DEF OrderInv, Demands, Newest
        <3>4. step[o] # t
            BY <1>7, <3>3
        <3>5. QED
            BY <1>2, <1>3, <3>1, <3>4
    <2>5. QED
        BY <2>1, <2>3, <2>4 DEF Apart
<1>12. QED
    BY <1>8, <1>9, <1>10, <1>11 DEF OrderInv

(* The loops of waitForReaderResponseAndSendQueued and of the two modes *)
(* that ask no reader hand out such steps.                              *)
LEMMA SendingOrder ==
    ASSUME TypeInv, RefInv, LiveInv, HeldInv, OrderInv, SendQueued \/ SendToAll \/ SendRoundRobin
    PROVE  OrderInv' /\ LastDemandTimestep' = LastDemandTimestep /\ received' = received
<1> USE DEF distVars
<1>0. ThreadTypes /\ Readers \in Seq(Cohorts) /\ PeerTypes
    BY DEF TypeInv, TypeOK, StreamTypes
<1>1. \A th, r, t, back : Handout(th, r, t, back) =>
          UNCHANGED <<received, WriterTimestep, peer, gotClose>> /\ t <= WriterTimestep
    BY DEF Handout, SendTimestepEntryToSingleReader, stepVars, RefInv, SentOnce, Counted, QueueInOrder
<1>2. \A r \in Cohorts : Provides(r) => UNCHANGED <<received, WriterTimestep>>
    BY <1>1 DEF Provides
<1>3. CASE SendQueued
    <2>1. PICK t \in QueuedForReader(rdr["main"]) :
              /\ Handout("main", rdr["main"], t, "queuedLoop")
              /\ idx["main"] <= t /\ idx' = [idx EXCEPT !["main"] = t + 1]
              /\ StepDistributionMode = "AllToAll" /\ pc["main"] = "queuedLoop"
              /\ UNCHANGED distVars
        BY <1>3, QueuedHandout
    <2>2. rdr["main"] \in Cohorts /\ idx["main"] \in Int /\ t \in Int
          /\ \A u \in received[rdr["main"]] : u \in Int
        BY <1>0, <2>1 DEF Handout, ThreadTypes, Threads, PeerTypes, Steps
    <2>3. Below(received[rdr["main"]], idx["main"])
        BY <2>1 DEF OrderInv, Fresh, MainAt
    <2>4. Newest(rdr["main"], t)
        BY <1>1, <2>1, <2>2, <2>3 DEF Newest, Below
    <2>5. Asked'
        BY <2>1 DEF Asked
    <2>6. QED
        BY <1>1, <2>1, <2>2, <2>4, <2>5, HandoutOrder DEF MetadataSends, Threads
<1>4. CASE SendToAll
    <2>1. PICK i \in 1 .. Len(Readers) :
              /\ Provides(Readers[i]) /\ i >= idx["main"]
              /\ idx' = [idx EXCEPT !["main"] = i + 1]
              /\ StepDistributionMode = "AllToAll"
              /\ UNCHANGED distVars
        BY <1>4, AllHandout
    <2>2. PICK r \in Cohorts : r = Readers[i]
        BY <1>0
    <2>3. /\ Handout("main", r, WriterTimestep, "sendLoop") /\ pc["main"] = "sendLoop"
          /\ idx["main"] \in Nat \ {0}
        BY <2>1, <2>2 DEF Provides
    <2>4. idx'["main"] = i + 1 /\ i + 1 > 1 /\ i + 1 >= idx["main"] /\ i + 1 \in Int
        BY <1>0, <2>1, <2>3 DEF ThreadTypes, Threads
    <2>5. \A j \in 1 .. Len(Readers) : j >= i + 1 => Readers[j] # r
        BY <1>0, <2>2 DEF RefInv, Admitted, ListedOnce
    <2>6. Newest(r, WriterTimestep)
        BY <1>1, <2>1, <2>2, <2>3 DEF Newest, OrderInv, Handed, MainAt
    <2>7. Asked'
        BY <2>1 DEF Asked
    <2>8. QED
        BY <1>1, <2>1, <2>3, <2>4, <2>5, <2>6, <2>7, HandoutOrder DEF MetadataSends, Threads
<1>5. CASE SendRoundRobin
    <2>1. /\ StepDistributionMode = "RoundRobin" /\ pc["main"] = "sendLoop"
          /\ idx["main"] = 1 /\ idx' = [idx EXCEPT !["main"] = 2]
          /\ UNCHANGED <<LastDemandTimestep, StepRequestQueue, requested>>
          /\ \/ \E r \in Cohorts : Provides(r)
             \/ UNCHANGED <<queueVars, openVars, stepVars, ReserveCount, closeVars, listVars,
                            readerVars, pc, callVars, asleep, localVars, peerVars>>
        BY <1>5, RoundRobinHandout
    <2>2. NobodyServed /\ idx'["main"] = 2
        BY <1>0, <2>1 DEF NobodyServed, MainAt, ThreadTypes, Threads
    <2>3. Asked'
        BY <2>1 DEF Asked
    <2>4. CASE \E r \in Cohorts : Provides(r)
        <3>1. PICK r \in Cohorts : Provides(r)
            BY <2>4
        <3>2. Newest(r, WriterTimestep)
            BY <1>1, <2>1, <2>2, <3>1 DEF Newest, OrderInv, Handed, Provides
        <3>3. QED
            BY <1>2, <2>1, <2>2, <2>3, <3>1, <3>2, HandoutOrder DEF Provides, MetadataSends, Threads
    <2>5. CASE UNCHANGED <<queueVars, openVars, stepVars, ReserveCount, closeVars, listVars,
                            readerVars, pc, callVars, asleep, localVars, peerVars>>
        <3>1. /\ UNCHANGED <<received, requested, gotClose, peer, WriterTimestep, LastDemandTimestep, Readers,
                             ReaderRegisterQueue, StepRequestQueue, pc, ret, rdr, step>>
              /\ pc["main"] = "sendLoop"
            BY <2>1, <2>5 DEF stepVars, listVars, callVars, peerVars
        <3>2. ~Sending("main") /\ ~MainAt("queuedLoop") /\ NobodyServed
            BY <2>1, <2>2 DEF Sending, MainAt, InCall, CallPcs
        <3>3. OrderFrame
            BY <2>1, <3>1, <3>2 DEF OrderFrame, Shorter, Sending, MainAt, InCall, NewReader, InQueue
        <3>4. QED
            BY <3>1, <3>3, OrderKept
    <2>6. QED
        BY <2>1, <2>4, <2>5
<1>6. QED
    BY <1>3, <1>4, <1>5

(* The provided step goes to the reader that asked first, and nobody got *)
(* it.                                                                   *)
LEMMA DemandOrder ==
    ASSUME TypeInv, RefInv, LiveInv, HeldInv, OrderInv, SendOnDemand
    PROVE  OrderInv' /\ LastDemandTimestep <= LastDemandTimestep' /\ received' = received
<1>0. ThreadTypes /\ PeerTypes /\ StepRequestQueue \in Seq(Cohorts) /\ LastDemandTimestep \in Int
      /\ WriterTimestep \in Int
    BY DEF TypeInv, TypeOK, StreamTypes, Steps
<1>1. /\ StepDistributionMode = "OnDemand" /\ pc["main"] = "sendLoop" /\ idx["main"] = 1
      /\ StepRequestQueue # <<>> /\ StepRequestQueue' = Tail(StepRequestQueue)
      /\ Head(StepRequestQueue) \in Cohorts
      /\ \/ /\ Provides(Head(StepRequestQueue))
            /\ LastDemandTimestep' = WriterTimestep
            /\ idx' = [idx EXCEPT !["main"] = 3]
            /\ UNCHANGED requested
         \/ /\ ~IsEstablished(Head(StepRequestQueue))
            /\ UNCHANGED <<queueVars, streamVars, Readers, ReaderRegisterQueue, readerVars, lock,
                           pc, callVars, idx, asleep, localVars, peerVars>>
    BY OnDemandHandout
<1>2. PICK r \in Cohorts : r = Head(StepRequestQueue)
    BY <1>1
<1>3. NobodyServed /\ ~Sending("main")
    BY <1>1 DEF NobodyServed, MainAt, Sending
<1>4. LastDemandTimestep < WriterTimestep /\ \A q \in Cohorts : Below(received[q], WriterTimestep)
    BY <1>1, <1>3 DEF OrderInv, Demands, Handed
<1>5. CASE UNCHANGED <<queueVars, streamVars, Readers, ReaderRegisterQueue, readerVars, lock,
                       pc, callVars, idx, asleep, localVars, peerVars>>
    <2>1. UNCHANGED <<received, requested, gotClose, peer, WriterTimestep, LastDemandTimestep, Readers,
                      ReaderRegisterQueue, pc, ret, rdr, step, idx>>
        BY <1>5 DEF streamVars, stepVars, distVars, callVars, peerVars
    <2>2. OrderFrame
        BY <1>1, <2>1 DEF OrderFrame, Shorter, Sending, NobodyServed, Unserved, MainAt, InCall,
            NewReader, InQueue
    <2>3. QED
        BY <1>0, <2>1, <2>2, OrderKept
<1>6. CASE Provides(r) /\ LastDemandTimestep' = WriterTimestep
           /\ idx' = [idx EXCEPT !["main"] = 3] /\ UNCHANGED requested
    <2>1. Handout("main", r, WriterTimestep, "sendLoop")
        BY <1>6 DEF Provides
    <2>2. /\ UNCHANGED <<received, WriterTimestep, peer, gotClose>>
          /\ pc' = [pc EXCEPT !["main"] = "register"] /\ ret' = [ret EXCEPT !["main"] = "sendLoop"]
          /\ rdr' = [rdr EXCEPT !["main"] = r] /\ step' = [step EXCEPT !["main"] = WriterTimestep]
        BY <2>1 DEF Handout, SendTimestepEntryToSingleReader, stepVars, Goto
    <2>3. rdr'["main"] = r /\ rdr'["net"] = rdr["net"] /\ (Sending("net")' <=> Sending("net"))
          /\ idx'["main"] = 3
        BY <1>0, <1>6, <2>2 DEF Sending, ThreadTypes, Threads
    <2>4. /\ \A i \in 1 .. Len(StepRequestQueue') :
                i + 1 \in 1 .. Len(StepRequestQueue) /\ StepRequestQueue'[i] = StepRequestQueue[i + 1]
          /\ 1 \in 1 .. Len(StepRequestQueue) /\ StepRequestQueue[1] = r
          /\ \A i \in 1 .. Len(StepRequestQueue) : i \in Int
        BY <1>0, <1>1, <1>2
    <2>5. Asked'
        <3>0. Asked
            BY DEF OrderInv
        <3>1. \A i \in 1 .. Len(StepRequestQueue') : peer'[StepRequestQueue'[i]] \in {"live"} \cup Left
            BY <1>1, <2>2, <2>4, <3>0 DEF Asked
        <3>2. ASSUME NEW i \in 1 .. Len(StepRequestQueue'), NEW j \in 1 .. Len(StepRequestQueue'),
                     StepRequestQueue'[i] = StepRequestQueue'[j], peer'[StepRequestQueue'[i]] = "live"
              PROVE  i = j
            <4>1. i + 1 = j + 1
                BY <1>1, <2>2, <2>4, <3>0, <3>2 DEF Asked
            <4>2. i \in Int /\ j \in Int
                OBVIOUS
            <4>3. QED
                BY <4>1, <4>2
        <3>3. ASSUME NEW i \in 1 .. Len(StepRequestQueue'), peer'[StepRequestQueue'[i]] = "live"
              PROVE  /\ StepRequestQueue'[i] \in requested' \cup gotClose'
                     /\ \A th \in Threads : Sending(th)' => rdr'[th] # StepRequestQueue'[i]
            <4>1. PICK a \in 1 .. Len(StepRequestQueue) : a = i + 1 /\ StepRequestQueue'[i] = StepRequestQueue[a]
                BY <2>4
            <4>2. a # 1
                BY <4>1
            <4>3. peer[StepRequestQueue[a]] = "live"
                BY <2>2, <3>3, <4>1
            <4>4. StepRequestQueue[a] # r
                BY <1>1, <2>4, <3>0, <4>2, <4>3 DEF Asked
            <4>5. StepRequestQueue[a] \in requested \cup gotClose
                  /\ \A th \in Threads : Sending(th) => rdr[th] # StepRequestQueue[a]
                BY <1>1, <3>0, <4>3 DEF Asked
            <4>6. \A th \in Threads : Sending(th)' => rdr'[th] # StepRequestQueue[a]
                BY <2>3, <4>4, <4>5 DEF Threads
            <4>7. QED
                BY <1>6, <2>2, <4>1, <4>5, <4>6
        <3>4. peer[r] = "live" => r \in requested \cup gotClose /\ (Sending("net") => rdr["net"] # r)
            BY <1>1, <2>4, <3>0 DEF Asked, Threads
        <3>5. \A th \in Threads : (Sending(th)' /\ peer'[rdr'[th]] = "live") =>
                  rdr'[th] \in requested' \cup gotClose'
            BY <1>1, <1>6, <2>2, <2>3, <3>0, <3>4 DEF Asked, Threads
        <3>6. (Sending("main")' /\ Sending("net")' /\ peer'[rdr'["net"]] = "live") => rdr'["main"] # rdr'["net"]
            BY <2>2, <2>3, <3>4
        <3>7. QED
            BY <3>1, <3>2, <3>3, <3>5, <3>6 DEF Asked
    <2>6. Newest(r, WriterTimestep)
        BY <1>0, <1>1, <1>4, <1>6 DEF Newest
    <2>7. QED
        BY <1>0, <1>1, <1>4, <1>6, <2>1, <2>2, <2>3, <2>5, <2>6, HandoutOrder DEF MetadataSends, Threads
<1>7. QED
    BY <1>1, <1>2, <1>5, <1>6

(* A request is answered with the step after the last one demanded, or is *)
(* queued once.                                                           *)
LEMMA RequestOrder ==
    ASSUME TypeInv, RefInv, LiveInv, HeldInv, OrderInv, NEW r \in Cohorts, ReaderRequests(r)
    PROVE  OrderInv' /\ LastDemandTimestep <= LastDemandTimestep' /\ received' = received
<1>0. ThreadTypes /\ PeerTypes /\ StepRequestQueue \in Seq(Cohorts) /\ LastDemandTimestep \in Int
      /\ WriterTimestep \in Int
    BY DEF TypeInv, TypeOK, StreamTypes, Steps
<1>1. /\ StepDistributionMode = "OnDemand" /\ pc["net"] = "idle"
      /\ peer[r] = "live" /\ r \notin requested /\ r \notin gotClose
      /\ requested' = requested \cup {r}
      /\ UNCHANGED <<peer, delivered, received, gotClose, idx>>
      /\ \/ \E t \in NextOnDemand :
                    /\ Handout("net", r, t, "requestSent")
                    /\ t \notin InProgressFlag /\ t = LastDemandTimestep + 1
                    /\ LastDemandTimestep' = t
                    /\ UNCHANGED <<NextRRDistribution, StepRequestQueue>>
         \/ /\ UNCHANGED <<queueVars, streamVars, Readers, ReaderRegisterQueue, readerVars, lock,
                           pc, callVars, asleep, localVars>>
            /\ StepRequestQueue' \in {StepRequestQueue, Append(StepRequestQueue, r)}
    BY RequestHandout
<1>2. Asked /\ Demands
    BY DEF OrderInv
<1>3. ~Sending("net") /\ \A i \in 1 .. Len(StepRequestQueue) : StepRequestQueue[i] # r
    BY <1>1, <1>2 DEF Asked, Sending
<1>4. Sending("main") => rdr["main"] # r
    BY <1>1, <1>2 DEF Asked, Threads
<1>5. ASSUME NEW t \in NextOnDemand,
             /\ Handout("net", r, t, "requestSent")
             /\ t \notin InProgressFlag /\ t = LastDemandTimestep + 1
             /\ LastDemandTimestep' = t
             /\ UNCHANGED <<NextRRDistribution, StepRequestQueue>>
      PROVE  OrderInv' /\ LastDemandTimestep <= LastDemandTimestep'
    <2>2. /\ pc' = [pc EXCEPT !["net"] = "register"] /\ ret' = [ret EXCEPT !["net"] = "requestSent"]
          /\ rdr' = [rdr EXCEPT !["net"] = r] /\ step' = [step EXCEPT !["net"] = t]
          /\ t <= WriterTimestep /\ t \in Int
        BY <1>5 DEF Handout, SendTimestepEntryToSingleReader, Goto, RefInv, SentOnce, Counted, QueueInOrder, Steps
    <2>3. rdr'["net"] = r /\ rdr'["main"] = rdr["main"] /\ (Sending("main")' <=> Sending("main"))
        BY <1>0, <2>2 DEF Sending, ThreadTypes, Threads
    <2>5. Asked'
        <3>1. \A i \in 1 .. Len(StepRequestQueue) : peer[StepRequestQueue[i]] = "live" =>
                 /\ StepRequestQueue[i] \in requested' \cup gotClose'
                 /\ \A th \in Threads : Sending(th)' => rdr'[th] # StepRequestQueue[i]
            BY <1>1, <1>2, <1>3, <2>3 DEF Asked, Threads
        <3>2. \A th \in Threads : (Sending(th)' /\ peer[rdr'[th]] = "live") =>
                  rdr'[th] \in requested' \cup gotClose'
            BY <1>1, <1>2, <2>3 DEF Asked, Threads
        <3>3. (Sending("main")' /\ Sending("net")') => rdr'["main"] # rdr'["net"]
            BY <1>4, <2>3
        <3>4. QED
            BY <1>1, <1>2, <1>5, <3>1, <3>2, <3>3 DEF Asked
    <2>6. \A q \in Cohorts : Below(received[q], t)
        <3>1. \A q \in Cohorts : \A u \in received[q] : u \in Int /\ u <= LastDemandTimestep
            BY <1>0, <1>1, <1>2 DEF Demands, PeerTypes, Steps
        <3>2. QED
            BY <1>0, <1>5, <3>1 DEF Below
    <2>7. Newest(r, t)
        BY <1>0, <1>1, <1>5, <2>2, <2>6 DEF Newest
    <2>8. NobodyServed => t < WriterTimestep
        <3>1. NobodyServed => Providing
            BY DEF NobodyServed, Unserved, MainAt, InCall, Providing
        <3>2. NobodyServed => t # WriterTimestep
            BY <1>5, <3>1 DEF RefInv, SentOnce, StepUnsent
        <3>3. QED
            BY <1>0, <2>2, <3>2
    <2>9. OrderInv'
        BY <1>1, <1>5, <2>5, <2>7, <2>8, HandoutOrder DEF MetadataSends, Threads
    <2>10. QED
        BY <1>0, <1>5, <2>9
<1>6. ASSUME UNCHANGED <<queueVars, streamVars, Readers, ReaderRegisterQueue, readerVars, lock,
                           pc, callVars, asleep, localVars>>,
             StepRequestQueue' \in {StepRequestQueue, Append(StepRequestQueue, r)}
      PROVE  OrderInv' /\ LastDemandTimestep' = LastDemandTimestep
    <2>1. UNCHANGED <<received, gotClose, peer, WriterTimestep, LastDemandTimestep, Readers,
                      ReaderRegisterQueue, pc, ret, rdr, step, idx>>
        BY <1>1, <1>6 DEF streamVars, stepVars, distVars, callVars
    <2>2. Demands' /\ Handed' /\ Fresh' /\ Apart'
        BY <2>1 DEF OrderInv, Demands, Handed, Fresh, Apart, DeliveredOnce, Sending, NobodyServed, Unserved, MainAt,
            InCall, NewReader, InQueue, Below
    <2>3. \A th \in Threads : (Sending(th)' <=> Sending(th)) /\ rdr'[th] = rdr[th]
        BY <2>1 DEF Sending
    <2>4. \A th \in Threads : Sending(th) => rdr[th] # r
        BY <1>3, <1>4 DEF Threads
    <2>5. \A i \in 1 .. Len(StepRequestQueue') :
              \/ i \in 1 .. Len(StepRequestQueue) /\ StepRequestQueue'[i] = StepRequestQueue[i]
              \/ StepRequestQueue'[i] = r /\ i = Len(StepRequestQueue) + 1
        BY <1>0, <1>6
    <2>6. Asked'
        <3>1. \A i \in 1 .. Len(StepRequestQueue') : peer'[StepRequestQueue'[i]] \in {"live"} \cup Left
            BY <1>1, <1>2, <2>1, <2>5 DEF Asked
        <3>2. \A i, j \in 1 .. Len(StepRequestQueue') :
                 (StepRequestQueue'[i] = StepRequestQueue'[j] /\ peer'[StepRequestQueue'[i]] = "live") => i = j
            BY <1>1, <1>2, <1>3, <2>1, <2>5 DEF Asked
        <3>3. \A i \in 1 .. Len(StepRequestQueue') : peer'[StepRequestQueue'[i]] = "live" =>
                 /\ StepRequestQueue'[i] \in requested' \cup gotClose'
                 /\ \A th \in Threads : Sending(th)' => rdr'[th] # StepRequestQueue'[i]
            BY <1>1, <1>2, <2>1, <2>3, <2>4, <2>5 DEF Asked
        <3>4. \A th \in Threads : (Sending(th)' /\ peer'[rdr'[th]] = "live") =>
                  rdr'[th] \in requested' \cup gotClose'
            BY <1>1, <1>2, <2>1, <2>3 DEF Asked
        <3>5. (Sending("main")' /\ Sending("net")') => FALSE
            BY <1>3, <2>3 DEF Threads
        <3>6. QED
            BY <3>1, <3>2, <3>3, <3>4, <3>5 DEF Asked
    <2>7. QED
        BY <2>1, <2>2, <2>6 DEF OrderInv
<1>7. QED
    BY <1>0, <1>1, <1>5, <1>6

(* The procedures that both threads call hand nothing out; only CMwrite *)
(* delivers.                                                            *)
LEMMA SharedOrder ==
    ASSUME TypeInv, Shared("main"), ~\E ok \in BOOLEAN : CMwrite("main", ok)
    PROVE  OrderFrame
<1> USE DEF Threads, queueVars, streamVars, stepVars, distVars, listVars, readerVars, callVars,
            localVars, peerVars, dataVars, Goto
<1>0. ThreadTypes /\ ReturnOK
    BY DEF TypeInv, TypeOK
<1>1. CallFrame
    BY CallEffect
<1>2. UNCHANGED <<received, requested, gotClose, LastDemandTimestep, WriterTimestep, peer, Readers,
                  ReaderRegisterQueue, StepRequestQueue>>
    BY <1>1 DEF CallFrame, Shared, DerefAllSentTimesteps, DerefRelocked, PeerFailCloseFinish, Registered, Written,
        WriteFailed, SendCloseMsgs, WriteToReader, SendCloseMsgsDone
<1>3. /\ \A th \in Threads : Sending(th)' =>
            Sending(th) /\ rdr'[th] = rdr[th] /\ step'[th] = step[th] /\ ret'[th] = ret[th]
      /\ Sending("main")' => idx'["main"] = idx["main"]
    <2>1. CASE \/ DerefAllSentTimesteps("main") \/ DerefRelocked("main") \/ PeerFailCloseFinish("main")
               \/ Written("main") \/ Registered("main")
        BY <1>0, <2>1 DEF DerefAllSentTimesteps, DerefRelocked, PeerFailCloseFinish, Written, Registered,
            ThreadTypes, Sending, MetadataSends, ReturnOK, DerefRets, WriteRets, SendRets
    <2>2. CASE SendCloseMsgs("main") \/ SendCloseMsgsDone("main")
        BY <1>0, <2>2 DEF SendCloseMsgs, WriteToReader, SendCloseMsgsDone,
            ThreadTypes, Sending, MetadataSends
    <2>3. CASE WriteFailed("main")
        <3>1. rdr["main"] \in Cohorts /\ ret["main"] \in WriteRets
            BY <2>3 DEF WriteFailed, TypeInv, Positioned, InCall, CallPcs, ReturnOK
        <3>2. StatusEffect("main", rdr["main"], "PeerFailed", ret["main"])
            BY <2>3, <3>1, PeerFailCloseStatus DEF WriteFailed, TypeInv
        <3>3. UNCHANGED <<step, idx>>
            BY <2>3 DEF WriteFailed
        <3>4. QED
            BY <1>0, <3>1, <3>2, <3>3 DEF StatusEffect, Sending, ThreadTypes, WriteRets, SendRets
    <2>4. QED
        BY <2>1, <2>2, <2>3 DEF Shared
<1>4. \A l \in {"sendLoop", "queuedLoop", "statusLoop", "discardLoop"} :
          MainAt(l)' => MainAt(l) /\ idx' = idx /\ rdr'["main"] = rdr["main"]
    BY <1>1 DEF CallFrame, DerefRets, WriteRets, SendRets, MainAt, InCall
<1>5. pc'["main"] \notin {"decide", "blocked", "distribute", "deliver", "awaitReader"}
    BY <1>1 DEF CallFrame, CallPcs, Loops, DerefRets, WriteRets, SendRets
<1>6. NobodyServed' => NobodyServed
    BY <1>4, <1>5 DEF NobodyServed, Unserved
<1>7. \A r \in Cohorts : NewReader(r)' => NewReader(r)
    BY <1>2 DEF NewReader, InQueue
<1>8. QED
    BY <1>2, <1>3, <1>4, <1>5, <1>6, <1>7 DEF OrderFrame, Shorter

(* A step of main between its loops that hands nothing out *)
LEMMA LoopOrder ==
    ASSUME TypeInv, RefInv, QuietMain \/ ProvideTimestepSent \/ ProvideTimestepDiscarded
                              \/ WriterParticipateInReaderOpen \/ WriterCloseDrain \/ SstStreamDestroy
    PROVE  OrderFrame
<1> USE DEF Threads, queueVars, streamVars, openVars, stepVars, distVars, listVars, readerVars, callVars,
            localVars, peerVars, dataVars, Goto
<1>0. ThreadTypes
    BY DEF TypeInv, TypeOK
<1>a. ASSUME NEW p \in (MainPcs \ {"decide"}) \cup {"closeLoop"}, pc' = [pc EXCEPT !["main"] = p], ~InCall("main"),
             UNCHANGED <<received, requested, gotClose, LastDemandTimestep, WriterTimestep, peer, ret>>,
             rdr'["net"] = rdr["net"], step'["net"] = step["net"],
             Shorter,
             \A r \in Cohorts : InQueue(r)' => InQueue(r),
             p \in {"blocked", "distribute", "statusLoop", "deliver", "discardLoop"} =>
                   Unserved,
             p = "sendLoop" => Unserved /\ Readers' = Readers,
             p = "queuedLoop" => pc["main"] = "awaitReader" /\ StepDistributionMode = "AllToAll"
                                 /\ rdr'["main"] = rdr["main"],
             p = "awaitReader" => \/ pc["main"] = "awaitReader" /\ rdr'["main"] = rdr["main"]
                                  \/ rdr'["main"] \in Cohorts /\ NewReader(rdr'["main"])
      PROVE  OrderFrame
    <2>1. pc'["main"] = p /\ pc'["net"] = pc["net"] /\ ~Sending("main")' /\ ~InCall("main")'
          /\ (Sending("net")' <=> Sending("net"))
        BY <1>0, <1>a DEF ThreadTypes, Sending, InCall, CallPcs, MainPcs
    <2>2. NobodyServed' => NobodyServed
        BY <1>a, <2>1 DEF NobodyServed, Unserved, MainAt
    <2>3. (MainAt("sendLoop")' => NobodyServed /\ Readers' = Readers)
        BY <1>a, <2>1 DEF NobodyServed, MainAt
    <2>4. MainAt("queuedLoop")' =>
              pc["main"] = "awaitReader" /\ StepDistributionMode = "AllToAll" /\ rdr'["main"] = rdr["main"]
        BY <1>a, <2>1 DEF MainAt
    <2>5. \A r \in Cohorts : NewReader(r)' => NewReader(r)
        BY <1>a DEF NewReader
    <2>6. QED
        BY <1>a, <2>1, <2>2, <2>3, <2>4, <2>5 DEF OrderFrame
<1>q. UNCHANGED ReaderRegisterQueue => \A r \in Cohorts : InQueue(r)' => InQueue(r)
    BY DEF InQueue
<1>1. CASE \/ SstWriterOpenRendezvous \/ waitForReaderResponse \/ StrayUnlock \/ SendQueuedDone
           \/ HandlePendingReaders \/ UntagPreciousTimesteps \/ SstWriterClose
           \/ WriterCloseDrain \/ SstStreamDestroy
    <2> DEFINE p == pc'["main"]
    <2>1. /\ p \in {"app", "rendezvous", "participate", "awaitReader", "queuedLoop", "strayUnlock", "pending",
                    "untag", "closing", "closeLoop", "drain", "closed", "destroyed"}
          /\ pc' = [pc EXCEPT !["main"] = p] /\ ~InCall("main")
          /\ UNCHANGED <<received, requested, gotClose, LastDemandTimestep, WriterTimestep, peer, ret, rdr, step,
                         ReaderRegisterQueue>>
          /\ Shorter
        BY <1>0, <1>1 DEF SstWriterOpenRendezvous, waitForReaderResponse, StrayUnlock, SendQueuedDone,
            HandlePendingReaders, UntagPreciousTimesteps, SstWriterClose, ReaderAdmitted,
            WriterCloseDrain, SstStreamDestroy, ThreadTypes, InCall, CallPcs, Shorter
    <2>2. p \in {"queuedLoop", "awaitReader"} =>
              pc["main"] = "awaitReader" /\ (p = "queuedLoop" => StepDistributionMode = "AllToAll")
        BY <1>0, <1>1 DEF SstWriterOpenRendezvous, waitForReaderResponse, StrayUnlock, SendQueuedDone,
            HandlePendingReaders, UntagPreciousTimesteps, SstWriterClose, ReaderAdmitted,
            WriterCloseDrain, SstStreamDestroy, ThreadTypes
    <2> HIDE DEF p
    <2>3. QED
        BY <1>a, <1>q, <2>1, <2>2 DEF MainPcs
<1>2. CASE \/ DecideTimestep \/ BlockedOnQueueFull \/ ProcessReaderStatusListBegin
           \/ ProcessReaderStatusListDone \/ DeliverBegin
           \/ ProvideTimestepSent \/ ProvideTimestepDiscarded
    <2> DEFINE p == pc'["main"]
    <2>1. /\ p \in {"blocked", "distribute", "statusLoop", "deliver", "discardLoop", "sendLoop", "pending"}
          /\ pc' = [pc EXCEPT !["main"] = p] /\ ~InCall("main") /\ (p # "pending" => Unserved)
          /\ UNCHANGED <<received, requested, gotClose, LastDemandTimestep, WriterTimestep, peer, ret, rdr,
                         ReaderRegisterQueue, Readers>>
          /\ step'["net"] = step["net"] /\ Shorter
        BY <1>0, <1>2 DEF DecideTimestep, BlockedOnQueueFull, TakeSnapshot, ProcessReaderStatusListBegin,
            ProcessReaderStatusListDone, DeliverBegin, ProvideTimestepSent, ProvideTimestepDiscarded,
            ThreadTypes, InCall, CallPcs, Unserved, MainAt, Shorter
    <2> HIDE DEF p
    <2>3. QED
        BY <1>a, <1>q, <2>1 DEF MainPcs
<1>3. CASE ProcessReaderStatusList
    <2> DEFINE i == NextReader("main", StatusDiffers)
               r == Readers[i]
    <2>1. i \in 1 .. Len(Readers) /\ r \in Cohorts /\ r \in StatusDiffers
        BY <1>0, <1>3, NextReaderIsReader
        DEF ProcessReaderStatusList, TypeInv, TypeOK, StreamTypes, ThreadTypes, Positioned, MainAt
    <2>2. StatusEffect("main", r, snapshot[r], "statusLoop") /\ pc["main"] = "statusLoop"
        BY <1>3, <2>1, PeerFailCloseStatus DEF ProcessReaderStatusList, TypeInv
    <2> HIDE DEF r
    <2>3. UNCHANGED <<received, requested, gotClose, LastDemandTimestep, WriterTimestep, peer, step, Readers,
                      ReaderRegisterQueue, StepRequestQueue>>
        BY <1>3 DEF ProcessReaderStatusList
    <2>4. /\ pc'["main"] \in {"statusLoop", "derefLoop"} /\ ret'["main"] = "statusLoop"
          /\ pc'["net"] = pc["net"] /\ ret'["net"] = ret["net"] /\ rdr'["net"] = rdr["net"]
        BY <1>0, <2>2 DEF StatusEffect, ThreadTypes
    <2>5. ~Sending("main")' /\ (Sending("net")' <=> Sending("net")) /\ Unserved
          /\ \A l \in {"sendLoop", "queuedLoop"} : ~MainAt(l)'
        BY <2>2, <2>4 DEF Sending, Unserved, MainAt, InCall
    <2>6. \A s \in Cohorts : NewReader(s)' => NewReader(s)
        BY <2>3 DEF NewReader, InQueue
    <2>7. QED
        BY <2>3, <2>4, <2>5, <2>6 DEF OrderFrame, Shorter, NobodyServed
<1>4. CASE SendDiscarded
    <2>1. /\ pc["main"] = "discardLoop" /\ ret' = [ret EXCEPT !["main"] = "discardLoop"]
          /\ pc' = [pc EXCEPT !["main"] = "write"]
          /\ rdr'["net"] = rdr["net"]
          /\ UNCHANGED <<received, requested, gotClose, LastDemandTimestep, WriterTimestep, peer, step, Readers,
                         ReaderRegisterQueue, StepRequestQueue>>
        BY <1>0, <1>4 DEF SendDiscarded, WriteToReader, ThreadTypes
    <2>2. pc'["main"] = "write" /\ ret'["main"] = "discardLoop" /\ pc'["net"] = pc["net"] /\ ret'["net"] = ret["net"]
        BY <1>0, <2>1 DEF ThreadTypes
    <2>5. ~Sending("main")' /\ (Sending("net")' <=> Sending("net")) /\ Unserved
          /\ \A l \in {"sendLoop", "queuedLoop"} : ~MainAt(l)'
        BY <2>1, <2>2 DEF Sending, MetadataSends, Unserved, MainAt, InCall
    <2>6. \A s \in Cohorts : NewReader(s)' => NewReader(s)
        BY <2>1 DEF NewReader, InQueue
    <2>7. QED
        BY <2>1, <2>2, <2>5, <2>6 DEF OrderFrame, Shorter, NobodyServed
<1>5. CASE WriterParticipateInReaderOpen
    <2>1. ReaderRegisterQueue \in Seq(Cohorts) /\ ReaderRegisterQueue # <<>>
        BY <1>5 DEF TypeInv, TypeOK, StreamTypes, Admissions, WriterParticipateInReaderOpen
    <2>2. PICK r \in Cohorts : r = Head(ReaderRegisterQueue)
        BY <2>1
    <2>3. InQueue(r)
        <3>1. 1 \in 1 .. Len(ReaderRegisterQueue) /\ ReaderRegisterQueue[1] = r
            BY <2>1, <2>2
        <3>2. QED
            BY <3>1 DEF InQueue
    <2>4. /\ pc' = [pc EXCEPT !["main"] = "awaitReader"] /\ pc["main"] = "participate"
          /\ rdr'["main"] = r /\ rdr'["net"] = rdr["net"]
          /\ ReaderRegisterQueue' = Tail(ReaderRegisterQueue)
          /\ UNCHANGED <<received, requested, gotClose, LastDemandTimestep, WriterTimestep, peer, ret, step,
                         StepRequestQueue>>
        BY <1>0, <1>5, <2>2 DEF WriterParticipateInReaderOpen, ThreadTypes
    <2>5. \A s \in Cohorts : InQueue(s)' => InQueue(s)
        <3> SUFFICES ASSUME NEW s \in Cohorts, InQueue(s)' PROVE InQueue(s)
            OBVIOUS
        <3>1. PICK i \in 1 .. Len(ReaderRegisterQueue') : ReaderRegisterQueue'[i] = s
            BY DEF InQueue
        <3>2. i + 1 \in 1 .. Len(ReaderRegisterQueue) /\ ReaderRegisterQueue[i + 1] = s
            BY <2>1, <2>4, <3>1
        <3>3. QED
            BY <3>2 DEF InQueue
    <2>6. QED
        BY <1>a, <2>3, <2>4, <2>5 DEF MainPcs, InCall, CallPcs, NewReader, Shorter
<1>6. QED
    BY <1>1, <1>2, <1>3, <1>4, <1>5 DEF QuietMain

(* The new step is newer than all that were handed out. *)
LEMMA ProvideOrder ==
    ASSUME TypeInv, OrderInv, ProvideTimestep
    PROVE  OrderInv' /\ UNCHANGED <<received, LastDemandTimestep>>
<1> USE DEF Threads, distVars, listVars, callVars, peerVars, Goto
<1>0. ThreadTypes /\ WriterTimestep \in Int /\ LastDemandTimestep \in Int
      /\ (\A th \in Threads : step[th] \in Int)
      /\ \A r \in Cohorts : \A t \in received[r] : t \in Int
    BY DEF TypeInv, TypeOK, StreamTypes, ThreadTypes, PeerTypes, Steps
<1>1. /\ pc["main"] = "app" /\ pc' = [pc EXCEPT !["main"] = "decide"] /\ WriterTimestep' = WriterTimestep + 1
      /\ UNCHANGED <<received, requested, gotClose, LastDemandTimestep, peer, Readers, ReaderRegisterQueue,
                     StepRequestQueue, ret, rdr, step>>
    BY DEF ProvideTimestep
<1>2. /\ \A th \in Threads : (Sending(th)' <=> Sending(th))
      /\ ~Sending("main")' /\ ~MainAt("queuedLoop")' /\ ~MainAt("sendLoop")' /\ pc'["main"] # "awaitReader"
      /\ \A r \in Cohorts : NewReader(r)' <=> NewReader(r)
    BY <1>0, <1>1 DEF Sending, ThreadTypes, MainAt, InCall, CallPcs, NewReader, InQueue
<1>3. \A r \in Cohorts : \A t \in received[r] : t <= WriterTimestep
    BY DEF OrderInv, Handed
<1>4. Demands'
    BY <1>0, <1>1, <1>2 DEF OrderInv, Demands
<1>5. Handed'
    <2>1. \A r \in Cohorts : \A t \in received[r] : t < WriterTimestep + 1 /\ t <= WriterTimestep + 1
        BY <1>0, <1>3
    <2>2. \A th \in Threads : Sending(th) => step[th] <= WriterTimestep + 1 /\ Below(received[rdr[th]], step[th])
        BY <1>0 DEF OrderInv, Handed
    <2>3. QED
        BY <1>1, <1>2, <2>1, <2>2 DEF Handed, Below
<1>6. Fresh'
    BY <1>1, <1>2 DEF OrderInv, Fresh
<1>7. Asked'
    BY <1>1, <1>2 DEF OrderInv, Asked
<1>8. Apart'
    BY <1>1, <1>2 DEF OrderInv, Apart, DeliveredOnce
<1>9. QED
    BY <1>1, <1>4, <1>5, <1>6, <1>7, <1>8 DEF OrderInv

(* What net and the readers do, but for requests and writes, hands nothing *)
(* out.                                                                    *)
LEMMA NetOrder ==
    ASSUME TypeInv, LiveInv, NetInHandler \/ Environment,
           ~\E ok \in BOOLEAN : CMwrite("net", ok),
           ~\E r \in Cohorts : ReaderRequests(r)
    PROVE  OrderFrame
<1> USE DEF Threads, queueVars, streamVars, stepVars, distVars, listVars, readerVars, callVars,
            localVars, peerVars, dataVars, Goto
<1>0. ThreadTypes /\ ReturnOK /\ PeerTypes /\ ReaderRegisterQueue \in Seq(Cohorts)
    BY DEF TypeInv, TypeOK, StreamTypes
<1>1. NetFrame /\ NetFate
    BY NetEffect, NetReaders
<1>g. ASSUME NEW r \in Cohorts, NEW new, NEW back \in NetDerefRets, PeerFailCloseWSReader("net", r, new, back)
      PROVE  ~Sending("net")'
    <2>1. StatusEffect("net", r, new, back)
        BY <1>g, PeerFailCloseStatus DEF TypeInv
    <2>2. QED
        BY <1>0, <2>1 DEF StatusEffect, Sending, ThreadTypes, NetDerefRets, NetWriteRets
<1>2. /\ UNCHANGED <<received, requested, gotClose, LastDemandTimestep, StepRequestQueue>>
      /\ Sending("net")' => Sending("net") /\ rdr'["net"] = rdr["net"] /\ step'["net"] = step["net"]
                            /\ ret'["net"] = ret["net"]
      /\ \A r \in Cohorts : NewReader(r)' => NewReader(r)
    <2> DEFINE Goal == /\ UNCHANGED <<received, requested, gotClose, LastDemandTimestep, StepRequestQueue>>
                       /\ Sending("net")' => Sending("net") /\ rdr'["net"] = rdr["net"] /\ step'["net"] = step["net"]
                                             /\ ret'["net"] = ret["net"]
                       /\ \A r \in Cohorts : NewReader(r)' => NewReader(r)
    <2>q. ASSUME UNCHANGED ReaderRegisterQueue, \A r \in Cohorts : peer'[r] = "absent" => peer[r] = "absent"
          PROVE  \A r \in Cohorts : NewReader(r)' => NewReader(r)
        BY <2>q DEF NewReader, InQueue
    <2>p. \A r \in Cohorts : peer'[r] = "absent" => peer[r] = "absent"
        BY <1>1 DEF NetFate, FateOf, Left
    <2>h. ASSUME UNCHANGED <<received, requested, gotClose, LastDemandTimestep, StepRequestQueue, ReaderRegisterQueue>>,
                 ~Sending("net")' \/ UNCHANGED <<pc, ret, rdr, step>>
          PROVE  Goal
        BY <2>h, <2>p, <2>q DEF Sending
    <2>1. CASE Shared("net")
        <3>1. UNCHANGED <<received, requested, gotClose, LastDemandTimestep, StepRequestQueue, ReaderRegisterQueue>>
            BY <2>1 DEF Shared, DerefAllSentTimesteps, DerefRelocked, PeerFailCloseFinish, Registered, Written,
                WriteFailed, SendCloseMsgs, WriteToReader, SendCloseMsgsDone
        <3>2. CASE \/ DerefAllSentTimesteps("net") \/ DerefRelocked("net") \/ PeerFailCloseFinish("net")
                   \/ Written("net") \/ SendCloseMsgs("net") \/ SendCloseMsgsDone("net")
            <4>1. ~Sending("net")'
                BY <1>0, <3>2 DEF DerefAllSentTimesteps, DerefRelocked, PeerFailCloseFinish, Written, SendCloseMsgs,
                    WriteToReader, SendCloseMsgsDone, ThreadTypes, Sending, MetadataSends, ReturnOK,
                    NetDerefRets, NetWriteRets
            <4>2. QED
                BY <2>h, <3>1, <4>1
        <3>3. CASE Registered("net")
            <4>1. Sending("net")' => Sending("net") /\ UNCHANGED <<ret, rdr, step>>
                BY <1>0, <3>3 DEF Registered, ThreadTypes, Sending, ReturnOK
            <4>2. QED
                BY <2>p, <2>q, <3>1, <4>1
        <3>4. CASE WriteFailed("net")
            <4>1. rdr["net"] \in Cohorts /\ ret["net"] \in NetDerefRets
                BY <3>4 DEF WriteFailed, TypeInv, Positioned, InCall, CallPcs, ReturnOK, NetDerefRets
            <4>2. ~Sending("net")'
                BY <1>g, <3>4, <4>1 DEF WriteFailed
            <4>3. QED
                BY <2>h, <3>1, <4>2
        <3>5. QED
            BY <2>1, <3>2, <3>3, <3>4 DEF Shared
    <2>2. CASE ConnCloseDone \/ ReleaseDone \/ HandlerDone \/ RequestSent \/ ReleaseRelocked
        <3>1. ~Sending("net")'
            BY <1>0, <2>2 DEF ConnCloseDone, ReleaseDone, HandlerDone, RequestSent, ReleaseRelocked, ThreadTypes, Sending
        <3>2. UNCHANGED <<received, requested, gotClose, LastDemandTimestep, StepRequestQueue, ReaderRegisterQueue>>
            BY <2>2 DEF ConnCloseDone, ReleaseDone, HandlerDone, RequestSent, ReleaseRelocked
        <3>3. QED
            BY <2>h, <3>1, <3>2
    <2>3. ASSUME NEW r \in Cohorts, CloseWSRStream(r) PROVE Goal
        <3>1. ~Sending("net")'
            BY <1>g, <2>3 DEF CloseWSRStream, NetDerefRets
        <3>2. QED
            BY <2>3, <2>h, <3>1 DEF CloseWSRStream, HandlerFrame
    <2>4. ASSUME NEW r \in Cohorts, ReaderRegisters(r) PROVE Goal
        <3>1. /\ UNCHANGED <<received, requested, gotClose, LastDemandTimestep, StepRequestQueue, pc, ret, rdr, step>>
              /\ ReaderRegisterQueue' = Append(ReaderRegisterQueue, r)
              /\ peer[r] = "absent"
            BY <2>4 DEF ReaderRegisters, queueReaderRegisterMsgAndNotify
        <3>2. \A s \in Cohorts : InQueue(s)' => InQueue(s) \/ s = r
            BY <1>0, <3>1 DEF InQueue
        <3>3. QED
            BY <2>p, <3>1, <3>2 DEF NewReader, Sending
    <2>5. ASSUME NEW r \in Cohorts, ReaderActivates(r) PROVE Goal
        BY <2>5, <2>h DEF ReaderActivates, CP_ReaderActivateHandler
    <2>6. ASSUME NEW r \in Cohorts, NEW t \in Steps, ReaderReleases(r, t) PROVE Goal
        <3>1. UNCHANGED <<received, requested, gotClose, LastDemandTimestep, StepRequestQueue, ReaderRegisterQueue>>
            BY <2>6 DEF ReaderReleases, CP_ReleaseTimestepHandler
        <3>2. ~Sending("net")'
            BY <1>0, <2>6 DEF ReaderReleases, CP_ReleaseTimestepHandler, Sending, ThreadTypes
        <3>3. QED
            BY <2>h, <3>1, <3>2
    <2>7. ASSUME NEW r \in Cohorts, ReaderCloses(r) PROVE Goal
        <3>1. CASE Status = "Established"
            <4>1. ~Sending("net")'
                BY <1>g, <2>7, <3>1 DEF ReaderCloses, CP_ReaderCloseHandler, NetDerefRets
            <4>2. QED
                BY <2>7, <2>h, <3>1, <4>1 DEF ReaderCloses, CP_ReaderCloseHandler, HandlerFrame
        <3>2. CASE Status # "Established"
            BY <2>7, <2>h, <3>2 DEF ReaderCloses, CP_ReaderCloseHandler
        <3>3. QED
            BY <3>1, <3>2
    <2>8. ASSUME NEW r \in Cohorts, ReaderCrashes(r) PROVE Goal
        BY <2>8, <2>h DEF ReaderCrashes
    <2>9. ASSUME NEW r \in Cohorts, ConnectionCloses(r) PROVE Goal
        <3>1. UNCHANGED <<received, gotClose, requested>> /\ WriterConnCloseHandler(r)
            BY <2>9 DEF ConnectionCloses
        <3>2. PeerFailCloseWSReader("net", r, "PeerFailed", "connCloseDone") /\ HandlerFrame => Goal
            BY <1>g, <2>h, <3>1 DEF HandlerFrame, NetDerefRets
        <3>3. UNCHANGED <<streamVars, listVars, pc, callVars>> => Goal
            BY <2>h, <3>1
        <3>4. QED
            BY <3>1, <3>2, <3>3 DEF WriterConnCloseHandler
    <2>10. Goal
        BY <2>1, <2>2, <2>3, <2>4, <2>5, <2>6, <2>7, <2>8, <2>9 DEF NetInHandler, Environment
    <2>11. QED
        BY <2>10
<1>3. \A at : MainAt(at)' <=> MainAt(at)
    BY <1>1 DEF NetFrame, MainAt, InCall
<1>4. (NobodyServed' <=> NobodyServed) /\ (Sending("main")' <=> Sending("main"))
    BY <1>1, <1>3 DEF NetFrame, NobodyServed, Unserved, Sending
<1>5. \A r \in Cohorts : peer[r] \in {"live"} \cup Left => peer'[r] = peer[r] \/ peer'[r] \in Left
    BY <1>1 DEF NetFate, FateOf, Left
<1>6. QED
    BY <1>1, <1>2, <1>3, <1>4, <1>5 DEF NetFrame, OrderFrame, Shorter

(* What is demanded and what a reader gets is newer than before. *)
Advances ==
    /\ LastDemandTimestep <= LastDemandTimestep'
    /\ \A r \in Cohorts : \A t \in received'[r] \ received[r] : Below(received[r], t)

(* A step that hands nothing out advances nothing. *)
LEMMA FrameOrder ==
    ASSUME TypeInv, LiveInv, OrderInv, OrderFrame
    PROVE  OrderInv' /\ Advances
<1>1. LastDemandTimestep \in Int
    BY DEF TypeInv, TypeOK, StreamTypes, Steps
<1>2. QED
    BY <1>1, OrderKept DEF OrderFrame, Advances

(* Every step keeps the order. *)
LEMMA NextOrder ==
    ASSUME TypeInv, RefInv, LiveInv, HeldInv, OrderInv, [Next]_vars
    PROVE  OrderInv' /\ Advances
<1>0. LastDemandTimestep \in Int
    BY DEF TypeInv, TypeOK, StreamTypes, Steps
<1>1. ASSUME NEW th \in Threads, NEW ok \in BOOLEAN, CMwrite(th, ok) PROVE OrderInv' /\ Advances
    <2>1. UNCHANGED LastDemandTimestep
        BY <1>1 DEF CMwrite, streamVars, distVars
    <2>2. QED
        BY <1>0, <1>1, <2>1, WriteOrder DEF Advances
<1>2. CASE MainInCall /\ ~\E ok \in BOOLEAN : CMwrite("main", ok)
    <2>1. CASE Shared("main")
        BY <1>2, <2>1, SharedOrder, FrameOrder
    <2>2. CASE \/ QuietMain \/ ProvideTimestepSent \/ ProvideTimestepDiscarded
               \/ WriterParticipateInReaderOpen \/ WriterCloseDrain
        BY <2>2, LoopOrder, FrameOrder
    <2>3. CASE SendQueued \/ SendToAll \/ SendRoundRobin
        BY <1>0, <2>3, SendingOrder DEF Advances
    <2>4. CASE SendOnDemand
        BY <2>4, DemandOrder DEF Advances
    <2>5. QED
        BY <1>2, <2>1, <2>2, <2>3, <2>4 DEF MainInCall, QuietMain
<1>3. CASE MainCalls
    <2>1. CASE ProvideTimestep
        BY <1>0, <2>1, ProvideOrder DEF Advances
    <2>2. CASE SstWriterClose \/ SstStreamDestroy
        BY <2>2, LoopOrder, FrameOrder DEF QuietMain
    <2>3. QED
        BY <1>3, <2>1, <2>2 DEF MainCalls
<1>4. CASE NetInHandler \/ Environment
    <2>1. CASE \E r \in Cohorts : ReaderRequests(r)
        BY <2>1, RequestOrder DEF Advances
    <2>2. CASE \E ok \in BOOLEAN : CMwrite("net", ok)
        BY <1>1, <2>2 DEF Threads
    <2>3. QED
        BY <1>4, <2>1, <2>2, NetOrder, FrameOrder
<1>5. CASE UNCHANGED vars
    <2> USE DEF vars, dataVars, streamVars, stepVars, distVars, listVars, callVars, peerVars
    <2>1. OrderFrame
        BY <1>5 DEF OrderFrame, Shorter, Sending, NobodyServed, Unserved, MainAt, InCall, NewReader, InQueue
    <2>2. QED
        BY <2>1, FrameOrder
<1>6. QED
    BY <1>1, <1>2, <1>3, <1>4, <1>5 DEF Next, Terminated, Threads

(* Every step is handed out and delivered in order. *)
THEOREM OrderInvariance == Spec => []OrderInv
<1>1. Init => OrderInv
    <2>1. Init => pc["main"] = "rendezvous" /\ pc["net"] = "idle"
        BY DEF Init, Threads
    <2>2. QED
        BY <2>1 DEF Init, OrderInv, Demands, Handed, Fresh, Asked, Apart, DeliveredOnce, Sending,
            NobodyServed, Unserved, MainAt, InCall, CallPcs, Threads, Below
<1>2. TypeInv /\ RefInv /\ LiveInv /\ HeldInv /\ OrderInv /\ [Next]_vars => OrderInv'
    BY NextOrder
<1>3. QED
    BY <1>1, <1>2, TypeInvariance, RefInvariance, LiveInvariance, HeldInvariance, PTL DEF Spec

(* In RoundRobin and OnDemand mode no two readers get the same step, and    *)
(* none gets it twice, though main and net hand steps out at the same time. *)
THEOREM StepsAreDeliveredOnce == Spec => []DeliveredOnce
<1>1. OrderInv => DeliveredOnce
    BY DEF OrderInv, Apart, DeliveredOnce
<1>2. QED
    BY <1>1, OrderInvariance, PTL

(* In every mode each reader gets steps in increasing order, also when it *)
(* is admitted while others are served.                                   *)
THEOREM StepsArriveInOrder == Spec => InOrder
<1>1. TypeInv /\ RefInv /\ LiveInv /\ HeldInv /\ OrderInv /\ [Next]_vars =>
          [\A r \in Cohorts : \A t \in received'[r] \ received[r] : \A u \in received[r] : u < t]_vars
    BY NextOrder DEF Advances, Below
<1>2. QED
    BY <1>1, TypeInvariance, RefInvariance, LiveInvariance, HeldInvariance, OrderInvariance, PTL
    DEF Spec, InOrder

(* LastDemandTimestep only grows: neither main nor net answers a request *)
(* with a step that was demanded before.                                 *)
THEOREM DemandsOnlyAdvance == Spec => DemandsAdvance
<1>1. TypeInv /\ RefInv /\ LiveInv /\ HeldInv /\ OrderInv /\ [Next]_vars =>
          [LastDemandTimestep' # LastDemandTimestep => LastDemandTimestep < LastDemandTimestep']_vars
    <2> SUFFICES ASSUME TypeInv, TypeInv', RefInv, LiveInv, HeldInv, OrderInv, [Next]_vars
                 PROVE  LastDemandTimestep' # LastDemandTimestep => LastDemandTimestep < LastDemandTimestep'
        BY NextTypeInv
    <2>1. LastDemandTimestep \in Int /\ LastDemandTimestep' \in Int
        BY DEF TypeInv, TypeOK, StreamTypes, Steps
    <2>2. LastDemandTimestep <= LastDemandTimestep'
        BY NextOrder DEF Advances
    <2>3. QED
        BY <2>1, <2>2
<1>2. QED
    BY <1>1, TypeInvariance, RefInvariance, LiveInvariance, HeldInvariance, OrderInvariance, PTL
    DEF Spec, DemandsAdvance

-----------------------------------------------------------------------------
(* The queue has no gaps *)

(* In the calls it makes, main stays in the loop that it called from. *)
LEMMA CallKeepsPlace ==
    ASSUME TypeInv, Shared("main"), ~\E ok \in BOOLEAN : CMwrite("main", ok)
    PROVE  /\ \A l \in DerefRets \ {"closeLoop"} : MainAt(l) => MainAt(l)'
           /\ Sending("main") => Sending("main")' \/ ~Sendable(rdr["main"])
<1> USE DEF Threads, CallPcs, DerefRets, WriteRets, SendRets, MetadataSends, queueVars, streamVars, listVars,
            linkVars, readerVars, callVars, localVars, peerVars, dataVars, Goto
<1> DEFINE Stays == /\ \A l \in DerefRets \ {"closeLoop"} : MainAt(l) => MainAt(l)'
                    /\ Sending("main") => Sending("main")' \/ ~Sendable(rdr["main"])
<1>0. ThreadTypes /\ ReturnOK
    BY DEF TypeInv, TypeOK
<1>c. ASSUME InCall("main"), pc'["main"] \in (CallPcs \ {"closeLoop"}) \cup {ret["main"]},
             ret'["main"] = ret["main"]
      PROVE  \A l \in DerefRets \ {"closeLoop"} : MainAt(l) => MainAt(l)'
    BY <1>0, <1>c DEF InCall, MainAt, ReturnOK
<1>1. CASE DerefAllSentTimesteps("main") \/ DerefRelocked("main") \/ PeerFailCloseFinish("main") \/ Written("main")
    BY <1>0, <1>1, <1>c DEF DerefAllSentTimesteps, DerefRelocked, PeerFailCloseFinish, Written, ThreadTypes,
        InCall, Sending
<1>2. CASE Registered("main")
    BY <1>0, <1>2, <1>c DEF Registered, ThreadTypes, InCall, Sending
<1>3. CASE WriteFailed("main")
    <2>1. rdr["main"] \in Cohorts /\ ret["main"] \in MainPcs \cup NetPcs \cup CallPcs
        BY <1>0, <1>3 DEF WriteFailed, TypeInv, Positioned, InCall, ReturnOK, MainPcs
    <2>2. PeerFailEffect("main", rdr["main"], ret["main"])
        BY <1>3, <2>1, PeerFailCloseEffect DEF WriteFailed, TypeInv, Statuses
    <2>3. pc'["main"] \in {ret["main"], "derefLoop"} /\ ret'["main"] = ret["main"]
        BY <1>0, <2>2 DEF PeerFailEffect, ThreadTypes
    <2>4. pc["main"] = "failed"
        BY <1>3 DEF WriteFailed
    <2>5. QED
        BY <1>0, <1>c, <2>3, <2>4 DEF InCall, Sending
<1>4. CASE SendCloseMsgs("main") \/ SendCloseMsgsDone("main")
    BY <1>0, <1>4 DEF SendCloseMsgs, SendCloseMsgsDone, MainAt, InCall, Sending
<1>5. QED
    BY <1>1, <1>2, <1>3, <1>4 DEF Shared

(* No step is provided or discarded, and none loses its mark as precious. *)
StreamQuiet ==
    /\ QueueUntouched
    /\ UNCHANGED <<stepVars, Emptied, PreciousTimestep>>
    /\ Discarding => Discarding'

(* Only four of the steps do otherwise. *)
LEMMA StreamStep ==
    ASSUME TypeInv, [Next]_vars
    PROVE  \/ StreamQuiet
           \/ ProvideTimestep \/ ProvideTimestepDiscarded \/ UntagPreciousTimesteps \/ DeliverBegin
<1> USE DEF Threads, markVars, queueVars, openVars, stepVars, distVars, closeVars, streamVars, listVars,
            linkVars, readerVars, callVars, localVars, peerVars, dataVars, Goto, Discarding
<1>0. ThreadTypes
    BY DEF TypeInv, TypeOK
<1>q. \/ QueueUntouched \/ ProvideTimestep \/ ProvideTimestepDiscarded \/ UntagPreciousTimesteps
    BY QueueStep
<1> DEFINE Rest == /\ UNCHANGED <<stepVars, Emptied, PreciousTimestep>>
                   /\ Discarding => Discarding'
<1>s. SUFFICES Rest \/ ProvideTimestep \/ ProvideTimestepDiscarded \/ UntagPreciousTimesteps \/ DeliverBegin
    BY <1>q DEF StreamQuiet
<1>1. CASE NetInHandler \/ Environment
    BY <1>1, NetEffect DEF NetFrame, MainAt, InCall
<1>2. CASE Shared("main")
    <2>1. UNCHANGED <<stepVars, Emptied, PreciousTimestep>>
        BY <1>2, CallEffect DEF CallFrame
    <2>2. CASE \E ok \in BOOLEAN : CMwrite("main", ok)
        BY <1>0, <2>1, <2>2 DEF CMwrite, MainAt, InCall, ThreadTypes, CallPcs
    <2>3. CASE ~\E ok \in BOOLEAN : CMwrite("main", ok)
        BY <1>2, <2>1, <2>3, CallKeepsPlace DEF DerefRets, WriteRets
    <2>4. QED
        BY <2>2, <2>3
<1>3. CASE ProcessReaderStatusList
    <2>1. pc["main"] = "statusLoop" /\ UNCHANGED <<stepVars, Emptied>>
        BY <1>3 DEF ProcessReaderStatusList
    <2>2. UNCHANGED PreciousTimestep
        BY <1>3 DEF ProcessReaderStatusList, PeerFailCloseWSReader
    <2>3. QED
        BY <2>1, <2>2 DEF MainAt, InCall, CallPcs
<1>4. CASE \/ SstWriterOpenRendezvous \/ WriterParticipateInReaderOpen \/ waitForReaderResponse
           \/ StrayUnlock \/ SendQueuedDone \/ DecideTimestep \/ BlockedOnQueueFull
           \/ ProcessReaderStatusListBegin \/ ProcessReaderStatusListDone
           \/ ProvideTimestepSent \/ HandlePendingReaders \/ WriterCloseDrain
           \/ SstWriterClose \/ SstStreamDestroy
    BY <1>4 DEF SstWriterOpenRendezvous, WriterParticipateInReaderOpen, waitForReaderResponse,
        StrayUnlock, SendQueuedDone, DecideTimestep, BlockedOnQueueFull,
        ProcessReaderStatusListBegin, ProcessReaderStatusListDone,
        ProvideTimestepSent, HandlePendingReaders, WriterCloseDrain,
        SstWriterClose, SstStreamDestroy, MainAt, InCall, CallPcs
<1>5. CASE SendQueued \/ SendToAll \/ SendRoundRobin \/ SendOnDemand
    BY <1>5 DEF SendQueued, SendToAll, SendRoundRobin, SendOnDemand, SendTimestepEntryToSingleReader,
        MainAt, InCall, CallPcs
<1>6. CASE SendDiscarded
    BY <1>0, <1>6 DEF SendDiscarded, WriteToReader, MainAt, InCall, CallPcs, ThreadTypes
<1>7. CASE UNCHANGED vars
    BY <1>7 DEF vars, MainAt, InCall
<1>8. CASE DeliverBegin
    BY <1>8
<1>9. QED
    BY <1>1, <1>2, <1>3, <1>4, <1>5, <1>6, <1>7, <1>8 DEF Next, MainInCall, MainCalls, Terminated

(* The queued steps that have not expired. *)
Fallow == QueuedTimesteps \ Expired

(* What QueueMaintenance finds past the reserve it finds from the oldest *)
(* step up: none is kept that is older than one let go.                  *)
LEMMA PastReserveDown ==
    ASSUME TypeInv, NEW ref, NEW prec, NEW status, NEW last \in [Cohorts -> Int], NEW reserve \in Nat,
           NEW t \in PastReserve(ref, prec, status, last, reserve),
           NEW u \in QueuedTimesteps, u <= t
    PROVE  u \in PastReserve(ref, prec, status, last, reserve)
<1> DEFINE eligible == Eligible(status, last)
           left == reserve - Cardinality({v \in QueuedTimesteps \cap prec : ref[v] = 0})
           From(v) == {w \in eligible : w >= v}
<1>1. QueuedTimesteps \subseteq Steps /\ \A v \in Steps : v \in Int
    BY DEF TypeInv, TypeOK, QueueTypes, Steps
<1>2. eligible \subseteq QueuedTimesteps /\ {v \in QueuedTimesteps \cap prec : ref[v] = 0} \subseteq Steps
    BY <1>1 DEF Eligible
<1>3. left \in Int
    BY <1>2, StepsFinite
<1>4. t \in eligible /\ Cardinality(From(t)) > left
    BY DEF PastReserve
<1>5. u \in eligible
    BY <1>1, <1>4 DEF Eligible
<1>6. From(t) \subseteq From(u) /\ From(u) \subseteq Steps
    BY <1>1, <1>2, <1>4
<1>7. /\ Cardinality(From(t)) \in Nat /\ Cardinality(From(u)) \in Nat
      /\ Cardinality(From(t)) <= Cardinality(From(u))
    BY <1>6, StepsFinite
<1>8. Cardinality(From(u)) > left
    BY <1>3, <1>4, <1>7
<1>9. QED
    BY <1>5, <1>8 DEF PastReserve

(* QueueMaintenance lets the oldest steps expire first. *)
LEMMA MaintenanceFallow ==
    ASSUME TypeInv, TypeOK', NEW exp, QueueMaintenance(exp)
    PROVE  /\ QueuedTimesteps' \subseteq QueuedTimesteps
           /\ Expired' \subseteq exp \cup QueuedTimesteps
           /\ Fallow' \subseteq QueuedTimesteps \ exp
           /\ \A t \in Fallow' : \A u \in QueuedTimesteps \ exp : t <= u => u \in Fallow'
<1> DEFINE past == PastReserve(ReferenceCount', PreciousTimestep', ReaderStatus', LastReleasedTimestep', ReserveCount')
<1>0. /\ LastReleasedTimestep' \in [Cohorts -> Int] /\ ReserveCount' \in Nat
      /\ \A t \in QueuedTimesteps : t \in Int
    BY DEF TypeInv, TypeOK, QueueTypes, ReaderTypes, StreamTypes, Steps
<1>1. past \subseteq QueuedTimesteps
    BY DEF PastReserve, Eligible
<1>2. \A t \in past : \A u \in QueuedTimesteps : u <= t => u \in past
    BY <1>0, PastReserveDown
<1>3. CASE MaintenanceSuspended(ReaderStatus')
    BY <1>3 DEF QueueMaintenance, Maintained, Fallow
<1>4. CASE ~MaintenanceSuspended(ReaderStatus')
    <2> DEFINE gone == Removable(exp \cup past, ReferenceCount', PreciousTimestep')
    <2>1. QueuedTimesteps' = QueuedTimesteps \ gone /\ Expired' = (exp \cup past) \ gone
        BY <1>4 DEF QueueMaintenance, Maintained
    <2>2. gone \subseteq exp \cup past
        BY DEF Removable
    <2>3. Fallow' = QueuedTimesteps \ (exp \cup past)
        BY <2>1, <2>2 DEF Fallow
    <2> HIDE DEF gone, past
    <2>4. QED
        BY <1>0, <1>1, <1>2, <2>1, <2>3
<1>5. QED
    BY <1>3, <1>4

(* The queue has no gaps: without a precious first step, what has not     *)
(* expired reaches from its oldest step to the last one provided, but for *)
(* discarded steps.                                                       *)
Contiguous ==
    /\ WriterTimestep >= 0 => LastProvidedTimestep = WriterTimestep
    /\ \A t \in Expired : t <= WriterTimestep
    /\ Emptied \cap Fallow \subseteq {WriterTimestep}
    /\ ~Discarding => Emptied \cap Fallow = {}
    /\ ~FirstTimestepPrecious =>
          /\ PreciousTimestep = {}
          /\ \A t \in Fallow : \A u \in t .. WriterTimestep : u \in Fallow \cup Emptied

(* QueueMaintenance leaves none, if what it is told to expire is discarded *)
(* or precious.                                                            *)
LEMMA MaintenanceContiguous ==
    ASSUME TypeInv, TypeOK', RefInv, Contiguous, NEW exp, QueueMaintenance(exp), UNCHANGED stepVars,
           Expired \subseteq exp, \A t \in exp : t <= WriterTimestep,
           Emptied \subseteq Emptied', Emptied' \subseteq Emptied \cup {WriterTimestep},
           PreciousTimestep' \subseteq PreciousTimestep,
           ~FirstTimestepPrecious => exp \ Expired \subseteq Emptied,
           ~Discarding' => Emptied' \cap (Fallow \ exp) = {}
    PROVE  Contiguous'
<1>0. /\ QueuedTimesteps \subseteq Steps /\ WriterTimestep \in Int
      /\ \A t \in QueuedTimesteps : t \in Int /\ t <= WriterTimestep
    BY DEF TypeInv, TypeOK, QueueTypes, StreamTypes, Steps, RefInv, Counted, QueueInOrder
<1>1. /\ QueuedTimesteps' \subseteq QueuedTimesteps
      /\ Expired' \subseteq exp \cup QueuedTimesteps
      /\ Fallow' \subseteq QueuedTimesteps \ exp
      /\ \A t \in Fallow' : \A u \in QueuedTimesteps \ exp : t <= u => u \in Fallow'
    BY MaintenanceFallow
<1>2. Fallow' \subseteq Fallow \ exp
    BY <1>1 DEF Fallow
<1>3. WriterTimestep' = WriterTimestep /\ LastProvidedTimestep' = LastProvidedTimestep
    BY DEF stepVars
<1>4. /\ WriterTimestep' >= 0 => LastProvidedTimestep' = WriterTimestep'
      /\ \A t \in Expired' : t <= WriterTimestep'
    BY <1>0, <1>1, <1>3 DEF Contiguous
<1>5. Emptied' \cap Fallow' \subseteq {WriterTimestep'}
    BY <1>2, <1>3 DEF Contiguous
<1>6. ~Discarding' => Emptied' \cap Fallow' = {}
    BY <1>2
<1>7. ASSUME ~FirstTimestepPrecious
      PROVE  /\ PreciousTimestep' = {}
             /\ \A t \in Fallow' : \A u \in t .. WriterTimestep' : u \in Fallow' \cup Emptied'
    <2>1. PreciousTimestep' = {}
        BY <1>7 DEF Contiguous
    <2>2. ASSUME NEW t \in Fallow', NEW u \in t .. WriterTimestep
          PROVE  u \in Fallow' \cup Emptied'
        <3>1. t \in Fallow /\ t <= u
            BY <1>0, <1>1, <1>2
        <3>2. u \in Fallow \cup Emptied
            BY <1>7, <3>1 DEF Contiguous
        <3>3. CASE u \in Fallow \ exp
            BY <1>1, <3>1, <3>3 DEF Fallow
        <3>4. CASE u \in exp \ Expired
            BY <1>7, <3>4
        <3>5. QED
            BY <3>2, <3>3, <3>4 DEF Fallow
    <2>3. QED
        BY <1>3, <2>1, <2>2
<1>8. QED
    BY <1>4, <1>5, <1>6, <1>7 DEF Contiguous

(* Nor does a new step. *)
LEMMA ProvideContiguous ==
    ASSUME TypeInv, RefInv, HeldInv, Contiguous, ProvideTimestep
    PROVE  Contiguous'
<1>0. /\ WriterTimestep \in Int /\ WriterTimestep >= -1 /\ QueuedTimesteps \subseteq Steps
      /\ Expired \subseteq Steps /\ Emptied \subseteq Steps
      /\ \A t \in Steps : t \in Int
      /\ \A t \in QueuedTimesteps : t <= WriterTimestep
      /\ \A t \in Emptied : t <= WriterTimestep
    BY DEF TypeInv, TypeOK, QueueTypes, StreamTypes, Steps, RefInv, Counted, QueueInOrder, HeldInv, Discards
<1>1. /\ WriterTimestep' = WriterTimestep + 1 /\ LastProvidedTimestep' = WriterTimestep + 1
      /\ QueuedTimesteps' = QueuedTimesteps \cup {WriterTimestep + 1}
      /\ UNCHANGED <<Expired, Emptied>>
      /\ ~FirstTimestepPrecious => PreciousTimestep' = PreciousTimestep
    BY DEF ProvideTimestep
<1>2. ~Discarding
    BY DEF ProvideTimestep, Discarding, MainAt, InCall, CallPcs
<1>3. Fallow' = Fallow \cup {WriterTimestep + 1} /\ WriterTimestep + 1 \notin Expired \cup Emptied
    BY <1>0, <1>1 DEF Fallow, Contiguous
<1>4. Emptied' \cap Fallow' = {}
    BY <1>1, <1>2, <1>3 DEF Contiguous
<1>5. \A t \in Expired' : t <= WriterTimestep'
    BY <1>0, <1>1 DEF Contiguous
<1>6. ASSUME ~FirstTimestepPrecious, NEW t \in Fallow', NEW u \in t .. WriterTimestep'
      PROVE  u \in Fallow' \cup Emptied'
    <2>1. u \in Int /\ t \in Int /\ t <= u /\ u <= WriterTimestep + 1
        BY <1>0, <1>1, <1>3 DEF Fallow
    <2>2. CASE u = WriterTimestep + 1
        BY <1>3, <2>2
    <2>3. CASE u # WriterTimestep + 1
        BY <1>0, <1>1, <1>3, <1>6, <2>1, <2>3 DEF Contiguous
    <2>4. QED
        BY <2>2, <2>3
<1>7. QED
    BY <1>1, <1>4, <1>5, <1>6 DEF Contiguous

(* Every step keeps it. *)
LEMMA NextContiguous ==
    ASSUME TypeInv, TypeInv', RefInv, HeldInv, Contiguous, [Next]_vars
    PROVE  Contiguous'
<1>0. TypeOK' /\ \A t \in QueuedTimesteps : t <= WriterTimestep
    BY DEF TypeInv, RefInv, Counted, QueueInOrder
<1>1. CASE StreamQuiet
    <2>1. CASE UNCHANGED <<QueuedTimesteps, Expired>>
        BY <1>1, <2>1 DEF StreamQuiet, Contiguous, Fallow, stepVars
    <2>2. CASE QueueMaintenance(Expired)
        <3>1. ~Discarding' => Emptied' \cap (Fallow \ Expired) = {}
            BY <1>1 DEF StreamQuiet, Contiguous
        <3>2. QED
            BY <1>0, <1>1, <2>2, <3>1, MaintenanceContiguous DEF StreamQuiet, Contiguous
    <2>3. QED
        BY <1>1, <2>1, <2>2 DEF StreamQuiet, QueueUntouched
<1>2. CASE ProvideTimestep
    BY <1>2, ProvideContiguous
<1>3. CASE ProvideTimestepDiscarded
    <2>1. MainAt("discardLoop") /\ Providing
        BY <1>3 DEF ProvideTimestepDiscarded, MainAt, Providing
    <2>2. step["main"] = WriterTimestep /\ WriterTimestep \in Emptied /\ WriterTimestep \in Steps
        BY <2>1 DEF TypeInv, Serving, HeldInv, Discards, Discarding
    <2>3. /\ QueueMaintenance(Expired \cup {WriterTimestep})
          /\ UNCHANGED <<stepVars, Emptied, PreciousTimestep>>
        BY <1>3, <2>2 DEF ProvideTimestepDiscarded, streamVars, stepVars, markVars
    <2>4. \A t \in Expired \cup {WriterTimestep} : t <= WriterTimestep
        BY <2>2 DEF Contiguous, Steps
    <2>5. Emptied' \cap (Fallow \ (Expired \cup {WriterTimestep})) = {}
        BY <2>3 DEF Contiguous
    <2>6. QED
        BY <1>0, <2>2, <2>3, <2>4, <2>5, MaintenanceContiguous
<1>4. CASE UntagPreciousTimesteps
    <2>1. /\ QueueMaintenance(Expired \cup (PreciousTimestep \cap QueuedTimesteps))
          /\ UNCHANGED <<stepVars, Emptied>> /\ PreciousTimestep' = {} /\ pc["main"] = "untag"
        BY <1>4 DEF UntagPreciousTimesteps, streamVars, stepVars, markVars
    <2>2. ~Discarding
        BY <2>1 DEF Discarding, MainAt, InCall, CallPcs
    <2>3. \A t \in Expired \cup (PreciousTimestep \cap QueuedTimesteps) : t <= WriterTimestep
        BY <1>0 DEF Contiguous
    <2>4. ~FirstTimestepPrecious => PreciousTimestep = {}
        BY DEF Contiguous
    <2>5. Emptied \cap Fallow = {}
        BY <2>2 DEF Contiguous
    <2>6. QED
        BY <1>0, <2>1, <2>3, <2>4, <2>5, MaintenanceContiguous
<1>5. CASE DeliverBegin
    <2>1. /\ UNCHANGED <<stepVars, QueuedTimesteps, Expired, PreciousTimestep>>
          /\ Emptied \subseteq Emptied' /\ Emptied' \subseteq Emptied \cup {WriterTimestep}
          /\ Emptied' # Emptied => discard
          /\ discard => pc'["main"] = "discardLoop"
          /\ pc["main"] = "deliver"
        BY <1>5 DEF DeliverBegin, streamVars, stepVars, Goto, TypeInv, TypeOK, ThreadTypes, Threads
    <2>2. ~Discarding
        BY <2>1 DEF Discarding, MainAt, InCall, CallPcs
    <2>3. Emptied' # Emptied => Discarding'
        BY <2>1 DEF Discarding, MainAt
    <2>4. Fallow' = Fallow /\ WriterTimestep' = WriterTimestep
        BY <2>1 DEF Fallow, stepVars
    <2>5. Emptied \cap Fallow = {}
        BY <2>2 DEF Contiguous
    <2>6. /\ Emptied' \cap Fallow' \subseteq {WriterTimestep'}
          /\ ~Discarding' => Emptied' \cap Fallow' = {}
        BY <2>1, <2>3, <2>4, <2>5
    <2>7. ~FirstTimestepPrecious =>
              /\ PreciousTimestep' = {}
              /\ \A t \in Fallow' : \A u \in t .. WriterTimestep' : u \in Fallow' \cup Emptied'
        BY <2>1, <2>4 DEF Contiguous
    <2>8. /\ WriterTimestep' >= 0 => LastProvidedTimestep' = WriterTimestep'
          /\ \A t \in Expired' : t <= WriterTimestep'
        BY <2>1 DEF Contiguous, stepVars
    <2>9. QED
        BY <2>6, <2>7, <2>8 DEF Contiguous
<1>6. QED
    BY <1>1, <1>2, <1>3, <1>4, <1>5, StreamStep

(* The queue is empty at first. *)
LEMMA InitContiguous == Init => Contiguous
BY DEF Init, Contiguous, Fallow

-----------------------------------------------------------------------------
(* The steps of a reader *)

(* What main is handing out, to whom and how far it got stays what it was, *)
(* and nobody gets anything.                                               *)
PlaceKept ==
    /\ UNCHANGED <<stepVars, Emptied, received, StartingTimestep>>
    /\ \A l \in SendRets : MainAt(l)' <=> MainAt(l)
    /\ MainAt("queuedLoop") => rdr'["main"] = rdr["main"] /\ idx'["main"] = idx["main"]
    /\ MainAt("sendLoop") => idx'["main"] = idx["main"] /\ Readers' = Readers
    /\ Unserved => Unserved'
    /\ pc["main"] = "awaitReader" =>
          \/ pc'["main"] = "awaitReader" /\ rdr'["main"] = rdr["main"]
          \/ ReaderStatus[rdr["main"]] \notin {"Opening", "Established"}
    /\ pc'["main"] = "awaitReader" => pc["main"] = "awaitReader" /\ rdr'["main"] = rdr["main"]
    /\ Sending("main")' => Sending("main") /\ rdr'["main"] = rdr["main"] /\ step'["main"] = step["main"]
    /\ Sending("main") => Sending("main")' \/ ~Sendable(rdr["main"])
    /\ \A r \in Cohorts : peer'[r] = "live" => peer[r] = "live" \/ ReaderStatus[r] = "Opening"

(* net and the readers leave main's place alone. *)
LEMMA NetPlace ==
    ASSUME TypeInv, LiveInv, HeldInv, StepDistributionMode = "AllToAll", NetInHandler \/ Environment
    PROVE  PlaceKept
<1>1. NetFrame
    BY NetEffect
<1>2. UNCHANGED received
    <2>1. ASSUME NEW ok \in BOOLEAN, CMwrite("net", ok) PROVE UNCHANGED received
        <3>1. ~Sending("net")
            BY DEF HeldInv, Unsent
        <3>2. QED
            BY <2>1, <3>1 DEF CMwrite, Sending
    <2>2. ~\E r \in Cohorts : ReaderRequests(r)
        BY DEF ReaderRequests
    <2>3. QED
        BY <2>1, <2>2, NetOrder DEF OrderFrame
<1>3. /\ pc'["main"] = pc["main"] /\ ret'["main"] = ret["main"] /\ rdr'["main"] = rdr["main"]
      /\ step'["main"] = step["main"] /\ idx'["main"] = idx["main"]
      /\ UNCHANGED <<Emptied, stepVars, Readers, StartingTimestep>>
      /\ \A r \in Cohorts : peer'[r] = "live" => peer[r] = "live" \/ ReaderStatus[r] = "Opening"
    BY <1>1 DEF NetFrame, markVars
<1>4. (Unserved' <=> Unserved) /\ (Sending("main")' <=> Sending("main"))
      /\ \A l \in SendRets : MainAt(l)' <=> MainAt(l)
    BY <1>3 DEF Unserved, Sending, MainAt, InCall
<1>5. QED
    BY <1>2, <1>3, <1>4 DEF PlaceKept

(* So do the procedures main calls, but for the write itself. *)
LEMMA CallPlace ==
    ASSUME TypeInv, Shared("main"), ~\E ok \in BOOLEAN : CMwrite("main", ok)
    PROVE  PlaceKept
<1>1. CallFrame /\ OrderFrame
    BY CallEffect, SharedOrder
<1>2. /\ \A l \in DerefRets \ {"closeLoop"} : MainAt(l) => MainAt(l)'
      /\ Sending("main") => Sending("main")' \/ ~Sendable(rdr["main"])
    BY CallKeepsPlace
<1>3. \A l \in SendRets : MainAt(l)' <=> MainAt(l)
    BY <1>1, <1>2 DEF CallFrame, DerefRets, WriteRets, SendRets
<1>4. pc["main"] \in CallPcs
    BY <1>1 DEF CallFrame
<1>5. MainAt("queuedLoop") \/ MainAt("sendLoop") => pc["main"] # "closeLoop"
    BY DEF MainAt, InCall
<1>6. Unserved => Unserved'
    BY <1>2, <1>4 DEF Unserved, DerefRets, WriteRets, CallPcs
<1>7. UNCHANGED <<stepVars, Emptied, StartingTimestep, Readers, peer>>
    BY <1>1 DEF CallFrame, markVars
<1>8. /\ UNCHANGED received
      /\ Sending("main")' => Sending("main") /\ rdr'["main"] = rdr["main"] /\ step'["main"] = step["main"]
    BY <1>1 DEF OrderFrame, Threads
<1>9. MainAt("queuedLoop") \/ MainAt("sendLoop") => rdr'["main"] = rdr["main"] /\ idx'["main"] = idx["main"]
    BY <1>1, <1>5 DEF CallFrame
<1>10. pc["main"] # "awaitReader" /\ pc'["main"] # "awaitReader"
    BY <1>1, <1>4 DEF CallFrame, CallPcs, Loops, DerefRets, WriteRets, SendRets
<1>11. QED
    BY <1>2, <1>3, <1>6, <1>7, <1>8, <1>9, <1>10 DEF PlaceKept

(* Where main hands steps out, or begins or ends to. *)
Distributes ==
    \/ \E ok \in BOOLEAN : CMwrite("main", ok)
    \/ SendQueued \/ SendQueuedDone \/ SendToAll
    \/ waitForReaderResponse /\ pc'["main"] = "queuedLoop"
    \/ WriterParticipateInReaderOpen
    \/ ProvideTimestep \/ DeliverBegin
    \/ ProvideTimestepSent \/ ProvideTimestepDiscarded

(* In AllToAll mode nothing else moves main's place. *)
LEMMA PlaceStep ==
    ASSUME TypeInv, LiveInv, HeldInv, StepDistributionMode = "AllToAll", [Next]_vars
    PROVE  PlaceKept \/ Distributes
<1> USE DEF Threads, markVars, queueVars, openVars, stepVars, distVars, closeVars, streamVars, listVars,
            linkVars, readerVars, callVars, localVars, peerVars, dataVars, Goto
<1>0. ThreadTypes
    BY DEF TypeInv, TypeOK
<1>1. CASE NetInHandler \/ Environment
    BY <1>1, NetPlace
<1>2. CASE Shared("main")
    BY <1>2, CallPlace DEF Distributes
<1>3. CASE ProcessReaderStatusList
    <2>1. /\ pc["main"] = "statusLoop"
          /\ UNCHANGED <<stepVars, Emptied, received, StartingTimestep, peer>>
        BY <1>3 DEF ProcessReaderStatusList
    <2>2. pc'["main"] \in {"statusLoop", "derefLoop"} /\ ret'["main"] = "statusLoop"
        BY <1>0, <1>3 DEF ProcessReaderStatusList, PeerFailCloseWSReader, ThreadTypes
    <2>3. QED
        BY <2>1, <2>2 DEF PlaceKept, MainAt, InCall, CallPcs, SendRets, Unserved, Sending
<1>4. CASE waitForReaderResponse
    <2>1. CASE pc'["main"] = "queuedLoop"
        BY <1>4, <2>1 DEF Distributes
    <2>2. CASE pc'["main"] # "queuedLoop"
        BY <1>0, <1>4, <2>2 DEF waitForReaderResponse, PlaceKept, MainAt, InCall, CallPcs, SendRets, Unserved,
            Sending, ThreadTypes
    <2>3. QED
        BY <2>1, <2>2
<1>5. CASE \/ SstWriterOpenRendezvous \/ StrayUnlock \/ DecideTimestep \/ BlockedOnQueueFull
           \/ ProcessReaderStatusListBegin \/ ProcessReaderStatusListDone
    BY <1>0, <1>5 DEF SstWriterOpenRendezvous, StrayUnlock, ReaderAdmitted, DecideTimestep, BlockedOnQueueFull,
        TakeSnapshot, ProcessReaderStatusListBegin, ProcessReaderStatusListDone,
        PlaceKept, MainAt, InCall, CallPcs, SendRets, Unserved, Sending, ThreadTypes
<1>6. CASE \/ HandlePendingReaders \/ WriterCloseDrain \/ SstWriterClose \/ SstStreamDestroy
           \/ UntagPreciousTimesteps
    BY <1>0, <1>6 DEF HandlePendingReaders, WriterCloseDrain, SstWriterClose, SstStreamDestroy,
        UntagPreciousTimesteps, PlaceKept, MainAt, InCall, CallPcs, SendRets, Unserved, Sending, ThreadTypes
<1>7. CASE SendDiscarded
    BY <1>0, <1>7 DEF SendDiscarded, WriteToReader, PlaceKept, MainAt, InCall, CallPcs, SendRets, Unserved,
        Sending, ThreadTypes, MetadataSends
<1>8. CASE SendRoundRobin \/ SendOnDemand
    BY <1>8 DEF SendRoundRobin, SendOnDemand, RoundRobinDue, RequestDue
<1>9. CASE UNCHANGED vars
    BY <1>9 DEF vars, PlaceKept, MainAt, InCall, Unserved, Sending
<1>10. QED
    BY <1>1, <1>2, <1>3, <1>4, <1>5, <1>6, <1>7, <1>8, <1>9
       DEF Distributes, Next, MainInCall, MainCalls, Terminated

(* What the writer takes for the last step a reader released was delivered *)
(* to it.                                                                  *)
ReleasesDelivered ==
    \A r \in Cohorts :
        \/ LastReleasedTimestep'[r] = LastReleasedTimestep[r]
        \/ peer[r] \in {"live", "crashed"} /\ LastReleasedTimestep'[r] \in delivered[r]

(* Only the release of a step changes it. *)
LEMMA ReleaseStep ==
    ASSUME TypeInv, [Next]_vars
    PROVE  ReleasesDelivered
<1> USE DEF readerVars, dataVars
<1>0. LastReleasedTimestep \in [Cohorts -> Steps \cup {-1}]
    BY DEF TypeInv, TypeOK, ReaderTypes
<1>c. ASSUME NEW th, NEW r, NEW new, NEW back, PeerFailCloseWSReader(th, r, new, back)
      PROVE  ReleasesDelivered
    BY <1>c DEF PeerFailCloseWSReader, ReleasesDelivered
<1>u. UNCHANGED LastReleasedTimestep => ReleasesDelivered
    BY DEF ReleasesDelivered
<1>1. ASSUME NEW th \in Threads, Shared(th) PROVE ReleasesDelivered
    <2>1. CASE DerefAllSentTimesteps(th) \/ DerefRelocked(th) \/ PeerFailCloseFinish(th) \/ Registered(th)
               \/ (\E ok \in BOOLEAN : CMwrite(th, ok)) \/ Written(th)
        BY <1>u, <2>1 DEF DerefAllSentTimesteps, DerefRelocked, PeerFailCloseFinish, Registered, CMwrite, Written
    <2>2. CASE WriteFailed(th)
        BY <1>c, <2>2 DEF WriteFailed
    <2>3. CASE SendCloseMsgs(th) \/ SendCloseMsgsDone(th)
        BY <1>u, <2>3 DEF SendCloseMsgs, WriteToReader, SendCloseMsgsDone
    <2>4. QED
        BY <1>1, <2>1, <2>2, <2>3 DEF Shared
<1>2. CASE \/ SstWriterOpenRendezvous \/ WriterParticipateInReaderOpen \/ waitForReaderResponse
           \/ StrayUnlock \/ SendQueuedDone \/ DecideTimestep \/ BlockedOnQueueFull
           \/ ProcessReaderStatusListBegin \/ ProcessReaderStatusListDone \/ DeliverBegin
           \/ ProvideTimestepSent \/ HandlePendingReaders \/ WriterCloseDrain
           \/ SstWriterClose \/ SstStreamDestroy
           \/ ProvideTimestep \/ ProvideTimestepDiscarded \/ UntagPreciousTimesteps
    BY <1>2, <1>u DEF SstWriterOpenRendezvous, WriterParticipateInReaderOpen, waitForReaderResponse,
        StrayUnlock, SendQueuedDone, DecideTimestep, BlockedOnQueueFull,
        ProcessReaderStatusListBegin, ProcessReaderStatusListDone, DeliverBegin,
        ProvideTimestepSent, HandlePendingReaders, WriterCloseDrain,
        SstWriterClose, SstStreamDestroy, ProvideTimestep, ProvideTimestepDiscarded, UntagPreciousTimesteps
<1>3. CASE ProcessReaderStatusList
    BY <1>3, <1>c DEF ProcessReaderStatusList
<1>4. CASE SendQueued \/ SendToAll \/ SendRoundRobin \/ SendOnDemand \/ SendDiscarded
    BY <1>4, <1>u DEF SendQueued, SendToAll, SendRoundRobin, SendOnDemand, SendDiscarded,
        SendTimestepEntryToSingleReader, WriteToReader
<1>5. CASE NetInHandler
    <2>1. CASE ConnCloseDone \/ ReleaseDone \/ HandlerDone \/ RequestSent \/ ReleaseRelocked
        BY <1>u, <2>1 DEF ConnCloseDone, ReleaseDone, HandlerDone, RequestSent, ReleaseRelocked
    <2>2. ASSUME NEW r \in Cohorts, CloseWSRStream(r) PROVE ReleasesDelivered
        BY <1>c, <2>2 DEF CloseWSRStream
    <2>3. QED
        BY <1>1, <1>5, <2>1, <2>2 DEF NetInHandler, Threads
<1>6. CASE Environment
    <2>1. ASSUME NEW r \in Cohorts, ReaderRegisters(r) \/ ReaderActivates(r) \/ ReaderCrashes(r)
          PROVE  ReleasesDelivered
        BY <1>u, <2>1 DEF ReaderRegisters, queueReaderRegisterMsgAndNotify, ReaderActivates, CP_ReaderActivateHandler,
            ReaderCrashes
    <2>2. ASSUME NEW r \in Cohorts, NEW t \in Steps, ReaderReleases(r, t) PROVE ReleasesDelivered
        BY <1>0, <2>2 DEF ReaderReleases, CP_ReleaseTimestepHandler, ReleasesDelivered
    <2>3. ASSUME NEW r \in Cohorts, ReaderRequests(r) PROVE ReleasesDelivered
        BY <1>u, <2>3 DEF ReaderRequests, CP_ReaderRequestStepHandler, SendTimestepEntryToSingleReader
    <2>4. ASSUME NEW r \in Cohorts, ReaderCloses(r) \/ ConnectionCloses(r) PROVE ReleasesDelivered
        <3>1. CP_ReaderCloseHandler(r) \/ WriterConnCloseHandler(r)
            BY <2>4 DEF ReaderCloses, ConnectionCloses
        <3>2. /\ PeerFailCloseWSReader("net", r, "PeerClosed", "handlerDone") => ReleasesDelivered
              /\ PeerFailCloseWSReader("net", r, "PeerFailed", "connCloseDone") => ReleasesDelivered
            BY <1>c
        <3>3. QED
            BY <1>u, <3>1, <3>2 DEF CP_ReaderCloseHandler, WriterConnCloseHandler
    <2>5. QED
        BY <1>6, <2>1, <2>2, <2>3, <2>4 DEF Environment
<1>7. CASE UNCHANGED vars
    BY <1>7, <1>u DEF vars
<1>8. QED
    BY <1>1, <1>2, <1>3, <1>4, <1>5, <1>6, <1>7 DEF Next, MainInCall, MainCalls, Terminated, Threads

(* A reader registers, becomes live and leaves, in this order. *)
PeersAdvance ==
    \A r \in Cohorts :
        \/ peer'[r] = peer[r]
        \/ peer'[r] \in Left
        \/ peer[r] = "registered" /\ peer'[r] = "live" /\ ReaderStatus[r] = "Opening"
        \/ peer[r] = "absent" /\ peer'[r] = "registered"

(* Every step keeps to that order. *)
LEMMA PeerStep ==
    ASSUME TypeInv, LiveInv, [Next]_vars
    PROVE  PeersAdvance /\ (Distributes => UNCHANGED peer)
<1> USE DEF peerVars, dataVars
<1>1. CASE NetInHandler \/ Environment
    <2>1. PeersAdvance
        BY <1>1, NetReaders DEF NetFate, FateOf, PeersAdvance
    <2>2. QED
        BY <2>1 DEF Distributes, CMwrite, SendQueued, SendQueuedDone, SendToAll, SendTimestepEntryToSingleReader,
            waitForReaderResponse, WriterParticipateInReaderOpen, ProvideTimestep, DeliverBegin,
            ProvideTimestepSent, ProvideTimestepDiscarded
<1>2. CASE UNCHANGED peer
    BY <1>2 DEF PeersAdvance
<1>3. CASE Shared("main")
    BY <1>2, <1>3, CallEffect DEF CallFrame
<1>4. CASE \/ SstWriterOpenRendezvous \/ WriterParticipateInReaderOpen \/ waitForReaderResponse
           \/ StrayUnlock \/ SendQueuedDone \/ DecideTimestep \/ BlockedOnQueueFull
           \/ ProcessReaderStatusListBegin \/ ProcessReaderStatusListDone \/ DeliverBegin
           \/ ProvideTimestepSent \/ HandlePendingReaders \/ WriterCloseDrain
           \/ SstWriterClose \/ SstStreamDestroy \/ ProcessReaderStatusList
           \/ ProvideTimestep \/ ProvideTimestepDiscarded \/ UntagPreciousTimesteps
    BY <1>2, <1>4 DEF SstWriterOpenRendezvous, WriterParticipateInReaderOpen, waitForReaderResponse,
        StrayUnlock, SendQueuedDone, DecideTimestep, BlockedOnQueueFull,
        ProcessReaderStatusListBegin, ProcessReaderStatusListDone, DeliverBegin, ProcessReaderStatusList,
        ProvideTimestepSent, HandlePendingReaders, WriterCloseDrain,
        SstWriterClose, SstStreamDestroy, ProvideTimestep, ProvideTimestepDiscarded, UntagPreciousTimesteps
<1>5. CASE SendQueued \/ SendToAll \/ SendRoundRobin \/ SendOnDemand \/ SendDiscarded
    BY <1>2, <1>5 DEF SendQueued, SendToAll, SendRoundRobin, SendOnDemand, SendDiscarded,
        SendTimestepEntryToSingleReader, WriteToReader
<1>6. CASE UNCHANGED vars
    BY <1>2, <1>6 DEF vars
<1>7. QED
    BY <1>1, <1>3, <1>4, <1>5, <1>6 DEF Next, MainInCall, MainCalls, Terminated

(* A new reader is told to start with the oldest step in the queue, or with *)
(* the last one provided when the queue is empty.                           *)
LEMMA EarliestIsFirst ==
    ASSUME TypeOK
    PROVE  /\ earliestAvailableTimestepNumber \in QueuedTimesteps \cup {WriterTimestep}
           /\ \A t \in QueuedTimesteps \cup {WriterTimestep} : earliestAvailableTimestepNumber <= t
<1> DEFINE all == QueuedTimesteps \cup {WriterTimestep}
           up  == {t + 1 : t \in all}
<1>1. \A t \in all : t \in Nat \cup {-1}
    BY DEF TypeOK, QueueTypes, StreamTypes, Steps
<1>2. up \in SUBSET Nat /\ up # {}
    BY <1>1
<1>3. Min(up) \in up /\ \A y \in up : Min(up) <= y
    BY <1>2, MinInSet
<1>4. PICK m \in all : Min(up) = m + 1
    BY <1>3
<1>5. \A t \in all : m <= t
    <2> TAKE t \in all
    <2>1. t + 1 \in up
        OBVIOUS
    <2>2. m + 1 <= t + 1
        BY <1>3, <1>4, <2>1
    <2>3. QED
        BY <1>1, <2>2
<1> HIDE DEF all
<1>6. Min(all) \in all /\ \A t \in all : Min(all) <= t
    BY <1>4, <1>5 DEF Min
<1>7. QED
    BY <1>6 DEF earliestAvailableTimestepNumber, all

(* No reader is sent anything older than the step it was told to start *)
(* with.                                                               *)
Started ==
    /\ \A r \in Cohorts : StartingTimestep[r] = 0 \/ StartingTimestep[r] <= WriterTimestep
    /\ \A r \in Cohorts : \A t \in received[r] : StartingTimestep[r] <= t
    /\ MainAt("queuedLoop") => StartingTimestep[rdr["main"]] <= idx["main"]
    /\ Sending("main") => StartingTimestep[rdr["main"]] <= step["main"]

(* A write delivers what its caller was to send. *)
LEMMA WriteStarted ==
    ASSUME TypeInv, HeldInv, Started, StepDistributionMode = "AllToAll", NEW ok \in BOOLEAN, CMwrite("main", ok)
    PROVE  Started'
<1> USE DEF Threads, queueVars, streamVars, readerVars, linkVars, callVars, stepVars
<1>0. ThreadTypes /\ PeerTypes /\ rdr["main"] \in Cohorts /\ ret["main"] \in WriteRets
    BY DEF TypeInv, TypeOK, CMwrite, Positioned, InCall, CallPcs, ReturnOK
<1>1. /\ pc["main"] = "write" /\ pc'["main"] \in {"written", "failed"}
      /\ UNCHANGED <<StartingTimestep, WriterTimestep, rdr, step, idx, ret>>
    BY <1>0 DEF CMwrite, Goto, ThreadTypes
<1>2. \A r \in Cohorts : received'[r] = received[r]
         \/ (r = rdr["main"] /\ ret["main"] \in MetadataSends /\ received'[r] = received[r] \cup {step["main"]})
    BY <1>0 DEF CMwrite, PeerTypes
<1>3. \A r \in Cohorts : \A t \in received'[r] : StartingTimestep[r] <= t
    BY <1>1, <1>2 DEF Started, Sending
<1>4. ~Sending("main")' /\ (MainAt("queuedLoop")' => MainAt("queuedLoop"))
    BY <1>1 DEF Sending, MainAt, InCall, CallPcs
<1>5. QED
    BY <1>1, <1>3, <1>4 DEF Started

(* What is still queued for a new reader, and each new step, is not older. *)
LEMMA SendStarted ==
    ASSUME TypeInv, RefInv, Started, StepDistributionMode = "AllToAll", SendQueued \/ SendToAll
    PROVE  Started'
<1> USE DEF Threads, openVars, stepVars
<1>0. ThreadTypes /\ ReaderTypes
    BY DEF TypeInv, TypeOK
<1>a. ASSUME NEW r \in Cohorts, NEW t \in Steps, NEW back \in SendRets,
             SendTimestepEntryToSingleReader("main", r, t, back), StartingTimestep[r] <= t,
             back = "queuedLoop" => StartingTimestep[r] <= idx'["main"]
      PROVE  Started'
    <2>1. /\ pc'["main"] = "register" /\ ret'["main"] = back /\ rdr'["main"] = r /\ step'["main"] = t
          /\ UNCHANGED <<StartingTimestep, WriterTimestep, received>>
        BY <1>0, <1>a DEF SendTimestepEntryToSingleReader, Goto, ThreadTypes
    <2>2. MainAt("queuedLoop")' => back = "queuedLoop"
        BY <2>1 DEF MainAt, InCall
    <2>3. QED
        BY <1>a, <2>1, <2>2 DEF Started
<1>1. CASE SendQueued
    <2>1. PICK t \in QueuedForReader(rdr["main"]) :
              /\ Handout("main", rdr["main"], t, "queuedLoop") /\ idx["main"] <= t
              /\ idx' = [idx EXCEPT !["main"] = t + 1] /\ pc["main"] = "queuedLoop"
        BY <1>1, QueuedHandout
    <2>2. /\ rdr["main"] \in Cohorts /\ t \in Steps
          /\ SendTimestepEntryToSingleReader("main", rdr["main"], t, "queuedLoop")
        BY <2>1 DEF Handout
    <2>3. /\ StartingTimestep[rdr["main"]] <= idx["main"]
          /\ StartingTimestep[rdr["main"]] \in Int /\ idx["main"] \in Int /\ t \in Int /\ idx'["main"] = t + 1
        BY <1>0, <2>1, <2>2 DEF Started, MainAt, ReaderTypes, ThreadTypes, Steps
    <2>4. StartingTimestep[rdr["main"]] <= t /\ StartingTimestep[rdr["main"]] <= idx'["main"]
        BY <2>1, <2>3
    <2>5. QED
        BY <1>a, <2>2, <2>4 DEF SendRets
<1>2. CASE SendToAll
    <2>1. PICK i \in 1 .. Len(Readers) : Provides(Readers[i])
        BY <1>2, AllHandout
    <2>2. /\ Readers[i] \in Cohorts /\ WriterTimestep \in Steps
          /\ SendTimestepEntryToSingleReader("main", Readers[i], WriterTimestep, "sendLoop")
        BY <2>1 DEF Provides, Handout
    <2>3. StartingTimestep[Readers[i]] <= WriterTimestep
        BY <2>2 DEF Started, Steps
    <2>4. QED
        BY <1>a, <2>2, <2>3 DEF SendRets
<1>3. QED
    BY <1>1, <1>2

(* The step to start with is chosen before anything is sent. *)
LEMMA AdmitStarted ==
    ASSUME TypeInv, RefInv, OrderInv, Started, WriterParticipateInReaderOpen
    PROVE  Started'
<1> USE DEF Threads, queueVars, streamVars, stepVars, peerVars
<1> DEFINE r == Head(ReaderRegisterQueue)
<1>0. ThreadTypes /\ ReaderTypes /\ ReaderRegisterQueue \in Seq(Cohorts) /\ ReaderRegisterQueue # <<>>
    BY DEF TypeInv, TypeOK, StreamTypes, Admissions, WriterParticipateInReaderOpen
<1>1. r \in Cohorts /\ r = ReaderRegisterQueue[1] /\ 1 \in 1 .. Len(ReaderRegisterQueue)
    BY <1>0
<1>2. received[r] = {}
    BY <1>1 DEF OrderInv, Fresh, NewReader, InQueue
<1>3. earliestAvailableTimestepNumber <= WriterTimestep /\ WriterTimestep \in Int
    BY EarliestIsFirst DEF TypeInv, TypeOK, StreamTypes, Steps
<1>4. /\ pc["main"] = "participate" /\ pc'["main"] = "awaitReader"
      /\ UNCHANGED <<WriterTimestep, received>>
      /\ StartingTimestep' = [StartingTimestep EXCEPT
             ![r] = IF earliestAvailableTimestepNumber = -1 THEN 0 ELSE earliestAvailableTimestepNumber]
    BY <1>0 DEF WriterParticipateInReaderOpen, Goto, ThreadTypes
<1>5. ~MainAt("queuedLoop")' /\ ~Sending("main")'
    BY <1>4 DEF MainAt, InCall, CallPcs, Sending
<1> HIDE DEF r
<1>6. \A q \in Cohorts : StartingTimestep'[q] = StartingTimestep[q]
                           \/ (q = r /\ (StartingTimestep'[q] = 0 \/ StartingTimestep'[q] <= WriterTimestep))
    BY <1>0, <1>1, <1>3, <1>4 DEF ReaderTypes
<1>7. QED
    BY <1>2, <1>4, <1>5, <1>6 DEF Started

(* Every step keeps it. *)
LEMMA NextStarted ==
    ASSUME TypeInv, RefInv, LiveInv, HeldInv, OrderInv, Started, StepDistributionMode = "AllToAll", [Next]_vars
    PROVE  Started'
<1> USE DEF Threads, queueVars, streamVars, stepVars, readerVars, linkVars, peerVars, openVars
<1>0. ThreadTypes /\ ReaderTypes /\ StreamTypes
    BY DEF TypeInv, TypeOK
<1>1. CASE PlaceKept
    BY <1>1 DEF PlaceKept, Started, SendRets
<1>2. CASE \E ok \in BOOLEAN : CMwrite("main", ok)
    BY <1>2, WriteStarted
<1>3. CASE SendQueued \/ SendToAll
    BY <1>3, SendStarted
<1>4. CASE WriterParticipateInReaderOpen
    BY <1>4, AdmitStarted
<1>5. CASE waitForReaderResponse /\ pc'["main"] = "queuedLoop"
    <2>1. /\ UNCHANGED <<WriterTimestep, StartingTimestep, received, rdr>>
          /\ idx'["main"] = StartingTimestep[rdr["main"]] /\ rdr["main"] \in Cohorts
        BY <1>0, <1>5 DEF waitForReaderResponse, Goto, ThreadTypes, callVars, TypeInv, Positioned
    <2>2. idx'["main"] \in Int
        BY <1>0, <2>1 DEF ReaderTypes
    <2>3. ~Sending("main")'
        BY <1>5 DEF Sending
    <2>4. QED
        BY <2>1, <2>2, <2>3 DEF Started
<1>6. CASE ProvideTimestep
    <2>1. /\ pc'["main"] = "decide" /\ WriterTimestep' = WriterTimestep + 1 /\ WriterTimestep \in Int
          /\ UNCHANGED <<StartingTimestep, received>>
        BY <1>0, <1>6 DEF ProvideTimestep, Goto, ThreadTypes, StreamTypes, Steps
    <2>2. ~MainAt("queuedLoop")' /\ ~Sending("main")'
        BY <2>1 DEF MainAt, InCall, CallPcs, Sending
    <2>3. \A r \in Cohorts : StartingTimestep[r] \in Int
        BY <1>0 DEF ReaderTypes
    <2>4. QED
        BY <2>1, <2>2, <2>3 DEF Started
<1>7. CASE SendQueuedDone \/ DeliverBegin \/ ProvideTimestepSent \/ ProvideTimestepDiscarded
    <2>1. /\ pc'["main"] \in {"pending", "rendezvous", "sendLoop", "discardLoop"}
          /\ UNCHANGED <<WriterTimestep, StartingTimestep, received>>
        BY <1>0, <1>7 DEF SendQueuedDone, ReaderAdmitted, DeliverBegin, ProvideTimestepSent,
            ProvideTimestepDiscarded, Goto, ThreadTypes
    <2>2. ~MainAt("queuedLoop")' /\ ~Sending("main")'
        BY <2>1 DEF MainAt, InCall, CallPcs, Sending
    <2>3. QED
        BY <2>1, <2>2 DEF Started
<1>8. QED
    BY <1>1, <1>2, <1>3, <1>4, <1>5, <1>6, <1>7, PlaceStep DEF Distributes

(* Nothing is sent at first. *)
LEMMA InitStarted == Init => Started
BY DEF Init, Started, MainAt, InCall, CallPcs, Sending, Threads

(* A reader that is being sent the queued steps has released none that it *)
(* is still to get.                                                       *)
Unreleased ==
    /\ \A r \in Cohorts : peer[r] \in {"absent", "registered"} => LastReleasedTimestep[r] = -1
    /\ (pc["main"] = "awaitReader" /\ peer[rdr["main"]] = "live") => LastReleasedTimestep[rdr["main"]] = -1
    /\ (MainAt("queuedLoop") /\ peer[rdr["main"]] = "live") => LastReleasedTimestep[rdr["main"]] < idx["main"]

(* What hands no step out keeps it: a reader releases what it got, and that *)
(* is older.                                                                *)
LEMMA QuietUnreleased ==
    ASSUME TypeInv, LiveInv, HeldInv, Unreleased, StepDistributionMode = "AllToAll", [Next]_vars, PlaceKept
    PROVE  Unreleased'
<1>0. ThreadTypes /\ ReaderTypes /\ ReleasesDelivered /\ PeersAdvance
    BY ReleaseStep, PeerStep DEF TypeInv, TypeOK
<1>1. \A r \in Cohorts : peer'[r] \in {"absent", "registered"} => LastReleasedTimestep'[r] = -1
    BY <1>0 DEF ReleasesDelivered, PeersAdvance, Unreleased, Left
<1>2. ASSUME pc'["main"] = "awaitReader", peer'[rdr'["main"]] = "live"
      PROVE  LastReleasedTimestep'[rdr'["main"]] = -1
    <2>1. PICK r \in Cohorts : r = rdr["main"]
        BY <1>2 DEF PlaceKept, TypeInv, Positioned
    <2>2. pc["main"] = "awaitReader" /\ rdr'["main"] = r /\ peer'[r] = "live"
        BY <1>2, <2>1 DEF PlaceKept
    <2>3. peer[r] \in {"live", "registered"}
        BY <1>0, <2>2 DEF PeersAdvance, Left
    <2>4. LastReleasedTimestep[r] = -1 /\ (peer[r] = "live" => delivered[r] = {})
        BY <2>1, <2>2, <2>3 DEF Unreleased, HeldInv, Unsent
    <2>5. LastReleasedTimestep'[r] = -1
        BY <1>0, <2>3, <2>4 DEF ReleasesDelivered
    <2>6. QED
        BY <2>2, <2>5
<1>3. ASSUME MainAt("queuedLoop")', peer'[rdr'["main"]] = "live"
      PROVE  LastReleasedTimestep'[rdr'["main"]] < idx'["main"]
    <2>1. MainAt("queuedLoop") /\ rdr'["main"] = rdr["main"] /\ idx'["main"] = idx["main"]
        BY <1>3 DEF PlaceKept, SendRets
    <2>2. PICK r \in Cohorts : r = rdr["main"]
        BY <2>1 DEF TypeInv, Positioned, MainAt, Threads
    <2>3. peer[r] = "live"
        <3>1. peer[r] = "live" \/ ReaderStatus[r] = "Opening"
            BY <1>3, <2>1, <2>2 DEF PlaceKept
        <3>2. pc["main"] # "awaitReader"
            BY <2>1 DEF MainAt, InCall, CallPcs
        <3>3. QED
            BY <3>1, <3>2 DEF LiveInv, Peers
    <2>4. LastReleasedTimestep[r] < idx["main"] /\ \A t \in delivered[r] : t < idx["main"]
        BY <2>1, <2>2, <2>3 DEF Unreleased, HeldInv, Unsent
    <2>5. LastReleasedTimestep'[r] < idx["main"]
        BY <1>0, <2>4 DEF ReleasesDelivered
    <2>6. QED
        BY <2>1, <2>2, <2>5
<1>4. QED
    BY <1>1, <1>2, <1>3 DEF Unreleased

(* So does handing steps out. *)
LEMMA DistributesUnreleased ==
    ASSUME TypeInv, RefInv, Unreleased, StepDistributionMode = "AllToAll", Distributes, UNCHANGED peer
    PROVE  Unreleased'
<1> USE DEF Threads, queueVars, streamVars, readerVars, linkVars, callVars, Goto
<1>0. ThreadTypes /\ ReaderTypes
    BY DEF TypeInv, TypeOK
<1>1. UNCHANGED LastReleasedTimestep
    BY DEF Distributes, CMwrite, SendQueued, SendQueuedDone, SendToAll, SendTimestepEntryToSingleReader,
        waitForReaderResponse, WriterParticipateInReaderOpen, ProvideTimestep, DeliverBegin,
        ProvideTimestepSent, ProvideTimestepDiscarded
<1>2. CASE \E ok \in BOOLEAN : CMwrite("main", ok)
    <2>1. pc["main"] = "write" /\ pc'["main"] \in {"written", "failed"} /\ UNCHANGED <<ret, rdr, idx>>
        BY <1>0, <1>2 DEF CMwrite, ThreadTypes
    <2>2. MainAt("queuedLoop")' => MainAt("queuedLoop")
        BY <2>1 DEF MainAt, InCall, CallPcs
    <2>3. QED
        BY <1>1, <2>1, <2>2 DEF Unreleased
<1>3. CASE SendQueued
    <2>1. PICK t \in QueuedForReader(rdr["main"]) :
              /\ Handout("main", rdr["main"], t, "queuedLoop") /\ idx["main"] <= t
              /\ idx' = [idx EXCEPT !["main"] = t + 1] /\ pc["main"] = "queuedLoop"
        BY <1>3, QueuedHandout
    <2>2. /\ pc'["main"] = "register" /\ rdr'["main"] = rdr["main"] /\ rdr["main"] \in Cohorts
          /\ idx'["main"] = t + 1 /\ t \in Int /\ idx["main"] \in Int
        BY <1>0, <2>1 DEF Handout, SendTimestepEntryToSingleReader, ThreadTypes, Steps
    <2>3. LastReleasedTimestep[rdr["main"]] \in Int
        BY <1>0, <2>2 DEF ReaderTypes, Steps
    <2>4. peer[rdr["main"]] = "live" => LastReleasedTimestep[rdr["main"]] < idx'["main"]
        BY <2>1, <2>2, <2>3 DEF Unreleased, MainAt
    <2>5. QED
        BY <1>1, <2>2, <2>4 DEF Unreleased
<1>4. CASE waitForReaderResponse /\ pc'["main"] = "queuedLoop"
    <2>1. /\ pc["main"] = "awaitReader" /\ UNCHANGED rdr /\ rdr["main"] \in Cohorts
          /\ idx'["main"] = StartingTimestep[rdr["main"]]
        BY <1>0, <1>4 DEF waitForReaderResponse, ThreadTypes, TypeInv, Positioned
    <2>2. idx'["main"] \in Nat
        BY <1>0, <2>1 DEF ReaderTypes
    <2>3. QED
        BY <1>1, <1>4, <2>1, <2>2 DEF Unreleased
<1>5. CASE WriterParticipateInReaderOpen
    <2> DEFINE r == Head(ReaderRegisterQueue)
    <2>1. r \in Cohorts /\ InQueue(r)
        BY <1>5 DEF TypeInv, TypeOK, StreamTypes, Admissions, WriterParticipateInReaderOpen, InQueue
    <2>2. peer[r] \in {"registered", "crashed"}
        BY <2>1 DEF RefInv, Admitted, ListedOnce
    <2>3. pc'["main"] = "awaitReader" /\ rdr'["main"] = r
        BY <1>0, <1>5 DEF WriterParticipateInReaderOpen, ThreadTypes
    <2> HIDE DEF r
    <2>4. ~MainAt("queuedLoop")' /\ peer'[rdr'["main"]] # "live"
        BY <2>2, <2>3 DEF MainAt, InCall, CallPcs
    <2>5. QED
        BY <1>1, <2>4 DEF Unreleased
<1>6. CASE \/ SendQueuedDone \/ SendToAll \/ ProvideTimestep \/ DeliverBegin
           \/ ProvideTimestepSent \/ ProvideTimestepDiscarded
    <2>1. /\ pc'["main"] \notin {"awaitReader", "queuedLoop"}
          /\ pc'["main"] \in CallPcs => ret'["main"] = "sendLoop"
        BY <1>0, <1>6 DEF SendQueuedDone, ReaderAdmitted, SendToAll, SendTimestepEntryToSingleReader,
            ProvideTimestep, DeliverBegin, ProvideTimestepSent, ProvideTimestepDiscarded, ThreadTypes, CallPcs
    <2>2. ~MainAt("queuedLoop")'
        BY <2>1 DEF MainAt, InCall
    <2>3. QED
        BY <1>1, <2>1, <2>2 DEF Unreleased
<1>7. QED
    BY <1>2, <1>3, <1>4, <1>5, <1>6 DEF Distributes

(* Every step keeps it. *)
LEMMA NextUnreleased ==
    ASSUME TypeInv, RefInv, LiveInv, HeldInv, Unreleased, StepDistributionMode = "AllToAll", [Next]_vars
    PROVE  Unreleased'
BY PlaceStep, PeerStep, QuietUnreleased, DistributesUnreleased

(* Nothing is released at first. *)
LEMMA InitUnreleased == Init => Unreleased
BY DEF Init, Unreleased, MainAt, InCall, CallPcs, Threads

-----------------------------------------------------------------------------
(* No step is missed *)

(* main has still to come to step t for reader r: it waits for the reader's *)
(* activation, walks the queue for it, has the step to distribute or is     *)
(* about to write it.                                                       *)
Coming(r, t) ==
    \/ pc["main"] = "awaitReader" /\ rdr["main"] = r
    \/ MainAt("queuedLoop") /\ rdr["main"] = r /\ idx["main"] <= t
    \/ t = WriterTimestep /\ Unserved
    \/ /\ t = WriterTimestep /\ MainAt("sendLoop")
       /\ \E i \in 1 .. Len(Readers) : i >= idx["main"] /\ Readers[i] = r
    \/ Sending("main") /\ rdr["main"] = r /\ step["main"] = t

(* The queued steps that a reader is to get, it got or main comes to. *)
Due(r) ==
    \A t \in QueuedTimesteps \ Emptied :
        (StartingTimestep[r] <= t /\ (t \notin Expired \/ t \in PreciousTimestep)) =>
            t \in received[r] \/ Coming(r, t)

(* What a reader got or is being sent. *)
Has(r) == received[r] \cup {t \in {step["main"]} : Sending("main") /\ rdr["main"] = r}

(* main comes to step t for reader r, and finds it: a step that the walk *)
(* over the queue has not come to yet has not expired.                   *)
Owed(r, t) ==
    /\ Coming(r, t)
    /\ (MainAt("queuedLoop") /\ rdr["main"] = r) =>
          t \in Has(r) \/ (t \in Fallow /\ idx["main"] <= t)

(* After the first step a reader got there is none that it neither got nor *)
(* is owed.                                                                *)
Gapless(r) ==
    \A t \in Has(r) : \A u \in (t .. WriterTimestep) \ Emptied :
        u \in received[r] \/ Owed(r, u)

(* What is known of a live reader: the part of the inductive invariant that *)
(* is about its steps.                                                      *)
Served(r) == peer[r] = "live" => Due(r) /\ (~FirstTimestepPrecious => Gapless(r))

(* The queue only loses steps. *)
Thins ==
    /\ QueuedTimesteps' \subseteq QueuedTimesteps
    /\ Fallow' \subseteq Fallow
    /\ PreciousTimestep' \subseteq PreciousTimestep
    /\ Emptied \subseteq Emptied'

(* When the queue only loses steps, the due ones stay so while main comes *)
(* to them.                                                               *)
LEMMA DueKept ==
    ASSUME NEW r \in Cohorts, Due(r), Thins, received[r] \subseteq received'[r],
           StartingTimestep'[r] = StartingTimestep[r],
           \A t \in QueuedTimesteps \ Emptied' :
               (Coming(r, t) /\ (t \in Fallow \/ t \in PreciousTimestep) /\ StartingTimestep[r] <= t) =>
                   t \in received'[r] \/ Coming(r, t)'
    PROVE  Due(r)'
<1>1. ASSUME NEW t \in QueuedTimesteps' \ Emptied', StartingTimestep'[r] <= t,
             t \notin Expired' \/ t \in PreciousTimestep'
      PROVE  t \in received'[r] \/ Coming(r, t)'
    <2>1. t \in QueuedTimesteps \ Emptied' /\ t \notin Emptied /\ StartingTimestep[r] <= t
        BY <1>1 DEF Thins
    <2>2. t \in Fallow \/ t \in PreciousTimestep
        BY <1>1 DEF Thins, Fallow
    <2>3. t \in received[r] \/ Coming(r, t)
        BY <2>1, <2>2 DEF Due, Fallow
    <2>4. QED
        BY <2>1, <2>2, <2>3
<1>2. QED
    BY <1>1 DEF Due

(* No gap appears while what is owed stays so. *)
LEMMA GaplessKept ==
    ASSUME NEW r \in Cohorts, Gapless(r), received[r] \subseteq received'[r], Emptied \subseteq Emptied',
           UNCHANGED WriterTimestep,
           \A t \in Has(r)' \ Has(r) : \A u \in (t .. WriterTimestep) \ Emptied' :
               u \in received'[r] \/ Owed(r, u)',
           \A u : (u <= WriterTimestep /\ u \notin Emptied' /\ Owed(r, u)) => u \in received'[r] \/ Owed(r, u)'
    PROVE  Gapless(r)'
<1>1. ASSUME NEW t \in Has(r)', NEW u \in (t .. WriterTimestep) \ Emptied'
      PROVE  u \in received'[r] \/ Owed(r, u)'
    <2>1. CASE t \notin Has(r)
        BY <1>1, <2>1
    <2>2. CASE t \in Has(r)
        <3>1. u \in received[r] \/ Owed(r, u)
            BY <1>1, <2>2 DEF Gapless
        <3>2. u <= WriterTimestep
            BY <1>1
        <3>3. QED
            BY <1>1, <3>1, <3>2
    <2>3. QED
        BY <2>1, <2>2
<1>2. QED
    BY <1>1 DEF Gapless

(* QueueMaintenance only takes steps from the queue. *)
LEMMA StreamThins ==
    ASSUME TypeInv, TypeOK', StreamQuiet \/ UntagPreciousTimesteps
    PROVE  Thins
<1>1. CASE StreamQuiet
    BY <1>1, MaintenanceFallow DEF StreamQuiet, QueueUntouched, Thins, Fallow
<1>2. CASE UntagPreciousTimesteps
    <2>1. /\ QueueMaintenance(Expired \cup (PreciousTimestep \cap QueuedTimesteps))
          /\ PreciousTimestep' = {} /\ Emptied' = Emptied
        BY <1>2 DEF UntagPreciousTimesteps, markVars
    <2>2. QED
        BY <2>1, MaintenanceFallow DEF Thins, Fallow
<1>3. QED
    BY <1>1, <1>2

(* A reader becomes live while main waits for its activation, before *)
(* anything is sent to it.                                           *)
LEMMA AdmittedServed ==
    ASSUME TypeInv, LiveInv, OrderInv, StepDistributionMode = "AllToAll", PlaceKept,
           NEW r \in Cohorts, peer[r] # "live", peer'[r] = "live"
    PROVE  Served(r)'
<1>1. ReaderStatus[r] = "Opening"
    BY DEF PlaceKept
<1>2. pc["main"] = "awaitReader" /\ rdr["main"] = r
    BY <1>1 DEF LiveInv, Peers
<1>3. pc'["main"] = "awaitReader" /\ rdr'["main"] = r
    BY <1>1, <1>2 DEF PlaceKept
<1>4. received'[r] = {}
    BY <1>2 DEF PlaceKept, OrderInv, Fresh
<1>5. ~Sending("main")' /\ ~MainAt("queuedLoop")'
    BY <1>3 DEF Sending, MainAt, InCall, CallPcs
<1>6. Has(r)' = {}
    BY <1>4, <1>5 DEF Has
<1>7. \A t : Coming(r, t)'
    BY <1>3 DEF Coming
<1>8. QED
    BY <1>6, <1>7 DEF Served, Due, Gapless

(* What hands no step out keeps what is known of a reader. *)
LEMMA QuietServed ==
    ASSUME TypeInv, TypeInv', LiveInv, LiveInv', OrderInv, Unreleased', StepDistributionMode = "AllToAll",
           PlaceKept, StreamQuiet \/ UntagPreciousTimesteps, NEW r \in Cohorts, Served(r)
    PROVE  Served(r)'
<1>1. CASE peer'[r] # "live"
    BY <1>1 DEF Served
<1>2. CASE peer[r] # "live" /\ peer'[r] = "live"
    BY <1>2, AdmittedServed
<1>3. CASE peer[r] = "live" /\ peer'[r] = "live"
    <2>0. Thins /\ Due(r) /\ TypeOK'
        BY <1>3, StreamThins DEF Served, TypeInv
    <2>1. ReaderStatus[r] = "Established" /\ ReaderStatus'[r] = "Established"
        BY <1>3 DEF LiveInv, Peers
    <2>2. (Sending("main") /\ rdr["main"] = r) =>
              Sending("main")' /\ rdr'["main"] = r /\ step'["main"] = step["main"]
        <3>1. Sending("main") => Status # "Destroyed"
            BY DEF TypeInv, Admissions, Sending
        <3>2. Sending("main") => Sendable(r)
            BY <1>3, <2>1, <3>1 DEF LiveInv, Peers, Sendable
        <3>3. QED
            BY <3>2 DEF PlaceKept
    <2>3. /\ MainAt("queuedLoop")' <=> MainAt("queuedLoop")
          /\ MainAt("sendLoop")' <=> MainAt("sendLoop")
          /\ UNCHANGED <<WriterTimestep, received, StartingTimestep, Emptied>>
        BY DEF PlaceKept, SendRets, stepVars
    <2>4. ASSUME NEW t, Coming(r, t) PROVE Coming(r, t)'
        BY <2>1, <2>2, <2>3, <2>4 DEF Coming, PlaceKept
    <2>5. Due(r)'
        BY <2>0, <2>3, <2>4, DueKept
    <2>6. ASSUME NEW u, Owed(r, u) PROVE u \in received'[r] \/ Owed(r, u)'
        <3>1. Coming(r, u)'
            BY <2>4, <2>6 DEF Owed
        <3>2. CASE ~(MainAt("queuedLoop")' /\ rdr'["main"] = r)
            BY <3>1, <3>2 DEF Owed
        <3>3. CASE MainAt("queuedLoop")' /\ rdr'["main"] = r
            <4>1. MainAt("queuedLoop") /\ rdr["main"] = r /\ idx'["main"] = idx["main"]
                BY <2>3, <3>3 DEF PlaceKept
            <4>2. u \in Has(r) => u \in received'[r] \/ u \in Has(r)'
                BY <2>2, <2>3 DEF Has
            <4>3. ASSUME u \in Fallow, idx["main"] <= u PROVE u \in Fallow'
                <5>1. ~UntagPreciousTimesteps
                    BY <4>1 DEF UntagPreciousTimesteps, MainAt, InCall, CallPcs
                <5>2. LastReleasedTimestep'[r] < idx["main"]
                    BY <1>3, <3>3, <4>1 DEF Unreleased
                <5>3. LastReleasedTimestep'[r] < u
                    <6>1. LastReleasedTimestep'[r] \in Int /\ idx["main"] \in Int /\ u \in Int
                        BY <2>0, <4>3 DEF TypeInv, TypeOK, ReaderTypes, ThreadTypes, QueueTypes, Threads, Steps, Fallow
                    <6>2. QED
                        BY <4>3, <5>2, <6>1
                <5>4. CASE UNCHANGED <<QueuedTimesteps, Expired>>
                    BY <4>3, <5>4 DEF Fallow
                <5>5. CASE QueueMaintenance(Expired)
                    BY <2>0, <2>1, <4>3, <5>3, <5>5, MaintenanceSpares DEF Fallow
                <5>6. QED
                    BY <5>1, <5>4, <5>5 DEF StreamQuiet, QueueUntouched
            <4>4. u \in Has(r) \/ (u \in Fallow /\ idx["main"] <= u)
                BY <2>6, <4>1 DEF Owed
            <4>5. QED
                BY <3>1, <4>1, <4>2, <4>3, <4>4 DEF Owed
        <3>4. QED
            BY <3>2, <3>3
    <2>7. Has(r)' \subseteq Has(r)
        BY <2>3 DEF Has, PlaceKept
    <2>8. ASSUME ~FirstTimestepPrecious PROVE Gapless(r)'
        <3>1. Gapless(r)
            BY <1>3, <2>8 DEF Served
        <3>2. QED
            BY <2>3, <2>6, <2>7, <3>1, GaplessKept
    <2>9. QED
        BY <2>5, <2>8 DEF Served
<1>4. QED
    BY <1>1, <1>2, <1>3

(* The walk over the queue passes no step by: all were provided. *)
LEMMA QueuedIsProvided ==
    ASSUME TypeInv, RefInv, Contiguous
    PROVE  \A t \in QueuedTimesteps : t <= LastProvidedTimestep
<1> TAKE t \in QueuedTimesteps
<1>1. t \in Int /\ t >= 0 /\ WriterTimestep \in Int
    BY DEF TypeInv, TypeOK, QueueTypes, StreamTypes, Steps
<1>2. t <= WriterTimestep
    BY DEF RefInv, Counted, QueueInOrder
<1>3. WriterTimestep >= 0
    BY <1>1, <1>2
<1>4. QED
    BY <1>2, <1>3 DEF Contiguous

(* A write that succeeds adds the step to those that the reader got, and *)
(* one that fails finds it gone.                                         *)
LEMMA WriteServed ==
    ASSUME TypeInv, NEW r \in Cohorts, Served(r), NEW ok \in BOOLEAN, CMwrite("main", ok)
    PROVE  Served(r)'
<1> USE DEF Threads, queueVars, streamVars, readerVars, linkVars, callVars, stepVars, listVars, markVars
<1>0. ThreadTypes /\ PeerTypes /\ rdr["main"] \in Cohorts
    BY DEF TypeInv, TypeOK, CMwrite, Positioned, InCall, CallPcs
<1>1. /\ pc["main"] = "write" /\ pc'["main"] \in {"written", "failed"}
      /\ UNCHANGED <<StartingTimestep, WriterTimestep, rdr, step, idx, ret, Readers, peer,
                     QueuedTimesteps, Expired, PreciousTimestep, Emptied>>
    BY <1>0 DEF CMwrite, Goto, ThreadTypes
<1>2. CASE peer[r] # "live"
    BY <1>1, <1>2 DEF Served
<1>3. CASE peer[r] = "live"
    <2>1. received[r] \subseteq received'[r]
        BY <1>0 DEF CMwrite, PeerTypes
    <2>2. (Sending("main") /\ rdr["main"] = r) => step["main"] \in received'[r]
        BY <1>0, <1>3 DEF CMwrite, PeerTypes, Sending
    <2>3. Has(r)' = received'[r] /\ Has(r) \subseteq received'[r] /\ received'[r] \subseteq Has(r)
        <3>1. ~Sending("main")'
            BY <1>1 DEF Sending
        <3>2. received'[r] \subseteq Has(r)
            BY <1>0, <1>1 DEF CMwrite, PeerTypes, Has, Sending
        <3>3. QED
            BY <2>1, <2>2, <3>1, <3>2 DEF Has
    <2>4. \A l \in DerefRets : MainAt(l)' <=> MainAt(l)
        BY <1>1 DEF MainAt, InCall, CallPcs, DerefRets, WriteRets, SendRets
    <2>5. Unserved' <=> Unserved
        BY <1>1, <2>4 DEF Unserved, DerefRets, WriteRets
    <2>6. ASSUME NEW t, Coming(r, t) PROVE t \in received'[r] \/ Coming(r, t)'
        BY <1>1, <2>2, <2>4, <2>5, <2>6 DEF Coming, DerefRets, WriteRets, SendRets
    <2>7. Due(r)'
        BY <1>1, <1>3, <2>1, <2>6, DueKept DEF Served, Thins, Fallow
    <2>8. ASSUME NEW u, Owed(r, u) PROVE u \in received'[r] \/ Owed(r, u)'
        BY <1>1, <2>3, <2>4, <2>6, <2>8 DEF Owed, Fallow, DerefRets, WriteRets, SendRets
    <2>9. ASSUME ~FirstTimestepPrecious PROVE Gapless(r)'
        BY <1>1, <1>3, <2>1, <2>3, <2>8, <2>9, GaplessKept DEF Served
    <2>10. QED
        BY <2>7, <2>9 DEF Served
<1>4. QED
    BY <1>2, <1>3

(* The walk over the queue sends the oldest step it has not come to, and so *)
(* leaves none out that has not expired.                                    *)
LEMMA WalkServed ==
    ASSUME TypeInv, RefInv, LiveInv, Contiguous, NEW r \in Cohorts, Served(r), SendQueued
    PROVE  Served(r)'
<1> USE DEF Threads, openVars, stepVars, markVars
<1>0. ThreadTypes /\ ReaderTypes /\ QueueTypes /\ StreamTypes
    BY DEF TypeInv, TypeOK
<1>1. PICK n \in QueuedForReader(rdr["main"]) :
              /\ Handout("main", rdr["main"], n, "queuedLoop")
              /\ \A u \in QueuedForReader(rdr["main"]) : n <= u
              /\ idx["main"] <= n
              /\ idx' = [idx EXCEPT !["main"] = n + 1] /\ pc["main"] = "queuedLoop"
    BY QueuedHandout
<1>2. /\ pc'["main"] = "register" /\ ret'["main"] = "queuedLoop" /\ rdr'["main"] = rdr["main"]
      /\ step'["main"] = n /\ idx'["main"] = n + 1 /\ n \in Int /\ n \in QueuedTimesteps
      /\ UNCHANGED <<StartingTimestep, WriterTimestep, received, peer,
                     QueuedTimesteps, Expired, PreciousTimestep, Emptied>>
    BY <1>0, <1>1 DEF Handout, SendTimestepEntryToSingleReader, Goto, ThreadTypes, Steps
<1>3. /\ MainAt("queuedLoop") /\ MainAt("queuedLoop")' /\ ~Sending("main") /\ Sending("main")'
      /\ ~Unserved /\ ~MainAt("sendLoop")
    BY <1>1, <1>2 DEF MainAt, InCall, CallPcs, Sending, MetadataSends, Unserved
<1>4. CASE peer[r] # "live"
    BY <1>2, <1>4 DEF Served
<1>5. CASE peer[r] = "live"
    <2>1. \A t : Coming(r, t) => rdr["main"] = r /\ idx["main"] <= t
        BY <1>1, <1>3 DEF Coming
    <2>2. Coming(r, n)' \/ rdr["main"] # r
        BY <1>2, <1>3 DEF Coming
    <2>3. ASSUME rdr["main"] = r, NEW t \in QueuedTimesteps, idx["main"] <= t, t \in Fallow \/ t \in PreciousTimestep
          PROVE  n <= t
        <3>1. t <= LastProvidedTimestep
            BY QueuedIsProvided
        <3>2. ReaderStatus[r] = "Established"
            BY <1>5 DEF LiveInv, Peers
        <3>3. t \in QueuedForReader(rdr["main"])
            BY <2>3, <3>1, <3>2 DEF QueuedForReader, Fallow
        <3>4. QED
            BY <1>1, <3>3
    <2>4. ASSUME rdr["main"] = r, NEW t \in QueuedTimesteps, n <= t PROVE Coming(r, t)'
        <3>1. t \in Int
            BY <1>0 DEF QueueTypes, Steps
        <3>2. t = n \/ n + 1 <= t
            BY <1>2, <2>4, <3>1
        <3>3. QED
            BY <1>2, <1>3, <2>2, <2>4, <3>2 DEF Coming
    <2>5. Due(r)'
        BY <1>2, <1>5, <2>1, <2>3, <2>4, DueKept DEF Served, Thins, Fallow
    <2>6. Has(r)' = Has(r) \cup {t \in {n} : rdr["main"] = r} /\ Has(r) = received[r]
        BY <1>2, <1>3 DEF Has
    <2>7. ASSUME rdr["main"] = r, NEW u \in Fallow, n <= u PROVE Owed(r, u)'
        <3>1. u \in QueuedTimesteps /\ u \in Int
            BY <1>0 DEF Fallow, QueueTypes, Steps
        <3>2. Coming(r, u)'
            BY <2>4, <2>7, <3>1
        <3>3. u = n \/ n + 1 <= u
            BY <1>2, <2>7, <3>1
        <3>4. u \in Fallow' /\ n \in Has(r)'
            BY <1>2, <2>6, <2>7 DEF Fallow
        <3>5. QED
            BY <1>2, <3>2, <3>3, <3>4 DEF Owed
    <2>8. ASSUME ~FirstTimestepPrecious PROVE Gapless(r)'
        <3>1. ASSUME NEW t \in Has(r)' \ Has(r), NEW u \in (t .. WriterTimestep) \ Emptied'
              PROVE  u \in received'[r] \/ Owed(r, u)'
            <4>1. t = n /\ rdr["main"] = r
                BY <2>6
            <4>2. n \in Fallow
                BY <1>1, <2>8 DEF QueuedForReader, Contiguous, Fallow
            <4>3. u \in Fallow /\ n <= u
                BY <1>2, <2>8, <4>1, <4>2 DEF Contiguous
            <4>4. QED
                BY <2>7, <4>1, <4>3
        <3>2. ASSUME NEW u, Owed(r, u) PROVE u \in received'[r] \/ Owed(r, u)'
            <4>1. rdr["main"] = r
                BY <2>1, <3>2 DEF Owed
            <4>2. CASE u \in received[r]
                BY <1>2, <4>2
            <4>3. CASE u \in Fallow /\ idx["main"] <= u
                BY <2>3, <2>7, <4>1, <4>3 DEF Fallow
            <4>4. QED
                BY <1>3, <2>6, <3>2, <4>1, <4>2, <4>3 DEF Owed
        <3>3. Gapless(r)
            BY <1>5, <2>8 DEF Served
        <3>4. QED
            BY <1>2, <3>1, <3>2, <3>3, GaplessKept
    <2>9. QED
        BY <2>5, <2>8 DEF Served
<1>6. QED
    BY <1>4, <1>5

(* It ends when there is nothing left to send. *)
LEMMA WalkEndServed ==
    ASSUME TypeInv, RefInv, LiveInv, Contiguous, NEW r \in Cohorts, Served(r), SendQueuedDone
    PROVE  Served(r)'
<1> USE DEF Threads, queueVars, streamVars, readerVars, linkVars, stepVars, markVars, peerVars
<1>0. ThreadTypes /\ QueueTypes /\ StreamTypes
    BY DEF TypeInv, TypeOK
<1>1. /\ pc["main"] = "queuedLoop" /\ pc'["main"] \in {"pending", "rendezvous"}
      /\ QueuedForReader(rdr["main"]) = {}
      /\ UNCHANGED <<StartingTimestep, WriterTimestep, received, peer,
                     QueuedTimesteps, Expired, PreciousTimestep, Emptied>>
    BY <1>0 DEF SendQueuedDone, ReaderAdmitted, Goto, ThreadTypes
<1>2. /\ MainAt("queuedLoop") /\ ~Sending("main") /\ ~Sending("main")'
      /\ ~Unserved /\ ~MainAt("sendLoop")
    BY <1>1 DEF MainAt, InCall, CallPcs, Sending, Unserved
<1>3. ASSUME peer[r] = "live", NEW t \in QueuedTimesteps, t \in Fallow \/ t \in PreciousTimestep
      PROVE  ~(rdr["main"] = r /\ idx["main"] <= t)
    <2>1. t <= LastProvidedTimestep
        BY QueuedIsProvided
    <2>2. ReaderStatus[r] = "Established"
        BY <1>3 DEF LiveInv, Peers
    <2>3. (rdr["main"] = r /\ idx["main"] <= t) => t \in QueuedForReader(rdr["main"])
        BY <1>3, <2>1, <2>2 DEF QueuedForReader, Fallow
    <2>4. QED
        BY <1>1, <2>3
<1>4. \A t : Coming(r, t) => rdr["main"] = r /\ idx["main"] <= t
    BY <1>1, <1>2 DEF Coming
<1>5. CASE peer[r] # "live"
    BY <1>1, <1>5 DEF Served
<1>6. CASE peer[r] = "live"
    <2>1. Due(r)'
        BY <1>1, <1>3, <1>4, <1>6, DueKept DEF Served, Thins, Fallow
    <2>2. Has(r)' = received[r] /\ Has(r) = received[r]
        BY <1>1, <1>2 DEF Has
    <2>3. ASSUME NEW u, Owed(r, u) PROVE u \in received'[r]
        BY <1>1, <1>2, <1>3, <1>4, <1>6, <2>2, <2>3 DEF Owed, Fallow
    <2>4. ASSUME ~FirstTimestepPrecious PROVE Gapless(r)'
        BY <1>1, <1>6, <2>2, <2>3, <2>4, GaplessKept DEF Served
    <2>5. QED
        BY <2>1, <2>4 DEF Served
<1>7. QED
    BY <1>5, <1>6

(* So does QueueMaintenance called from the rest of the writer. *)
LEMMA MaintenanceThins ==
    ASSUME TypeInv, TypeOK', NEW exp, Expired \subseteq exp, QueueMaintenance(exp),
           UNCHANGED <<PreciousTimestep, Emptied>>
    PROVE  Thins
BY MaintenanceFallow DEF Thins, Fallow

(* It begins with the step that the reader was told to start with. *)
LEMMA WalkBeginServed ==
    ASSUME TypeInv, OrderInv, StepDistributionMode = "AllToAll", NEW r \in Cohorts, Served(r),
           waitForReaderResponse, pc'["main"] = "queuedLoop"
    PROVE  Served(r)'
<1> USE DEF Threads, queueVars, streamVars, readerVars, linkVars, stepVars, markVars, peerVars, callVars
<1>0. ThreadTypes
    BY DEF TypeInv, TypeOK
<1>1. /\ pc["main"] = "awaitReader" /\ idx'["main"] = StartingTimestep[rdr["main"]]
      /\ UNCHANGED <<StartingTimestep, WriterTimestep, received, peer, rdr,
                     QueuedTimesteps, Expired, PreciousTimestep, Emptied>>
    BY <1>0 DEF waitForReaderResponse, Goto, ThreadTypes
<1>2. /\ ~MainAt("queuedLoop") /\ MainAt("queuedLoop")' /\ ~Sending("main") /\ ~Sending("main")'
      /\ ~Unserved /\ ~MainAt("sendLoop")
    BY <1>1 DEF MainAt, InCall, CallPcs, Sending, Unserved
<1>3. \A t : Coming(r, t) => rdr["main"] = r
    BY <1>1, <1>2 DEF Coming
<1>4. CASE peer[r] # "live"
    BY <1>1, <1>4 DEF Served
<1>5. CASE peer[r] = "live"
    <2>1. \A t : (rdr["main"] = r /\ StartingTimestep[r] <= t) => Coming(r, t)'
        BY <1>1, <1>2 DEF Coming
    <2>2. Due(r)'
        BY <1>1, <1>3, <1>5, <2>1, DueKept DEF Served, Thins, Fallow
    <2>3. Has(r)' = received[r] /\ Has(r) = received[r]
        BY <1>1, <1>2 DEF Has
    <2>4. CASE rdr["main"] = r
        <3>1. received[r] = {}
            BY <1>1, <2>4 DEF OrderInv, Fresh
        <3>2. QED
            BY <2>2, <2>3, <3>1 DEF Served, Gapless
    <2>5. CASE rdr["main"] # r
        <3>1. ~FirstTimestepPrecious => Gapless(r)'
            BY <1>1, <1>3, <1>5, <2>3, <2>5, GaplessKept DEF Served, Owed
        <3>2. QED
            BY <2>2, <3>1 DEF Served
    <2>6. QED
        BY <2>4, <2>5
<1>6. QED
    BY <1>4, <1>5

(* The loop over the readers passes by only those that are not established. *)
LEMMA SendServed ==
    ASSUME TypeInv, RefInv, LiveInv, NEW r \in Cohorts, Served(r), SendToAll
    PROVE  Served(r)'
<1> USE DEF Threads, openVars, stepVars, markVars
<1> DEFINE i == NextReader("main", EstablishedReaders)
<1>0. /\ ThreadTypes /\ StreamTypes /\ pc["main"] = "sendLoop" /\ i # 0
      /\ idx["main"] \in Int /\ idx["main"] >= 1 /\ Readers \in Seq(Cohorts)
    BY DEF TypeInv, TypeOK, StreamTypes, ThreadTypes, Positioned, MainAt, SendToAll
<1>1. /\ i \in idx["main"] .. Len(Readers) /\ Readers[i] \in EstablishedReaders
      /\ \A j \in idx["main"] .. Len(Readers) : Readers[j] \in EstablishedReaders => i <= j
    BY <1>0, NextReaderIsReader, NextReaderIsFirst
<1> HIDE DEF i
<1>2. step["main"] = WriterTimestep
    BY <1>0 DEF TypeInv, Serving, MainAt
<1>3. /\ pc'["main"] = "register" /\ ret'["main"] = "sendLoop" /\ rdr'["main"] = Readers[i]
      /\ step'["main"] = WriterTimestep /\ idx'["main"] = i + 1
      /\ UNCHANGED <<StartingTimestep, WriterTimestep, received, peer, Readers,
                     QueuedTimesteps, Expired, PreciousTimestep, Emptied>>
    BY <1>0, <1>2 DEF SendToAll, SendTimestepEntryToSingleReader, Goto, ThreadTypes, i
<1>4. /\ MainAt("sendLoop") /\ MainAt("sendLoop")' /\ ~Sending("main") /\ Sending("main")'
      /\ ~Unserved /\ ~MainAt("queuedLoop") /\ ~MainAt("queuedLoop")'
    BY <1>0, <1>3 DEF MainAt, InCall, CallPcs, Sending, MetadataSends, Unserved
<1>5. CASE peer[r] # "live"
    BY <1>3, <1>5 DEF Served
<1>6. CASE peer[r] = "live"
    <2>1. ASSUME NEW t, Coming(r, t) PROVE Coming(r, t)'
        <3>1. t = WriterTimestep /\ \E j \in 1 .. Len(Readers) : j >= idx["main"] /\ Readers[j] = r
            BY <1>0, <1>4, <2>1 DEF Coming
        <3>2. PICK j \in 1 .. Len(Readers) : j >= idx["main"] /\ Readers[j] = r
            BY <3>1
        <3>3. r \in EstablishedReaders
            BY <1>6 DEF LiveInv, Peers, EstablishedReaders, IsEstablished
        <3>4. i \in Int /\ i <= j /\ (i = j \/ j >= i + 1)
            BY <1>0, <1>1, <3>2, <3>3
        <3>5. CASE i = j
            BY <1>3, <1>4, <3>1, <3>2, <3>5 DEF Coming
        <3>6. CASE j >= i + 1
            BY <1>3, <1>4, <3>1, <3>2, <3>6 DEF Coming
        <3>7. QED
            BY <3>4, <3>5, <3>6
    <2>2. Due(r)'
        BY <1>3, <1>6, <2>1, DueKept DEF Served, Thins, Fallow
    <2>3. ASSUME NEW u, Owed(r, u) PROVE Owed(r, u)'
        BY <1>4, <2>1, <2>3 DEF Owed
    <2>4. Has(r)' = Has(r) \cup {t \in {WriterTimestep} : rdr'["main"] = r} /\ Has(r) = received[r]
        BY <1>3, <1>4 DEF Has
    <2>5. ASSUME NEW t \in Has(r)' \ Has(r), NEW u \in t .. WriterTimestep PROVE Owed(r, u)'
        <3>1. t = WriterTimestep /\ rdr'["main"] = r
            BY <2>4
        <3>2. u = WriterTimestep
            BY <1>0, <3>1 DEF StreamTypes, Steps
        <3>3. QED
            BY <1>3, <1>4, <3>1, <3>2 DEF Owed, Coming
    <2>6. ASSUME ~FirstTimestepPrecious PROVE Gapless(r)'
        BY <1>3, <1>6, <2>3, <2>5, <2>6, GaplessKept DEF Served
    <2>7. QED
        BY <2>2, <2>6 DEF Served
<1>7. QED
    BY <1>5, <1>6

(* It ends when no established reader is left. *)
LEMMA SentServed ==
    ASSUME TypeInv, TypeOK', LiveInv, StepDistributionMode = "AllToAll", NEW r \in Cohorts, Served(r),
           ProvideTimestepSent
    PROVE  Served(r)'
<1> USE DEF Threads, streamVars, readerVars, linkVars, stepVars, peerVars
<1>0. /\ ThreadTypes /\ pc["main"] = "sendLoop"
      /\ idx["main"] \in Int /\ idx["main"] >= 1 /\ Readers \in Seq(Cohorts)
    BY DEF TypeInv, TypeOK, StreamTypes, ThreadTypes, Positioned, MainAt, ProvideTimestepSent
<1>1. \A j \in idx["main"] .. Len(Readers) : Readers[j] \notin EstablishedReaders
    BY <1>0, NextReaderIsReader DEF ProvideTimestepSent
<1>2. /\ pc'["main"] = "pending" /\ QueueMaintenance(Expired)
      /\ UNCHANGED <<StartingTimestep, WriterTimestep, received, peer, PreciousTimestep, Emptied>>
    BY <1>0 DEF ProvideTimestepSent, Goto, ThreadTypes
<1>3. ~Sending("main") /\ ~Sending("main")' /\ ~Unserved /\ ~MainAt("queuedLoop")
    BY <1>0, <1>2 DEF MainAt, InCall, CallPcs, Sending, Unserved
<1>4. CASE peer[r] # "live"
    BY <1>2, <1>4 DEF Served
<1>5. CASE peer[r] = "live"
    <2>1. r \in EstablishedReaders
        BY <1>5 DEF LiveInv, Peers, EstablishedReaders, IsEstablished
    <2>2. \A t : ~Coming(r, t)
        BY <1>0, <1>1, <1>3, <2>1 DEF Coming
    <2>3. Thins
        BY <1>2, MaintenanceThins
    <2>4. Due(r)'
        BY <1>2, <1>5, <2>2, <2>3, DueKept DEF Served
    <2>5. Has(r)' = received[r] /\ Has(r) = received[r]
        BY <1>2, <1>3 DEF Has
    <2>6. ASSUME ~FirstTimestepPrecious PROVE Gapless(r)'
        BY <1>2, <1>5, <2>2, <2>5, <2>6, GaplessKept DEF Served, Owed
    <2>7. QED
        BY <2>4, <2>6 DEF Served
<1>6. QED
    BY <1>4, <1>5

(* A new step is main's to hand to every reader. *)
LEMMA ProvideServed ==
    ASSUME TypeInv, RefInv, HeldInv, NEW r \in Cohorts, Served(r), ProvideTimestep
    PROVE  Served(r)'
<1> USE DEF Threads, readerVars, linkVars, peerVars
<1>0. ThreadTypes /\ WriterTimestep \in Int
    BY DEF TypeInv, TypeOK, StreamTypes, Steps
<1>1. /\ pc["main"] = "app" /\ pc'["main"] = "decide" /\ WriterTimestep' = WriterTimestep + 1
      /\ QueuedTimesteps' = QueuedTimesteps \cup {WriterTimestep + 1}
      /\ PreciousTimestep' \subseteq PreciousTimestep \cup {WriterTimestep + 1}
      /\ UNCHANGED <<StartingTimestep, received, peer, Expired, Emptied>>
    BY <1>0 DEF ProvideTimestep, Goto, ThreadTypes
<1>2. /\ ~Sending("main") /\ ~Sending("main")' /\ ~Unserved /\ Unserved' /\ ~MainAt("queuedLoop")
      /\ ~MainAt("queuedLoop")' /\ ~MainAt("sendLoop")
    BY <1>1 DEF MainAt, InCall, CallPcs, Sending, Unserved
<1>3. \A t : ~Coming(r, t)
    BY <1>1, <1>2 DEF Coming
<1>n. PICK n : n = WriterTimestep + 1
    OBVIOUS
<1>4. Coming(r, n)'
    BY <1>1, <1>2, <1>n DEF Coming
<1>5. ASSUME peer[r] = "live" PROVE Due(r)'
    <2>1. ASSUME NEW t \in QueuedTimesteps \ Emptied, t # n, StartingTimestep[r] <= t,
                 t \notin Expired \/ t \in PreciousTimestep'
          PROVE  t \in received[r]
        BY <1>1, <1>n, <1>3, <1>5, <2>1 DEF Served, Due
    <2>2. QED
        BY <1>1, <1>4, <1>n, <2>1 DEF Due
<1>6. ASSUME peer[r] = "live", ~FirstTimestepPrecious PROVE Gapless(r)'
    <2>1. Has(r)' = received[r] /\ Has(r) = received[r]
        BY <1>1, <1>2 DEF Has
    <2>2. ASSUME NEW t \in received[r], NEW u \in (t .. n) \ Emptied
          PROVE  u \in received[r] \/ Owed(r, u)'
        <3>1. t \in Int
            BY DEF TypeInv, TypeOK, PeerTypes, Steps
        <3>2. u = n \/ u \in t .. WriterTimestep
            BY <1>0, <1>n, <2>2, <3>1
        <3>3. CASE u = n
            BY <1>2, <1>4, <3>3 DEF Owed
        <3>4. CASE u \in t .. WriterTimestep
            BY <1>3, <1>6, <2>1, <2>2, <3>4 DEF Served, Gapless, Owed
        <3>5. QED
            BY <3>2, <3>3, <3>4
    <2>3. QED
        BY <1>1, <1>n, <2>1, <2>2 DEF Gapless
<1>7. QED
    BY <1>1, <1>5, <1>6 DEF Served

(* The loop starts with the first reader of the list, so it comes to each *)
(* live one.                                                              *)
LEMMA DeliverServed ==
    ASSUME TypeInv, LiveInv, NEW r \in Cohorts, Served(r), DeliverBegin
    PROVE  Served(r)'
<1> USE DEF Threads, readerVars, linkVars, streamVars, stepVars, listVars, peerVars
<1>0. ThreadTypes
    BY DEF TypeInv, TypeOK
<1>1. /\ pc["main"] = "deliver" /\ pc'["main"] \in {"discardLoop", "sendLoop"} /\ idx'["main"] = 1
      /\ Emptied \subseteq Emptied'
      /\ UNCHANGED <<StartingTimestep, WriterTimestep, received, peer, Readers, QueuedTimesteps, Expired,
                     PreciousTimestep>>
    BY <1>0 DEF DeliverBegin, Goto, ThreadTypes
<1>2. /\ ~Sending("main") /\ ~Sending("main")' /\ ~MainAt("queuedLoop") /\ ~MainAt("queuedLoop")'
      /\ ~MainAt("sendLoop") /\ (Unserved' \/ MainAt("sendLoop")')
    BY <1>1 DEF MainAt, InCall, CallPcs, Sending, Unserved
<1>3. CASE peer[r] # "live"
    BY <1>1, <1>3 DEF Served
<1>4. CASE peer[r] = "live"
    <2>1. \E j \in 1 .. Len(Readers) : Readers[j] = r
        BY <1>1, <1>4 DEF LiveInv, Peers, InReaders, TypeInv, Admissions
    <2>2. \A j \in 1 .. Len(Readers) : j >= idx'["main"]
        BY <1>1
    <2>3. ASSUME NEW t, Coming(r, t) PROVE Coming(r, t)'
        <3>1. t = WriterTimestep
            BY <1>1, <1>2, <2>3 DEF Coming
        <3>2. QED
            BY <1>1, <1>2, <2>1, <2>2, <3>1 DEF Coming
    <2>4. Due(r)'
        BY <1>1, <1>4, <2>3, DueKept DEF Served, Thins, Fallow
    <2>5. Has(r)' = received[r] /\ Has(r) = received[r]
        BY <1>1, <1>2 DEF Has
    <2>6. ASSUME ~FirstTimestepPrecious PROVE Gapless(r)'
        BY <1>1, <1>2, <1>4, <2>3, <2>5, <2>6, GaplessKept DEF Served, Owed
    <2>7. QED
        BY <2>4, <2>6 DEF Served
<1>5. QED
    BY <1>3, <1>4

(* A discarded step is owed to none. *)
LEMMA DiscardServed ==
    ASSUME TypeInv, TypeOK', HeldInv, NEW r \in Cohorts, Served(r), ProvideTimestepDiscarded
    PROVE  Served(r)'
<1> USE DEF Threads, readerVars, linkVars, streamVars, stepVars, markVars, peerVars
<1>0. ThreadTypes
    BY DEF TypeInv, TypeOK
<1>1. /\ pc["main"] = "discardLoop" /\ pc'["main"] = "pending"
      /\ QueueMaintenance(Expired \cup {step["main"]})
      /\ UNCHANGED <<StartingTimestep, WriterTimestep, received, peer, PreciousTimestep, Emptied>>
    BY <1>0 DEF ProvideTimestepDiscarded, Goto, ThreadTypes
<1>2. ~Sending("main") /\ ~Sending("main")' /\ ~MainAt("queuedLoop") /\ ~MainAt("sendLoop")
    BY <1>1 DEF MainAt, InCall, CallPcs, Sending
<1>3. WriterTimestep \in Emptied
    BY <1>1 DEF HeldInv, Discards, Discarding, Providing, MainAt
<1>4. \A t : Coming(r, t) => t \in Emptied
    BY <1>1, <1>2, <1>3 DEF Coming
<1>5. Thins
    BY <1>1, MaintenanceThins
<1>6. CASE peer[r] # "live"
    BY <1>1, <1>6 DEF Served
<1>7. CASE peer[r] = "live"
    <2>1. Due(r)'
        BY <1>1, <1>4, <1>5, <1>7, DueKept DEF Served
    <2>2. Has(r)' = received[r] /\ Has(r) = received[r]
        BY <1>1, <1>2 DEF Has
    <2>3. ASSUME ~FirstTimestepPrecious PROVE Gapless(r)'
        BY <1>1, <1>4, <1>7, <2>2, <2>3, GaplessKept DEF Served, Owed
    <2>4. QED
        BY <2>1, <2>3 DEF Served
<1>8. QED
    BY <1>6, <1>7

(* The reader being admitted is not live yet. *)
LEMMA AdmitServed ==
    ASSUME TypeInv, RefInv, NEW r \in Cohorts, Served(r), WriterParticipateInReaderOpen
    PROVE  Served(r)'
<1> USE DEF Threads, queueVars, streamVars, stepVars, markVars, peerVars
<1> DEFINE h == Head(ReaderRegisterQueue)
<1>0. ThreadTypes /\ ReaderTypes
    BY DEF TypeInv, TypeOK
<1>1. h \in Cohorts /\ InQueue(h)
    BY DEF TypeInv, TypeOK, StreamTypes, Admissions, WriterParticipateInReaderOpen, InQueue
<1>2. peer[h] # "live"
    BY <1>1 DEF RefInv, Admitted, ListedOnce
<1>3. /\ pc["main"] = "participate" /\ pc'["main"] = "awaitReader"
      /\ UNCHANGED <<WriterTimestep, received, peer, QueuedTimesteps, Expired, PreciousTimestep, Emptied>>
      /\ \A q \in Cohorts \ {h} : StartingTimestep'[q] = StartingTimestep[q]
    BY <1>0 DEF WriterParticipateInReaderOpen, Goto, ThreadTypes, ReaderTypes
<1> HIDE DEF h
<1>4. /\ ~Sending("main") /\ ~Sending("main")' /\ ~MainAt("queuedLoop") /\ ~MainAt("sendLoop") /\ ~Unserved
    BY <1>3 DEF MainAt, InCall, CallPcs, Sending, Unserved
<1>5. \A t : ~Coming(r, t)
    BY <1>3, <1>4 DEF Coming
<1>6. CASE peer[r] # "live"
    BY <1>3, <1>6 DEF Served
<1>7. CASE peer[r] = "live"
    <2>1. StartingTimestep'[r] = StartingTimestep[r]
        BY <1>2, <1>3, <1>7
    <2>2. Due(r)'
        BY <1>3, <1>5, <1>7, <2>1, DueKept DEF Served, Thins, Fallow
    <2>3. Has(r)' = received[r] /\ Has(r) = received[r]
        BY <1>3, <1>4 DEF Has
    <2>4. ASSUME ~FirstTimestepPrecious PROVE Gapless(r)'
        BY <1>3, <1>5, <1>7, <2>3, <2>4, GaplessKept DEF Served, Owed
    <2>5. QED
        BY <2>2, <2>4 DEF Served
<1>8. QED
    BY <1>6, <1>7

(* Every step keeps it. *)
LEMMA NextServed ==
    ASSUME TypeInv, TypeInv', RefInv, LiveInv, LiveInv', HeldInv, OrderInv, Contiguous, Unreleased',
           StepDistributionMode = "AllToAll", NEW r \in Cohorts, Served(r), [Next]_vars
    PROVE  Served(r)'
<1>0. TypeOK'
    BY DEF TypeInv
<1>1. CASE PlaceKept /\ (StreamQuiet \/ UntagPreciousTimesteps)
    BY <1>1, QuietServed
<1>2. CASE ProvideTimestep \/ DeliverBegin \/ ProvideTimestepDiscarded
    BY <1>0, <1>2, ProvideServed, DeliverServed, DiscardServed
<1>3. CASE \E ok \in BOOLEAN : CMwrite("main", ok)
    BY <1>3, WriteServed
<1>4. CASE SendQueued \/ SendQueuedDone \/ SendToAll
    BY <1>4, WalkServed, WalkEndServed, SendServed
<1>5. CASE waitForReaderResponse /\ pc'["main"] = "queuedLoop"
    BY <1>5, WalkBeginServed
<1>6. CASE WriterParticipateInReaderOpen \/ ProvideTimestepSent
    BY <1>0, <1>6, AdmitServed, SentServed
<1>7. QED
    BY <1>1, <1>2, <1>3, <1>4, <1>5, <1>6, PlaceStep, StreamStep DEF Distributes

(* What the readers are served in AllToAll mode: the inductive invariant. *)
ServeInv ==
    /\ Contiguous
    /\ StepDistributionMode = "AllToAll" => Started /\ Unreleased /\ \A r \in Cohorts : Served(r)

(* The queue has no gaps, and in AllToAll mode each live reader got or is *)
(* about to get all that it is due, from the step it was told to start    *)
(* with.                                                                  *)
THEOREM ServeInvariance == Spec => []ServeInv
<1>1. Init => ServeInv
    <2>1. Init => \A r \in Cohorts : Served(r)
        BY DEF Init, Served
    <2>2. QED
        BY <2>1, InitContiguous, InitStarted, InitUnreleased DEF ServeInv
<1>2. TypeInv /\ TypeInv' /\ RefInv /\ LiveInv /\ LiveInv' /\ HeldInv /\ OrderInv /\ ServeInv /\ [Next]_vars => ServeInv'
    <2> SUFFICES ASSUME TypeInv, TypeInv', RefInv, LiveInv, LiveInv', HeldInv, OrderInv, ServeInv, [Next]_vars
                 PROVE  ServeInv'
        OBVIOUS
    <2>1. Contiguous'
        BY NextContiguous DEF ServeInv
    <2>2. ASSUME StepDistributionMode = "AllToAll"
          PROVE  Started' /\ Unreleased' /\ \A r \in Cohorts : Served(r)'
        BY <2>2, NextStarted, NextUnreleased, NextServed DEF ServeInv
    <2>3. QED
        BY <2>1, <2>2 DEF ServeInv
<1>3. QED
    BY <1>1, <1>2, TypeInvariance, RefInvariance, LiveInvariance, HeldInvariance, OrderInvariance, PTL DEF Spec

(* In AllToAll mode, between the calls of the writer, a live reader got    *)
(* every queued step from its first one on that has not expired, and after *)
(* the first step it got every other that was not discarded: a reader is   *)
(* admitted, a step distributed and the queue cut down without one falling *)
(* between waitForReaderResponseAndSendQueued and                          *)
(* SendTimestepEntryToReaders.                                             *)
THEOREM StepsAreNotMissed == Spec => []NoStepMissed
<1>1. TypeInv /\ OrderInv /\ ServeInv => NoStepMissed
    <2> SUFFICES ASSUME TypeInv, OrderInv, ServeInv, StepDistributionMode = "AllToAll", ~FirstTimestepPrecious,
                        pc["main"] = "app", NEW r \in Cohorts, peer[r] = "live"
                 PROVE  /\ received[r] \subseteq StartingTimestep[r] .. WriterTimestep
                        /\ (QueuedTimesteps \cap (StartingTimestep[r] .. WriterTimestep)) \ Expired \subseteq received[r]
                        /\ \A t \in received[r] : (t .. WriterTimestep) \ Emptied \subseteq received[r]
        BY DEF NoStepMissed
    <2>0. /\ WriterTimestep \in Int /\ StartingTimestep[r] \in Int /\ received[r] \subseteq Steps
          /\ \A t \in Steps : t \in Int
        BY DEF TypeInv, TypeOK, StreamTypes, ReaderTypes, PeerTypes, Steps
    <2>1. /\ ~MainAt("queuedLoop") /\ ~MainAt("sendLoop") /\ ~Sending("main") /\ ~Unserved /\ ~Discarding
        BY DEF MainAt, InCall, CallPcs, Sending, Unserved, Discarding
    <2>2. \A t : ~Coming(r, t)
        BY <2>1 DEF Coming
    <2>3. Due(r) /\ Gapless(r) /\ Started /\ Contiguous
        BY DEF ServeInv, Served
    <2>4. received[r] \subseteq StartingTimestep[r] .. WriterTimestep
        BY <2>0, <2>3 DEF Started, OrderInv, Handed
    <2>5. (QueuedTimesteps \cap (StartingTimestep[r] .. WriterTimestep)) \ Expired \subseteq received[r]
        <3>1. Emptied \cap Fallow = {}
            BY <2>1, <2>3 DEF Contiguous
        <3>2. ASSUME NEW t \in QueuedTimesteps \ Expired, StartingTimestep[r] <= t PROVE t \in received[r]
            BY <2>2, <2>3, <3>1, <3>2 DEF Due, Fallow
        <3>3. QED
            BY <2>0, <3>2
    <2>6. \A t \in received[r] : (t .. WriterTimestep) \ Emptied \subseteq received[r]
        BY <2>2, <2>3 DEF Gapless, Owed, Has
    <2>7. QED
        BY <2>4, <2>5, <2>6
<1>2. QED
    BY <1>1, TypeInvariance, OrderInvariance, ServeInvariance, PTL

-----------------------------------------------------------------------------
(* A precious first step *)

(* Before SstWriterClose takes the marks of precious steps back. *)
Presenting == pc["main"] \notin {"closing", "drain", "closed", "destroyed"}

(* With a precious first step: it stays queued and precious, and is what *)
(* every reader starts with.                                             *)
Presented ==
    (FirstTimestepPrecious /\ 0 \notin Emptied /\ Presenting) =>
        /\ WriterTimestep >= 0 => 0 \in QueuedTimesteps \cap PreciousTimestep
        /\ \A r \in Cohorts : StartingTimestep[r] = 0

(* The marks are taken back once, when the stream closes. *)
LEMMA PresentingStep ==
    ASSUME TypeInv, [Next]_vars, Presenting'
    PROVE  Presenting /\ ~UntagPreciousTimesteps
<1> USE DEF Threads, Presenting, Goto
<1>0. ThreadTypes
    BY DEF TypeInv, TypeOK
<1>1. CASE NetInHandler \/ Environment
    <2>1. pc'["main"] = pc["main"]
        BY <1>1, NetEffect DEF NetFrame
    <2>2. ~UntagPreciousTimesteps
        BY <1>0, <2>1 DEF UntagPreciousTimesteps, ThreadTypes
    <2>3. QED
        BY <2>1, <2>2
<1>2. CASE Shared("main")
    <2>1. pc["main"] \in CallPcs
        BY <1>2, CallEffect DEF CallFrame
    <2>2. QED
        BY <2>1 DEF CallPcs, UntagPreciousTimesteps
<1>3. CASE UntagPreciousTimesteps \/ WriterCloseDrain \/ SstStreamDestroy
    BY <1>0, <1>3 DEF UntagPreciousTimesteps, WriterCloseDrain, SstStreamDestroy, ThreadTypes
<1>4. CASE \/ SstWriterOpenRendezvous \/ WriterParticipateInReaderOpen \/ waitForReaderResponse
           \/ StrayUnlock \/ SendQueued \/ SendQueuedDone \/ ProvideTimestep \/ DecideTimestep \/ BlockedOnQueueFull
           \/ ProcessReaderStatusListBegin \/ ProcessReaderStatusList \/ ProcessReaderStatusListDone
           \/ DeliverBegin \/ SendToAll \/ SendRoundRobin \/ SendOnDemand
           \/ ProvideTimestepSent \/ SendDiscarded \/ ProvideTimestepDiscarded \/ HandlePendingReaders
           \/ SstWriterClose
    BY <1>4 DEF SstWriterOpenRendezvous, WriterParticipateInReaderOpen, waitForReaderResponse,
        StrayUnlock, SendQueued, SendQueuedDone, ProvideTimestep, DecideTimestep, BlockedOnQueueFull,
        ProcessReaderStatusListBegin, ProcessReaderStatusList, ProcessReaderStatusListDone,
        DeliverBegin, SendToAll, SendRoundRobin, SendOnDemand,
        ProvideTimestepSent, SendDiscarded, ProvideTimestepDiscarded, HandlePendingReaders,
        SstWriterClose, UntagPreciousTimesteps
<1>5. CASE UNCHANGED vars
    BY <1>0, <1>5 DEF vars, UntagPreciousTimesteps, ThreadTypes
<1>6. QED
    BY <1>1, <1>2, <1>3, <1>4, <1>5 DEF Next, MainInCall, MainCalls, Terminated

(* QueueMaintenance does not take a precious step. *)
LEMMA MaintenanceKeepsPrecious ==
    ASSUME NEW exp, QueueMaintenance(exp), NEW t \in QueuedTimesteps, t \in PreciousTimestep'
    PROVE  t \in QueuedTimesteps'
BY DEF QueueMaintenance, Maintained, Removable

(* Every step keeps it. *)
LEMMA NextPresented ==
    ASSUME TypeInv, RefInv, LiveInv, HeldInv, StepDistributionMode = "AllToAll", Presented, [Next]_vars
    PROVE  Presented'
<1> SUFFICES ASSUME FirstTimestepPrecious, 0 \notin Emptied', Presenting'
             PROVE  /\ WriterTimestep' >= 0 => 0 \in QueuedTimesteps' \cap PreciousTimestep'
                    /\ \A r \in Cohorts : StartingTimestep'[r] = 0
    BY DEF Presented
<1> USE DEF Threads, queueVars, streamVars, stepVars, listVars, readerVars, openVars, markVars
<1>1. Presenting /\ ~UntagPreciousTimesteps
    BY PresentingStep
<1>2. Emptied \subseteq Emptied'
    BY <1>1, StreamStep DEF StreamQuiet, ProvideTimestep, ProvideTimestepDiscarded, DeliverBegin
<1>3. /\ WriterTimestep >= 0 => 0 \in QueuedTimesteps \cap PreciousTimestep
      /\ \A r \in Cohorts : StartingTimestep[r] = 0
    BY <1>1, <1>2 DEF Presented
<1>4. /\ WriterTimestep \in Int /\ WriterTimestep >= -1
      /\ \A t \in QueuedTimesteps : t \in Int /\ t >= 0
    BY DEF TypeInv, TypeOK, QueueTypes, StreamTypes, Steps
<1>5. WriterTimestep' >= 0 => 0 \in QueuedTimesteps' \cap PreciousTimestep'
    <2>1. CASE StreamQuiet
        BY <1>3, <2>1, MaintenanceKeepsPrecious DEF StreamQuiet, QueueUntouched
    <2>2. CASE ProvideTimestep
        BY <1>3, <1>4, <2>2 DEF ProvideTimestep
    <2>3. CASE ProvideTimestepDiscarded
        BY <1>3, <2>3, MaintenanceKeepsPrecious DEF ProvideTimestepDiscarded
    <2>4. CASE DeliverBegin
        BY <1>3, <2>4 DEF DeliverBegin
    <2>5. QED
        BY <1>1, <2>1, <2>2, <2>3, <2>4, StreamStep
<1>6. ASSUME NEW r \in Cohorts PROVE StartingTimestep'[r] = 0
    <2>1. CASE WriterParticipateInReaderOpen
        <3>1. /\ earliestAvailableTimestepNumber \in QueuedTimesteps \cup {WriterTimestep}
              /\ \A t \in QueuedTimesteps \cup {WriterTimestep} : earliestAvailableTimestepNumber <= t
            BY EarliestIsFirst DEF TypeInv
        <3>2. earliestAvailableTimestepNumber \in {-1, 0}
            BY <1>3, <1>4, <3>1
        <3>3. StartingTimestep \in [Cohorts -> Int]
            BY DEF TypeInv, TypeOK, ReaderTypes
        <3>4. QED
            BY <1>3, <2>1, <3>2, <3>3 DEF WriterParticipateInReaderOpen
    <2>2. CASE UNCHANGED StartingTimestep
        BY <1>3, <2>2
    <2>3. CASE \E ok \in BOOLEAN : CMwrite("main", ok)
        BY <1>3, <2>3 DEF CMwrite
    <2>4. CASE SendQueued \/ SendToAll
        BY <1>3, <2>4 DEF SendQueued, SendToAll, SendTimestepEntryToSingleReader
    <2>5. CASE \/ SendQueuedDone \/ waitForReaderResponse \/ ProvideTimestep \/ DeliverBegin
               \/ ProvideTimestepSent \/ ProvideTimestepDiscarded
        BY <1>3, <2>5 DEF SendQueuedDone, ReaderAdmitted, waitForReaderResponse, ProvideTimestep, DeliverBegin,
            ProvideTimestepSent, ProvideTimestepDiscarded
    <2>6. QED
        BY <2>1, <2>2, <2>3, <2>4, <2>5, PlaceStep DEF Distributes, PlaceKept
<1>7. QED
    BY <1>5, <1>6

(* There is no step at first, and no reader was told of one. *)
LEMMA InitPresented == Init => Presented
BY DEF Init, Presented

(* In AllToAll mode a precious first step that is not discarded stays in *)
(* the queue, and each reader is told to start with it, until            *)
(* SstWriterClose.                                                       *)
THEOREM PresentedInvariance == Spec => [](StepDistributionMode = "AllToAll" => Presented)
<1>1. Init => (StepDistributionMode = "AllToAll" => Presented)
    BY InitPresented
<1>2. TypeInv /\ RefInv /\ LiveInv /\ HeldInv /\ (StepDistributionMode = "AllToAll" => Presented) /\ [Next]_vars
        => (StepDistributionMode = "AllToAll" => Presented)'
    BY NextPresented
<1>3. QED
    BY <1>1, <1>2, TypeInvariance, RefInvariance, LiveInvariance, HeldInvariance, PTL DEF Spec

(* In AllToAll mode a live reader got the precious first step, however late *)
(* it came and whatever QueueMaintenance has removed since, unless the step *)
(* was discarded.                                                           *)
THEOREM PreciousIsPresented == Spec => []PreciousPresented
<1>1. TypeInv /\ ServeInv /\ (StepDistributionMode = "AllToAll" => Presented) => PreciousPresented
    <2> SUFFICES ASSUME TypeInv, ServeInv, Presented, StepDistributionMode = "AllToAll", FirstTimestepPrecious,
                        pc["main"] = "app", WriterTimestep # -1, 0 \notin Emptied, NEW r \in Cohorts,
                        peer[r] = "live"
                 PROVE  0 \in received[r]
        BY DEF PreciousPresented
    <2>1. WriterTimestep >= 0
        BY DEF TypeInv, TypeOK, StreamTypes, Steps
    <2>2. 0 \in QueuedTimesteps \cap PreciousTimestep /\ StartingTimestep[r] = 0
        BY <2>1 DEF Presented, Presenting
    <2>3. ~Coming(r, 0)
        BY DEF Coming, MainAt, InCall, CallPcs, Sending, Unserved
    <2>4. Due(r)
        BY DEF ServeInv, Served
    <2>5. QED
        BY <2>2, <2>3, <2>4 DEF Due
<1>2. QED
    BY <1>1, TypeInvariance, ServeInvariance, PresentedInvariance, PTL

-----------------------------------------------------------------------------
(* The reserve *)

(* What counts towards the reserve: what has not expired, what is precious *)
(* and the newest step, discarded or not.                                  *)
Kept == Fallow \cup (QueuedTimesteps \cap PreciousTimestep) \cup ({WriterTimestep} \cap Emptied)

(* What counts in favour of letting go of t: the newer of them, and the *)
(* precious one.                                                        *)
Above(t) == {u \in Kept : u > t \/ u \in PreciousTimestep}

(* Only the newest step is queued and discarded, while its notice is sent. *)
DiscardedGone ==
    \A t \in (Emptied \cap QueuedTimesteps) \ PreciousTimestep : t = WriterTimestep /\ Discarding

(* Every provided step that has expired or was freed has the reserve above *)
(* it, until SstWriterClose gives the reserve up; and the queue expires    *)
(* from its oldest step.                                                   *)
Reserved ==
    Presenting =>
        /\ ReserveCount = ReserveQueueLimit
        /\ PreciousTimestep \subseteq {0}
        /\ DiscardedGone
        /\ \A t \in Fallow : \A u \in (QueuedTimesteps \cap Expired) \ Emptied : u < t
        /\ \A t \in (0 .. WriterTimestep) \ (Fallow \cup Emptied) : Cardinality(Above(t)) >= ReserveQueueLimit

(* What the walk of QueueMaintenance tags leaves the reserve: newer than *)
(* all that it tags, or precious, there are as many steps as are to be   *)
(* kept.                                                                 *)
LEMMA PastReserveKeeps ==
    ASSUME TypeInv, NEW ref, NEW prec \in SUBSET {0}, NEW status, NEW last \in [Cohorts -> Int], NEW reserve \in Nat,
           NEW t \in PastReserve(ref, prec, status, last, reserve)
    PROVE  \E m \in PastReserve(ref, prec, status, last, reserve) :
               /\ t <= m
               /\ \E S \in SUBSET QueuedTimesteps :
                      /\ Cardinality(S) >= reserve
                      /\ \A u \in S : u \in prec \/ (u > m /\ u \notin PastReserve(ref, prec, status, last, reserve))
<1> DEFINE past == PastReserve(ref, prec, status, last, reserve)
           eligible == Eligible(status, last)
           spared == {v \in QueuedTimesteps \cap prec : ref[v] = 0}
           left == reserve - Cardinality(spared)
           From(v) == {w \in eligible : w >= v}
           m == Max(past)
           over == From(m) \ {m}
<1>1. QueuedTimesteps \subseteq Steps /\ \A v \in Steps : v \in Int /\ v >= 0
    BY DEF TypeInv, TypeOK, QueueTypes, Steps
<1>2. eligible \subseteq QueuedTimesteps /\ spared \subseteq QueuedTimesteps /\ past \subseteq eligible
    BY DEF Eligible, PastReserve
<1>3. m \in past /\ \A v \in past : v <= m
    BY <1>1, <1>2, MaxInSteps
<1>4. Cardinality(From(m)) > left
    BY <1>3 DEF PastReserve
<1> HIDE DEF past, m
<1>5. m \in Int /\ m >= 0 /\ t <= m /\ m \in From(m)
    BY <1>1, <1>2, <1>3 DEF past
<1>6. From(m) \in SUBSET Steps /\ spared \in SUBSET Steps /\ over \in SUBSET Steps
    BY <1>1, <1>2
<1> HIDE DEF spared, eligible
<1>7. /\ IsFiniteSet(From(m)) /\ IsFiniteSet(over) /\ IsFiniteSet(spared)
      /\ Cardinality(From(m)) \in Nat /\ Cardinality(over) \in Nat /\ Cardinality(spared) \in Nat
    BY <1>6, StepsFinite
<1>8. Cardinality(over) = Cardinality(From(m)) - 1
    BY <1>5, <1>7, FS_RemoveElement
<1>9. over \cap spared = {}
    <2>1. \A u \in spared : u = 0
        BY DEF spared
    <2>2. \A u \in over : u > m
        BY <1>1, <1>2, <1>5
    <2>3. QED
        BY <1>5, <2>1, <2>2
<1>10. Cardinality(over \cup spared) >= reserve
    <2>1. Cardinality(over \cup spared) = Cardinality(over) + Cardinality(spared) - Cardinality(over \cap spared)
        BY <1>7, FS_Union
    <2>2. Cardinality(over \cap spared) = 0
        BY <1>9, FS_EmptySet
    <2>3. QED
        BY <1>4, <1>7, <1>8, <2>1, <2>2
<1>11. \A u \in over \cup spared : u \in prec \/ (u > m /\ u \notin past)
    <2>1. \A u \in spared : u \in prec
        BY DEF spared
    <2>2. ASSUME NEW u \in over PROVE u > m
        BY <1>1, <1>2, <1>5
    <2>3. QED
        BY <1>1, <1>2, <1>3, <1>5, <2>1, <2>2
<1>12. over \cup spared \in SUBSET QueuedTimesteps
    BY <1>2
<1>13. QED
    BY <1>3, <1>5, <1>10, <1>11, <1>12 DEF past

(* QueueMaintenance keeps this, if what it is told to expire is discarded. *)
LEMMA MaintenanceReserved ==
    ASSUME TypeInv, TypeOK', Reserved, Presenting, NEW exp, QueueMaintenance(exp),
           UNCHANGED <<stepVars, PreciousTimestep, ReserveCount, Emptied>>, DiscardedGone',
           Expired \subseteq exp, exp \ Expired \subseteq Emptied
    PROVE  Reserved'
<1> DEFINE past == PastReserve(ReferenceCount', PreciousTimestep', ReaderStatus', LastReleasedTimestep', ReserveCount')
<1>0. /\ LastReleasedTimestep' \in [Cohorts -> Int] /\ ReserveCount' \in Nat
      /\ \A t \in QueuedTimesteps : t \in Int
    BY DEF TypeInv, TypeOK, QueueTypes, ReaderTypes, StreamTypes, Steps
<1>1. /\ ReserveCount' = ReserveQueueLimit /\ PreciousTimestep' \subseteq {0} /\ WriterTimestep' = WriterTimestep
      /\ ReserveQueueLimit \in Nat
    BY ConstantsAssumption DEF Reserved, stepVars
<1>2. /\ QueuedTimesteps' \subseteq QueuedTimesteps
      /\ Expired' \subseteq exp \cup QueuedTimesteps
      /\ Fallow' \subseteq QueuedTimesteps \ exp
      /\ \A t \in Fallow' : \A u \in QueuedTimesteps \ exp : t <= u => u \in Fallow'
    BY MaintenanceFallow
<1>3. /\ Fallow' \subseteq Fallow
      /\ QueuedTimesteps \cap PreciousTimestep \subseteq Kept'
      /\ {WriterTimestep} \cap Emptied \subseteq Kept' /\ Fallow' \subseteq Kept'
    BY <1>1, <1>2, MaintenanceKeepsPrecious DEF Fallow, Kept
<1>4. ASSUME NEW t \in Fallow', NEW u \in (QueuedTimesteps' \cap Expired') \ Emptied'
      PROVE  u < t
    <2>1. CASE u \in Expired
        BY <1>2, <1>3, <1>4, <2>1 DEF Reserved
    <2>2. CASE u \notin Expired
        <3>1. u \in QueuedTimesteps \ exp
            BY <1>2, <1>4, <2>2
        <3>2. u \notin Fallow'
            BY <1>4 DEF Fallow
        <3>3. t \in Int /\ u \in Int /\ ~(t <= u)
            BY <1>0, <1>2, <1>4, <3>1, <3>2
        <3>4. QED
            BY <3>3
    <2>3. QED
        BY <2>1, <2>2
<1>5. ASSUME NEW t \in Fallow \ (Fallow' \cup Emptied')
      PROVE  Cardinality(Above(t)') >= ReserveQueueLimit
    <2>1. t \in QueuedTimesteps /\ t \notin exp /\ t \in Int
        BY <1>0, <1>5 DEF Fallow
    <2>2. t \in past
        <3>1. CASE MaintenanceSuspended(ReaderStatus')
            BY <1>5, <2>1, <3>1 DEF QueueMaintenance, Maintained, Fallow
        <3>2. CASE ~MaintenanceSuspended(ReaderStatus')
            BY <1>5, <2>1, <3>2 DEF QueueMaintenance, Maintained, Fallow, Removable
        <3>3. QED
            BY <3>1, <3>2
    <2> HIDE DEF past
    <2>3. PICK m \in past :
              /\ t <= m
              /\ \E S \in SUBSET QueuedTimesteps :
                     /\ Cardinality(S) >= ReserveCount'
                     /\ \A u \in S : u \in PreciousTimestep' \/ (u > m /\ u \notin past)
        BY <1>0, <1>1, <2>2, PastReserveKeeps DEF past
    <2>4. m \in Int
        BY <1>0 DEF past, PastReserve, Eligible
    <2>5. PICK S \in SUBSET QueuedTimesteps :
              /\ Cardinality(S) >= ReserveCount'
              /\ \A u \in S : u \in PreciousTimestep' \/ (u > m /\ u \notin past)
        BY <2>3
    <2>6. ASSUME NEW u \in S PROVE u \in Above(t)'
        <3>1. CASE u \in PreciousTimestep'
            BY <1>3, <3>1 DEF Above
        <3>2. CASE u > m /\ u \notin past
            <4>1. u \in Int /\ u > t
                BY <1>0, <2>1, <2>3, <2>4, <3>2
            <4>2. CASE u \in exp
                <5>1. u \in QueuedTimesteps /\ ~(u < t)
                    BY <1>0, <2>1, <2>6, <4>1
                <5>2. u \in Emptied
                    BY <1>5, <4>2, <5>1 DEF Reserved
                <5>3. u \in QueuedTimesteps \cap PreciousTimestep \/ u \in {WriterTimestep} \cap Emptied
                    BY <5>1, <5>2 DEF Reserved, DiscardedGone
                <5>4. QED
                    BY <1>3, <4>1, <5>3 DEF Above
            <4>3. CASE u \notin exp
                <5>1. u \in Fallow'
                    BY <3>2, <4>3 DEF QueueMaintenance, Maintained, Fallow, Removable, past
                <5>2. QED
                    BY <1>3, <4>1, <5>1 DEF Above
            <4>4. QED
                BY <4>2, <4>3
        <3>3. QED
            BY <2>5, <3>1, <3>2
    <2>7. PICK A : A = Above(t)'
        OBVIOUS
    <2>8. A \in SUBSET Steps
        <3>1. Kept' \subseteq Steps
            BY DEF TypeOK, QueueTypes, Kept, Fallow
        <3>2. QED
            BY <2>7, <3>1 DEF Above
    <2>9. S \subseteq A /\ Cardinality(S) \in Nat /\ Cardinality(A) \in Nat /\ Cardinality(S) <= Cardinality(A)
        BY <2>6, <2>7, <2>8, StepsFinite
    <2>10. QED
        BY <1>1, <2>5, <2>7, <2>9
<1>6. ASSUME NEW t \in (0 .. WriterTimestep) \ (Fallow' \cup Emptied')
      PROVE  Cardinality(Above(t)') >= ReserveQueueLimit
    <2>0. t \in Int
        OBVIOUS
    <2>1. CASE t \in Fallow
        BY <1>5, <1>6, <2>1
    <2>2. CASE t \notin Fallow
        <3>1. Cardinality(Above(t)) >= ReserveQueueLimit
            BY <1>6, <2>2 DEF Reserved
        <3>2. PICK A : A = Above(t)'
            OBVIOUS
        <3>3. A \in SUBSET Steps /\ Above(t) \in SUBSET Steps /\ Kept \subseteq Steps
            <4>1. Kept' \subseteq Steps /\ Kept \subseteq Steps
                BY DEF TypeInv, TypeOK, QueueTypes, Kept, Fallow
            <4>2. QED
                BY <3>2, <4>1 DEF Above
        <3>4. Cardinality(A) \in Nat /\ Cardinality(Above(t)) \in Nat
            BY <3>3, StepsFinite
        <3>5. CASE Above(t) \subseteq A
            BY <1>1, <3>1, <3>2, <3>3, <3>4, <3>5, StepsFinite
        <3>6. ASSUME NEW w \in Above(t), w \notin A PROVE Cardinality(A) >= ReserveQueueLimit
            <4>1. w \in Kept /\ w \notin Kept' /\ w > t /\ w \in Int
                <5>1. w \in Kept /\ w \in Int /\ (w > t \/ w \in PreciousTimestep)
                    BY <3>3 DEF Above, Steps
                <5>2. w \notin Kept' /\ ~(w \in QueuedTimesteps \cap PreciousTimestep)
                    BY <1>3, <3>2, <3>6, <5>1 DEF Above
                <5>3. w \in Fallow
                    BY <1>3, <5>1, <5>2 DEF Kept
                <5>4. QED
                    BY <5>1, <5>2, <5>3 DEF Fallow
            <4>2. w \in Fallow \ (Fallow' \cup Emptied')
                <5>1. w \in Fallow /\ w \notin PreciousTimestep /\ w \notin {WriterTimestep} \cap Emptied
                    BY <1>3, <4>1 DEF Kept, Fallow
                <5>2. w \notin Emptied
                    BY <5>1 DEF Fallow, Reserved, DiscardedGone
                <5>3. QED
                    BY <1>3, <4>1, <5>1, <5>2
            <4>3. Cardinality(Above(w)') >= ReserveQueueLimit
                BY <1>5, <4>2
            <4>4. PICK B : B = Above(w)'
                OBVIOUS
            <4>5. B \subseteq A
                <5>1. \A u \in Kept' : u \in Int
                    BY DEF TypeOK, QueueTypes, Kept, Fallow, Steps
                <5>2. QED
                    BY <2>0, <3>2, <4>1, <4>4, <5>1 DEF Above
            <4>6. Cardinality(B) \in Nat /\ Cardinality(B) <= Cardinality(A)
                BY <3>3, <4>5, StepsFinite
            <4>7. QED
                BY <1>1, <3>4, <4>3, <4>4, <4>6
        <3>7. QED
            BY <3>2, <3>5, <3>6
    <2>3. QED
        BY <2>1, <2>2
<1>7. QED
    BY <1>1, <1>4, <1>6 DEF Reserved

(* What is kept stays kept: no less counts in favour of letting go. *)
LEMMA AboveGrows ==
    ASSUME TypeInv, TypeOK', PreciousTimestep \subseteq PreciousTimestep', Kept \subseteq Kept',
           NEW t \in Int
    PROVE  Cardinality(Above(t)') >= Cardinality(Above(t))
<1>1. PICK A : A = Above(t)'
    OBVIOUS
<1>2. Above(t) \subseteq A
    BY <1>1 DEF Above
<1>3. A \in SUBSET Steps
    BY <1>1 DEF TypeInv, TypeOK, QueueTypes, StreamTypes, Kept, Fallow, Above
<1>4. Cardinality(A) \in Nat /\ Cardinality(Above(t)) \in Nat /\ Cardinality(Above(t)) <= Cardinality(A)
    BY <1>2, <1>3, StepsFinite
<1>5. QED
    BY <1>1, <1>4

(* A new step takes the place of the one before, should that be discarded. *)
LEMMA AboveProvided ==
    ASSUME TypeInv, TypeOK', RefInv, Contiguous, ProvideTimestep, NEW t \in 0 .. WriterTimestep
    PROVE  Cardinality(Above(t)') >= Cardinality(Above(t))
<1> DEFINE next == WriterTimestep + 1
           older == Above(t) \ {WriterTimestep}
<1>1. /\ QueuedTimesteps' = QueuedTimesteps \cup {next} /\ WriterTimestep' = next
      /\ PreciousTimestep \subseteq PreciousTimestep' /\ UNCHANGED <<Expired, Emptied>>
    BY DEF ProvideTimestep
<1>2. /\ WriterTimestep \in Int /\ \A u \in QueuedTimesteps : u \in Int /\ u <= WriterTimestep
      /\ next \notin Expired
    BY DEF TypeInv, TypeOK, QueueTypes, StreamTypes, Steps, RefInv, Counted, QueueInOrder, Contiguous
<1>3. Kept \in SUBSET Steps /\ Kept' \in SUBSET Steps
    BY DEF TypeInv, TypeOK, QueueTypes, Kept, Fallow
<1>4. next \in Fallow' /\ next \notin older /\ next > t
    BY <1>1, <1>2 DEF Fallow, Kept, Above
<1>5. PICK A : A = Above(t)'
    OBVIOUS
<1>6. A \in SUBSET Steps /\ Above(t) \in SUBSET Steps
    BY <1>3, <1>5 DEF Above
<1>7. older \cup {next} \subseteq A
    <2>1. next \in A
        BY <1>4, <1>5 DEF Above, Kept
    <2>2. ASSUME NEW u \in older PROVE u \in A
        <3>1. u \in Fallow \cup (QueuedTimesteps \cap PreciousTimestep)
            BY DEF Above, Kept
        <3>2. u \in Kept'
            BY <1>1, <3>1 DEF Kept, Fallow
        <3>3. QED
            BY <1>1, <1>5, <3>2 DEF Above
    <2>3. QED
        BY <2>1, <2>2
<1> HIDE DEF next
<1>8. /\ IsFiniteSet(Above(t)) /\ Cardinality(Above(t)) \in Nat /\ Cardinality(A) \in Nat
      /\ Cardinality(older \cup {next}) <= Cardinality(A)
    BY <1>6, <1>7, StepsFinite
<1>9. IsFiniteSet(older) /\ Cardinality(older) \in Nat /\ Cardinality(older) >= Cardinality(Above(t)) - 1
    <2>1. PICK B : B = Above(t)
        OBVIOUS
    <2>2. IsFiniteSet(B) /\ Cardinality(B) \in Nat
        BY <1>8, <2>1
    <2>3. /\ IsFiniteSet(B \ {WriterTimestep})
          /\ Cardinality(B \ {WriterTimestep}) = IF WriterTimestep \in B THEN Cardinality(B) - 1 ELSE Cardinality(B)
        BY <2>2, FS_RemoveElement
    <2>4. Cardinality(B \ {WriterTimestep}) \in Nat
        BY <2>3, FS_CardinalityType
    <2>5. QED
        BY <2>1, <2>2, <2>3, <2>4
<1> HIDE DEF older
<1>10. Cardinality(older \cup {next}) = Cardinality(older) + 1
    BY <1>4, <1>9, FS_AddElement
<1>11. QED
    BY <1>5, <1>8, <1>9, <1>10

(* Only SstWriterClose changes the configured reserve. *)
LEMMA ReserveCountKept ==
    ASSUME TypeInv, [Next]_vars, Presenting'
    PROVE  ReserveCount' = ReserveCount
<1> USE DEF Threads, markVars, queueVars, openVars, stepVars, distVars, closeVars, streamVars, listVars,
            linkVars, readerVars, callVars, localVars, peerVars, dataVars
<1>0. ~UntagPreciousTimesteps
    BY PresentingStep
<1>1. CASE NetInHandler \/ Environment
    BY <1>1, NetEffect DEF NetFrame
<1>2. CASE Shared("main")
    BY <1>2, CallEffect DEF CallFrame
<1>3. CASE ProcessReaderStatusList
    BY <1>3 DEF ProcessReaderStatusList, PeerFailCloseWSReader
<1>4. CASE \/ SstWriterOpenRendezvous \/ WriterParticipateInReaderOpen \/ waitForReaderResponse
           \/ StrayUnlock \/ SendQueuedDone \/ ProvideTimestep \/ DecideTimestep \/ BlockedOnQueueFull
           \/ ProcessReaderStatusListBegin \/ ProcessReaderStatusListDone
    BY <1>4 DEF SstWriterOpenRendezvous, WriterParticipateInReaderOpen, waitForReaderResponse,
        StrayUnlock, ReaderAdmitted, SendQueuedDone, ProvideTimestep, DecideTimestep, BlockedOnQueueFull,
        TakeSnapshot, ProcessReaderStatusListBegin, ProcessReaderStatusListDone
<1>5. CASE DeliverBegin \/ ProvideTimestepSent \/ ProvideTimestepDiscarded \/ HandlePendingReaders
           \/ WriterCloseDrain \/ SstWriterClose \/ SstStreamDestroy
    BY <1>5 DEF DeliverBegin, ProvideTimestepSent, ProvideTimestepDiscarded, HandlePendingReaders,
        WriterCloseDrain, SstWriterClose, SstStreamDestroy
<1>6. CASE SendQueued \/ SendToAll \/ SendRoundRobin \/ SendOnDemand
    BY <1>6 DEF SendQueued, SendToAll, SendRoundRobin, SendOnDemand, SendTimestepEntryToSingleReader
<1>7. CASE SendDiscarded
    BY <1>7 DEF SendDiscarded, WriteToReader
<1>8. CASE UNCHANGED vars
    BY <1>8 DEF vars
<1>9. QED
    BY <1>0, <1>1, <1>2, <1>3, <1>4, <1>5, <1>6, <1>7, <1>8 DEF Next, MainInCall, MainCalls, Terminated

(* A queue that only grows at its newest end keeps it. *)
LEMMA GrownReserved ==
    ASSUME TypeInv, TypeOK', Reserved, Presenting, ReserveCount' = ReserveCount,
           PreciousTimestep \subseteq PreciousTimestep', PreciousTimestep' \subseteq {0},
           QueuedTimesteps \subseteq QueuedTimesteps', Emptied \subseteq Emptied', UNCHANGED Expired,
           DiscardedGone', \A t \in 0 .. WriterTimestep : Cardinality(Above(t)') >= Cardinality(Above(t)),
           \A t \in QueuedTimesteps' \ QueuedTimesteps :
               t \notin Expired /\ \A u \in QueuedTimesteps' : u <= t,
           \A t \in (0 .. WriterTimestep') \ (0 .. WriterTimestep) : t \in QueuedTimesteps' \ Expired
    PROVE  Reserved'
<1>1. /\ ReserveCount = ReserveQueueLimit /\ ReserveQueueLimit \in Nat
      /\ \A t \in Fallow : \A u \in (QueuedTimesteps \cap Expired) \ Emptied : u < t
    BY ConstantsAssumption DEF Reserved
<1>2. Fallow \subseteq Fallow'
    BY DEF Fallow
<1>3. ASSUME NEW t \in Fallow', NEW u \in (QueuedTimesteps' \cap Expired') \ Emptied'
      PROVE  u < t
    <2>1. u \in (QueuedTimesteps \cap Expired) \ Emptied
        BY <1>3
    <2>2. CASE t \in QueuedTimesteps
        BY <1>1, <1>3, <2>1, <2>2 DEF Fallow
    <2>3. CASE t \notin QueuedTimesteps
        <3>1. u <= t /\ u # t
            BY <1>3, <2>1, <2>3 DEF Fallow
        <3>2. u \in Int /\ t \in Int
            BY <1>3, <2>1 DEF TypeInv, TypeOK, QueueTypes, Steps, Fallow
        <3>3. QED
            BY <3>1, <3>2
    <2>4. QED
        BY <2>2, <2>3
<1>4. ASSUME NEW t \in (0 .. WriterTimestep') \ (Fallow' \cup Emptied')
      PROVE  Cardinality(Above(t)') >= ReserveQueueLimit
    <2>1. t \in (0 .. WriterTimestep) \ (Fallow \cup Emptied)
        BY <1>2, <1>4 DEF Fallow
    <2>2. PICK A : A = Above(t)'
        OBVIOUS
    <2>3. A \in SUBSET Steps /\ Above(t) \in SUBSET Steps
        BY <2>2 DEF TypeInv, TypeOK, QueueTypes, Kept, Fallow, Above
    <2>4. Cardinality(A) \in Nat /\ Cardinality(Above(t)) \in Nat /\ Cardinality(A) >= Cardinality(Above(t))
        BY <2>1, <2>2, <2>3, StepsFinite
    <2>5. Cardinality(Above(t)) >= ReserveQueueLimit
        BY <2>1 DEF Reserved
    <2>6. QED
        BY <1>1, <2>2, <2>4, <2>5
<1>5. QED
    BY <1>1, <1>3, <1>4 DEF Reserved

(* A discarded step leaves the queue when its notice was sent. *)
LEMMA NextDiscardedGone ==
    ASSUME TypeInv, TypeInv', RefInv, LiveInv, HeldInv, Reserved, [Next]_vars, Presenting'
    PROVE  DiscardedGone'
<1>p. Presenting /\ ~UntagPreciousTimesteps /\ DiscardedGone
    BY PresentingStep DEF Reserved
<1>t. /\ QueuedTimesteps \subseteq Steps /\ WriterTimestep \in Int
      /\ \A t \in Emptied : t <= WriterTimestep
    BY DEF HeldInv, Discards, TypeInv, TypeOK, QueueTypes, StreamTypes, Steps
<1>1. CASE StreamQuiet
    <2>1. UNCHANGED <<WriterTimestep, Emptied, PreciousTimestep>> /\ QueuedTimesteps' \subseteq QueuedTimesteps
        BY <1>1, MaintenanceFallow DEF StreamQuiet, QueueUntouched, TypeInv, stepVars
    <2>2. QED
        BY <1>p, <1>1, <2>1 DEF DiscardedGone, StreamQuiet
<1>2. CASE ProvideTimestep
    <2>1. /\ ~Discarding /\ QueuedTimesteps' = QueuedTimesteps \cup {WriterTimestep + 1}
          /\ UNCHANGED Emptied /\ PreciousTimestep \subseteq PreciousTimestep'
        BY <1>2 DEF ProvideTimestep, Discarding, MainAt, InCall, CallPcs
    <2>2. WriterTimestep + 1 \notin Emptied
        BY <1>t
    <2>3. QED
        BY <1>p, <1>t, <2>1, <2>2 DEF DiscardedGone
<1>3. CASE DeliverBegin
    <2>1. /\ ~Discarding /\ UNCHANGED <<QueuedTimesteps, PreciousTimestep, WriterTimestep>>
          /\ Emptied' \subseteq Emptied \cup {WriterTimestep}
          /\ Emptied' # Emptied => discard
        BY <1>3 DEF DeliverBegin, Discarding, MainAt, InCall, CallPcs, streamVars, stepVars
    <2>2. discard => Discarding'
        BY <1>3 DEF DeliverBegin, Goto, Discarding, MainAt, TypeInv, TypeOK, ThreadTypes, Threads
    <2>3. QED
        BY <1>p, <2>1, <2>2 DEF DiscardedGone
<1>4. CASE ProvideTimestepDiscarded
    <2>1. MainAt("discardLoop") /\ Providing /\ pc["main"] = "discardLoop"
        BY <1>4 DEF ProvideTimestepDiscarded, MainAt, Providing
    <2>2. step["main"] = WriterTimestep /\ WriterTimestep \in Steps
        BY <2>1 DEF TypeInv, Serving
    <2>3. /\ QueueMaintenance(Expired \cup {WriterTimestep})
          /\ UNCHANGED <<WriterTimestep, Emptied, PreciousTimestep, ReaderStatus>>
          /\ ReferenceCount' = [ReferenceCount EXCEPT ![WriterTimestep] = 0]
        BY <1>4, <2>2 DEF ProvideTimestepDiscarded, streamVars, stepVars, markVars, readerVars
    <2>4. ReferenceCount'[WriterTimestep] = 0
        BY <2>2, <2>3 DEF TypeInv, TypeOK, QueueTypes
    <2>5. ~MaintenanceSuspended(ReaderStatus')
        <3>1. Status \notin {"NotOpen", "Destroyed"}
            BY <2>1 DEF TypeInv, Admissions, MainAt, InCall, CallPcs
        <3>2. Status = "Established"
            BY <3>1 DEF TypeInv, TypeOK, StreamTypes
        <3>3. \A r \in Cohorts : ReaderStatus[r] # "Opening"
            BY <2>1 DEF LiveInv, Peers
        <3>4. QED
            BY <2>3, <3>2, <3>3 DEF MaintenanceSuspended
    <2>6. QueuedTimesteps' \subseteq QueuedTimesteps
          /\ (WriterTimestep \notin PreciousTimestep => WriterTimestep \notin QueuedTimesteps')
        BY <2>3, <2>4, <2>5 DEF QueueMaintenance, Maintained, Removable
    <2>7. QED
        BY <1>p, <2>3, <2>6 DEF DiscardedGone
<1>5. QED
    BY <1>p, <1>1, <1>2, <1>3, <1>4, StreamStep

(* Every step keeps it. *)
LEMMA NextReserved ==
    ASSUME TypeInv, TypeInv', RefInv, LiveInv, HeldInv, Contiguous, Reserved, [Next]_vars
    PROVE  Reserved'
<1>0. TypeOK' /\ \A t \in QueuedTimesteps : t <= WriterTimestep
    BY DEF TypeInv, RefInv, Counted, QueueInOrder
<1>1. CASE ~Presenting'
    BY <1>1 DEF Reserved
<1>2. CASE Presenting'
    <2>1. Presenting /\ ~UntagPreciousTimesteps /\ ReserveCount' = ReserveCount
        BY <1>2, PresentingStep, ReserveCountKept
    <2>2. PreciousTimestep \subseteq {0}
        BY <2>1 DEF Reserved
    <2>d. DiscardedGone'
        BY <1>2, NextDiscardedGone
    <2>3. CASE StreamQuiet
        <3>1. CASE UNCHANGED <<QueuedTimesteps, Expired>>
            <4>1. UNCHANGED <<QueuedTimesteps, Expired, PreciousTimestep, WriterTimestep, Emptied>>
                BY <2>3, <3>1 DEF StreamQuiet, stepVars
            <4>2. Kept \subseteq Kept'
                BY <4>1 DEF Kept, Fallow
            <4>3. \A t \in 0 .. WriterTimestep : Cardinality(Above(t)') >= Cardinality(Above(t))
                BY <1>0, <4>1, <4>2, AboveGrows
            <4>4. QED
                BY <1>0, <2>1, <2>2, <2>d, <4>1, <4>3, GrownReserved
        <3>2. CASE QueueMaintenance(Expired)
            BY <1>0, <2>1, <2>3, <2>d, <3>2, MaintenanceReserved DEF StreamQuiet
        <3>3. QED
            BY <2>3, <3>1, <3>2 DEF StreamQuiet, QueueUntouched
    <2>4. CASE ProvideTimestep
        <3>1. /\ QueuedTimesteps' = QueuedTimesteps \cup {WriterTimestep + 1}
              /\ WriterTimestep' = WriterTimestep + 1
              /\ PreciousTimestep \subseteq PreciousTimestep' /\ PreciousTimestep' \subseteq {0}
              /\ UNCHANGED <<Expired, Emptied>>
            BY <2>2, <2>4 DEF ProvideTimestep
        <3>2. /\ WriterTimestep \in Int /\ WriterTimestep + 1 \notin Expired
              /\ \A t \in QueuedTimesteps : t \in Int
            BY DEF TypeInv, TypeOK, QueueTypes, StreamTypes, Steps, Contiguous
        <3>3. \A t \in QueuedTimesteps' \ QueuedTimesteps :
                  t \notin Expired /\ \A u \in QueuedTimesteps' : u <= t
            BY <1>0, <3>1, <3>2
        <3>4. \A t \in (0 .. WriterTimestep') \ (0 .. WriterTimestep) : t \in QueuedTimesteps' \ Expired
            BY <3>1, <3>2
        <3>5. \A t \in 0 .. WriterTimestep : Cardinality(Above(t)') >= Cardinality(Above(t))
            BY <1>0, <2>4, AboveProvided
        <3>6. QED
            BY <1>0, <2>1, <2>d, <3>1, <3>3, <3>4, <3>5, GrownReserved
    <2>5. CASE DeliverBegin
        <3>1. /\ UNCHANGED <<QueuedTimesteps, Expired, PreciousTimestep, WriterTimestep>>
              /\ Emptied \subseteq Emptied'
            BY <2>5 DEF DeliverBegin, streamVars, stepVars
        <3>2. Kept \subseteq Kept'
            BY <3>1 DEF Kept, Fallow
        <3>3. \A t \in 0 .. WriterTimestep : Cardinality(Above(t)') >= Cardinality(Above(t))
            BY <1>0, <3>1, <3>2, AboveGrows
        <3>4. QED
            BY <1>0, <2>1, <2>2, <2>d, <3>1, <3>3, GrownReserved
    <2>6. CASE ProvideTimestepDiscarded
        <3>1. MainAt("discardLoop") /\ Providing
            BY <2>6 DEF ProvideTimestepDiscarded, MainAt, Providing
        <3>2. step["main"] = WriterTimestep /\ WriterTimestep \in Emptied
            BY <3>1 DEF TypeInv, Serving, HeldInv, Discards, Discarding
        <3>3. /\ QueueMaintenance(Expired \cup {WriterTimestep})
              /\ UNCHANGED <<stepVars, Emptied, PreciousTimestep>>
            BY <2>6, <3>2 DEF ProvideTimestepDiscarded, streamVars, stepVars, markVars
        <3>4. QED
            BY <1>0, <2>1, <2>d, <3>2, <3>3, MaintenanceReserved
    <2>7. QED
        BY <2>1, <2>3, <2>4, <2>5, <2>6, StreamStep
<1>3. QED
    BY <1>1, <1>2

(* No step is missing at first. *)
LEMMA InitReserved == Init => Reserved
BY DEF Init, Reserved, DiscardedGone, Fallow

(* However steps are released, dereferenced, discarded and removed, the *)
(* reserve is above each that has expired.                              *)
THEOREM ReservedInvariance == Spec => []Reserved
<1>1. Init => Reserved
    BY InitReserved
<1>2. TypeInv /\ TypeInv' /\ RefInv /\ LiveInv /\ HeldInv /\ ServeInv /\ Reserved /\ [Next]_vars => Reserved'
    BY NextReserved DEF ServeInv
<1>3. QED
    BY <1>1, <1>2, TypeInvariance, RefInvariance, LiveInvariance, HeldInvariance, ServeInvariance, PTL DEF Spec

(* Between the writer's calls, for each step that QueueMaintenance has     *)
(* freed there are ReserveQueueLimit newer or precious ones in the queue   *)
(* for readers that come late, or one less when the newest was discarded.  *)
THEOREM ReserveIsKept == Spec => []ReserveKept
<1>1. TypeInv /\ Reserved => ReserveKept
    <2> SUFFICES ASSUME TypeInv, Reserved, pc["main"] = "app",
                        NEW t \in (0 .. WriterTimestep) \ (QueuedTimesteps \cup Emptied)
                 PROVE  Cardinality({u \in QueuedTimesteps : u > t \/ u \in PreciousTimestep})
                            >= ReserveQueueLimit - (IF WriterTimestep \in Emptied THEN 1 ELSE 0)
        BY DEF ReserveKept
    <2> DEFINE S == {u \in QueuedTimesteps : u > t \/ u \in PreciousTimestep}
               newest == {WriterTimestep} \cap Emptied
    <2>1. Presenting /\ ReserveQueueLimit \in Nat
        BY ConstantsAssumption DEF Presenting
    <2>2. Cardinality(Above(t)) >= ReserveQueueLimit
        BY <2>1 DEF Reserved, Fallow
    <2>3. Above(t) \subseteq S \cup newest /\ S \in SUBSET Steps /\ newest \in SUBSET Steps
        BY DEF Above, Kept, Fallow, TypeInv, TypeOK, QueueTypes
    <2>4. newest = IF WriterTimestep \in Emptied THEN {WriterTimestep} ELSE {}
        OBVIOUS
    <2> HIDE DEF S, newest
    <2>5. Cardinality(newest) = IF WriterTimestep \in Emptied THEN 1 ELSE 0
        BY <2>4, FS_EmptySet, FS_Singleton
    <2>6. S \cup newest \in SUBSET Steps /\ Above(t) \in SUBSET (S \cup newest)
        BY <2>3
    <2>7. /\ IsFiniteSet(S) /\ IsFiniteSet(newest) /\ Cardinality(S) \in Nat
          /\ Cardinality(Above(t)) \in Nat /\ Cardinality(S \cup newest) \in Nat
          /\ Cardinality(Above(t)) <= Cardinality(S \cup newest)
        BY <2>3, <2>6, StepsFinite
    <2>8. Cardinality(S \cup newest) = Cardinality(S) + Cardinality(newest) - Cardinality(S \cap newest)
        BY <2>7, FS_Union
    <2>9. Cardinality(S \cap newest) \in Nat
        BY <2>7, FS_Intersection, FS_CardinalityType
    <2>10. Cardinality(S) >= ReserveQueueLimit - (IF WriterTimestep \in Emptied THEN 1 ELSE 0)
        BY <2>1, <2>2, <2>5, <2>7, <2>8, <2>9
    <2>11. QED
        BY <2>10 DEF S
<1>2. QED
    BY <1>1, TypeInvariance, ReservedInvariance, PTL

-----------------------------------------------------------------------------
(* Even turns *)

(* All readers are there before the first step, and none leaves before the *)
(* end of the stream.                                                      *)
AllStay == MayLeave = {} /\ MayFail = {} /\ Cardinality(Cohorts) <= Rendezvous

(* SstWriterClose has been called. *)
Ending == MainAt("closeLoop") \/ pc["main"] \in ClosingPcs \cup {"destroyed"}

(* No reader has left, and net has neither given one up nor sent it anything. *)
Staying ==
    /\ gotClose = {}
    /\ \A r \in Cohorts : peer[r] \notin Left
    /\ ~InCall("net") /\ pc["net"] \notin {"closeLoop", "requestSent"}

(* Until the stream is established, as many readers were admitted as the *)
(* rendezvous no longer waits for; from then on, all are live.           *)
Arrived ==
    IF Status = "NotOpen"
    THEN /\ pc["main"] \in {"rendezvous", "participate", "awaitReader"}
         /\ Len(Readers) + RendezvousReaderCount =
                Rendezvous + (IF pc["main"] = "awaitReader" THEN 1 ELSE 0)
         /\ pc["main"] = "awaitReader" => InReaders(rdr["main"])
         /\ NextRRDistribution = 0
         /\ \A r \in Cohorts : received[r] = {}
    ELSE \A r \in Cohorts : InReaders(r) /\ peer[r] = "live"

(* Of what they got or are being sent, the readers whose turn has been have *)
(* one step more than the others.                                           *)
InTurn(q) ==
    \A i \in 1 .. Len(Readers) :
        Cardinality(Has(Readers[i])) = IF i <= NextRRDistribution THEN q + 1 ELSE q
Turns == NextRRDistribution <= Len(Readers) /\ \E q \in Nat : InTurn(q)

TurnInv == ~Ending => Staying /\ Arrived /\ Turns

(* SstWriterClose is not taken back. *)
LEMMA EndingStays ==
    ASSUME TypeInv, [Next]_vars, Ending
    PROVE  Ending'
<1> USE DEF Threads, ClosingPcs, Goto
<1>0. ThreadTypes
    BY DEF TypeInv, TypeOK
<1>1. CASE NetInHandler \/ Environment
    BY <1>1, NetEffect DEF NetFrame, Ending, MainAt, InCall
<1>2. CASE Shared("main")
    <2>1. pc["main"] \in CallPcs /\ MainAt("closeLoop")
        BY <1>2, CallEffect DEF CallFrame, Ending, CallPcs
    <2>2. CASE pc["main"] = "closeLoop"
        BY <1>0, <1>2, <2>2 DEF Shared, SendCloseMsgs, WriteToReader, SendCloseMsgsDone, Ending, MainAt, InCall, CallPcs,
            ThreadTypes, DerefAllSentTimesteps, DerefRelocked, PeerFailCloseFinish, Registered, CMwrite, Written, WriteFailed
    <2>3. CASE pc["main"] # "closeLoop"
        <3>1. InCall("main") /\ ret["main"] = "closeLoop"
            BY <2>1, <2>3 DEF MainAt
        <3>2. CASE \E ok \in BOOLEAN : CMwrite("main", ok)
            BY <1>0, <3>1, <3>2 DEF CMwrite, callVars, Ending, MainAt, InCall, CallPcs, ThreadTypes
        <3>3. CASE WriteFailed("main")
            <4>1. rdr["main"] \in Cohorts
                BY <3>1 DEF TypeInv, Positioned
            <4>2. PeerFailEffect("main", rdr["main"], ret["main"])
                BY <3>1, <3>3, <4>1, PeerFailCloseEffect DEF WriteFailed, TypeInv, Statuses, CallPcs
            <4>3. QED
                BY <1>0, <3>1, <4>2 DEF PeerFailEffect, Ending, MainAt, InCall, CallPcs, ThreadTypes
        <3>4. CASE DerefAllSentTimesteps("main") \/ DerefRelocked("main") \/ PeerFailCloseFinish("main")
                   \/ Registered("main") \/ Written("main")
            BY <1>0, <3>1, <3>4 DEF DerefAllSentTimesteps, DerefRelocked, PeerFailCloseFinish, Registered, Written,
                dataVars, callVars, Ending, MainAt, InCall, CallPcs, ThreadTypes
        <3>5. CASE SendCloseMsgs("main") \/ SendCloseMsgsDone("main")
            BY <2>3, <3>5 DEF SendCloseMsgs, SendCloseMsgsDone
        <3>6. QED
            BY <1>2, <3>2, <3>3, <3>4, <3>5 DEF Shared
    <2>4. QED
        BY <2>2, <2>3
<1>3. CASE \/ SstWriterOpenRendezvous \/ WriterParticipateInReaderOpen \/ waitForReaderResponse
           \/ StrayUnlock \/ SendQueued \/ SendQueuedDone \/ ProvideTimestep \/ DecideTimestep \/ BlockedOnQueueFull
           \/ ProcessReaderStatusListBegin \/ ProcessReaderStatusList \/ ProcessReaderStatusListDone
           \/ DeliverBegin \/ SendToAll \/ SendRoundRobin \/ SendOnDemand
           \/ ProvideTimestepSent \/ SendDiscarded \/ ProvideTimestepDiscarded \/ HandlePendingReaders
           \/ SstWriterClose
    BY <1>3 DEF SstWriterOpenRendezvous, WriterParticipateInReaderOpen, waitForReaderResponse,
        StrayUnlock, SendQueued, SendQueuedDone, ProvideTimestep, DecideTimestep, BlockedOnQueueFull,
        ProcessReaderStatusListBegin, ProcessReaderStatusList, ProcessReaderStatusListDone,
        DeliverBegin, SendToAll, SendRoundRobin, SendOnDemand,
        ProvideTimestepSent, SendDiscarded, ProvideTimestepDiscarded, HandlePendingReaders,
        SstWriterClose, Ending, MainAt, InCall, CallPcs
<1>4. CASE UntagPreciousTimesteps \/ WriterCloseDrain \/ SstStreamDestroy
    BY <1>0, <1>4 DEF UntagPreciousTimesteps, WriterCloseDrain, SstStreamDestroy, Ending, ThreadTypes
<1>5. CASE UNCHANGED vars
    BY <1>5 DEF vars, dataVars, callVars, Ending, MainAt, InCall
<1>6. QED
    BY <1>1, <1>2, <1>3, <1>4, <1>5 DEF Next, MainInCall, MainCalls, Terminated

(* What moves no one's turn *)
TurnKept ==
    /\ UNCHANGED <<Readers, NextRRDistribution>>
    /\ \A r \in Cohorts : Has(r)' = Has(r)

(* Turns is about Readers, the cursor and what each reader got or is sent. *)
LEMMA TurnKeptHolds ==
    ASSUME TypeInv, Turns, TurnKept
    PROVE  Turns'
<1>1. Readers \in Seq(Cohorts)
    BY DEF TypeInv, TypeOK, StreamTypes
<1>2. \A i \in 1 .. Len(Readers) : Has(Readers[i])' = Has(Readers[i])
    BY <1>1 DEF TurnKept
<1>3. ASSUME NEW q \in Nat, InTurn(q) PROVE InTurn(q)'
    BY <1>2, <1>3 DEF InTurn, TurnKept
<1>4. PICK q \in Nat : InTurn(q)
    BY DEF Turns
<1>5. InTurn(q)'
    BY <1>3, <1>4
<1>6. QED
    BY <1>5 DEF Turns, TurnKept

(* net and the readers do not leave main without a reader. *)
LEMMA NetTurn ==
    ASSUME TypeInv, LiveInv, AllStay, StepDistributionMode = "RoundRobin",
           Staying, Arrived, Turns, NetInHandler \/ Environment
    PROVE  Staying' /\ Arrived' /\ Turns'
<1> USE DEF Threads, markVars, queueVars, openVars, stepVars, distVars, closeVars, streamVars, listVars,
            linkVars, readerVars, callVars, localVars, peerVars, dataVars, Goto
<1>0. ThreadTypes /\ PeerTypes
    BY DEF TypeInv, TypeOK
<1>1. NetFrame
    BY NetEffect
<1>2. ~Shared("net")
    BY DEF Staying, InCall, CallPcs, Shared, DerefAllSentTimesteps, DerefRelocked, PeerFailCloseFinish, Registered,
        CMwrite, Written, WriteFailed, SendCloseMsgs, SendCloseMsgsDone
<1>3. \A r \in Cohorts : ~CloseWSRStream(r) /\ ~ReaderCloses(r) /\ ~ReaderCrashes(r) /\ ~ConnectionCloses(r)
                         /\ ~ReaderRequests(r)
    BY DEF Staying, AllStay, CloseWSRStream, ReaderCloses, ReaderCrashes, ConnectionCloses, ReaderRequests, LiveInv, Peers,
        Left
<1> DEFINE Quiet == /\ UNCHANGED <<received, gotClose, NextRRDistribution>>
                    /\ \A r \in Cohorts : peer'[r] = peer[r] \/ peer'[r] \in {"registered", "live"}
                    /\ \A r \in Cohorts : peer[r] = "live" => peer'[r] = "live"
                    /\ pc'["net"] \in {"idle", "releaseRelease", "releaseDone"}
<1>4. Quiet
    <2>1. CASE ConnCloseDone \/ ReleaseDone \/ HandlerDone \/ ReleaseRelocked
        BY <1>0, <2>1 DEF ConnCloseDone, ReleaseDone, HandlerDone, ReleaseRelocked, ThreadTypes
    <2>2. ~RequestSent
        BY DEF Staying, RequestSent
    <2>3. ASSUME NEW r \in Cohorts, ReaderRegisters(r) PROVE Quiet
        BY <1>0, <2>3 DEF ReaderRegisters, queueReaderRegisterMsgAndNotify, PeerTypes
    <2>4. ASSUME NEW r \in Cohorts, ReaderActivates(r) PROVE Quiet
        BY <1>0, <2>4 DEF ReaderActivates, CP_ReaderActivateHandler, PeerTypes
    <2>5. ASSUME NEW r \in Cohorts, NEW t \in Steps, ReaderReleases(r, t) PROVE Quiet
        BY <1>0, <2>5 DEF ReaderReleases, CP_ReleaseTimestepHandler, ThreadTypes
    <2>6. QED
        BY <1>2, <1>3, <2>1, <2>2, <2>3, <2>4, <2>5 DEF NetInHandler, Environment
<1>5. Staying'
    BY <1>4 DEF Staying, InCall, CallPcs, Left
<1>6. /\ pc'["main"] = pc["main"] /\ rdr'["main"] = rdr["main"] /\ ret'["main"] = ret["main"]
      /\ step'["main"] = step["main"]
      /\ UNCHANGED <<Status, RendezvousReaderCount, Readers>>
    BY <1>1 DEF NetFrame
<1>7. Arrived'
    BY <1>4, <1>6 DEF Arrived, InReaders
<1>8. TurnKept
    BY <1>4, <1>6 DEF TurnKept, Has, Sending
<1>9. QED
    BY <1>5, <1>7, <1>8, TurnKeptHolds

(* While no reader leaves, those main has admitted are live, but for the one *)
(* it waits for; and it gives none up.                                       *)
LEMMA StayingReaders ==
    ASSUME TypeInv, LiveInv, Staying
    PROVE  /\ \A r \in Cohorts : InReaders(r) =>
                 \/ ReaderStatus[r] = "Established" /\ peer[r] = "live"
                 \/ pc["main"] = "awaitReader" /\ rdr["main"] = r /\ ReaderStatus[r] = "Opening"
           /\ pc["main"] \notin GivingUp
           /\ InCall("main") => rdr["main"] \in Cohorts /\ peer[rdr["main"]] = "live"
<1>1. ReaderStatus \in [Cohorts -> Statuses]
    BY DEF TypeInv, TypeOK, ReaderTypes
<1>2. ASSUME NEW r \in Cohorts, InReaders(r)
      PROVE  \/ ReaderStatus[r] = "Established" /\ peer[r] = "live"
             \/ pc["main"] = "awaitReader" /\ rdr["main"] = r /\ ReaderStatus[r] = "Opening"
    BY <1>1, <1>2 DEF LiveInv, Peers, Staying, Statuses, Departed
<1>3. InCall("main") => rdr["main"] \in Cohorts /\ peer[rdr["main"]] = "live" /\ pc["main"] \notin GivingUp
    BY DEF TypeInv, Positioned, LiveInv, Calls, Staying, Threads
<1>4. pc["main"] \in GivingUp => InCall("main")
    BY DEF GivingUp, InCall, CallPcs
<1>5. QED
    BY <1>2, <1>3, <1>4

(* A step of main that hands nothing out and admits no reader *)
QuietTurn ==
    /\ TurnKept
    /\ UNCHANGED <<Status, RendezvousReaderCount, gotClose, peer>>
    /\ pc'["net"] = pc["net"]
    /\ Status # "NotOpen"

(* Such a step keeps all three parts of TurnInv. *)
LEMMA QuietTurnHolds ==
    ASSUME TypeInv, Staying, Arrived, Turns, QuietTurn
    PROVE  Staying' /\ Arrived' /\ Turns'
<1>1. Staying'
    BY DEF Staying, QuietTurn, InCall
<1>2. Arrived'
    BY DEF Arrived, QuietTurn, TurnKept, InReaders
<1>3. QED
    BY <1>1, <1>2, TurnKeptHolds DEF QuietTurn

(* The procedures main calls write what it has to send, and return. *)
LEMMA CallTurn ==
    ASSUME TypeInv, LiveInv, ~Ending, Staying, Arrived, Turns, Shared("main")
    PROVE  Staying' /\ Arrived' /\ Turns'
<1> USE DEF Threads, markVars, queueVars, openVars, stepVars, distVars, closeVars, streamVars, listVars,
            linkVars, readerVars, callVars, localVars, peerVars, dataVars, Goto
<1>0. ThreadTypes /\ PeerTypes /\ ReturnOK
    BY DEF TypeInv, TypeOK
<1>1. InCall("main") => rdr["main"] \in Cohorts /\ peer[rdr["main"]] = "live"
    BY StayingReaders
<1>2. ~DerefAllSentTimesteps("main") /\ ~DerefRelocked("main") /\ ~PeerFailCloseFinish("main") /\ ~WriteFailed("main")
    BY StayingReaders DEF GivingUp, DerefAllSentTimesteps, DerefRelocked, PeerFailCloseFinish, WriteFailed
<1>3. ~SendCloseMsgs("main") /\ ~SendCloseMsgsDone("main")
    BY DEF Ending, MainAt, SendCloseMsgs, SendCloseMsgsDone
<1>4. Status # "NotOpen" /\ Status # "Destroyed"
    BY <1>2, <1>3 DEF Arrived, Shared, Registered, CMwrite, Written, Ending, TypeInv, Admissions
<1>5. CASE Registered("main")
    <2>1. pc["main"] = "register" /\ InCall("main") /\ ret["main"] \in MetadataSends
        BY <1>0, <1>5 DEF Registered, InCall, CallPcs, ReturnOK, SendRets, MetadataSends
    <2>2. Sendable(rdr["main"])
        BY <1>1, <1>4, <2>1 DEF LiveInv, Peers, Sendable
    <2>3. pc' = [pc EXCEPT !["main"] = "write"] /\ UNCHANGED dataVars
        BY <1>5, <2>2 DEF Registered
    <2>4. QuietTurn
        BY <1>0, <1>4, <2>1, <2>3 DEF QuietTurn, TurnKept, Has, Sending, ThreadTypes
    <2>5. QED
        BY <2>4, QuietTurnHolds
<1>6. ASSUME NEW ok \in BOOLEAN, CMwrite("main", ok) PROVE Staying' /\ Arrived' /\ Turns'
    <2>1. pc["main"] = "write" /\ InCall("main") /\ ret["main"] # "closeLoop"
        BY <1>6 DEF CMwrite, InCall, CallPcs, Ending, MainAt
    <2>2. peer[rdr["main"]] = "live" /\ ok = TRUE
        BY <1>1, <1>6, <2>1 DEF CMwrite
    <2>3. pc' = [pc EXCEPT !["main"] = "written"] /\ UNCHANGED <<gotClose, peer, Readers, streamVars, callVars>>
        BY <1>6, <2>1, <2>2 DEF CMwrite
    <2>4. received' = IF ret["main"] \in MetadataSends
                      THEN [received EXCEPT ![rdr["main"]] = @ \cup {step["main"]}] ELSE received
        BY <1>6, <2>2 DEF CMwrite
    <2>5. ~Sending("main")' /\ (Sending("main") <=> ret["main"] \in MetadataSends)
        BY <1>0, <2>1, <2>3 DEF Sending, ThreadTypes
    <2>6. ASSUME NEW r \in Cohorts PROVE Has(r)' = Has(r)
        BY <1>0, <2>4, <2>5 DEF Has, PeerTypes
    <2>7. pc'["net"] = pc["net"]
        BY <1>0, <2>3 DEF ThreadTypes
    <2>8. TurnKept
        BY <2>3, <2>6 DEF TurnKept
    <2>9. QuietTurn
        BY <1>4, <2>3, <2>7, <2>8 DEF QuietTurn
    <2>10. QED
        BY <2>9, QuietTurnHolds
<1>7. CASE Written("main")
    <2>1. pc["main"] = "written" /\ UNCHANGED dataVars /\ pc' = [pc EXCEPT !["main"] = ret["main"]] /\ ret["main"] \in WriteRets
        BY <1>0, <1>7 DEF Written, ReturnOK
    <2>2. ~Sending("main") /\ ~Sending("main")'
        BY <1>0, <2>1 DEF Sending, ThreadTypes, WriteRets, SendRets
    <2>3. QuietTurn
        BY <1>0, <1>4, <2>1, <2>2 DEF QuietTurn, TurnKept, Has, ThreadTypes
    <2>4. QED
        BY <2>3, QuietTurnHolds
<1>9. QED
    BY <1>2, <1>3, <1>5, <1>6, <1>7 DEF Shared

(* When the rendezvous is over everyone has been admitted. *)
LEMMA AllAdmitted ==
    ASSUME TypeInv, RefInv, AllStay, Len(Readers) = Rendezvous
    PROVE  \A r \in Cohorts : InReaders(r)
<1> DEFINE n == Len(Readers)
           at == [i \in 1 .. n |-> Readers[i]]
<1>1. Readers \in Seq(Cohorts) /\ n \in Nat
    BY DEF TypeInv, TypeOK, StreamTypes
<1>2. at \in Injection(1 .. n, Cohorts)
    BY <1>1 DEF RefInv, Admitted, ListedOnce, Injection, IsInjective
<1>3. IsFiniteSet(1 .. n) /\ Cardinality(1 .. n) = n
    BY <1>1, FS_Interval
<1>4. IsFiniteSet(Cohorts) /\ Cardinality(Cohorts) \in Nat
    BY ConstantsAssumption, FS_CardinalityType
<1>5. Cardinality(Cohorts) <= n
    BY DEF AllStay
<1>6. n <= Cardinality(Cohorts) /\ (n = Cardinality(Cohorts) <=> at \in Surjection(1 .. n, Cohorts))
    BY <1>2, <1>3, <1>4, FS_Injection
<1>7. at \in Surjection(1 .. n, Cohorts)
    BY <1>1, <1>4, <1>5, <1>6
<1>8. QED
    BY <1>7 DEF Surjection, InReaders

(* main admits the readers of the rendezvous and no others. *)
LEMMA AdmissionTurn ==
    ASSUME TypeInv, RefInv, LiveInv, OrderInv, AllStay, StepDistributionMode = "RoundRobin",
           Staying, Arrived, Turns,
           SstWriterOpenRendezvous \/ WriterParticipateInReaderOpen \/ waitForReaderResponse \/ StrayUnlock
    PROVE  Staying' /\ Arrived' /\ Turns'
<1> USE DEF Threads, markVars, queueVars, openVars, stepVars, distVars, closeVars, streamVars, listVars,
            linkVars, readerVars, callVars, localVars, peerVars, dataVars, Goto
<1>0. ThreadTypes /\ PeerTypes /\ StreamTypes /\ ReaderTypes
    BY DEF TypeInv, TypeOK
<1>1. \A r \in Cohorts : InReaders(r) =>
          \/ ReaderStatus[r] = "Established" /\ peer[r] = "live"
          \/ pc["main"] = "awaitReader" /\ rdr["main"] = r /\ ReaderStatus[r] = "Opening"
    BY StayingReaders
<1>2. UNCHANGED <<received, gotClose, peer, NextRRDistribution>> /\ pc'["net"] = pc["net"]
      /\ ~Sending("main") /\ ~Sending("main")'
    BY <1>0 DEF SstWriterOpenRendezvous, WriterParticipateInReaderOpen, waitForReaderResponse, StrayUnlock,
        ReaderAdmitted, Sending, ThreadTypes
<1>3. Staying' /\ \A r \in Cohorts : Has(r)' = Has(r)
    BY <1>2 DEF Staying, InCall, Has
<1>4. UNCHANGED Readers => Turns'
    BY <1>2, <1>3, TurnKeptHolds DEF TurnKept
<1>5. CASE SstWriterOpenRendezvous
    <2>1. Status = "NotOpen" /\ pc["main"] = "rendezvous"
        BY <1>5 DEF SstWriterOpenRendezvous, TypeInv, Admissions
    <2>2. UNCHANGED <<Readers, RendezvousReaderCount, rdr>>
        BY <1>5 DEF SstWriterOpenRendezvous
    <2>3. CASE RendezvousReaderCount = 0
        <3>1. Len(Readers) = Rendezvous
            BY <1>0, <2>1, <2>3, ConstantsAssumption DEF Arrived, StreamTypes
        <3>2. \A r \in Cohorts : InReaders(r) /\ peer[r] = "live"
            BY <1>1, <2>1, <3>1, AllAdmitted
        <3>3. Status' = "Established"
            BY <1>5, <2>3 DEF SstWriterOpenRendezvous
        <3>4. QED
            BY <1>2, <1>3, <1>4, <2>2, <3>2, <3>3 DEF Arrived, InReaders
    <2>4. CASE RendezvousReaderCount # 0
        <3>1. Status' = Status /\ pc'["main"] \in {"rendezvous", "participate"}
            BY <1>0, <1>5, <2>1, <2>4 DEF SstWriterOpenRendezvous, ThreadTypes
        <3>2. QED
            BY <1>2, <1>3, <1>4, <2>1, <2>2, <3>1 DEF Arrived
    <2>5. QED
        BY <2>3, <2>4
<1>6. CASE WriterParticipateInReaderOpen
    <2>1. pc["main"] = "participate" /\ pc'["main"] = "awaitReader" /\ UNCHANGED <<Status, RendezvousReaderCount>>
        BY <1>0, <1>6 DEF WriterParticipateInReaderOpen, ThreadTypes
    <2>2. ReaderRegisterQueue # <<>> /\ ReaderRegisterQueue \in Seq(Cohorts)
        BY <1>0, <2>1 DEF TypeInv, Admissions, StreamTypes
    <2> DEFINE r == Head(ReaderRegisterQueue)
    <2>3. r \in Cohorts /\ InQueue(r)
        BY <2>2 DEF InQueue
    <2>4. peer[r] # "live"
        BY <2>3 DEF RefInv, Admitted, ListedOnce
    <2>5. Status = "NotOpen"
        BY <2>3, <2>4 DEF Arrived
    <2>6. Readers' = Append(Readers, r) /\ rdr'["main"] = r
        BY <1>0, <1>6 DEF WriterParticipateInReaderOpen, ThreadTypes
    <2> HIDE DEF r
    <2>7. Readers \in Seq(Cohorts) /\ Len(Readers') = Len(Readers) + 1 /\ Readers'[Len(Readers')] = r
          /\ \A i \in 1 .. Len(Readers') : Readers'[i] \in Cohorts
        BY <1>0, <2>3, <2>6 DEF StreamTypes
    <2>8. InReaders(rdr["main"])'
        BY <2>6, <2>7 DEF InReaders
    <2>9. Arrived'
        BY <1>0, <1>2, <2>1, <2>5, <2>7, <2>8, ConstantsAssumption DEF Arrived, StreamTypes
    <2>10. \A x \in Cohorts : Cardinality(Has(x)') = 0
        BY <1>2, <2>5, FS_EmptySet DEF Arrived, Has
    <2>11. InTurn(0)'
        BY <1>2, <2>5, <2>7, <2>10 DEF InTurn, Arrived
    <2>12. Turns'
        BY <1>2, <2>5, <2>7, <2>11 DEF Turns, Arrived
    <2>13. QED
        BY <1>3, <2>9, <2>12
<1>7. CASE waitForReaderResponse
    <2> DEFINE r == rdr["main"]
    <2>1. /\ pc["main"] = "awaitReader" /\ UNCHANGED <<Status, Readers, rdr>>
        BY <1>7 DEF waitForReaderResponse
    <2>2. r \in Cohorts /\ InReaders(r)
        BY <2>1 DEF TypeInv, Positioned, Arrived
    <2>3. ReaderStatus[r] \in {"Opening", "Established"}
        BY <1>1, <2>2
    <2>4. \/ UNCHANGED <<pc, RendezvousReaderCount>>
          \/ ReaderAdmitted
        BY <1>7, <2>3 DEF waitForReaderResponse
    <2>5. Status # "Destroyed"
        BY <2>1 DEF TypeInv, Admissions
    <2>6. Arrived'
        <3>1. CASE Status = "NotOpen"
            <4>1. Len(Readers) \in Nat /\ RendezvousReaderCount \in Int /\ Rendezvous \in Nat
                BY <1>0, ConstantsAssumption DEF StreamTypes
            <4>2. Len(Readers) + RendezvousReaderCount = Rendezvous + 1 /\ NextRRDistribution = 0
                  /\ \A x \in Cohorts : received[x] = {}
                BY <2>1, <3>1 DEF Arrived
            <4>3. CASE UNCHANGED <<pc, RendezvousReaderCount>>
                BY <1>2, <2>1, <2>2, <3>1, <4>2, <4>3 DEF Arrived, InReaders
            <4>4. CASE ReaderAdmitted
                <5>1. pc'["main"] = "rendezvous" /\ RendezvousReaderCount' = RendezvousReaderCount - 1
                    BY <1>0, <3>1, <4>4 DEF ReaderAdmitted, ThreadTypes
                <5>2. Len(Readers') + RendezvousReaderCount' = Rendezvous + 0
                    BY <2>1, <4>1, <4>2, <5>1
                <5>3. QED
                    BY <1>2, <2>1, <3>1, <4>2, <5>1, <5>2 DEF Arrived
            <4>5. QED
                BY <2>4, <4>3, <4>4
        <3>2. CASE Status # "NotOpen"
            BY <1>2, <2>1, <3>2 DEF Arrived, InReaders
        <3>3. QED
            BY <3>1, <3>2
    <2>7. QED
        BY <1>3, <1>4, <2>1, <2>6
<1>8. CASE StrayUnlock
    <2>1. pc["main"] = "strayUnlock" /\ UNCHANGED <<Status, Readers>>
        BY <1>8 DEF StrayUnlock
    <2>2. Status # "NotOpen"
        BY <2>1 DEF Arrived
    <2>3. QED
        BY <1>2, <1>3, <1>4, <2>1, <2>2 DEF Arrived, InReaders
<1>9. QED
    BY <1>5, <1>6, <1>7, <1>8

(* The reader whose turn it is gets the step, which is new to it. *)
LEMMA RoundRobinTurn ==
    ASSUME TypeInv, RefInv, LiveInv, OrderInv, Staying, Arrived, Turns, SendRoundRobin
    PROVE  Staying' /\ Arrived' /\ Turns'
<1> USE DEF Threads, stepVars, Goto
<1>0. ThreadTypes /\ PeerTypes /\ StreamTypes /\ ReaderTypes
    BY DEF TypeInv, TypeOK
<1> DEFINE t == step["main"]
<1>1. pc["main"] = "sendLoop" /\ StepDistributionMode = "RoundRobin" /\ idx["main"] = 1 /\ Readers # <<>>
    BY DEF SendRoundRobin, RoundRobinDue
<1>2. Readers \in Seq(Cohorts) /\ Len(Readers) \in Nat \ {0} /\ NextRRDistribution \in Nat
      /\ NextRRDistribution <= Len(Readers)
    BY <1>0, <1>1, EmptySeq DEF StreamTypes, Turns
<1>3. PICK k \in 1 .. Len(Readers) :
          k = NextInTurn + 1 /\ k = IF NextRRDistribution = Len(Readers) THEN 1 ELSE NextRRDistribution + 1
    BY <1>2 DEF NextInTurn
<1>4. PICK r \in Cohorts : r = Readers[k] /\ InReaders(r)
    BY <1>2, <1>3 DEF InReaders
<1>5. IsEstablished(r)
    BY <1>1, <1>4, StayingReaders DEF IsEstablished
<1>6. /\ NextRRDistribution' = k /\ SendTimestepEntryToSingleReader("main", r, t, "sendLoop")
    BY <1>3, <1>4, <1>5 DEF SendRoundRobin
<1>7. /\ UNCHANGED <<Readers, received, gotClose, peer, Status, RendezvousReaderCount>>
      /\ pc' = [pc EXCEPT !["main"] = "register"] /\ ret'["main"] = "sendLoop" /\ rdr'["main"] = r
      /\ step'["main"] = t
    BY <1>0, <1>6 DEF SendTimestepEntryToSingleReader, openVars, ThreadTypes
<1>8. ~Sending("main") /\ Sending("main")' /\ pc'["net"] = pc["net"]
    BY <1>0, <1>1, <1>7 DEF Sending, MetadataSends, ThreadTypes
<1>9. Status # "NotOpen"
    BY <1>1 DEF Arrived
<1>10. Staying' /\ Arrived'
    BY <1>7, <1>8, <1>9 DEF Staying, Arrived, InCall, InReaders
<1>11. /\ \A x \in Cohorts : Has(x) = received[x]
       /\ \A x \in Cohorts : x # r => Has(x)' = received[x]
       /\ Has(r)' = received[r] \cup {t}
    <2>1. \A x \in Cohorts : Has(x) = received[x]
        BY <1>8 DEF Has
    <2>2. \A x \in Cohorts :
              Has(x)' = received'[x] \cup (IF Sending("main")' /\ rdr'["main"] = x THEN {step'["main"]} ELSE {})
        BY DEF Has
    <2>3. \A x \in Cohorts : x # r => Has(x)' = received[x]
        BY <1>7, <1>8, <2>2
    <2>4. Has(r)' = received[r] \cup {t}
        BY <1>4, <1>7, <1>8, <2>2
    <2>5. QED
        BY <2>1, <2>3, <2>4
<1>12. t \notin received[r] /\ IsFiniteSet(received[r])
    <2>1. MainAt("sendLoop") /\ NobodyServed
        BY <1>1 DEF MainAt, NobodyServed
    <2>2. t = WriterTimestep /\ WriterTimestep \in Int
        BY <1>0, <2>1 DEF TypeInv, Serving, StreamTypes, Steps
    <2>3. \A u \in received[r] : u < WriterTimestep
        BY <1>4, <2>1 DEF OrderInv, Handed, Below
    <2>4. received[r] \in SUBSET Steps
        BY <1>0, <1>4 DEF PeerTypes
    <2>5. QED
        BY <2>2, <2>3, <2>4, StepsFinite
<1>13. Cardinality(received[r]) \in Nat /\ Cardinality(received[r] \cup {t}) = Cardinality(received[r]) + 1
    BY <1>12, FS_AddElement, FS_CardinalityType
<1>14. \A i \in 1 .. Len(Readers) : Readers[i] \in Cohorts /\ (Readers[i] = r <=> i = k)
    BY <1>2, <1>3, <1>4 DEF RefInv, Admitted, ListedOnce
<1>15. \A i \in 1 .. Len(Readers) :
           Cardinality(Has(Readers[i])') = IF i = k THEN Cardinality(Has(Readers[i])) + 1 ELSE Cardinality(Has(Readers[i]))
    <2> TAKE i \in 1 .. Len(Readers)
    <2>1. CASE i = k
        <3>1. Readers[i] = r
            BY <1>14, <2>1
        <3>2. Has(Readers[i])' = received[r] \cup {t} /\ Has(Readers[i]) = received[r]
            BY <1>4, <1>7, <1>11, <3>1
        <3>3. QED
            BY <1>13, <2>1, <3>2
    <2>2. CASE i # k
        <3>1. Readers[i] \in Cohorts /\ Readers[i] # r /\ Readers'[i] = Readers[i]
            BY <1>7, <1>14, <2>2
        <3>2. Has(Readers[i])' = Has(Readers[i])
            BY <1>7, <1>11, <3>1
        <3>3. QED
            BY <2>2, <3>2
    <2>3. QED
        BY <2>1, <2>2
<1>16. PICK q \in Nat : InTurn(q)
    BY DEF Turns
<1>17. \A i \in 1 .. Len(Readers) : Cardinality(Has(Readers[i])) = IF i <= NextRRDistribution THEN q + 1 ELSE q
    BY <1>16 DEF InTurn
<1>18. CASE NextRRDistribution = Len(Readers)
    <2>1. k = 1
        BY <1>3, <1>18
    <2>2. \A i \in 1 .. Len(Readers) : Cardinality(Has(Readers[i])') = IF i <= 1 THEN (q + 1) + 1 ELSE q + 1
        BY <1>2, <1>15, <1>17, <1>18, <2>1
    <2>3. InTurn(q + 1)'
        BY <1>6, <1>7, <2>1, <2>2 DEF InTurn
    <2>4. QED
        BY <1>2, <1>3, <1>6, <1>7, <1>10, <2>3 DEF Turns
<1>19. CASE NextRRDistribution # Len(Readers)
    <2>1. k = NextRRDistribution + 1
        BY <1>3, <1>19
    <2>2. \A i \in 1 .. Len(Readers) : Cardinality(Has(Readers[i])') = IF i <= k THEN q + 1 ELSE q
        BY <1>2, <1>15, <1>17, <2>1
    <2>3. InTurn(q)'
        BY <1>6, <1>7, <2>2 DEF InTurn
    <2>4. QED
        BY <1>2, <1>3, <1>6, <1>7, <1>10, <2>3 DEF Turns
<1>20. QED
    BY <1>18, <1>19

(* Every step keeps the turns even until SstWriterClose. *)
LEMMA NextTurn ==
    ASSUME TypeInv, RefInv, LiveInv, OrderInv, AllStay, StepDistributionMode = "RoundRobin", TurnInv, [Next]_vars
    PROVE  TurnInv'
<1> USE DEF Threads, markVars, queueVars, openVars, stepVars, distVars, closeVars, streamVars, listVars,
            linkVars, readerVars, callVars, localVars, peerVars, dataVars, Goto
<1> SUFFICES ASSUME ~Ending'
             PROVE  Staying' /\ Arrived' /\ Turns'
    BY DEF TurnInv
<1>0. ThreadTypes /\ StreamTypes
    BY DEF TypeInv, TypeOK
<1>1. ~Ending /\ Staying /\ Arrived /\ Turns
    BY EndingStays DEF TurnInv
<1>2. CASE NetInHandler \/ Environment
    BY <1>1, <1>2, NetTurn
<1>3. CASE Shared("main")
    BY <1>1, <1>3, CallTurn
<1>4. CASE SstWriterOpenRendezvous \/ WriterParticipateInReaderOpen \/ waitForReaderResponse \/ StrayUnlock
    BY <1>1, <1>4, AdmissionTurn
<1>5. CASE SendRoundRobin
    BY <1>1, <1>5, RoundRobinTurn
<1>6. CASE SendQueued \/ SendQueuedDone \/ SendToAll \/ SendOnDemand
    <2>1. ~SendQueued /\ ~SendQueuedDone
        BY DEF SendQueued, SendQueuedDone, RefInv, SentOnce, QueuedUnsent, MainAt
    <2>2. ~SendToAll
        BY DEF SendToAll
    <2>3. ~SendOnDemand
        BY DEF SendOnDemand, RequestDue, RefInv, SentOnce, DemandUnsent
    <2>4. QED
        BY <1>6, <2>1, <2>2, <2>3
<1>7. CASE ProcessReaderStatusList
    <2>1. pc["main"] = "statusLoop" /\ NextReader("main", StatusDiffers) # 0
        BY <1>7 DEF ProcessReaderStatusList
    <2>2. idx["main"] \in Int /\ idx["main"] >= 1 /\ Readers \in Seq(Cohorts)
        BY <1>0, <2>1 DEF TypeInv, Positioned, MainAt, ThreadTypes, StreamTypes
    <2>3. PICK i \in 1 .. Len(Readers) : Readers[i] \in StatusDiffers
        BY <2>1, <2>2, NextReaderIsReader DEF StatusDiffers
    <2>4. Readers[i] \in Cohorts /\ peer[Readers[i]] = "live"
        BY <1>1, <2>1, <2>2, <2>3 DEF Arrived
    <2>5. ReaderStatus[Readers[i]] = "Established" /\ snapshot[Readers[i]] = "Established"
        BY <2>1, <2>4 DEF LiveInv, Peers, Snapshots, InWindow
    <2>6. QED
        BY <2>3, <2>5 DEF StatusDiffers
<1>8. CASE \/ DecideTimestep \/ BlockedOnQueueFull \/ ProcessReaderStatusListBegin \/ ProcessReaderStatusListDone
           \/ DeliverBegin \/ ProvideTimestepSent \/ ProvideTimestepDiscarded \/ HandlePendingReaders
           \/ ProvideTimestep
    <2>1. /\ pc["main"] \in {"decide", "blocked", "distribute", "statusLoop", "deliver", "sendLoop", "discardLoop",
                              "pending", "app"}
          /\ UNCHANGED <<Readers, NextRRDistribution, Status, RendezvousReaderCount, received, gotClose, peer>>
          /\ pc'["net"] = pc["net"]
          /\ pc'["main"] \in MainPcs
        BY <1>0, <1>8 DEF DecideTimestep, BlockedOnQueueFull, TakeSnapshot, ProcessReaderStatusListBegin,
            ProcessReaderStatusListDone, DeliverBegin, ProvideTimestepSent, ProvideTimestepDiscarded,
            HandlePendingReaders, ProvideTimestep, ThreadTypes, MainPcs
    <2>2. Status # "NotOpen"
        BY <1>1, <2>1 DEF Arrived
    <2>3. ~Sending("main") /\ ~Sending("main")'
        BY <2>1 DEF Sending, MainPcs
    <2>4. QuietTurn
        BY <2>1, <2>2, <2>3 DEF QuietTurn, TurnKept, Has
    <2>5. QED
        BY <1>1, <2>4, QuietTurnHolds
<1>9. CASE SendDiscarded
    <2>1. /\ pc["main"] = "discardLoop" /\ pc' = [pc EXCEPT !["main"] = "write"] /\ ret'["main"] = "discardLoop"
          /\ UNCHANGED <<Readers, NextRRDistribution, Status, RendezvousReaderCount, received, gotClose, peer>>
        BY <1>0, <1>9 DEF SendDiscarded, WriteToReader, ThreadTypes
    <2>2. Status # "NotOpen"
        BY <1>1, <2>1 DEF Arrived
    <2>3. ~Sending("main") /\ ~Sending("main")' /\ pc'["net"] = pc["net"]
        BY <1>0, <2>1 DEF Sending, MetadataSends, ThreadTypes
    <2>4. QuietTurn
        BY <2>1, <2>2, <2>3 DEF QuietTurn, TurnKept, Has
    <2>5. QED
        BY <1>1, <2>4, QuietTurnHolds
<1>10. CASE SstWriterClose
    BY <1>0, <1>10 DEF SstWriterClose, CloseNow, Ending, MainAt, ThreadTypes
<1>11. CASE UntagPreciousTimesteps \/ WriterCloseDrain \/ SstStreamDestroy
    BY <1>1, <1>11 DEF UntagPreciousTimesteps, WriterCloseDrain, SstStreamDestroy, Ending, ClosingPcs
<1>12. CASE UNCHANGED vars
    <2>1. Staying'
        BY <1>1, <1>12 DEF vars, Staying, InCall
    <2>2. Arrived'
        BY <1>1, <1>12 DEF vars, Arrived, InReaders
    <2>3. TurnKept
        BY <1>12 DEF vars, TurnKept, Has, Sending
    <2>4. QED
        BY <1>1, <2>1, <2>2, <2>3, TurnKeptHolds
<1>13. QED
    BY <1>2, <1>3, <1>4, <1>5, <1>6, <1>7, <1>8, <1>9, <1>10, <1>11, <1>12
       DEF Next, MainInCall, MainCalls, Terminated

(* RoundRobin, with readers that are all there when the rendezvous is over   *)
(* and stay until the end of the stream: whatever the pace at which they     *)
(* release steps, and although steps may be discarded, between calls no      *)
(* reader got two steps more than another, nor one more than an earlier one. *)
THEOREM TurnsAreEven == AllStay /\ Spec => []RoundRobinEven
<1>1. Init => TurnInv
    <2>1. Init => pc["main"] = "rendezvous" /\ pc["net"] = "idle" /\ Len(Readers) = 0 /\ RendezvousReaderCount = Rendezvous
        BY DEF Init, Threads
    <2>2. Init => Staying /\ Arrived
        BY <2>1, ConstantsAssumption DEF Init, Staying, Arrived, InCall, CallPcs, Left
    <2>3. Init => Turns
        <3> SUFFICES ASSUME Init PROVE Turns
            OBVIOUS
        <3>1. NextRRDistribution = 0 /\ Len(Readers) = 0
            BY DEF Init
        <3>2. InTurn(0)
            BY <3>1 DEF InTurn
        <3>3. QED
            BY <3>1, <3>2 DEF Turns
    <2>4. QED
        BY <2>2, <2>3 DEF TurnInv
<1>2. AllStay /\ StepDistributionMode = "RoundRobin" /\ TypeInv /\ RefInv /\ LiveInv /\ OrderInv /\ TurnInv
      /\ [Next]_vars => TurnInv'
    BY NextTurn
<1>3. ASSUME TypeInv, StepDistributionMode = "RoundRobin" => TurnInv
      PROVE  RoundRobinEven
    <2> SUFFICES ASSUME StepDistributionMode = "RoundRobin", pc["main"] = "app",
                        NEW i \in 1 .. Len(Readers), NEW j \in 1 .. Len(Readers), i < j
                 PROVE  Cardinality(received[Readers[i]]) - Cardinality(received[Readers[j]]) \in {0, 1}
        BY DEF RoundRobinEven
    <2>1. Turns
        BY <1>3 DEF TurnInv, Ending, MainAt, InCall, CallPcs, ClosingPcs
    <2>2. PICK q \in Nat : InTurn(q)
        BY <2>1 DEF Turns
    <2>3. \A x : Has(x) = received[x]
        BY DEF Has, Sending
    <2>4. /\ Cardinality(received[Readers[i]]) = IF i <= NextRRDistribution THEN q + 1 ELSE q
          /\ Cardinality(received[Readers[j]]) = IF j <= NextRRDistribution THEN q + 1 ELSE q
        BY <2>2, <2>3 DEF InTurn
    <2>5. NextRRDistribution \in Nat /\ i \in Nat /\ j \in Nat
        BY <1>3 DEF TypeInv, TypeOK, StreamTypes
    <2>6. QED
        BY <2>4, <2>5
<1>4. SUFFICES ASSUME AllStay PROVE Spec => []RoundRobinEven
    OBVIOUS
<1>5. CASE StepDistributionMode = "RoundRobin"
    <2>1. TypeInv /\ RefInv /\ LiveInv /\ OrderInv /\ TurnInv /\ [Next]_vars => TurnInv'
        BY <1>2, <1>4, <1>5
    <2>2. TypeInv /\ TurnInv => RoundRobinEven
        BY <1>3
    <2>3. QED
        BY <1>1, <2>1, <2>2, TypeInvariance, RefInvariance, LiveInvariance, OrderInvariance, PTL DEF Spec
<1>6. CASE StepDistributionMode # "RoundRobin"
    <2>1. RoundRobinEven
        BY <1>6 DEF RoundRobinEven
    <2>2. QED
        BY <2>1, PTL
<1>7. QED
    BY <1>5, <1>6

=============================================================================
