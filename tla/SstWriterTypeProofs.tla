--------------------------- MODULE SstWriterTypeProofs ---------------------------
(* Type correctness of the SST writer, for every number of cohorts and      *)
(* steps, every queue limit, policy and distribution mode.  The invariant   *)
(* that carries it says where each thread is and what it works on.          *)
EXTENDS SstWriterProps, FiniteSetTheorems, SequenceTheorems, WellFoundedInduction, TLAPS

-----------------------------------------------------------------------------
(* The inductive invariant *)

SendRets     == {"queuedLoop", "sendLoop"}
WriteRets    == SendRets \cup {"discardLoop", "closeLoop"}
DerefRets    == WriteRets \cup {"statusLoop"}
NetWriteRets == {"requestSent", "closeLoop"}
NetDerefRets == NetWriteRets \cup {"handlerDone", "connCloseDone"}

InCall(th) == pc[th] \in CallPcs \ {"closeLoop"}

(* The shared procedures return to where they can have been called from. *)
ReturnOK ==
    /\ pc["main"] = "register" => ret["main"] \in SendRets
    /\ pc["main"] \in {"write", "written", "failed"} => ret["main"] \in WriteRets
    /\ pc["main"] \in {"derefLoop", "derefRelease"} => ret["main"] \in DerefRets
    /\ pc["net"] = "register" => ret["net"] = "requestSent"
    /\ pc["net"] \in {"write", "written", "failed"} => ret["net"] \in NetWriteRets
    /\ pc["net"] \in {"derefLoop", "derefRelease"} => ret["net"] \in NetDerefRets

(* main is at the loop "at", or in a call that returns to it *)
MainAt(at) == pc["main"] = at \/ (InCall("main") /\ ret["main"] = at)

(* A thread that works on a reader has one, and walks the list from its head. *)
Positioned ==
    /\ \A th \in Threads : InCall(th) => rdr[th] \in Cohorts
    /\ pc["main"] \in {"awaitReader", "queuedLoop"} => rdr["main"] \in Cohorts
    /\ \A l \in {"statusLoop", "sendLoop", "discardLoop", "closeLoop"} :
          MainAt(l) => idx["main"] >= 1
    /\ idx["net"] >= 1
    /\ MainAt("queuedLoop") => idx["main"] >= 0

(* The step being provided is the last one; what is sent is a step. *)
Serving ==
    /\ Providing => WriterTimestep \in Steps
    /\ MainAt("sendLoop") \/ MainAt("discardLoop") => step["main"] = WriterTimestep
    /\ \A th \in Threads : (InCall(th) /\ ret[th] \in MetadataSends) => step[th] \in Steps

(* Registrations counted as pending are still waiting; until SstWriterOpen  *)
(* is done main only admits readers.                                        *)
Admissions ==
    /\ pending \in Nat
    /\ pending + (IF pc["main"] = "participate" THEN 1 ELSE 0) <= Len(ReaderRegisterQueue)
    /\ Status = "NotOpen" =>
          /\ pending = 0
          /\ \/ pc["main"] \in {"rendezvous", "participate", "awaitReader", "strayUnlock"}
             \/ MainAt("queuedLoop")
    /\ pc["main"] = "rendezvous" => Status = "NotOpen"
    /\ Status = "Destroyed" <=> pc["main"] = "destroyed"

TypeInv == TypeOK /\ ReturnOK /\ Positioned /\ Serving /\ Admissions

-----------------------------------------------------------------------------
(* Lemmas on the operators of the model *)

(* A set of natural numbers that is not empty has a least element. *)
LEMMA MinInSet ==
    ASSUME NEW S \in SUBSET Nat, S # {}
    PROVE  Min(S) \in S /\ \A y \in S : Min(S) <= y
<1>1. \E x \in S : \A y \in S : ~(<<y, x>> \in OpToRel(<, Nat))
    BY NatLessThanWellFounded, WFMin
<1>2. ASSUME NEW x \in Nat, NEW y \in Nat, y < x
      PROVE  <<y, x>> \in OpToRel(<, Nat)
    <2>1. <<y, x>> \in Nat \X Nat
        OBVIOUS
    <2>2. <<y, x>>[1] < <<y, x>>[2]
        BY <1>2
    <2>3. QED
        BY ONLY <2>1, <2>2, Zenon DEF OpToRel
<1>3. \E x \in S : \A y \in S : ~(y < x)
    BY <1>1, <1>2
<1>4. \E x \in S : \A y \in S : x <= y
    BY <1>3
<1>5. QED
    BY <1>4 DEF Min

(* Steps is bounded, so a set of steps has a greatest element. *)
LEMMA MaxInSteps ==
    ASSUME NEW S \in SUBSET Steps, S # {}
    PROVE  Max(S) \in S /\ \A y \in S : y <= Max(S)
<1> DEFINE T == {MaxSteps - 1 - x : x \in S}
<1>1. T \in SUBSET Nat /\ T # {}
    <2>1. \A x \in S : MaxSteps - 1 - x \in Nat
        BY ConstantsAssumption DEF Steps
    <2>2. QED
        BY <2>1
<1>2. Min(T) \in T /\ \A y \in T : Min(T) <= y
    BY <1>1, MinInSet
<1>3. PICK x \in S : Min(T) = MaxSteps - 1 - x
    BY <1>2
<1>4. \A y \in S : MaxSteps - 1 - x <= MaxSteps - 1 - y
    BY <1>2, <1>3
<1>5. \A y \in S : x >= y
    BY <1>4, ConstantsAssumption DEF Steps
<1>6. QED
    BY <1>3, <1>5, ConstantsAssumption DEF Max, Steps

(* The walk of Stream->Readers stops at a reader of S, or past all of them. *)
LEMMA NextReaderIsReader ==
    ASSUME Readers \in Seq(Cohorts), NEW th \in Threads, idx[th] \in Int, idx[th] >= 1,
           NEW S
    PROVE  /\ NextReader(th, S) # 0 =>
                 /\ NextReader(th, S) \in idx[th] .. Len(Readers)
                 /\ Readers[NextReader(th, S)] \in S
                 /\ Readers[NextReader(th, S)] \in Cohorts
           /\ NextReader(th, S) = 0 => \A i \in idx[th] .. Len(Readers) : Readers[i] \notin S
<1> DEFINE at == {i \in idx[th] .. Len(Readers) : Readers[i] \in S}
<1>1. at \in SUBSET Nat
    OBVIOUS
<1>2. CASE at = {}
    BY <1>2 DEF NextReader
<1>3. CASE at # {}
    <2>1. Min(at) \in at
        BY <1>1, <1>3, MinInSet
    <2>2. NextReader(th, S) = Min(at)
        BY <1>3 DEF NextReader
    <2>3. QED
        BY <2>1, <2>2
<1>4. QED
    BY <1>2, <1>3

(* The cursor of DerefAllSentTimesteps is a step or the end of the list. *)
LEMMA CursorType ==
    ASSUME QueuedTimesteps \subseteq Steps
    PROVE  /\ QueueHead \in Steps \cup {-1}
           /\ \A t : NextEntry(t) \in Steps \cup {-1}
<1>1. QueuedTimesteps # {} => Max(QueuedTimesteps) \in QueuedTimesteps
    BY MaxInSteps
<1>2. ASSUME NEW t PROVE NextEntry(t) \in Steps \cup {-1}
    <2> DEFINE older == {u \in QueuedTimesteps : u < t}
    <2>1. older # {} => Max(older) \in older
        BY MaxInSteps
    <2>2. QED
        BY <2>1 DEF NextEntry
<1>3. QED
    BY <1>1, <1>2 DEF QueueHead

(* Queue maintenance only removes entries that nothing refers to. *)
LEMMA MaintenanceEffect ==
    ASSUME QueueTypes, NEW exp \in SUBSET Steps, QueueMaintenance(exp)
    PROVE  /\ QueuedTimesteps' \subseteq QueuedTimesteps
           /\ Expired' \subseteq Steps
           /\ \A t \in QueuedTimesteps \ QueuedTimesteps' : ReferenceCount'[t] = 0
<1>1. CASE MaintenanceSuspended(ReaderStatus')
    BY <1>1 DEF QueueMaintenance, Maintained, QueueTypes
<1>2. CASE ~MaintenanceSuspended(ReaderStatus')
    <2> DEFINE tagged == exp \cup PastReserve(ReferenceCount', PreciousTimestep', ReaderStatus',
                                             LastReleasedTimestep', ReserveCount')
               gone == Removable(tagged, ReferenceCount', PreciousTimestep')
    <2>1. tagged \subseteq Steps
        BY DEF QueueTypes, PastReserve, Eligible
    <2>2. \A t \in gone : t \in QueuedTimesteps /\ ReferenceCount'[t] = 0
        BY DEF Removable
    <2>3. QueuedTimesteps' = QueuedTimesteps \ gone /\ Expired' = tagged \ gone
        BY <1>2 DEF QueueMaintenance, Maintained
    <2>4. QED
        BY <2>1, <2>2, <2>3
<1>3. QED
    BY <1>1, <1>2


(* What CP_PeerFailCloseWSReader does to the variables it touches. *)
PeerFailEffect(th, r, back) ==
    /\ QueuedTimesteps' \subseteq QueuedTimesteps
    /\ Expired' \subseteq Steps
    /\ \A t \in QueuedTimesteps \ QueuedTimesteps' : ReferenceCount'[t] = 0
    /\ UNCHANGED <<ReferenceCount, PreciousTimestep, LastReleasedTimestep, ReserveCount>>
    /\ ReaderStatus' \in [Cohorts -> Statuses]
    /\ \A s \in Cohorts \ {r} : ReaderStatus'[s] = ReaderStatus[s]
    /\ cursor' \in [Threads -> Steps \cup {-1}]
    /\ ret' = [ret EXCEPT ![th] = back]
    /\ rdr' = [rdr EXCEPT ![th] = r]
    /\ newState' \in [Threads -> Statuses]
    /\ asleep' \in BOOLEAN
    /\ \/ pc' = [pc EXCEPT ![th] = back]
       \/ pc' = [pc EXCEPT ![th] = "derefLoop"]

(* A reader is brought to a new status, with what that does to the queue.    *)
LEMMA PeerFailCloseEffect ==
    ASSUME TypeOK, NEW th \in Threads, NEW r \in Cohorts, NEW new \in Statuses,
           NEW back \in MainPcs \cup NetPcs \cup CallPcs,
           PeerFailCloseWSReader(th, r, new, back)
    PROVE  PeerFailEffect(th, r, back)
<1> USE DEF PeerFailEffect
<1>1. QueueTypes /\ QueuedTimesteps \subseteq Steps /\ Expired \in SUBSET Steps
    BY DEF TypeOK, QueueTypes
<1>2. ReaderStatus \in [Cohorts -> Statuses]
    BY DEF TypeOK, ReaderTypes
<1>3. /\ cursor \in [Threads -> Steps \cup {-1}] /\ newState \in [Threads -> Statuses]
      /\ asleep \in BOOLEAN
    BY DEF TypeOK, ThreadTypes
<1>4. QueueHead \in Steps \cup {-1}
    BY <1>1, CursorType
<1>5. QueueMaintenance(Expired) =>
          /\ QueuedTimesteps' \subseteq QueuedTimesteps
          /\ Expired' \subseteq Steps
          /\ \A t \in QueuedTimesteps \ QueuedTimesteps' : ReferenceCount'[t] = 0
    BY <1>1, MaintenanceEffect
<1>6. CASE Status # "Established" \/ ReaderStatus[r] = new
    BY <1>1, <1>2, <1>3, <1>6 DEF PeerFailCloseWSReader, Goto
<1>7. CASE ~(Status # "Established" \/ ReaderStatus[r] = new) /\ new \in Departed
    BY <1>1, <1>2, <1>3, <1>4, <1>7 DEF PeerFailCloseWSReader, Goto, SignalIf
<1>8. CASE ~(Status # "Established" \/ ReaderStatus[r] = new) /\ new \notin Departed
    BY <1>1, <1>2, <1>3, <1>5, <1>8 DEF PeerFailCloseWSReader, Goto, SignalIf
<1>9. QED
    BY <1>6, <1>7, <1>8

(* What SendTimestepEntryToSingleReader does up to the data plane call. *)
SendEffect(th, r, t, back) ==
    /\ QueueTypes' /\ ReaderTypes'
    /\ lock' = "none"
    /\ pc' = [pc EXCEPT ![th] = "register"]
    /\ ret' = [ret EXCEPT ![th] = back]
    /\ rdr' = [rdr EXCEPT ![th] = r]
    /\ step' = [step EXCEPT ![th] = t]
    /\ UNCHANGED <<cursor, newState, asleep, localVars>>
    /\ UNCHANGED <<openVars, stepVars, ReserveCount, closeVars, Readers,
                   ReaderRegisterQueue>>
    /\ UNCHANGED <<peer, delivered, received, gotClose>>

(* A step is entered in a reader's sent list: types stay as they are.        *)
LEMMA SendTimestepEntryTypes ==
    ASSUME TypeOK, NEW th \in Threads, NEW r \in Cohorts, NEW t \in Steps,
           NEW back \in MainPcs \cup NetPcs \cup CallPcs,
           SendTimestepEntryToSingleReader(th, r, t, back)
    PROVE  SendEffect(th, r, t, back)
<1>1. QueueTypes'
    BY DEF SendTimestepEntryToSingleReader, TypeOK, QueueTypes, markVars
<1>2. ReaderTypes'
    BY DEF SendTimestepEntryToSingleReader, TypeOK, ReaderTypes, linkVars
<1>3. QED
    BY <1>1, <1>2 DEF SendEffect, SendTimestepEntryToSingleReader, Goto, Unlock

(* The next steps of a walk over the readers are those of a reader.          *)
LEMMA WriteToReaderTypes ==
    ASSUME TypeOK, NEW th \in Threads, NEW i \in 1 .. Len(Readers), NEW back,
           back \in MainPcs \cup NetPcs \cup CallPcs,
           WriteToReader(th, i, back)
    PROVE  /\ Readers[i] \in Cohorts
           /\ QueueTypes' /\ StreamTypes' /\ ReaderTypes' /\ ThreadTypes' /\ PeerTypes'
<1>1. Readers[i] \in Cohorts
    BY DEF TypeOK, StreamTypes
<1>2. QueueTypes' /\ StreamTypes'
    BY DEF WriteToReader, TypeOK, QueueTypes, StreamTypes, queueVars, markVars, streamVars,
           openVars, stepVars, distVars, closeVars, listVars
<1>3. ReaderTypes' /\ PeerTypes'
    BY DEF WriteToReader, TypeOK, ReaderTypes, PeerTypes, readerVars, linkVars, peerVars
<1>4. ThreadTypes'
    BY <1>1 DEF WriteToReader, TypeOK, ThreadTypes, localVars, Goto, Unlock, Threads, CallPcs
<1>5. QED
    BY <1>1, <1>2, <1>3, <1>4

(* A reader that joins is told a step number, or -1 before the first step.   *)
LEMMA EarliestTimestepType ==
    ASSUME TypeOK
    PROVE  earliestAvailableTimestepNumber \in Nat \cup {-1}
<1> DEFINE all == QueuedTimesteps \cup {WriterTimestep}
           up  == {t + 1 : t \in all}
<1>1. \A t \in all : t \in Nat \cup {-1}
    BY DEF TypeOK, QueueTypes, StreamTypes, Steps
<1>2. up \in SUBSET Nat /\ up # {}
    BY <1>1
<1>3. Min(up) \in up /\ \A y \in up : Min(up) <= y
    BY <1>2, MinInSet
<1>4. PICK m \in all : Min(up) = m + 1
    BY <1>3
<1>5. \A t \in all : m <= t
    <2> TAKE t \in all
    <2>1. t + 1 \in up
        OBVIOUS
    <2>2. m + 1 <= t + 1
        BY <1>3, <1>4, <2>1
    <2>3. QED
        BY <1>1, <2>2
<1>6. \A n \in all : (\A t \in all : n <= t) => n \in Nat \cup {-1}
    BY <1>1
<1>7. QED
    BY <1>4, <1>5, <1>6 DEF earliestAvailableTimestepNumber, Min

-----------------------------------------------------------------------------
(* Type correctness: one lemma per group of actions                          *)

(* The steps of the shared procedures.                                       *)
LEMMA SharedTypeInv ==
    ASSUME TypeInv, NEW th \in Threads, Shared(th)
    PROVE  TypeInv'
<1> USE DEF Threads, MainPcs, NetPcs, CallPcs, Statuses, SendRets, WriteRets, DerefRets,
            NetWriteRets, NetDerefRets, markVars, queueVars, openVars, stepVars, distVars,
            closeVars, streamVars, listVars, linkVars, readerVars, callVars, localVars,
            peerVars, dataVars, Goto, Lock, Unlock, NoLock
<1>0. QueueTypes /\ StreamTypes /\ ReaderTypes /\ ThreadTypes /\ PeerTypes /\ ReturnOK
      /\ Positioned /\ Serving /\ Admissions
    BY DEF TypeInv, TypeOK
<1>1. CASE DerefAllSentTimesteps(th)
    <2> DEFINE todo == {t \in QueuedTimesteps \cap SentTimestepList[rdr[th]] : t <= cursor[th]}
    <2>1. PICK t \in Steps : t = Max(todo)
        BY <1>0, <1>1, MaxInSteps DEF DerefAllSentTimesteps, QueueTypes
    <2>2. NextEntry(t) \in Steps \cup {-1}
        BY <1>0, CursorType DEF QueueTypes
    <2>3. rdr[th] \in Cohorts
        BY <1>0, <1>1 DEF DerefAllSentTimesteps, Positioned, InCall
    <2>4. QueueTypes' /\ StreamTypes'
        BY <1>0, <1>1, <2>1 DEF DerefAllSentTimesteps, QueueTypes, StreamTypes, SubRefTimestep
    <2>5. ReaderTypes' /\ PeerTypes'
        BY <1>0, <1>1, <2>3 DEF DerefAllSentTimesteps, ReaderTypes, PeerTypes
    <2>6. ThreadTypes'
        BY <1>0, <1>1, <2>1, <2>2 DEF DerefAllSentTimesteps, ThreadTypes
    <2>7. ReturnOK' /\ Positioned' /\ Serving' /\ Admissions'
        BY <1>0, <1>1 DEF DerefAllSentTimesteps, ThreadTypes, ReturnOK, Positioned,
            Serving, Admissions,
            MainAt, InCall, Providing
    <2>8. QED
        BY <2>4, <2>5, <2>6, <2>7 DEF TypeInv, TypeOK
<1>2. CASE DerefRelocked(th)
    <2>1. QueueTypes' /\ StreamTypes' /\ ReaderTypes' /\ PeerTypes'
        BY <1>0, <1>2 DEF DerefRelocked, QueueTypes, StreamTypes, ReaderTypes, PeerTypes
    <2>2. ThreadTypes'
        BY <1>0, <1>2 DEF DerefRelocked, ThreadTypes
    <2>3. ReturnOK' /\ Positioned' /\ Serving' /\ Admissions'
        BY <1>0, <1>2 DEF DerefRelocked, ThreadTypes, ReturnOK, Positioned,
            Serving, Admissions,
            MainAt, InCall, Providing
    <2>4. QED
        BY <2>1, <2>2, <2>3 DEF TypeInv, TypeOK
<1>3. CASE PeerFailCloseFinish(th)
    <2>1. QueuedTimesteps' \subseteq QueuedTimesteps /\ Expired' \subseteq Steps
        BY <1>0, <1>3, MaintenanceEffect DEF PeerFailCloseFinish, QueueTypes
    <2>2. rdr[th] \in Cohorts
        BY <1>0, <1>3 DEF PeerFailCloseFinish, Positioned, InCall
    <2>3. ret[th] \in IF th = "main" THEN DerefRets ELSE NetDerefRets
        BY <1>0, <1>3 DEF PeerFailCloseFinish, ReturnOK
    <2>4. QueueTypes' /\ StreamTypes'
        BY <1>0, <1>3, <2>1 DEF PeerFailCloseFinish, QueueTypes, StreamTypes
    <2>5. ReaderTypes' /\ PeerTypes'
        BY <1>0, <1>3, <2>2 DEF PeerFailCloseFinish, ReaderTypes, PeerTypes
    <2>6. ThreadTypes'
        BY <1>0, <1>3, <2>3 DEF PeerFailCloseFinish, ThreadTypes, SignalRemoval, SignalIf
    <2>7. ReturnOK' /\ Positioned' /\ Serving' /\ Admissions'
        BY <1>0, <1>3, <2>2, <2>3 DEF PeerFailCloseFinish, ThreadTypes, ReturnOK, Positioned,
            Serving, Admissions, MainAt, InCall, Providing
    <2>8. QED
        BY <2>4, <2>5, <2>6, <2>7 DEF TypeInv, TypeOK
<1>4. CASE Registered(th)
    <2>1. QueueTypes' /\ StreamTypes' /\ ReaderTypes' /\ PeerTypes'
        BY <1>0, <1>4 DEF Registered, QueueTypes, StreamTypes, ReaderTypes, PeerTypes
    <2>2. ThreadTypes'
        BY <1>0, <1>4 DEF Registered, ThreadTypes, ReturnOK
    <2>3. ReturnOK' /\ Positioned' /\ Serving' /\ Admissions'
        BY <1>0, <1>4 DEF Registered, ThreadTypes, ReturnOK, Positioned,
            Serving, Admissions,
            MainAt, InCall, Providing
    <2>4. QED
        BY <2>1, <2>2, <2>3 DEF TypeInv, TypeOK
<1>5. ASSUME NEW ok \in BOOLEAN, CMwrite(th, ok)
      PROVE  TypeInv'
    <2>1. rdr[th] \in Cohorts /\ step[th] \in Steps \cup {0}
        BY <1>0, <1>5 DEF CMwrite, Positioned, InCall, ThreadTypes
    <2>2. /\ ret[th] \in MetadataSends => step[th] \in Steps
          /\ ret[th] = "discardLoop" => step[th] \in Steps
        BY <1>0, <1>5 DEF CMwrite, ReturnOK, Serving, MainAt, InCall, Providing
    <2>3. QueueTypes' /\ StreamTypes' /\ ReaderTypes'
        BY <1>0, <1>5 DEF CMwrite, QueueTypes, StreamTypes, ReaderTypes
    <2>4. PeerTypes'
        BY <1>0, <1>5, <2>1, <2>2 DEF CMwrite, PeerTypes
    <2>5. ThreadTypes'
        BY <1>0, <1>5 DEF CMwrite, ThreadTypes
    <2>6. ReturnOK' /\ Positioned' /\ Serving' /\ Admissions'
        BY <1>0, <1>5 DEF CMwrite, ThreadTypes, ReturnOK, Positioned, Serving, Admissions,
            MainAt, InCall, Providing
    <2>7. QED
        BY <2>3, <2>4, <2>5, <2>6 DEF TypeInv, TypeOK
<1>6. CASE Written(th)
    <2>1. QueueTypes' /\ StreamTypes' /\ ReaderTypes' /\ PeerTypes'
        BY <1>0, <1>6 DEF Written, QueueTypes, StreamTypes, ReaderTypes, PeerTypes
    <2>2. ThreadTypes'
        BY <1>0, <1>6 DEF Written, ThreadTypes, ReturnOK
    <2>3. ReturnOK' /\ Positioned' /\ Serving' /\ Admissions'
        BY <1>0, <1>6 DEF Written, ThreadTypes, ReturnOK, Positioned, Serving, Admissions,
            MainAt, InCall, Providing
    <2>4. QED
        BY <2>1, <2>2, <2>3 DEF TypeInv, TypeOK
<1>7. CASE WriteFailed(th)
    <2>1. rdr[th] \in Cohorts
        BY <1>0, <1>7 DEF WriteFailed, Positioned, InCall
    <2>2. ret[th] \in IF th = "main" THEN WriteRets ELSE NetWriteRets
        BY <1>0, <1>7 DEF WriteFailed, ReturnOK
    <2>3. PeerFailEffect(th, rdr[th], ret[th])
        BY <1>7, <2>1, <2>2, PeerFailCloseEffect DEF WriteFailed, TypeInv
    <2>4. QueueTypes' /\ StreamTypes'
        BY <1>0, <1>7, <2>3 DEF WriteFailed, PeerFailEffect, QueueTypes, StreamTypes
    <2>5. ReaderTypes' /\ PeerTypes'
        BY <1>0, <1>7, <2>3 DEF WriteFailed, PeerFailEffect, ReaderTypes, PeerTypes
    <2>6. ThreadTypes'
        BY <1>0, <1>7, <2>1, <2>2, <2>3 DEF WriteFailed, PeerFailEffect, ThreadTypes
    <2>7. ReturnOK' /\ Positioned' /\ Serving' /\ Admissions'
        BY <1>0, <1>7, <2>1, <2>2, <2>3 DEF WriteFailed, PeerFailEffect, ThreadTypes, ReturnOK,
            Positioned, Serving, Admissions, MainAt, InCall, Providing
    <2>8. QED
        BY <2>4, <2>5, <2>6, <2>7 DEF TypeInv, TypeOK
<1>8. CASE SendCloseMsgs(th)
    <2> DEFINE i == NextReader(th, SendableReaders)
    <2>1. i \in 1 .. Len(Readers) /\ Readers[i] \in Cohorts /\ idx[th] >= 1
        BY <1>0, <1>8, NextReaderIsReader
        DEF SendCloseMsgs, StreamTypes, ThreadTypes, Positioned, MainAt
    <2>2. WriteToReader(th, i, "closeLoop")
        BY <1>8 DEF SendCloseMsgs
    <2>3. QueueTypes' /\ StreamTypes' /\ ReaderTypes' /\ ThreadTypes' /\ PeerTypes'
        BY <2>1, <2>2, WriteToReaderTypes DEF TypeInv
    <2>4. ReturnOK' /\ Serving'
        <3>1. /\ /\ pc' = [pc EXCEPT ![th] = "write"]
              /\ ret' = [ret EXCEPT ![th] = "closeLoop"]
              /\ pc[th] = "closeLoop" /\ UNCHANGED <<step, WriterTimestep>>
            BY <1>8, <2>2 DEF SendCloseMsgs, WriteToReader
        <3>2. ReturnOK'
            BY <1>0, <3>1 DEF ThreadTypes, ReturnOK
        <3>3. Serving'
            BY <1>0, <3>1 DEF ThreadTypes, Serving, MainAt, InCall, Providing, MetadataSends
        <3>4. QED
            BY <3>2, <3>3
    <2>5. Positioned' /\ Admissions'
        BY <1>0, <1>8, <2>1, <2>2 DEF SendCloseMsgs, WriteToReader, ThreadTypes,
            Positioned, Admissions, MainAt, InCall, listVars, streamVars
    <2>6. QED
        BY <2>3, <2>4, <2>5 DEF TypeInv, TypeOK
<1>9. CASE SendCloseMsgsDone(th)
    <2>1. QueueTypes' /\ StreamTypes' /\ ReaderTypes' /\ PeerTypes'
        BY <1>0, <1>9 DEF SendCloseMsgsDone, QueueTypes, StreamTypes, ReaderTypes, PeerTypes
    <2>2. ThreadTypes'
        BY <1>0, <1>9 DEF SendCloseMsgsDone, ThreadTypes
    <2>3. ReturnOK' /\ Positioned' /\ Serving' /\ Admissions'
        BY <1>0, <1>9 DEF SendCloseMsgsDone, ThreadTypes, ReturnOK, Positioned,
            Serving, Admissions,
            MainAt, InCall, Providing
    <2>4. QED
        BY <2>1, <2>2, <2>3 DEF TypeInv, TypeOK
<1>10. QED
    BY <1>1, <1>2, <1>3, <1>4, <1>5, <1>6, <1>7, <1>8, <1>9 DEF Shared

(* The steps main takes inside a call.                                       *)
LEMMA MainTypeInv ==
    ASSUME TypeInv, MainInCall
    PROVE  TypeInv'
<1> USE DEF Threads, MainPcs, NetPcs, CallPcs, Statuses, SendRets, WriteRets, DerefRets,
            NetWriteRets, NetDerefRets, markVars, queueVars, openVars, stepVars, distVars,
            closeVars, streamVars, listVars, linkVars, readerVars, callVars, localVars,
            peerVars, dataVars, Goto, Lock, Unlock, NoLock, MetadataSends
<1>0. QueueTypes /\ StreamTypes /\ ReaderTypes /\ ThreadTypes /\ PeerTypes /\ ReturnOK
      /\ Positioned /\ Serving /\ Admissions
    BY DEF TypeInv, TypeOK
<1>1. CASE SstWriterOpenRendezvous
    <2>1. asleep' \in BOOLEAN
        BY <1>0, <1>1 DEF SstWriterOpenRendezvous, ThreadTypes
    <2>2. QueueTypes' /\ StreamTypes' /\ ReaderTypes' /\ PeerTypes'
        BY <1>0, <1>1, <2>1 DEF SstWriterOpenRendezvous, QueueTypes, StreamTypes,
            ReaderTypes, PeerTypes
    <2>3. ThreadTypes'
        BY <1>0, <1>1, <2>1 DEF SstWriterOpenRendezvous, ThreadTypes
    <2>4. ReturnOK' /\ Positioned' /\ Serving' /\ Admissions'
        BY <1>0, <1>1, <2>1 DEF SstWriterOpenRendezvous, ReturnOK, Positioned, Serving,
            Admissions, ThreadTypes, MainAt, InCall, Providing
    <2>5. QED
        BY <2>2, <2>3, <2>4 DEF TypeInv, TypeOK
<1>2. CASE WriterParticipateInReaderOpen
    <2>1. ReaderRegisterQueue # <<>>
        BY <1>0, <1>2 DEF WriterParticipateInReaderOpen, Admissions
    <2>2. /\ Head(ReaderRegisterQueue) \in Cohorts
          /\ Tail(ReaderRegisterQueue) \in Seq(Cohorts)
        BY <1>0, <1>2, <2>1 DEF WriterParticipateInReaderOpen, StreamTypes
    <2>3. earliestAvailableTimestepNumber \in Nat \cup {-1}
        BY <1>0, <1>2, EarliestTimestepType DEF WriterParticipateInReaderOpen, TypeInv,
            TypeOK
    <2>4. QueueTypes'
        BY <1>0, <1>2, <2>1, <2>2, <2>3 DEF WriterParticipateInReaderOpen, QueueTypes
    <2>5. StreamTypes'
        BY <1>0, <1>2, <2>1, <2>2, <2>3 DEF WriterParticipateInReaderOpen, StreamTypes
    <2>6. ReaderTypes'
        BY <1>0, <1>2, <2>1, <2>2, <2>3 DEF WriterParticipateInReaderOpen, ReaderTypes
    <2>7. PeerTypes'
        BY <1>0, <1>2, <2>1, <2>2, <2>3 DEF WriterParticipateInReaderOpen, PeerTypes
    <2>8. ThreadTypes'
        BY <1>0, <1>2, <2>1, <2>2, <2>3 DEF WriterParticipateInReaderOpen, ThreadTypes
    <2>9. ReturnOK' /\ Positioned' /\ Serving' /\ Admissions'
        BY <1>0, <1>2, <2>1, <2>2, <2>3 DEF WriterParticipateInReaderOpen, ReturnOK,
            Positioned, Serving, Admissions, ThreadTypes, MainAt, InCall, Providing
    <2>10. QED
        BY <2>4, <2>5, <2>6, <2>7, <2>8, <2>9 DEF TypeInv, TypeOK
<1>3. CASE waitForReaderResponse
    <2>1. asleep' \in BOOLEAN
        BY <1>0, <1>3 DEF waitForReaderResponse, ThreadTypes
    <2>2. rdr["main"] \in Cohorts /\ StartingTimestep[rdr["main"]] \in Nat
        BY <1>0, <1>3 DEF waitForReaderResponse, Positioned, ReaderTypes
    <2>3. Status \in {"NotOpen", "Established", "Destroyed"}
        BY <1>0, <1>3 DEF waitForReaderResponse, StreamTypes
    <2>4. QueueTypes' /\ StreamTypes' /\ PeerTypes'
        BY <1>0, <1>3, <2>1, <2>2, <2>3 DEF waitForReaderResponse, ReaderAdmitted,
            QueueTypes, StreamTypes, PeerTypes
    <2>5. ReaderTypes'
        BY <1>0, <1>3, <2>1, <2>2, <2>3 DEF waitForReaderResponse, ReaderAdmitted,
            ReaderTypes
    <2>6. ThreadTypes'
        BY <1>0, <1>3, <2>1, <2>2, <2>3 DEF waitForReaderResponse, ReaderAdmitted,
            ThreadTypes
    <2>7. ReturnOK'
        BY <1>0, <1>3, <2>1, <2>2, <2>3 DEF waitForReaderResponse, ReaderAdmitted, ReturnOK,
            ThreadTypes
    <2>8. Positioned'
        BY <1>0, <1>3, <2>1, <2>2, <2>3 DEF waitForReaderResponse, ReaderAdmitted,
            Positioned, ThreadTypes, MainAt, InCall
    <2>9. Serving'
        BY <1>0, <1>3, <2>1, <2>2, <2>3 DEF waitForReaderResponse, ReaderAdmitted, Serving,
            ThreadTypes, MainAt, InCall, Providing
    <2>10. Admissions'
        BY <1>0, <1>3, <2>1, <2>2, <2>3 DEF waitForReaderResponse, ReaderAdmitted,
            Admissions, ThreadTypes, MainAt, InCall
    <2>11. QED
        BY <2>4, <2>5, <2>6, <2>7, <2>8, <2>9, <2>10 DEF TypeInv, TypeOK
<1>4. CASE StrayUnlock
    <2>1. Status \in {"NotOpen", "Established", "Destroyed"}
        BY <1>0, <1>4 DEF StrayUnlock, StreamTypes
    <2>2. QueueTypes' /\ StreamTypes' /\ ReaderTypes' /\ PeerTypes'
        BY <1>0, <1>4, <2>1 DEF StrayUnlock, ReaderAdmitted, QueueTypes, StreamTypes,
            ReaderTypes, PeerTypes
    <2>3. ThreadTypes'
        BY <1>0, <1>4, <2>1 DEF StrayUnlock, ReaderAdmitted, ThreadTypes
    <2>4. ReturnOK' /\ Positioned' /\ Serving'
        BY <1>0, <1>4, <2>1 DEF StrayUnlock, ReaderAdmitted, ReturnOK, Positioned, Serving,
            ThreadTypes, MainAt, InCall, Providing
    <2>5. Admissions'
        BY <1>0, <1>4, <2>1 DEF StrayUnlock, ReaderAdmitted, Admissions, ThreadTypes,
            MainAt, InCall
    <2>6. QED
        BY <2>2, <2>3, <2>4, <2>5 DEF TypeInv, TypeOK
<1>5. CASE SendQueued
    <2>1. QueuedForReader(rdr["main"]) \in SUBSET Steps
        BY <1>0, <1>5 DEF SendQueued, QueuedForReader, QueueTypes
    <2>2. Min(QueuedForReader(rdr["main"])) \in QueuedForReader(rdr["main"])
        BY <1>0, <1>5, <2>1, MinInSet DEF SendQueued, Steps
    <2>3. PICK t \in Steps : t = Min(QueuedForReader(rdr["main"])) /\ idx["main"] <= t
        BY <1>0, <1>5, <2>1, <2>2 DEF SendQueued, QueuedForReader
    <2>4. rdr["main"] \in Cohorts
        BY <1>0, <1>5 DEF SendQueued, Positioned
    <2>5. SendEffect("main", rdr["main"], t, "queuedLoop")
        BY <1>0, <1>5, <2>3, <2>4, SendTimestepEntryTypes DEF SendQueued, TypeInv
    <2>6. QueueTypes'
        BY <1>0, <1>5, <2>1, <2>2, <2>3, <2>4, <2>5 DEF SendQueued, SendEffect, Steps,
            QueueTypes
    <2>7. StreamTypes'
        BY <1>0, <1>5, <2>1, <2>2, <2>3, <2>4, <2>5 DEF SendQueued, SendEffect, Steps,
            StreamTypes
    <2>8. ReaderTypes'
        BY <1>0, <1>5, <2>1, <2>2, <2>3, <2>4, <2>5 DEF SendQueued, SendEffect, Steps,
            ReaderTypes
    <2>9. PeerTypes'
        BY <1>0, <1>5, <2>1, <2>2, <2>3, <2>4, <2>5 DEF SendQueued, SendEffect, Steps,
            PeerTypes
    <2>10. ThreadTypes'
        BY <1>0, <1>5, <2>1, <2>2, <2>3, <2>4, <2>5 DEF SendQueued, SendEffect, Steps,
            ThreadTypes
    <2>11. ReturnOK' /\ Positioned' /\ Serving' /\ Admissions'
        BY <1>0, <1>5, <2>1, <2>2, <2>3, <2>4, <2>5 DEF SendQueued, SendEffect, Steps,
            ReturnOK, Positioned, Serving, Admissions, ThreadTypes, MainAt, InCall,
            Providing
    <2>12. QED
        BY <2>6, <2>7, <2>8, <2>9, <2>10, <2>11 DEF TypeInv, TypeOK
<1>6. CASE SendQueuedDone
    <2>1. Status \in {"NotOpen", "Established", "Destroyed"}
        BY <1>0, <1>6 DEF SendQueuedDone, StreamTypes
    <2>2. QueueTypes'
        BY <1>0, <1>6, <2>1 DEF SendQueuedDone, ReaderAdmitted, QueueTypes
    <2>3. StreamTypes'
        BY <1>0, <1>6, <2>1 DEF SendQueuedDone, ReaderAdmitted, StreamTypes
    <2>4. ReaderTypes' /\ PeerTypes'
        BY <1>0, <1>6, <2>1 DEF SendQueuedDone, ReaderAdmitted, ReaderTypes, PeerTypes
    <2>5. ThreadTypes'
        BY <1>0, <1>6, <2>1 DEF SendQueuedDone, ReaderAdmitted, ThreadTypes
    <2>6. ReturnOK' /\ Positioned' /\ Serving'
        BY <1>0, <1>6, <2>1 DEF SendQueuedDone, ReaderAdmitted, ReturnOK, Positioned,
            Serving, ThreadTypes, MainAt, InCall, Providing
    <2>7. Admissions'
        BY <1>0, <1>6, <2>1 DEF SendQueuedDone, ReaderAdmitted, Admissions, ThreadTypes,
            MainAt, InCall
    <2>8. QED
        BY <2>2, <2>3, <2>4, <2>5, <2>6, <2>7 DEF TypeInv, TypeOK
<1>7. CASE DecideTimestep
    <2>1. QueuedTimesteps' \subseteq QueuedTimesteps /\ Expired' \subseteq Steps
        BY <1>0, <1>7, MaintenanceEffect DEF DecideTimestep, QueueTypes
    <2>2. \A q : QueueFull(q) \in BOOLEAN
        BY <1>0, <1>7 DEF DecideTimestep, QueueFull
    <2>3. asleep' \in BOOLEAN
        BY <1>0, <1>7 DEF DecideTimestep, ThreadTypes
    <2>4. arriving' \in BOOLEAN
        BY <1>0, <1>7 DEF DecideTimestep, ThreadTypes
    <2>5. discard' \in BOOLEAN
        BY <1>0, <1>7, <2>2 DEF DecideTimestep, ThreadTypes
    <2>6. snapshot' \in [Cohorts -> Statuses] /\ pending' \in Int
        BY <1>0, <1>7 DEF DecideTimestep, ThreadTypes, ReaderTypes, StreamTypes,
            TakeSnapshot
    <2>7. \E p \in MainPcs : pc' = [pc EXCEPT !["main"] = p]
        BY <1>0, <1>7 DEF DecideTimestep, TakeSnapshot, ThreadTypes
    <2>8. UNCHANGED <<lock, callVars, idx>>
        BY <1>0, <1>7 DEF DecideTimestep, TakeSnapshot
    <2>9. QueueTypes'
        BY <1>0, <1>7, <2>1, <2>2, <2>3, <2>4, <2>5, <2>6, <2>7, <2>8 DEF DecideTimestep,
            TakeSnapshot, QueueTypes
    <2>10. StreamTypes'
        BY <1>0, <1>7, <2>1, <2>2, <2>3, <2>4, <2>5, <2>6, <2>7, <2>8 DEF DecideTimestep,
            TakeSnapshot, StreamTypes
    <2>11. ReaderTypes'
        BY <1>0, <1>7, <2>1, <2>2, <2>3, <2>4, <2>5, <2>6, <2>7, <2>8 DEF DecideTimestep,
            TakeSnapshot, ReaderTypes
    <2>12. PeerTypes'
        BY <1>0, <1>7, <2>1, <2>2, <2>3, <2>4, <2>5, <2>6, <2>7, <2>8 DEF DecideTimestep,
            TakeSnapshot, PeerTypes
    <2>13. ThreadTypes'
        BY <1>0, <2>1, <2>2, <2>3, <2>4, <2>5, <2>6, <2>7, <2>8 DEF ThreadTypes
    <2>14. ReturnOK' /\ Positioned' /\ Serving' /\ Admissions'
        BY <1>0, <1>7, <2>1, <2>2, <2>3, <2>4, <2>5, <2>6, <2>7, <2>8 DEF DecideTimestep,
            TakeSnapshot, ReturnOK, Positioned, Serving, Admissions, ThreadTypes, MainAt,
            InCall, Providing
    <2>15. QED
        BY <2>9, <2>10, <2>11, <2>12, <2>13, <2>14 DEF TypeInv, TypeOK
<1>8. CASE BlockedOnQueueFull
    <2>1. \A q : QueueFull(q) \in BOOLEAN
        BY <1>0, <1>8 DEF BlockedOnQueueFull, QueueFull
    <2>2. asleep' \in BOOLEAN
        BY <1>0, <1>8 DEF BlockedOnQueueFull, ThreadTypes
    <2>3. arriving' \in BOOLEAN
        BY <1>0, <1>8 DEF BlockedOnQueueFull, ThreadTypes
    <2>4. discard' \in BOOLEAN
        BY <1>0, <1>8, <2>1 DEF BlockedOnQueueFull, ThreadTypes
    <2>5. snapshot' \in [Cohorts -> Statuses] /\ pending' \in Int
        BY <1>0, <1>8 DEF BlockedOnQueueFull, ThreadTypes, ReaderTypes, StreamTypes,
            TakeSnapshot
    <2>6. \E p \in MainPcs : pc' = [pc EXCEPT !["main"] = p]
        BY <1>0, <1>8 DEF BlockedOnQueueFull, TakeSnapshot, ThreadTypes
    <2>7. UNCHANGED <<lock, callVars, idx>>
        BY <1>0, <1>8 DEF BlockedOnQueueFull, TakeSnapshot
    <2>8. QueueTypes' /\ StreamTypes' /\ ReaderTypes'
        BY <1>0, <1>8, <2>1, <2>2, <2>3, <2>4, <2>5, <2>6, <2>7 DEF BlockedOnQueueFull,
            TakeSnapshot, QueueTypes, StreamTypes, ReaderTypes
    <2>9. PeerTypes'
        BY <1>0, <1>8, <2>1, <2>2, <2>3, <2>4, <2>5, <2>6, <2>7 DEF BlockedOnQueueFull,
            TakeSnapshot, PeerTypes
    <2>10. ThreadTypes'
        BY <1>0, <2>1, <2>2, <2>3, <2>4, <2>5, <2>6, <2>7 DEF ThreadTypes
    <2>11. ReturnOK' /\ Positioned' /\ Serving'
        BY <1>0, <1>8, <2>1, <2>2, <2>3, <2>4, <2>5, <2>6, <2>7 DEF BlockedOnQueueFull,
            TakeSnapshot, ReturnOK, Positioned, Serving, ThreadTypes, MainAt, InCall,
            Providing
    <2>12. Admissions'
        BY <1>0, <1>8, <2>1, <2>2, <2>3, <2>4, <2>5, <2>6, <2>7 DEF BlockedOnQueueFull,
            TakeSnapshot, Admissions, ThreadTypes, MainAt, InCall
    <2>13. QED
        BY <2>8, <2>9, <2>10, <2>11, <2>12 DEF TypeInv, TypeOK
<1>9. CASE ProcessReaderStatusListBegin
    <2>1. QueueTypes' /\ StreamTypes' /\ ReaderTypes' /\ PeerTypes'
        BY <1>0, <1>9 DEF ProcessReaderStatusListBegin, QueueTypes, StreamTypes,
            ReaderTypes, PeerTypes
    <2>2. ThreadTypes'
        BY <1>0, <1>9 DEF ProcessReaderStatusListBegin, ThreadTypes
    <2>3. ReturnOK' /\ Positioned' /\ Serving' /\ Admissions'
        BY <1>0, <1>9 DEF ProcessReaderStatusListBegin, ReturnOK, Positioned, Serving,
            Admissions, ThreadTypes, MainAt, InCall, Providing
    <2>4. QED
        BY <2>1, <2>2, <2>3 DEF TypeInv, TypeOK
<1>10. CASE ProcessReaderStatusList
    <2> DEFINE i == NextReader("main", StatusDiffers)
    <2>1. i \in 1 .. Len(Readers) /\ Readers[i] \in Cohorts
        BY <1>0, <1>10, NextReaderIsReader DEF ProcessReaderStatusList, StreamTypes,
            ThreadTypes, Positioned, MainAt
    <2>2. snapshot[Readers[i]] \in Statuses
        BY <1>0, <1>10, <2>1 DEF ProcessReaderStatusList, ThreadTypes
    <2>3. PeerFailEffect("main", Readers[i], "statusLoop")
        BY <1>0, <1>10, <2>1, <2>2, PeerFailCloseEffect DEF ProcessReaderStatusList, TypeInv
    <2>4. QueueTypes'
        BY <1>0, <1>10, <2>1, <2>2, <2>3 DEF ProcessReaderStatusList, PeerFailEffect,
            QueueTypes
    <2>5. StreamTypes'
        BY <1>0, <1>10, <2>1, <2>2, <2>3 DEF ProcessReaderStatusList, PeerFailEffect,
            StreamTypes
    <2>6. ReaderTypes'
        BY <1>0, <1>10, <2>1, <2>2, <2>3 DEF ProcessReaderStatusList, PeerFailEffect,
            ReaderTypes
    <2>7. PeerTypes'
        BY <1>0, <1>10, <2>1, <2>2, <2>3 DEF ProcessReaderStatusList, PeerFailEffect,
            PeerTypes
    <2>8. ThreadTypes'
        BY <1>0, <1>10, <2>1, <2>2, <2>3 DEF ProcessReaderStatusList, PeerFailEffect,
            ThreadTypes
    <2>9. ReturnOK'
        BY <1>0, <1>10, <2>1, <2>2, <2>3 DEF ProcessReaderStatusList, PeerFailEffect,
            ReturnOK, ThreadTypes
    <2>10. Positioned'
        BY <1>0, <1>10, <2>1, <2>2, <2>3 DEF ProcessReaderStatusList, PeerFailEffect,
            Positioned, ThreadTypes, MainAt, InCall
    <2>11. Serving'
        BY <1>0, <1>10, <2>1, <2>2, <2>3 DEF ProcessReaderStatusList, PeerFailEffect,
            Serving, ThreadTypes, MainAt, InCall, Providing
    <2>12. Admissions'
        BY <1>0, <1>10, <2>1, <2>2, <2>3 DEF ProcessReaderStatusList, PeerFailEffect,
            Admissions, ThreadTypes, MainAt, InCall
    <2>13. QED
        BY <2>4, <2>5, <2>6, <2>7, <2>8, <2>9, <2>10, <2>11, <2>12 DEF TypeInv, TypeOK
<1>11. CASE ProcessReaderStatusListDone
    <2>1. QueueTypes' /\ StreamTypes' /\ ReaderTypes' /\ PeerTypes'
        BY <1>0, <1>11 DEF ProcessReaderStatusListDone, QueueTypes, StreamTypes,
            ReaderTypes, PeerTypes
    <2>2. ThreadTypes'
        BY <1>0, <1>11 DEF ProcessReaderStatusListDone, ThreadTypes
    <2>3. ReturnOK' /\ Positioned' /\ Serving' /\ Admissions'
        BY <1>0, <1>11 DEF ProcessReaderStatusListDone, ReturnOK, Positioned, Serving,
            Admissions, ThreadTypes, MainAt, InCall, Providing
    <2>4. QED
        BY <2>1, <2>2, <2>3 DEF TypeInv, TypeOK
<1>12. CASE DeliverBegin
    <2>1. WriterTimestep \in Steps
        BY <1>0, <1>12 DEF DeliverBegin, Serving, Providing
    <2>2. QueueTypes' /\ StreamTypes' /\ ReaderTypes' /\ PeerTypes'
        BY <1>0, <1>12, <2>1 DEF DeliverBegin, QueueTypes, StreamTypes, ReaderTypes,
            PeerTypes
    <2>3. ThreadTypes'
        BY <1>0, <1>12, <2>1 DEF DeliverBegin, ThreadTypes
    <2>4. ReturnOK' /\ Positioned' /\ Serving' /\ Admissions'
        BY <1>0, <1>12, <2>1 DEF DeliverBegin, ReturnOK, Positioned, Serving, Admissions,
            ThreadTypes, MainAt, InCall, Providing
    <2>5. QED
        BY <2>2, <2>3, <2>4 DEF TypeInv, TypeOK
<1>13. CASE SendToAll
    <2> DEFINE i == NextReader("main", EstablishedReaders)
    <2>1. i \in 1 .. Len(Readers) /\ Readers[i] \in Cohorts /\ idx["main"] \in Int
        BY <1>0, <1>13, NextReaderIsReader DEF SendToAll, StreamTypes, ThreadTypes,
            Positioned, MainAt
    <2>2. step["main"] \in Steps
        BY <1>0, <1>13 DEF SendToAll, Serving, MainAt, Providing
    <2>3. SendEffect("main", Readers[i], step["main"], "sendLoop")
        BY <1>0, <1>13, <2>1, <2>2, SendTimestepEntryTypes DEF SendToAll, TypeInv
    <2>4. QueueTypes'
        BY <1>0, <1>13, <2>1, <2>2, <2>3 DEF SendToAll, SendEffect, QueueTypes
    <2>5. StreamTypes'
        BY <1>0, <1>13, <2>1, <2>2, <2>3 DEF SendToAll, SendEffect, StreamTypes
    <2>6. ReaderTypes'
        BY <1>0, <1>13, <2>1, <2>2, <2>3 DEF SendToAll, SendEffect, ReaderTypes
    <2>7. PeerTypes'
        BY <1>0, <1>13, <2>1, <2>2, <2>3 DEF SendToAll, SendEffect, PeerTypes
    <2>8. ThreadTypes'
        BY <1>0, <1>13, <2>1, <2>2, <2>3 DEF SendToAll, SendEffect, ThreadTypes
    <2>9. ReturnOK'
        BY <1>0, <1>13, <2>1, <2>2, <2>3 DEF SendToAll, SendEffect, ReturnOK, ThreadTypes
    <2>10. Positioned'
        BY <1>0, <1>13, <2>1, <2>2, <2>3 DEF SendToAll, SendEffect, Positioned, ThreadTypes,
            MainAt, InCall
    <2>11. Serving'
        BY <1>0, <1>13, <2>1, <2>2, <2>3 DEF SendToAll, SendEffect, Serving, ThreadTypes,
            MainAt, InCall, Providing
    <2>12. Admissions'
        BY <1>0, <1>13, <2>1, <2>2, <2>3 DEF SendToAll, SendEffect, Admissions, ThreadTypes,
            MainAt, InCall
    <2>13. QED
        BY <2>4, <2>5, <2>6, <2>7, <2>8, <2>9, <2>10, <2>11, <2>12 DEF TypeInv, TypeOK
<1>14. CASE SendRoundRobin
    <2> DEFINE r == Readers[NextInTurn + 1]
    <2>1. r \in Cohorts /\ NextInTurn \in Nat
        BY <1>0, <1>14 DEF SendRoundRobin, NextInTurn, RoundRobinDue, StreamTypes
    <2>2. step["main"] \in Steps
        BY <1>0, <1>14 DEF SendRoundRobin, Serving, MainAt, Providing
    <2>3. IsEstablished(r) => SendEffect("main", r, step["main"], "sendLoop")
        BY <1>0, <1>14, <2>1, <2>2, SendTimestepEntryTypes DEF SendRoundRobin, TypeInv
    <2>4. QueueTypes'
        BY <1>0, <1>14, <2>1, <2>2, <2>3 DEF SendRoundRobin, SendEffect, QueueTypes
    <2>5. StreamTypes'
        BY <1>0, <1>14, <2>1, <2>2, <2>3 DEF SendRoundRobin, SendEffect, StreamTypes
    <2>6. ReaderTypes'
        BY <1>0, <1>14, <2>1, <2>2, <2>3 DEF SendRoundRobin, SendEffect, ReaderTypes
    <2>7. PeerTypes'
        BY <1>0, <1>14, <2>1, <2>2, <2>3 DEF SendRoundRobin, SendEffect, PeerTypes
    <2>8. ThreadTypes'
        BY <1>0, <1>14, <2>1, <2>2, <2>3 DEF SendRoundRobin, SendEffect, ThreadTypes
    <2>9. ReturnOK'
        BY <1>0, <1>14, <2>1, <2>2, <2>3 DEF SendRoundRobin, SendEffect, ReturnOK,
            ThreadTypes
    <2>10. Positioned'
        BY <1>0, <1>14, <2>1, <2>2, <2>3 DEF SendRoundRobin, SendEffect, Positioned,
            ThreadTypes, MainAt, InCall
    <2>11. Serving'
        BY <1>0, <1>14, <2>1, <2>2, <2>3 DEF SendRoundRobin, SendEffect, Serving,
            ThreadTypes, MainAt, InCall, Providing
    <2>12. Admissions'
        BY <1>0, <1>14, <2>1, <2>2, <2>3 DEF SendRoundRobin, SendEffect, Admissions,
            ThreadTypes, MainAt, InCall
    <2>13. QED
        BY <2>4, <2>5, <2>6, <2>7, <2>8, <2>9, <2>10, <2>11, <2>12 DEF TypeInv, TypeOK
<1>15. CASE SendOnDemand
    <2> DEFINE r == Head(StepRequestQueue)
    <2>1. r \in Cohorts /\ Tail(StepRequestQueue) \in Seq(Cohorts)
        BY <1>0, <1>15 DEF SendOnDemand, RequestDue, StreamTypes
    <2>2. step["main"] \in Steps
        BY <1>0, <1>15 DEF SendOnDemand, Serving, MainAt, Providing
    <2>3. IsEstablished(r) => SendEffect("main", r, step["main"], "sendLoop")
        BY <1>0, <1>15, <2>1, <2>2, SendTimestepEntryTypes DEF SendOnDemand, TypeInv
    <2>4. QueueTypes'
        BY <1>0, <1>15, <2>1, <2>2, <2>3 DEF SendOnDemand, SendEffect, QueueTypes
    <2>5. StreamTypes'
        BY <1>0, <1>15, <2>1, <2>2, <2>3 DEF SendOnDemand, SendEffect, StreamTypes
    <2>6. ReaderTypes'
        BY <1>0, <1>15, <2>1, <2>2, <2>3 DEF SendOnDemand, SendEffect, ReaderTypes
    <2>7. PeerTypes'
        BY <1>0, <1>15, <2>1, <2>2, <2>3 DEF SendOnDemand, SendEffect, PeerTypes
    <2>8. ThreadTypes'
        BY <1>0, <1>15, <2>1, <2>2, <2>3 DEF SendOnDemand, SendEffect, ThreadTypes
    <2>9. ReturnOK'
        BY <1>0, <1>15, <2>1, <2>2, <2>3 DEF SendOnDemand, SendEffect, ReturnOK, ThreadTypes
    <2>10. Positioned'
        BY <1>0, <1>15, <2>1, <2>2, <2>3 DEF SendOnDemand, SendEffect, Positioned,
            ThreadTypes, MainAt, InCall
    <2>11. Serving'
        BY <1>0, <1>15, <2>1, <2>2, <2>3 DEF SendOnDemand, SendEffect, Serving, ThreadTypes,
            MainAt, InCall, Providing
    <2>12. Admissions'
        BY <1>0, <1>15, <2>1, <2>2, <2>3 DEF SendOnDemand, SendEffect, Admissions,
            ThreadTypes, MainAt, InCall
    <2>13. QED
        BY <2>4, <2>5, <2>6, <2>7, <2>8, <2>9, <2>10, <2>11, <2>12 DEF TypeInv, TypeOK
<1>16. CASE ProvideTimestepSent
    <2>1. QueuedTimesteps' \subseteq QueuedTimesteps /\ Expired' \subseteq Steps
        BY <1>0, <1>16, MaintenanceEffect DEF ProvideTimestepSent, QueueTypes
    <2>2. step["main"] \in Steps
        BY <1>0, <1>16 DEF ProvideTimestepSent, Serving, MainAt, Providing
    <2>3. asleep' \in BOOLEAN
        BY <1>0, <1>16 DEF ProvideTimestepSent, ThreadTypes, SignalRemoval, SignalIf
    <2>4. QueueTypes'
        BY <1>0, <1>16, <2>1, <2>2, <2>3 DEF ProvideTimestepSent, SubRefTimestep, QueueTypes
    <2>5. StreamTypes'
        BY <1>0, <1>16, <2>1, <2>2, <2>3 DEF ProvideTimestepSent, SubRefTimestep,
            StreamTypes
    <2>6. ReaderTypes'
        BY <1>0, <1>16, <2>1, <2>2, <2>3 DEF ProvideTimestepSent, SubRefTimestep,
            ReaderTypes
    <2>7. PeerTypes'
        BY <1>0, <1>16, <2>1, <2>2, <2>3 DEF ProvideTimestepSent, SubRefTimestep, PeerTypes
    <2>8. ThreadTypes'
        BY <1>0, <1>16, <2>1, <2>2, <2>3 DEF ProvideTimestepSent, SubRefTimestep,
            ThreadTypes
    <2>9. ReturnOK' /\ Positioned' /\ Serving' /\ Admissions'
        BY <1>0, <1>16, <2>1, <2>2, <2>3 DEF ProvideTimestepSent, SubRefTimestep, ReturnOK,
            Positioned, Serving, Admissions, ThreadTypes, MainAt, InCall, Providing
    <2>10. QED
        BY <2>4, <2>5, <2>6, <2>7, <2>8, <2>9 DEF TypeInv, TypeOK
<1>17. CASE SendDiscarded
    <2> DEFINE i == NextReader("main", SendableReaders)
    <2>1. i \in 1 .. Len(Readers) /\ Readers[i] \in Cohorts /\ idx["main"] >= 1
        BY <1>0, <1>17, NextReaderIsReader DEF SendDiscarded, StreamTypes, ThreadTypes,
            Positioned, MainAt
    <2>2. WriteToReader("main", i, "discardLoop")
        BY <1>0, <1>17 DEF SendDiscarded
    <2>3. QueueTypes' /\ StreamTypes' /\ ReaderTypes' /\ ThreadTypes' /\ PeerTypes'
        BY <1>0, <1>17, <2>1, <2>2, WriteToReaderTypes DEF SendDiscarded, TypeInv
    <2>4. ReturnOK'
        BY <1>0, <1>17, <2>1, <2>2, <2>3 DEF SendDiscarded, WriteToReader, ReturnOK,
            ThreadTypes
    <2>5. Positioned'
        BY <1>0, <1>17, <2>1, <2>2, <2>3 DEF SendDiscarded, WriteToReader, Positioned,
            ThreadTypes, MainAt, InCall
    <2>6. Serving'
        BY <1>0, <1>17, <2>1, <2>2, <2>3 DEF SendDiscarded, WriteToReader, Serving,
            ThreadTypes, MainAt, InCall, Providing
    <2>7. Admissions'
        BY <1>0, <1>17, <2>1, <2>2, <2>3 DEF SendDiscarded, WriteToReader, Admissions,
            ThreadTypes, MainAt, InCall
    <2>8. QED
        BY <2>3, <2>4, <2>5, <2>6, <2>7 DEF TypeInv, TypeOK
<1>18. CASE ProvideTimestepDiscarded
    <2>1. step["main"] \in Steps
        BY <1>0, <1>18 DEF ProvideTimestepDiscarded, Serving, MainAt, Providing
    <2>2. Expired \cup {step["main"]} \in SUBSET Steps
        BY <1>0, <1>18, <2>1 DEF ProvideTimestepDiscarded, QueueTypes
    <2>3. QueuedTimesteps' \subseteq QueuedTimesteps /\ Expired' \subseteq Steps
        BY <1>0, <1>18, <2>2, MaintenanceEffect DEF ProvideTimestepDiscarded, QueueTypes
    <2>4. asleep' \in BOOLEAN
        BY <1>0, <1>18 DEF ProvideTimestepDiscarded, ThreadTypes, SignalRemoval, SignalIf
    <2>5. QueueTypes'
        BY <1>0, <1>18, <2>1, <2>2, <2>3, <2>4 DEF ProvideTimestepDiscarded, QueueTypes
    <2>6. StreamTypes'
        BY <1>0, <1>18, <2>1, <2>2, <2>3, <2>4 DEF ProvideTimestepDiscarded, StreamTypes
    <2>7. ReaderTypes'
        BY <1>0, <1>18, <2>1, <2>2, <2>3, <2>4 DEF ProvideTimestepDiscarded, ReaderTypes
    <2>8. PeerTypes'
        BY <1>0, <1>18, <2>1, <2>2, <2>3, <2>4 DEF ProvideTimestepDiscarded, PeerTypes
    <2>9. ThreadTypes'
        BY <1>0, <1>18, <2>1, <2>2, <2>3, <2>4 DEF ProvideTimestepDiscarded, ThreadTypes
    <2>10. ReturnOK' /\ Positioned' /\ Serving' /\ Admissions'
        BY <1>0, <1>18, <2>1, <2>2, <2>3, <2>4 DEF ProvideTimestepDiscarded, ReturnOK,
            Positioned, Serving, Admissions, ThreadTypes, MainAt, InCall, Providing
    <2>11. QED
        BY <2>5, <2>6, <2>7, <2>8, <2>9, <2>10 DEF TypeInv, TypeOK
<1>19. CASE HandlePendingReaders
    <2>1. Len(ReaderRegisterQueue) \in Nat
        BY <1>0, <1>19 DEF HandlePendingReaders, StreamTypes
    <2>2. /\ Status \notin {"NotOpen", "Destroyed"}
          /\ UNCHANGED <<Status, ReaderRegisterQueue>>
        BY <1>0, <1>19 DEF HandlePendingReaders, Admissions, MainAt, InCall
    <2>3. /\ pc'["main"] = (IF pending > 0 THEN "participate" ELSE "app")
          /\ pending' = (IF pending > 0 THEN pending - 1 ELSE pending)
        BY <1>0, <1>19 DEF HandlePendingReaders, ThreadTypes
    <2>4. QueueTypes' /\ StreamTypes' /\ ReaderTypes'
        BY <1>0, <1>19, <2>1, <2>2, <2>3 DEF HandlePendingReaders, QueueTypes, StreamTypes,
            ReaderTypes
    <2>5. PeerTypes'
        BY <1>0, <1>19, <2>1, <2>2, <2>3 DEF HandlePendingReaders, PeerTypes
    <2>6. ThreadTypes'
        BY <1>0, <1>19, <2>1, <2>2, <2>3 DEF HandlePendingReaders, ThreadTypes
    <2>7. ReturnOK' /\ Positioned' /\ Serving'
        BY <1>0, <1>19, <2>1, <2>2, <2>3 DEF HandlePendingReaders, ReturnOK, Positioned,
            Serving, ThreadTypes, MainAt, InCall, Providing
    <2>8. Admissions'
        BY <1>0, <1>19, <2>1, <2>2, <2>3 DEF HandlePendingReaders, Admissions, ThreadTypes,
            MainAt, InCall
    <2>9. QED
        BY <2>4, <2>5, <2>6, <2>7, <2>8 DEF TypeInv, TypeOK
<1>20. CASE UntagPreciousTimesteps
    <2>1. Expired \cup (PreciousTimestep \cap QueuedTimesteps) \in SUBSET Steps
        BY <1>0, <1>20 DEF UntagPreciousTimesteps, QueueTypes
    <2>2. QueuedTimesteps' \subseteq QueuedTimesteps /\ Expired' \subseteq Steps
        BY <1>0, <1>20, <2>1, MaintenanceEffect DEF UntagPreciousTimesteps, QueueTypes
    <2>3. QueueTypes'
        BY <1>0, <1>20, <2>1, <2>2 DEF UntagPreciousTimesteps, QueueTypes
    <2>4. StreamTypes'
        BY <1>0, <1>20, <2>1, <2>2 DEF UntagPreciousTimesteps, StreamTypes
    <2>5. ReaderTypes'
        BY <1>0, <1>20, <2>1, <2>2 DEF UntagPreciousTimesteps, ReaderTypes
    <2>6. PeerTypes'
        BY <1>0, <1>20, <2>1, <2>2 DEF UntagPreciousTimesteps, PeerTypes
    <2>7. ThreadTypes'
        BY <1>0, <1>20, <2>1, <2>2 DEF UntagPreciousTimesteps, ThreadTypes
    <2>8. ReturnOK' /\ Positioned' /\ Serving' /\ Admissions'
        BY <1>0, <1>20, <2>1, <2>2 DEF UntagPreciousTimesteps, ReturnOK, Positioned,
            Serving, Admissions, ThreadTypes, MainAt, InCall, Providing
    <2>9. QED
        BY <2>3, <2>4, <2>5, <2>6, <2>7, <2>8 DEF TypeInv, TypeOK
<1>21. CASE WriterCloseDrain
    <2>1. asleep' \in BOOLEAN
        BY <1>0, <1>21 DEF WriterCloseDrain, ThreadTypes
    <2>2. QueueTypes' /\ ReaderTypes' /\ PeerTypes'
        BY <1>0, <1>21, <2>1 DEF WriterCloseDrain, QueueTypes, ReaderTypes, PeerTypes
    <2>3. StreamTypes'
        BY <1>0, <1>21, <2>1 DEF WriterCloseDrain, StreamTypes
    <2>4. ThreadTypes'
        BY <1>0, <1>21, <2>1 DEF WriterCloseDrain, ThreadTypes
    <2>5. ReturnOK' /\ Positioned' /\ Serving' /\ Admissions'
        BY <1>0, <1>21, <2>1 DEF WriterCloseDrain, ReturnOK, Positioned, Serving,
            Admissions, ThreadTypes, MainAt, InCall, Providing
    <2>6. QED
        BY <2>2, <2>3, <2>4, <2>5 DEF TypeInv, TypeOK
<1>22. QED
        BY <1>1, <1>2, <1>3, <1>4, <1>5, <1>6, <1>7, <1>8, <1>9, <1>10, <1>11, <1>12, <1>13,
            <1>14, <1>15, <1>16, <1>17, <1>18, <1>19, <1>20, <1>21, SharedTypeInv DEF
            MainInCall

(* The calls the application makes.                                          *)
LEMMA CallTypeInv ==
    ASSUME TypeInv, MainCalls
    PROVE  TypeInv'
<1> USE DEF Threads, MainPcs, NetPcs, CallPcs, Statuses, SendRets, WriteRets, DerefRets,
            NetWriteRets, NetDerefRets, markVars, queueVars, openVars, stepVars, distVars,
            closeVars, streamVars, listVars, linkVars, readerVars, callVars, localVars,
            peerVars, dataVars, Goto, Lock, Unlock, NoLock, MetadataSends
<1>0. QueueTypes /\ StreamTypes /\ ReaderTypes /\ ThreadTypes /\ PeerTypes /\ ReturnOK
      /\ Positioned /\ Serving /\ Admissions
    BY DEF TypeInv, TypeOK
<1>1. CASE ProvideTimestep
    <2>1. WriterTimestep + 1 \in Steps
        BY <1>0, <1>1, ConstantsAssumption DEF ProvideTimestep, StreamTypes, Steps
    <2>2. QueueTypes'
        BY <1>0, <1>1, <2>1 DEF ProvideTimestep, EntryInitialReferences, QueueTypes
    <2>3. StreamTypes'
        BY <1>0, <1>1, <2>1 DEF ProvideTimestep, EntryInitialReferences, StreamTypes
    <2>4. ReaderTypes'
        BY <1>0, <1>1, <2>1 DEF ProvideTimestep, EntryInitialReferences, ReaderTypes
    <2>5. PeerTypes'
        BY <1>0, <1>1, <2>1 DEF ProvideTimestep, EntryInitialReferences, PeerTypes
    <2>6. ThreadTypes'
        BY <1>0, <1>1, <2>1 DEF ProvideTimestep, EntryInitialReferences, ThreadTypes
    <2>7. ReturnOK'
        BY <1>0, <1>1, <2>1 DEF ProvideTimestep, EntryInitialReferences, ReturnOK,
            ThreadTypes
    <2>8. Positioned'
        BY <1>0, <1>1, <2>1 DEF ProvideTimestep, EntryInitialReferences, Positioned,
            ThreadTypes, MainAt, InCall
    <2>9. Serving'
        BY <1>0, <1>1, <2>1 DEF ProvideTimestep, EntryInitialReferences, Serving,
            ThreadTypes, MainAt, InCall, Providing
    <2>10. Admissions'
        BY <1>0, <1>1, <2>1 DEF ProvideTimestep, EntryInitialReferences, Admissions,
            ThreadTypes, MainAt, InCall
    <2>11. QED
        BY <2>2, <2>3, <2>4, <2>5, <2>6, <2>7, <2>8, <2>9, <2>10 DEF TypeInv, TypeOK
<1>2. CASE SstWriterClose
    <2>1. QueueTypes' /\ StreamTypes' /\ ReaderTypes' /\ PeerTypes'
        BY <1>0, <1>2 DEF SstWriterClose, QueueTypes, StreamTypes, ReaderTypes, PeerTypes
    <2>2. ThreadTypes'
        BY <1>0, <1>2 DEF SstWriterClose, ThreadTypes
    <2>3. ReturnOK' /\ Positioned' /\ Serving' /\ Admissions'
        BY <1>0, <1>2 DEF SstWriterClose, ReturnOK, Positioned, Serving, Admissions,
            ThreadTypes, MainAt, InCall, Providing
    <2>4. QED
        BY <2>1, <2>2, <2>3 DEF TypeInv, TypeOK
<1>3. CASE SstStreamDestroy
    <2>1. QueueTypes' /\ StreamTypes' /\ ReaderTypes' /\ PeerTypes'
        BY <1>0, <1>3 DEF SstStreamDestroy, QueueTypes, StreamTypes, ReaderTypes, PeerTypes
    <2>2. ThreadTypes'
        BY <1>0, <1>3 DEF SstStreamDestroy, ThreadTypes
    <2>3. ReturnOK' /\ Positioned' /\ Serving' /\ Admissions'
        BY <1>0, <1>3 DEF SstStreamDestroy, ReturnOK, Positioned, Serving, Admissions,
            ThreadTypes, MainAt, InCall, Providing
    <2>4. QED
        BY <2>1, <2>2, <2>3 DEF TypeInv, TypeOK
<1>4. QED
        BY <1>1, <1>2, <1>3 DEF MainCalls

(* The steps of a handler that has begun.                                    *)
LEMMA NetTypeInv ==
    ASSUME TypeInv, NetInHandler
    PROVE  TypeInv'
<1> USE DEF Threads, MainPcs, NetPcs, CallPcs, Statuses, SendRets, WriteRets, DerefRets,
            NetWriteRets, NetDerefRets, markVars, queueVars, openVars, stepVars, distVars,
            closeVars, streamVars, listVars, linkVars, readerVars, callVars, localVars,
            peerVars, dataVars, Goto, Lock, Unlock, NoLock, MetadataSends
<1>0. QueueTypes /\ StreamTypes /\ ReaderTypes /\ ThreadTypes /\ PeerTypes /\ ReturnOK
      /\ Positioned /\ Serving /\ Admissions
    BY DEF TypeInv, TypeOK
<1>1. CASE ConnCloseDone
    <2>1. QueuedTimesteps' \subseteq QueuedTimesteps /\ Expired' \subseteq Steps
        BY <1>0, <1>1, MaintenanceEffect DEF ConnCloseDone, QueueTypes
    <2>2. asleep' \in BOOLEAN
        BY <1>0, <1>1 DEF ConnCloseDone, ThreadTypes, SignalRemoval, SignalIf
    <2>3. QueueTypes'
        BY <1>0, <1>1, <2>1, <2>2 DEF ConnCloseDone, QueueTypes
    <2>4. StreamTypes'
        BY <1>0, <1>1, <2>1, <2>2 DEF ConnCloseDone, StreamTypes
    <2>5. ReaderTypes'
        BY <1>0, <1>1, <2>1, <2>2 DEF ConnCloseDone, ReaderTypes
    <2>6. PeerTypes'
        BY <1>0, <1>1, <2>1, <2>2 DEF ConnCloseDone, PeerTypes
    <2>7. ThreadTypes'
        BY <1>0, <1>1, <2>1, <2>2 DEF ConnCloseDone, ThreadTypes
    <2>8. ReturnOK' /\ Positioned' /\ Serving' /\ Admissions'
        BY <1>0, <1>1, <2>1, <2>2 DEF ConnCloseDone, ReturnOK, Positioned, Serving,
            Admissions, ThreadTypes, MainAt, InCall, Providing
    <2>9. QED
        BY <2>3, <2>4, <2>5, <2>6, <2>7, <2>8 DEF TypeInv, TypeOK
<1>2. CASE HandlerDone
    <2>1. QueueTypes' /\ StreamTypes' /\ ReaderTypes' /\ PeerTypes'
        BY <1>0, <1>2 DEF HandlerDone, QueueTypes, StreamTypes, ReaderTypes, PeerTypes
    <2>2. ThreadTypes'
        BY <1>0, <1>2 DEF HandlerDone, ThreadTypes
    <2>3. ReturnOK' /\ Positioned' /\ Serving' /\ Admissions'
        BY <1>0, <1>2 DEF HandlerDone, ReturnOK, Positioned, Serving, Admissions,
            ThreadTypes, MainAt, InCall, Providing
    <2>4. QED
        BY <2>1, <2>2, <2>3 DEF TypeInv, TypeOK
<1>3. CASE RequestSent
    <2>1. QueueTypes'
        BY <1>0, <1>3 DEF RequestSent, QueueTypes
    <2>2. StreamTypes'
        BY <1>0, <1>3 DEF RequestSent, StreamTypes
    <2>3. ReaderTypes'
        BY <1>0, <1>3 DEF RequestSent, ReaderTypes
    <2>4. PeerTypes'
        BY <1>0, <1>3 DEF RequestSent, PeerTypes
    <2>5. ThreadTypes'
        BY <1>0, <1>3 DEF RequestSent, ThreadTypes
    <2>6. ReturnOK'
        BY <1>0, <1>3 DEF RequestSent, ReturnOK, ThreadTypes
    <2>7. Positioned'
        BY <1>0, <1>3 DEF RequestSent, Positioned, ThreadTypes, MainAt, InCall
    <2>8. Serving'
        BY <1>0, <1>3 DEF RequestSent, Serving, ThreadTypes, MainAt, InCall, Providing
    <2>9. Admissions'
        BY <1>0, <1>3 DEF RequestSent, Admissions, ThreadTypes, MainAt, InCall
    <2>10. QED
        BY <2>1, <2>2, <2>3, <2>4, <2>5, <2>6, <2>7, <2>8, <2>9 DEF TypeInv, TypeOK
<1>4. CASE ReleaseRelocked
    <2>1. QueueTypes' /\ StreamTypes' /\ ReaderTypes' /\ PeerTypes'
        BY <1>0, <1>4 DEF ReleaseRelocked, QueueTypes, StreamTypes, ReaderTypes, PeerTypes
    <2>2. ThreadTypes'
        BY <1>0, <1>4 DEF ReleaseRelocked, ThreadTypes
    <2>3. ReturnOK' /\ Positioned' /\ Serving' /\ Admissions'
        BY <1>0, <1>4 DEF ReleaseRelocked, ReturnOK, Positioned, Serving, Admissions,
            ThreadTypes, MainAt, InCall, Providing
    <2>4. QED
        BY <2>1, <2>2, <2>3 DEF TypeInv, TypeOK
<1>5. CASE ReleaseDone
    <2>1. QueuedTimesteps' \subseteq QueuedTimesteps /\ Expired' \subseteq Steps
        BY <1>0, <1>5, MaintenanceEffect DEF ReleaseDone, QueueTypes
    <2>2. asleep' \in BOOLEAN
        BY <1>0, <1>5 DEF ReleaseDone, ThreadTypes, SignalRemoval, SignalIf
    <2>3. QueueTypes'
        BY <1>0, <1>5, <2>1, <2>2 DEF ReleaseDone, QueueTypes
    <2>4. StreamTypes'
        BY <1>0, <1>5, <2>1, <2>2 DEF ReleaseDone, StreamTypes
    <2>5. ReaderTypes'
        BY <1>0, <1>5, <2>1, <2>2 DEF ReleaseDone, ReaderTypes
    <2>6. PeerTypes'
        BY <1>0, <1>5, <2>1, <2>2 DEF ReleaseDone, PeerTypes
    <2>7. ThreadTypes'
        BY <1>0, <1>5, <2>1, <2>2 DEF ReleaseDone, ThreadTypes
    <2>8. ReturnOK' /\ Positioned' /\ Serving' /\ Admissions'
        BY <1>0, <1>5, <2>1, <2>2 DEF ReleaseDone, ReturnOK, Positioned, Serving,
            Admissions, ThreadTypes, MainAt, InCall, Providing
    <2>9. QED
        BY <2>3, <2>4, <2>5, <2>6, <2>7, <2>8 DEF TypeInv, TypeOK
<1>6. ASSUME NEW r \in Cohorts, CloseWSRStream(r)
      PROVE  TypeInv'
    <2>1. PeerFailEffect("net", r, "handlerDone")
        BY <1>0, <1>6, PeerFailCloseEffect DEF CloseWSRStream, TypeInv
    <2>2. QueueTypes'
        BY <1>0, <1>6, <2>1 DEF CloseWSRStream, HandlerFrame, PeerFailEffect, QueueTypes
    <2>3. StreamTypes'
        BY <1>0, <1>6, <2>1 DEF CloseWSRStream, HandlerFrame, PeerFailEffect, StreamTypes
    <2>4. ReaderTypes'
        BY <1>0, <1>6, <2>1 DEF CloseWSRStream, HandlerFrame, PeerFailEffect, ReaderTypes
    <2>5. PeerTypes'
        BY <1>0, <1>6, <2>1 DEF CloseWSRStream, HandlerFrame, PeerFailEffect, PeerTypes
    <2>6. ThreadTypes'
        BY <1>0, <1>6, <2>1 DEF CloseWSRStream, HandlerFrame, PeerFailEffect, ThreadTypes
    <2>7. ReturnOK'
        BY <1>0, <1>6, <2>1 DEF CloseWSRStream, HandlerFrame, PeerFailEffect, ReturnOK,
            ThreadTypes
    <2>8. Positioned'
        BY <1>0, <1>6, <2>1 DEF CloseWSRStream, HandlerFrame, PeerFailEffect, Positioned,
            ThreadTypes, MainAt, InCall
    <2>9. Serving'
        BY <1>0, <1>6, <2>1 DEF CloseWSRStream, HandlerFrame, PeerFailEffect, Serving,
            ThreadTypes, MainAt, InCall, Providing
    <2>10. Admissions'
        BY <1>0, <1>6, <2>1 DEF CloseWSRStream, HandlerFrame, PeerFailEffect, Admissions,
            ThreadTypes, MainAt, InCall
    <2>11. QED
        BY <2>2, <2>3, <2>4, <2>5, <2>6, <2>7, <2>8, <2>9, <2>10 DEF TypeInv, TypeOK
<1>7. QED
        BY <1>1, <1>2, <1>3, <1>4, <1>5, <1>6, SharedTypeInv DEF NetInHandler
(* What the readers do.                                                      *)
LEMMA EnvironmentTypeInv ==
    ASSUME TypeInv, Environment
    PROVE  TypeInv'
<1> USE DEF Threads, MainPcs, NetPcs, CallPcs, Statuses, SendRets, WriteRets, DerefRets,
            NetWriteRets, NetDerefRets, markVars, queueVars, openVars, stepVars, distVars,
            closeVars, streamVars, listVars, linkVars, readerVars, callVars, localVars,
            peerVars, dataVars, Goto, Lock, Unlock, NoLock, MetadataSends
<1>0. QueueTypes /\ StreamTypes /\ ReaderTypes /\ ThreadTypes /\ PeerTypes /\ ReturnOK
      /\ Positioned /\ Serving /\ Admissions
    BY DEF TypeInv, TypeOK
<1>1. ASSUME NEW r \in Cohorts, ReaderRegisters(r)
      PROVE  TypeInv'
    <2>1. asleep' \in BOOLEAN
        BY <1>0, <1>1 DEF ReaderRegisters, ThreadTypes, queueReaderRegisterMsgAndNotify,
            SignalIf
    <2>2. /\ ReaderRegisterQueue' \in Seq(Cohorts)
          /\ Len(ReaderRegisterQueue') = Len(ReaderRegisterQueue) + 1
          /\ Len(ReaderRegisterQueue) \in Nat
        BY <1>0, <1>1 DEF ReaderRegisters, StreamTypes, queueReaderRegisterMsgAndNotify
    <2>3. QueueTypes' /\ ReaderTypes' /\ PeerTypes'
        BY <1>0, <1>1, <2>1, <2>2 DEF ReaderRegisters, queueReaderRegisterMsgAndNotify,
            SignalIf, QueueTypes, ReaderTypes, PeerTypes
    <2>4. StreamTypes'
        BY <1>0, <1>1, <2>1, <2>2 DEF ReaderRegisters, queueReaderRegisterMsgAndNotify,
            SignalIf, StreamTypes
    <2>5. ThreadTypes'
        BY <1>0, <1>1, <2>1, <2>2 DEF ReaderRegisters, queueReaderRegisterMsgAndNotify,
            SignalIf, ThreadTypes
    <2>6. ReturnOK' /\ Positioned' /\ Serving'
        BY <1>0, <1>1, <2>1, <2>2 DEF ReaderRegisters, queueReaderRegisterMsgAndNotify,
            SignalIf, ReturnOK, Positioned, Serving, ThreadTypes, MainAt, InCall, Providing
    <2>7. Admissions'
        BY <1>0, <1>1, <2>1, <2>2 DEF ReaderRegisters, queueReaderRegisterMsgAndNotify,
            SignalIf, Admissions, ThreadTypes, MainAt, InCall
    <2>8. QED
        BY <2>3, <2>4, <2>5, <2>6, <2>7 DEF TypeInv, TypeOK
<1>2. ASSUME NEW r \in Cohorts, ReaderActivates(r)
      PROVE  TypeInv'
    <2>1. asleep' \in BOOLEAN
        BY <1>0, <1>2 DEF ReaderActivates, ThreadTypes, CP_ReaderActivateHandler, SignalIf
    <2>2. QueueTypes' /\ StreamTypes' /\ ReaderTypes' /\ PeerTypes'
        BY <1>0, <1>2, <2>1 DEF ReaderActivates, CP_ReaderActivateHandler, SignalIf,
            QueueTypes, StreamTypes, ReaderTypes, PeerTypes
    <2>3. ThreadTypes'
        BY <1>0, <1>2, <2>1 DEF ReaderActivates, CP_ReaderActivateHandler, SignalIf,
            ThreadTypes
    <2>4. ReturnOK' /\ Positioned' /\ Serving' /\ Admissions'
        BY <1>0, <1>2, <2>1 DEF ReaderActivates, CP_ReaderActivateHandler, SignalIf,
            ReturnOK, Positioned, Serving, Admissions, ThreadTypes, MainAt, InCall,
            Providing
    <2>5. QED
        BY <2>2, <2>3, <2>4 DEF TypeInv, TypeOK
<1>3. ASSUME NEW r \in Cohorts, NEW t \in Steps, ReaderReleases(r, t)
      PROVE  TypeInv'
    <2>1. QueueTypes'
        BY <1>0, <1>3 DEF ReaderReleases, CP_ReleaseTimestepHandler, SubRefTimestep,
            QueueTypes
    <2>2. StreamTypes'
        BY <1>0, <1>3 DEF ReaderReleases, CP_ReleaseTimestepHandler, SubRefTimestep,
            StreamTypes
    <2>3. ReaderTypes'
        BY <1>0, <1>3 DEF ReaderReleases, CP_ReleaseTimestepHandler, SubRefTimestep,
            ReaderTypes
    <2>4. PeerTypes'
        BY <1>0, <1>3 DEF ReaderReleases, CP_ReleaseTimestepHandler, SubRefTimestep,
            PeerTypes
    <2>5. ThreadTypes'
        BY <1>0, <1>3 DEF ReaderReleases, CP_ReleaseTimestepHandler, SubRefTimestep,
            ThreadTypes
    <2>6. ReturnOK'
        BY <1>0, <1>3 DEF ReaderReleases, CP_ReleaseTimestepHandler, SubRefTimestep,
            ReturnOK, ThreadTypes
    <2>7. Positioned'
        BY <1>0, <1>3 DEF ReaderReleases, CP_ReleaseTimestepHandler, SubRefTimestep,
            Positioned, ThreadTypes, MainAt, InCall
    <2>8. Serving'
        BY <1>0, <1>3 DEF ReaderReleases, CP_ReleaseTimestepHandler, SubRefTimestep,
            Serving, ThreadTypes, MainAt, InCall, Providing
    <2>9. Admissions'
        BY <1>0, <1>3 DEF ReaderReleases, CP_ReleaseTimestepHandler, SubRefTimestep,
            Admissions, ThreadTypes, MainAt, InCall
    <2>10. QED
        BY <2>1, <2>2, <2>3, <2>4, <2>5, <2>6, <2>7, <2>8, <2>9 DEF TypeInv, TypeOK
<1>4. ASSUME NEW r \in Cohorts, ReaderRequests(r)
      PROVE  TypeInv'
    <2>1. \A t \in NextOnDemand : t \in Steps
        BY <1>0, <1>4 DEF ReaderRequests, NextOnDemand, QueueTypes
    <2>2. \A t \in NextOnDemand : SendTimestepEntryToSingleReader("net", r, t, "requestSent")
              => SendEffect("net", r, t, "requestSent")
        BY <1>0, <1>4, <2>1, SendTimestepEntryTypes DEF ReaderRequests, TypeInv
    <2>3. CP_ReaderRequestStepHandler(r) /\ pc["net"] = "idle"
        BY <1>0, <1>4 DEF ReaderRequests, CP_ReaderRequestStepHandler
    <2>4. LastDemandTimestep' \in Steps \cup {-1}
        BY <1>0, <1>4, <2>1 DEF ReaderRequests, StreamTypes, CP_ReaderRequestStepHandler
    <2>5. Append(StepRequestQueue, r) \in Seq(Cohorts)
        BY <1>0 DEF StreamTypes
    <2>6. StepRequestQueue' \in {StepRequestQueue, Append(StepRequestQueue, r)}
        BY <1>0, <1>4 DEF ReaderRequests, CP_ReaderRequestStepHandler,
            SendTimestepEntryToSingleReader
    <2>7. /\ pc'["main"] = pc["main"]
          /\ ret'["main"] = ret["main"]
          /\ UNCHANGED WriterTimestep
          /\ step'["main"] = step["main"]
        BY <1>0, <1>4, <2>2 DEF ReaderRequests, ThreadTypes, SendEffect,
            CP_ReaderRequestStepHandler
    <2>8. QueueTypes'
        BY <1>0, <1>4, <2>1, <2>2, <2>3, <2>4, <2>5, <2>6, <2>7 DEF ReaderRequests,
            CP_ReaderRequestStepHandler, SendEffect, QueueTypes
    <2>9. StreamTypes'
        BY <1>0, <1>4, <2>1, <2>2, <2>3, <2>4, <2>5, <2>6, <2>7 DEF ReaderRequests,
            CP_ReaderRequestStepHandler, SendEffect, StreamTypes
    <2>10. ReaderTypes'
        BY <1>0, <1>4, <2>1, <2>2, <2>3, <2>4, <2>5, <2>6, <2>7 DEF ReaderRequests,
            CP_ReaderRequestStepHandler, SendEffect, ReaderTypes
    <2>11. PeerTypes'
        BY <1>0, <1>4, <2>1, <2>2, <2>3, <2>4, <2>5, <2>6, <2>7 DEF ReaderRequests,
            CP_ReaderRequestStepHandler, SendEffect, PeerTypes
    <2>12. ThreadTypes'
        BY <1>0, <1>4, <2>1, <2>2, <2>3, <2>4, <2>5, <2>6, <2>7 DEF ReaderRequests,
            CP_ReaderRequestStepHandler, SendEffect, ThreadTypes
    <2>13. ReturnOK'
        BY <1>0, <1>4, <2>1, <2>2, <2>3, <2>4, <2>5, <2>6, <2>7 DEF ReaderRequests,
            CP_ReaderRequestStepHandler, SendEffect, ReturnOK, ThreadTypes
    <2>14. Positioned'
        BY <1>0, <1>4, <2>1, <2>2, <2>3, <2>4, <2>5, <2>6, <2>7 DEF ReaderRequests,
            CP_ReaderRequestStepHandler, SendEffect, Positioned, ThreadTypes, MainAt, InCall
    <2>15. Serving'
        BY <1>0, <1>4, <2>1, <2>2, <2>3, <2>4, <2>5, <2>6, <2>7 DEF ReaderRequests,
            CP_ReaderRequestStepHandler, SendEffect, Serving, ThreadTypes, MainAt, InCall,
            Providing
    <2>16. Admissions'
        BY <1>0, <1>4, <2>1, <2>2, <2>3, <2>4, <2>5, <2>6, <2>7 DEF ReaderRequests,
            CP_ReaderRequestStepHandler, SendEffect, Admissions, ThreadTypes, MainAt, InCall
    <2>17. QED
        BY <2>8, <2>9, <2>10, <2>11, <2>12, <2>13, <2>14, <2>15, <2>16 DEF TypeInv, TypeOK
<1>5. ASSUME NEW r \in Cohorts, ReaderCloses(r)
      PROVE  TypeInv'
    <2>1. PeerFailCloseWSReader("net", r, "PeerClosed", "handlerDone")
              => PeerFailEffect("net", r, "handlerDone")
        BY <1>0, <1>5, PeerFailCloseEffect DEF ReaderCloses, TypeInv
    <2>2. QueueTypes'
        BY <1>0, <1>5, <2>1 DEF ReaderCloses, CP_ReaderCloseHandler, HandlerFrame,
            PeerFailEffect, QueueTypes
    <2>3. StreamTypes'
        BY <1>0, <1>5, <2>1 DEF ReaderCloses, CP_ReaderCloseHandler, HandlerFrame,
            PeerFailEffect, StreamTypes
    <2>4. ReaderTypes'
        BY <1>0, <1>5, <2>1 DEF ReaderCloses, CP_ReaderCloseHandler, HandlerFrame,
            PeerFailEffect, ReaderTypes
    <2>5. PeerTypes'
        BY <1>0, <1>5, <2>1 DEF ReaderCloses, CP_ReaderCloseHandler, HandlerFrame,
            PeerFailEffect, PeerTypes
    <2>6. ThreadTypes'
        BY <1>0, <1>5, <2>1 DEF ReaderCloses, CP_ReaderCloseHandler, HandlerFrame,
            PeerFailEffect, ThreadTypes
    <2>7. ReturnOK'
        BY <1>0, <1>5, <2>1 DEF ReaderCloses, CP_ReaderCloseHandler, HandlerFrame,
            PeerFailEffect, ReturnOK, ThreadTypes
    <2>8. Positioned'
        BY <1>0, <1>5, <2>1 DEF ReaderCloses, CP_ReaderCloseHandler, HandlerFrame,
            PeerFailEffect, Positioned, ThreadTypes, MainAt, InCall
    <2>9. Serving'
        BY <1>0, <1>5, <2>1 DEF ReaderCloses, CP_ReaderCloseHandler, HandlerFrame,
            PeerFailEffect, Serving, ThreadTypes, MainAt, InCall, Providing
    <2>10. Admissions'
        BY <1>0, <1>5, <2>1 DEF ReaderCloses, CP_ReaderCloseHandler, HandlerFrame,
            PeerFailEffect, Admissions, ThreadTypes, MainAt, InCall
    <2>11. QED
        BY <2>2, <2>3, <2>4, <2>5, <2>6, <2>7, <2>8, <2>9, <2>10 DEF TypeInv, TypeOK
<1>6. ASSUME NEW r \in Cohorts, ReaderCrashes(r)
      PROVE  TypeInv'
    <2>1. QueueTypes' /\ StreamTypes' /\ ReaderTypes' /\ PeerTypes'
        BY <1>0, <1>6 DEF ReaderCrashes, QueueTypes, StreamTypes, ReaderTypes, PeerTypes
    <2>2. ThreadTypes'
        BY <1>0, <1>6 DEF ReaderCrashes, ThreadTypes
    <2>3. ReturnOK' /\ Positioned' /\ Serving' /\ Admissions'
        BY <1>0, <1>6 DEF ReaderCrashes, ReturnOK, Positioned, Serving, Admissions,
            ThreadTypes, MainAt, InCall, Providing
    <2>4. QED
        BY <2>1, <2>2, <2>3 DEF TypeInv, TypeOK
<1>7. ASSUME NEW r \in Cohorts, ConnectionCloses(r)
      PROVE  TypeInv'
    <2>1. PeerFailCloseWSReader("net", r, "PeerFailed", "connCloseDone")
              => PeerFailEffect("net", r, "connCloseDone")
        BY <1>0, <1>7, PeerFailCloseEffect DEF ConnectionCloses, TypeInv
    <2>2. QueueMaintenance(Expired)
              => QueuedTimesteps' \subseteq QueuedTimesteps /\ Expired' \subseteq Steps
        BY <1>0, <1>7, MaintenanceEffect DEF ConnectionCloses, QueueTypes
    <2>3. asleep' \in BOOLEAN
        BY <1>0, <1>7, <2>1 DEF ConnectionCloses, WriterConnCloseHandler, PeerFailEffect,
            ThreadTypes, SignalIf
    <2>4. QueueTypes'
        BY <1>0, <1>7, <2>1, <2>2, <2>3 DEF ConnectionCloses, WriterConnCloseHandler,
            HandlerFrame, PeerFailEffect, SignalIf, QueueTypes
    <2>5. StreamTypes'
        BY <1>0, <1>7, <2>1, <2>2, <2>3 DEF ConnectionCloses, WriterConnCloseHandler,
            HandlerFrame, PeerFailEffect, SignalIf, StreamTypes
    <2>6. ReaderTypes'
        BY <1>0, <1>7, <2>1, <2>2, <2>3 DEF ConnectionCloses, WriterConnCloseHandler,
            HandlerFrame, PeerFailEffect, SignalIf, ReaderTypes
    <2>7. PeerTypes'
        BY <1>0, <1>7, <2>1, <2>2, <2>3 DEF ConnectionCloses, WriterConnCloseHandler,
            HandlerFrame, PeerFailEffect, SignalIf, PeerTypes
    <2>8. ThreadTypes'
        BY <1>0, <1>7, <2>1, <2>2, <2>3 DEF ConnectionCloses, WriterConnCloseHandler,
            HandlerFrame, PeerFailEffect, SignalIf, ThreadTypes
    <2>9. ReturnOK'
        BY <1>0, <1>7, <2>1, <2>2, <2>3 DEF ConnectionCloses, WriterConnCloseHandler,
            HandlerFrame, PeerFailEffect, SignalIf, ReturnOK, ThreadTypes
    <2>10. Positioned'
        BY <1>0, <1>7, <2>1, <2>2, <2>3 DEF ConnectionCloses, WriterConnCloseHandler,
            HandlerFrame, PeerFailEffect, SignalIf, Positioned, ThreadTypes, MainAt, InCall
    <2>11. Serving'
        BY <1>0, <1>7, <2>1, <2>2, <2>3 DEF ConnectionCloses, WriterConnCloseHandler,
            HandlerFrame, PeerFailEffect, SignalIf, Serving, ThreadTypes, MainAt, InCall,
            Providing
    <2>12. Admissions'
        BY <1>0, <1>7, <2>1, <2>2, <2>3 DEF ConnectionCloses, WriterConnCloseHandler,
            HandlerFrame, PeerFailEffect, SignalIf, Admissions, ThreadTypes, MainAt, InCall
    <2>13. QED
        BY <2>4, <2>5, <2>6, <2>7, <2>8, <2>9, <2>10, <2>11, <2>12 DEF TypeInv, TypeOK
<1>8. QED
        BY <1>1, <1>2, <1>3, <1>4, <1>5, <1>6, <1>7 DEF Environment
(* The initial states.                                                       *)
LEMMA InitTypeInv == Init => TypeInv
<1> SUFFICES ASSUME Init PROVE TypeInv
    OBVIOUS
<1>1. QueueTypes
    BY DEF Init, QueueTypes
<1>2. <<>> \in Seq(Cohorts) /\ Len(<<>>) = 0
    OBVIOUS
<1>3. StreamTypes
    <2>1. /\ Readers \in Seq(Cohorts) /\ ReaderRegisterQueue \in Seq(Cohorts)
          /\ StepRequestQueue \in Seq(Cohorts)
        BY <1>2 DEF Init
    <2>2. RendezvousReaderCount \in Int /\ ReserveCount \in Nat
        BY ConstantsAssumption DEF Init
    <2>3. CloseMessagesSent \in BOOLEAN
        BY Zenon DEF Init
    <2>4. /\ Status \in {"NotOpen", "Established", "Destroyed"}
          /\ WriterTimestep \in Steps \cup {-1} /\ LastProvidedTimestep \in Steps \cup {0}
          /\ NextRRDistribution \in Nat /\ LastDemandTimestep \in Steps \cup {-1}
          /\ CloseTimestepCount \in Steps \cup {-1}
        BY DEF Init
    <2>5. QED
        BY <2>1, <2>2, <2>3, <2>4 DEF StreamTypes
<1>4. ReaderTypes
    BY DEF Init, ReaderTypes, Statuses
<1>5. ThreadTypes
    <2> USE DEF Init, Threads, Statuses
    <2>1. pc \in [Threads -> MainPcs \cup NetPcs \cup CallPcs]
          /\ pc["main"] \in MainPcs \cup CallPcs /\ pc["net"] \in NetPcs \cup CallPcs
        BY DEF MainPcs, NetPcs, CallPcs
    <2>2. /\ ret \in [Threads -> MainPcs \cup NetPcs \cup CallPcs \cup {"none"}]
          /\ rdr \in [Threads -> Cohorts \cup {NoReader}]
          /\ step \in [Threads -> Steps \cup {0}]
          /\ idx \in [Threads -> Int]
          /\ cursor \in [Threads -> Steps \cup {-1}]
          /\ newState \in [Threads -> Statuses]
        OBVIOUS
    <2>3. asleep \in BOOLEAN /\ arriving \in BOOLEAN /\ discard \in BOOLEAN
        BY Zenon
    <2>4. /\ lock \in Threads \cup {"none"} /\ pending \in Int
          /\ snapshot \in [Cohorts -> Statuses]
        OBVIOUS
    <2>5. QED
        BY <2>1, <2>2, <2>3, <2>4 DEF ThreadTypes
<1>6. PeerTypes
    BY DEF Init, PeerTypes
<1>7. ReturnOK /\ Positioned /\ Serving
    BY DEF Init, ReturnOK, Positioned, Serving, MainAt, InCall, Providing, Threads, CallPcs
<1>8. Admissions
    BY <1>2 DEF Init, Admissions, MainAt, InCall, Threads, CallPcs
<1>9. QED
    BY <1>1, <1>3, <1>4, <1>5, <1>6, <1>7, <1>8 DEF TypeInv, TypeOK

(* Every step keeps the invariant.                                           *)
LEMMA NextTypeInv ==
    ASSUME TypeInv, [Next]_vars
    PROVE  TypeInv'
<1>1. CASE Environment
    BY <1>1, EnvironmentTypeInv
<1>2. CASE UNCHANGED vars
    <2>1. TypeOK'
        BY <1>2 DEF TypeInv, TypeOK, QueueTypes, StreamTypes, ReaderTypes, ThreadTypes,
            PeerTypes, vars, dataVars, queueVars, markVars, streamVars, openVars, stepVars,
            distVars, closeVars, listVars, readerVars, linkVars, callVars, localVars, peerVars
    <2>2. ReturnOK' /\ Positioned' /\ Serving' /\ Admissions'
        BY <1>2 DEF TypeInv, ReturnOK, Positioned, Serving, Admissions, MainAt, InCall,
            Providing, vars, dataVars, streamVars, openVars, stepVars, listVars, callVars,
            localVars
    <2>3. QED
        BY <2>1, <2>2 DEF TypeInv
<1>3. CASE Terminated
    BY <1>2, <1>3 DEF Terminated
<1>4. QED
    BY <1>1, <1>2, <1>3, MainTypeInv, CallTypeInv, NetTypeInv DEF Next

(* The inductive invariant holds in every reachable state.                   *)
THEOREM TypeInvariance == Spec => []TypeInv
<1>1. Init => TypeInv
    BY InitTypeInv
<1>2. TypeInv /\ [Next]_vars => TypeInv'
    BY NextTypeInv
<1>3. QED
    BY <1>1, <1>2, PTL DEF Spec

(* Every variable of the writer has its type in every reachable state,       *)
(* however many cohorts, steps and queue entries there are.                  *)
THEOREM TypeCorrectness == Spec => []TypeOK
<1>1. TypeInv => TypeOK
    BY DEF TypeInv
<1>2. QED
    BY <1>1, TypeInvariance, PTL

(* WriterParticipateInReaderOpen asserts that a registration is queued; the  *)
(* assertion never fails.                                                    *)
THEOREM RegistrationIsQueued == Spec => []RegistrationQueued
<1>1. TypeInv => RegistrationQueued
    <2> SUFFICES ASSUME TypeInv, pc["main"] = "participate", ReaderRegisterQueue = <<>>
                 PROVE  FALSE
        BY DEF RegistrationQueued
    <2>1. pending \in Nat /\ pending + 1 <= Len(<<>>)
        BY DEF TypeInv, Admissions
    <2>2. QED
        BY <2>1
<1>2. QED
    BY <1>1, TypeInvariance, PTL

=============================================================================
