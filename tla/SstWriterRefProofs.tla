--------------------------- MODULE SstWriterRefProofs ---------------------------
(* The references to the entries of the timestep queue, for every number of *)
(* cohorts and steps and every configuration: a step that a reader was sent *)
(* and has not given back, and the step being provided, are never freed.    *)
(* Then what the proofs about delivery need besides: when main is woken,    *)
(* who the readers are, and which steps are handed to them.                 *)
EXTENDS SstWriterTypeProofs

-----------------------------------------------------------------------------
(* The inductive invariant *)

InReaders(r) == \E i \in 1 .. Len(Readers) : Readers[i] = r
InQueue(r)   == \E i \in 1 .. Len(ReaderRegisterQueue) : ReaderRegisterQueue[i] = r
NewReader(r) == peer[r] = "absent" \/ InQueue(r)

(* A reader registers once and is admitted once.                            *)
ListedOnce ==
    /\ \A i, j \in 1 .. Len(Readers) : Readers[i] = Readers[j] => i = j
    /\ \A i, j \in 1 .. Len(ReaderRegisterQueue) :
          ReaderRegisterQueue[i] = ReaderRegisterQueue[j] => i = j
    /\ \A r \in Cohorts : InQueue(r) => peer[r] \in {"registered", "crashed"}

(* The writer knows nothing of a reader it has not admitted.                *)
Unknown ==
    \A r \in Cohorts : NewReader(r) =>
        /\ ReaderStatus[r] = "NotOpen" /\ snapshot[r] = "NotOpen"
        /\ SentTimestepList[r] = {}
        /\ r \notin Delayed
        /\ ~InReaders(r)
        /\ \A th \in Threads : InCall(th) => rdr[th] # r

(* The provider has not yet come to the readers. *)
Unserved ==
    \/ pc["main"] \in {"decide", "blocked", "distribute", "deliver"}
    \/ MainAt("statusLoop")
    \/ MainAt("discardLoop")

(* The readers main has still to serve do not have the step it provides.    *)
StepUnsent ==
    /\ Providing => WriterTimestep \in InProgressFlag
    /\ Unserved => \A r \in Cohorts : WriterTimestep \notin SentTimestepList[r]
    /\ (MainAt("sendLoop") /\ StepDistributionMode = "AllToAll") =>
          \A i \in 1 .. Len(Readers) :
              i >= idx["main"] => WriterTimestep \notin SentTimestepList[Readers[i]]
    /\ (MainAt("sendLoop") /\ StepDistributionMode # "AllToAll" /\ idx["main"] = 1) =>
          \A r \in Cohorts : WriterTimestep \notin SentTimestepList[r]

(* Requests are answered with a step no reader has been sent.               *)
DemandUnsent ==
    /\ StepDistributionMode # "OnDemand" => StepRequestQueue = <<>>
    /\ StepDistributionMode = "OnDemand" =>
          \A r \in Cohorts : \A t \in SentTimestepList[r] : t <= LastDemandTimestep

(* A new reader is sent the queued steps in order.                          *)
QueuedUnsent ==
    /\ (pc["main"] = "awaitReader" /\ StepDistributionMode = "AllToAll") =>
          SentTimestepList[rdr["main"]] = {}
    /\ MainAt("queuedLoop") =>
          /\ StepDistributionMode = "AllToAll"
          /\ \A t \in SentTimestepList[rdr["main"]] : t < idx["main"]

QueueInOrder == \A t \in QueuedTimesteps : t <= WriterTimestep

Admitted == ListedOnce /\ Unknown
SentOnce == StepUnsent /\ DemandUnsent /\ QueuedUnsent
Counted  == QueueInOrder /\ ReferencesCounted /\ SentStepsRetained /\ ProvidedEntryKept
RefInv   == Admitted /\ SentOnce /\ Counted

-----------------------------------------------------------------------------
(* Counting *)

(* The holders of a step are finitely many.                                 *)
LEMMA HoldersFinite ==
    \A t : IsFiniteSet(Holders(t)) /\ Cardinality(Holders(t)) \in Nat
<1> TAKE t
<1>1. Holders(t) \in SUBSET Cohorts /\ IsFiniteSet(Cohorts)
    BY ConstantsAssumption DEF Holders
<1>2. IsFiniteSet(Holders(t))
    BY <1>1, FS_Subset
<1>3. QED
    BY <1>2, FS_CardinalityType

(* An entry without a reference has no holder and is not being provided.    *)
LEMMA UnreferencedIsFree ==
    ASSUME ReferencesCounted, NEW t \in QueuedTimesteps, ReferenceCount[t] = 0
    PROVE  /\ Holders(t) = {}
           /\ ~(Providing /\ t = WriterTimestep)
<1>1. ReferenceCount[t] = Cardinality(Holders(t)) + ProviderReference(t)
    BY DEF ReferencesCounted
<1>2. Cardinality(Holders(t)) \in Nat /\ IsFiniteSet(Holders(t))
    BY HoldersFinite
<1>3. ProviderReference(t) \in {0, 1}
    BY DEF ProviderReference
<1>4. Cardinality(Holders(t)) = 0 /\ ProviderReference(t) = 0
    BY <1>1, <1>2, <1>3
<1>5. QED
    BY <1>2, <1>4, FS_EmptySet DEF ProviderReference

(* What queue maintenance removes has no reference.                         *)
Shrinks ==
    /\ QueuedTimesteps' \subseteq QueuedTimesteps
    /\ \A t \in QueuedTimesteps \ QueuedTimesteps' : ReferenceCount'[t] = 0

(* Removing entries without references keeps the rest of the invariant.     *)
LEMMA CountedKept ==
    ASSUME TypeInv, Counted, Shrinks,
           UNCHANGED <<ReferenceCount, SentTimestepList, WriterTimestep>>,
           Providing' <=> Providing
    PROVE  Counted'
<1>1. \A t : Holders(t)' = Holders(t) /\ ProviderReference(t)' = ProviderReference(t)
    BY DEF Holders, ProviderReference
<1>2. \A t \in QueuedTimesteps \ QueuedTimesteps' :
          Holders(t) = {} /\ ~(Providing /\ t = WriterTimestep)
    BY UnreferencedIsFree DEF Shrinks, Counted
<1>3. QueueInOrder' /\ ProvidedEntryKept'
    BY <1>2 DEF Counted, QueueInOrder, ProvidedEntryKept, Shrinks
<1>4. ReferencesCounted'
    BY <1>1 DEF Counted, ReferencesCounted, Shrinks
<1>5. SentStepsRetained'
    BY <1>2 DEF Counted, SentStepsRetained, Holders
<1>6. QED
    BY <1>3, <1>4, <1>5 DEF Counted

(* A queued step is entered in the sent list of a reader without it.        *)
LEMMA CountedSent ==
    ASSUME TypeInv, Counted, NEW r \in Cohorts, NEW t \in QueuedTimesteps,
           t \notin SentTimestepList[r],
           ReferenceCount' = [ReferenceCount EXCEPT ![t] = @ + 1],
           SentTimestepList' = [SentTimestepList EXCEPT ![r] = @ \cup {t}],
           UNCHANGED <<QueuedTimesteps, WriterTimestep>>,
           Providing' <=> Providing
    PROVE  Counted'
<1>1. /\ QueuedTimesteps \subseteq Steps /\ ReferenceCount \in [Steps -> Int]
      /\ SentTimestepList \in [Cohorts -> SUBSET Steps]
    BY DEF TypeInv, TypeOK, QueueTypes, ReaderTypes
<1>2. QueueInOrder' /\ ProvidedEntryKept' /\ SentStepsRetained'
    BY <1>1 DEF Counted, QueueInOrder, ProvidedEntryKept, SentStepsRetained
<1>3. ASSUME NEW u \in QueuedTimesteps
      PROVE  ReferenceCount'[u] = Cardinality(Holders(u)') + ProviderReference(u)'
    <2>1. ReferenceCount[u] = Cardinality(Holders(u)) + ProviderReference(u)
        BY <1>3 DEF Counted, ReferencesCounted
    <2>2. ProviderReference(u)' = ProviderReference(u) /\ ProviderReference(u) \in {0, 1}
        BY DEF ProviderReference
    <2>3. CASE u = t
        <3>1. Holders(t)' = Holders(t) \cup {r} /\ r \notin Holders(t)
            BY <1>1 DEF Holders
        <3>2. /\ Cardinality(Holders(t) \cup {r}) = Cardinality(Holders(t)) + 1
              /\ Cardinality(Holders(t)) \in Nat
            BY <3>1, HoldersFinite, FS_AddElement
        <3>3. QED
            BY <1>1, <2>1, <2>2, <2>3, <3>1, <3>2
    <2>4. CASE u # t
        <3>1. Holders(u)' = Holders(u)
            BY <1>1, <2>4 DEF Holders
        <3>2. QED
            BY <1>1, <2>1, <2>2, <2>4, <3>1
    <2>5. QED
        BY <2>3, <2>4
<1>4. ReferencesCounted'
    BY <1>3 DEF ReferencesCounted
<1>5. QED
    BY <1>2, <1>4 DEF Counted

(* A reader gives a step back.                                              *)
LEMMA CountedDropped ==
    ASSUME TypeInv, Counted, NEW r \in Cohorts, NEW t \in SentTimestepList[r],
           SubRefTimestep(t),
           SentTimestepList' = [SentTimestepList EXCEPT ![r] = @ \ {t}],
           UNCHANGED <<QueuedTimesteps, WriterTimestep>>,
           Providing' <=> Providing
    PROVE  Counted'
<1>1. /\ QueuedTimesteps \subseteq Steps /\ ReferenceCount \in [Steps -> Int]
      /\ SentTimestepList \in [Cohorts -> SUBSET Steps] /\ t \in QueuedTimesteps
    BY DEF TypeInv, TypeOK, QueueTypes, ReaderTypes, Counted, SentStepsRetained
<1>2. QueueInOrder' /\ ProvidedEntryKept' /\ SentStepsRetained'
    BY <1>1 DEF Counted, QueueInOrder, ProvidedEntryKept, SentStepsRetained
<1>3. ASSUME NEW u \in QueuedTimesteps
      PROVE  ReferenceCount'[u] = Cardinality(Holders(u)') + ProviderReference(u)'
    <2>1. ReferenceCount[u] = Cardinality(Holders(u)) + ProviderReference(u)
        BY <1>3 DEF Counted, ReferencesCounted
    <2>2. ProviderReference(u)' = ProviderReference(u) /\ ProviderReference(u) \in {0, 1}
        BY DEF ProviderReference
    <2>3. CASE u = t
        <3>1. Holders(t)' = Holders(t) \ {r} /\ r \in Holders(t)
            BY <1>1 DEF Holders
        <3>2. /\ Cardinality(Holders(t) \ {r}) = Cardinality(Holders(t)) - 1
              /\ Cardinality(Holders(t)) \in Nat
            BY <3>1, HoldersFinite, FS_RemoveElement
        <3>3. QED
            BY <1>1, <2>1, <2>2, <2>3, <3>1, <3>2 DEF SubRefTimestep
    <2>4. CASE u # t
        <3>1. Holders(u)' = Holders(u)
            BY <1>1, <2>4 DEF Holders
        <3>2. QED
            BY <1>1, <2>1, <2>2, <2>4, <3>1 DEF SubRefTimestep
    <2>5. QED
        BY <2>3, <2>4
<1>4. ReferencesCounted'
    BY <1>3 DEF ReferencesCounted
<1>5. QED
    BY <1>2, <1>4 DEF Counted

(* The provider drops its reference; maintenance may then free the entry.   *)
LEMMA CountedProvided ==
    ASSUME TypeInv, Counted, Providing, ~Providing', Shrinks,
           ReferenceCount' = [ReferenceCount EXCEPT
                                 ![WriterTimestep] = Cardinality(Holders(WriterTimestep))],
           UNCHANGED <<SentTimestepList, WriterTimestep>>
    PROVE  Counted'
<1>1. /\ QueuedTimesteps \subseteq Steps /\ ReferenceCount \in [Steps -> Int]
      /\ WriterTimestep \in QueuedTimesteps
    BY DEF TypeInv, TypeOK, QueueTypes, Counted, ProvidedEntryKept
<1>2. \A t : Holders(t)' = Holders(t) /\ ProviderReference(t)' = 0
    BY DEF Holders, ProviderReference
<1>3. \A t \in QueuedTimesteps : ReferenceCount'[t] = Cardinality(Holders(t))
    <2> TAKE t \in QueuedTimesteps
    <2>1. ReferenceCount[t] = Cardinality(Holders(t)) + ProviderReference(t)
        BY DEF Counted, ReferencesCounted
    <2>2. Cardinality(Holders(t)) \in Nat
        BY HoldersFinite
    <2>3. QED
        BY <1>1, <2>1, <2>2 DEF ProviderReference
<1>4. \A t \in QueuedTimesteps \ QueuedTimesteps' : Holders(t) = {}
    BY <1>3, HoldersFinite, FS_EmptySet DEF Shrinks
<1>5. QueueInOrder' /\ ProvidedEntryKept'
    BY DEF Counted, QueueInOrder, ProvidedEntryKept, Shrinks
<1>6. ReferencesCounted'
    <2>1. \A t \in QueuedTimesteps' :
              ReferenceCount'[t] = Cardinality(Holders(t)') + ProviderReference(t)'
        <3> TAKE t \in QueuedTimesteps'
        <3>1. t \in QueuedTimesteps /\ Cardinality(Holders(t)) \in Nat
            BY HoldersFinite DEF Shrinks
        <3>2. QED
            BY <1>2, <1>3, <3>1
    <2>2. QED
        BY <2>1 DEF ReferencesCounted
<1>7. SentStepsRetained'
    BY <1>4 DEF Counted, SentStepsRetained, Holders
<1>8. QED
    BY <1>5, <1>6, <1>7 DEF Counted

-----------------------------------------------------------------------------
(* What most steps leave alone *)

(* Nothing becomes known of a reader that was not admitted.                 *)
UnknownKept ==
    \A r \in Cohorts : NewReader(r) =>
        /\ ReaderStatus'[r] = ReaderStatus[r]
        /\ snapshot'[r] \in {snapshot[r], ReaderStatus[r]}
        /\ SentTimestepList'[r] = SentTimestepList[r]
        /\ r \in Delayed' => r \in Delayed
        /\ \A th \in Threads :
              (InCall(th)' /\ rdr'[th] = r) => (InCall(th) /\ rdr[th] = r)

PeersKept ==
    \A r \in Cohorts :
        \/ peer'[r] = peer[r]
        \/ /\ peer[r] # "absent" /\ peer'[r] # "absent"
           /\ InQueue(r) => peer'[r] \in {"registered", "crashed"}

(* With that, and the same lists, the readers are admitted as before.        *)
LEMMA AdmittedKept ==
    ASSUME TypeInv, Admitted, UnknownKept, PeersKept,
           UNCHANGED <<Readers, ReaderRegisterQueue>>
    PROVE  Admitted'
<1>1. \A r \in Cohorts : InQueue(r)' = InQueue(r) /\ InReaders(r)' = InReaders(r)
    BY DEF InQueue, InReaders
<1>2. \A r \in Cohorts : NewReader(r)' => NewReader(r)
    BY <1>1 DEF NewReader, PeersKept
<1>3. ListedOnce'
    <2>1. \A r \in Cohorts : InQueue(r)' => peer'[r] \in {"registered", "crashed"}
        BY <1>1 DEF PeersKept, Admitted, ListedOnce
    <2>2. QED
        BY <2>1 DEF Admitted, ListedOnce
<1>4. Unknown'
    <2> SUFFICES ASSUME NEW r \in Cohorts, NewReader(r)'
                 PROVE  /\ ReaderStatus'[r] = "NotOpen" /\ snapshot'[r] = "NotOpen"
                        /\ SentTimestepList'[r] = {}
                        /\ r \notin Delayed'
                        /\ ~InReaders(r)'
                        /\ \A th \in Threads : InCall(th)' => rdr'[th] # r
        BY DEF Unknown
    <2>1. NewReader(r)
        BY <1>2
    <2>2. /\ ReaderStatus[r] = "NotOpen" /\ snapshot[r] = "NotOpen"
          /\ SentTimestepList[r] = {} /\ r \notin Delayed /\ ~InReaders(r)
          /\ \A th \in Threads : InCall(th) => rdr[th] # r
        BY <2>1 DEF Admitted, Unknown
    <2>3. /\ ReaderStatus'[r] = ReaderStatus[r]
          /\ snapshot'[r] \in {snapshot[r], ReaderStatus[r]}
          /\ SentTimestepList'[r] = SentTimestepList[r]
          /\ r \in Delayed' => r \in Delayed
          /\ \A th \in Threads :
                (InCall(th)' /\ rdr'[th] = r) => (InCall(th) /\ rdr[th] = r)
        BY <2>1 DEF UnknownKept
    <2>4. QED
        BY <1>1, <2>2, <2>3
<1>5. QED
    BY <1>3, <1>4 DEF Admitted

(* main stays where it is, or goes on to what changes nothing here.         *)
ControlKept ==
    /\ Providing' => Providing
    /\ Unserved' => Unserved
    /\ MainAt("sendLoop")' => \/ Unserved
                              \/ MainAt("sendLoop") /\ idx'["main"] = idx["main"]
    /\ pc'["main"] = "awaitReader" => pc["main"] = "awaitReader" /\ rdr'["main"] = rdr["main"]
    /\ MainAt("queuedLoop")' =>
          /\ rdr'["main"] = rdr["main"] /\ rdr["main"] \in Cohorts
          /\ StepDistributionMode = "AllToAll"
          /\ \/ MainAt("queuedLoop") /\ idx'["main"] = idx["main"]
             \/ pc["main"] = "awaitReader"

SendsNothing ==
    /\ \A r \in Cohorts : SentTimestepList'[r] \subseteq SentTimestepList[r]
    /\ MainAt("sendLoop")' => Readers' = Readers
    /\ StepDistributionMode # "OnDemand" /\ StepRequestQueue = <<>> => StepRequestQueue' = <<>>

(* With that, and no send, what was unsent stays unsent.                     *)
LEMMA SentOnceKept ==
    ASSUME TypeInv, SentOnce, ControlKept, SendsNothing,
           UNCHANGED <<WriterTimestep, LastDemandTimestep>>,
           Providing' => InProgressFlag' = InProgressFlag
    PROVE  SentOnce'
<1>0. Readers \in Seq(Cohorts)
    BY DEF TypeInv, TypeOK, StreamTypes
<1>1. Providing' => WriterTimestep' \in InProgressFlag'
    BY DEF SentOnce, StepUnsent, ControlKept
<1>2. Unserved' => \A r \in Cohorts : WriterTimestep' \notin SentTimestepList'[r]
    BY DEF SentOnce, StepUnsent, ControlKept, SendsNothing
<1>3. (MainAt("sendLoop")' /\ StepDistributionMode = "AllToAll") =>
          \A i \in 1 .. Len(Readers') :
              i >= idx'["main"] => WriterTimestep' \notin SentTimestepList'[Readers'[i]]
    BY <1>0 DEF SentOnce, StepUnsent, ControlKept, SendsNothing
<1>4. (MainAt("sendLoop")' /\ StepDistributionMode # "AllToAll" /\ idx'["main"] = 1) =>
          \A r \in Cohorts : WriterTimestep' \notin SentTimestepList'[r]
    BY DEF SentOnce, StepUnsent, ControlKept, SendsNothing
<1>5. DemandUnsent'
    BY DEF SentOnce, DemandUnsent, SendsNothing
<1>6. QueuedUnsent'
    <2>1. (pc'["main"] = "awaitReader" /\ StepDistributionMode = "AllToAll") =>
              SentTimestepList'[rdr'["main"]] = {}
        BY DEF SentOnce, QueuedUnsent, ControlKept, SendsNothing, TypeInv, Positioned
    <2>2. MainAt("queuedLoop")' =>
              /\ StepDistributionMode = "AllToAll"
              /\ \A t \in SentTimestepList'[rdr'["main"]] : t < idx'["main"]
        BY DEF SentOnce, QueuedUnsent, ControlKept, SendsNothing
    <2>3. QED
        BY <2>1, <2>2 DEF QueuedUnsent
<1>7. QED
    BY <1>1, <1>2, <1>3, <1>4, <1>5, <1>6 DEF SentOnce, StepUnsent

(* A step that neither sends nor admits.                                    *)
LEMMA RefKept ==
    ASSUME TypeInv, RefInv, UnknownKept, ControlKept, Shrinks,
           UNCHANGED <<ReferenceCount, SentTimestepList, WriterTimestep>>,
           UNCHANGED <<InProgressFlag, LastDemandTimestep>>,
           UNCHANGED <<Readers, ReaderRegisterQueue, StepRequestQueue>>,
           UNCHANGED peer,
           Providing' <=> Providing
    PROVE  RefInv'
<1>1. Admitted'
    BY AdmittedKept DEF RefInv, PeersKept
<1>2. SentOnce'
    BY SentOnceKept DEF RefInv, SendsNothing
<1>3. Counted'
    BY CountedKept DEF RefInv
<1>4. QED
    BY <1>1, <1>2, <1>3 DEF RefInv

(* net does not touch what main works on.                                   *)
LEMMA NetKeepsControl ==
    ASSUME TypeInv, RefInv,
           pc'["main"] = pc["main"], ret'["main"] = ret["main"],
           rdr'["main"] = rdr["main"], idx'["main"] = idx["main"]
    PROVE  ControlKept /\ (Providing' <=> Providing)
<1>1. \A at : MainAt(at)' <=> MainAt(at)
    BY DEF MainAt, InCall
<1>2. Providing' <=> Providing
    BY DEF Providing
<1>3. Unserved' <=> Unserved
    BY <1>1 DEF Unserved
<1>4. MainAt("queuedLoop") => rdr["main"] \in Cohorts /\ StepDistributionMode = "AllToAll"
    BY DEF RefInv, SentOnce, QueuedUnsent, TypeInv, Positioned, MainAt, Threads
<1>5. QED
    BY <1>1, <1>2, <1>3, <1>4 DEF ControlKept

(* A call that goes on or returns keeps main in the same loop.               *)
LEMMA CallKeepsControl ==
    ASSUME TypeInv, RefInv, NEW th \in Threads, InCall(th),
           pc'[th] \in (CallPcs \ {"closeLoop"}) \cup {ret[th]},
           UNCHANGED idx, ret'[th] = ret[th], rdr'[th] = rdr[th],
           \A o \in Threads \ {th} : pc'[o] = pc[o] /\ ret'[o] = ret[o] /\ rdr'[o] = rdr[o]
    PROVE  ControlKept /\ (Providing' <=> Providing)
<1>1. CASE th = "net"
    BY <1>1, NetKeepsControl DEF Threads
<1>2. CASE th = "main"
    <2>1. ret["main"] \in DerefRets
        BY <1>2 DEF TypeInv, ReturnOK, InCall, CallPcs, DerefRets, WriteRets, SendRets
    <2>2. \A l \in DerefRets \ {"closeLoop"} : MainAt(l)' <=> MainAt(l)
        BY <1>2, <2>1 DEF MainAt, InCall, CallPcs, DerefRets, WriteRets, SendRets
    <2>3. Providing' <=> Providing
        BY <1>2, <2>1 DEF Providing, InCall, CallPcs, DerefRets, WriteRets, SendRets
    <2>4. Unserved' <=> Unserved
        BY <1>2, <2>1, <2>2 DEF Unserved, InCall, CallPcs, DerefRets, WriteRets, SendRets
    <2>5. pc'["main"] # "awaitReader"
        BY <1>2, <2>1 DEF CallPcs, DerefRets, WriteRets, SendRets
    <2>6. MainAt("queuedLoop") => rdr["main"] \in Cohorts /\ StepDistributionMode = "AllToAll"
        BY <1>2 DEF RefInv, SentOnce, QueuedUnsent, TypeInv, Positioned, Threads
    <2>7. QED
        BY <1>2, <2>2, <2>3, <2>4, <2>5, <2>6 DEF ControlKept, DerefRets, WriteRets, SendRets
<1>3. QED
    BY <1>1, <1>2 DEF Threads

(* The close messages are sent outside of all that.                          *)
LEMMA CloseKeepsControl ==
    ASSUME TypeInv, RefInv, NEW th \in Threads, pc[th] = "closeLoop",
           \/ pc'[th] = "write" /\ ret'[th] = "closeLoop"
           \/ pc'[th] = "untag",
           \A o \in Threads \ {th} :
               pc'[o] = pc[o] /\ ret'[o] = ret[o] /\ rdr'[o] = rdr[o] /\ idx'[o] = idx[o]
    PROVE  ControlKept /\ (Providing' <=> Providing)
<1>1. CASE th = "net"
    BY <1>1, NetKeepsControl DEF Threads
<1>2. CASE th = "main"
    BY <1>2 DEF ControlKept, Providing, Unserved, MainAt, InCall, CallPcs
<1>3. QED
    BY <1>1, <1>2 DEF Threads

-----------------------------------------------------------------------------
(* The invariant is inductive: one lemma per group of actions                *)

(* A reader that a thread works on, or that is in the list, is not new.      *)
LEMMA KnownReaders ==
    ASSUME TypeInv, RefInv
    PROVE  /\ \A th \in Threads : InCall(th) => rdr[th] \in Cohorts /\ ~NewReader(rdr[th])
           /\ \A i \in 1 .. Len(Readers) : Readers[i] \in Cohorts /\ ~NewReader(Readers[i])
           /\ \A r \in Cohorts : ReaderStatus[r] # "NotOpen" => ~NewReader(r)
           /\ \A r \in Delayed : r \in Cohorts /\ ~NewReader(r)
<1>1. Unknown /\ Positioned /\ Readers \in Seq(Cohorts) /\ Delayed \subseteq Cohorts
    BY DEF TypeInv, TypeOK, StreamTypes, ReaderTypes, RefInv, Admitted
<1>2. \A i \in 1 .. Len(Readers) : Readers[i] \in Cohorts /\ InReaders(Readers[i])
    BY <1>1 DEF InReaders
<1>3. QED
    BY <1>1, <1>2 DEF Unknown, Positioned

(* The steps of the shared procedures.                                       *)
LEMMA SharedRefInv ==
    ASSUME TypeInv, RefInv, NEW th \in Threads, Shared(th)
    PROVE  RefInv'
<1> USE DEF Threads, MainPcs, NetPcs, CallPcs, SendRets, WriteRets, DerefRets,
            NetWriteRets, NetDerefRets, markVars, queueVars, openVars, stepVars, distVars,
            closeVars, streamVars, listVars, linkVars, readerVars, callVars, localVars,
            peerVars, dataVars, Goto, Lock, Unlock, NoLock
<1>0. ThreadTypes /\ ReturnOK /\ QueueTypes /\ ReaderTypes
    BY DEF TypeInv, TypeOK
<1>a. /\ InCall(th) => rdr[th] \in Cohorts /\ ~NewReader(rdr[th])
      /\ \A i \in 1 .. Len(Readers) : Readers[i] \in Cohorts /\ ~NewReader(Readers[i])
    BY KnownReaders
<1>1. CASE DerefAllSentTimesteps(th)
    <2> DEFINE todo == {t \in QueuedTimesteps \cap SentTimestepList[rdr[th]] : t <= cursor[th]}
    <2>1. PICK t \in SentTimestepList[rdr[th]] :
              /\ SubRefTimestep(t)
              /\ SentTimestepList' = [SentTimestepList EXCEPT ![rdr[th]] = @ \ {t}]
        <3>1. todo \in SUBSET Steps /\ todo # {}
            BY <1>0, <1>1 DEF DerefAllSentTimesteps, QueueTypes
        <3>2. Max(todo) \in SentTimestepList[rdr[th]]
            BY <3>1, MaxInSteps
        <3>3. QED
            BY <1>1, <3>2 DEF DerefAllSentTimesteps
    <2>2. rdr[th] \in Cohorts /\ ~NewReader(rdr[th])
        BY <1>1, <1>a DEF DerefAllSentTimesteps, InCall
    <2>3. ControlKept /\ (Providing' <=> Providing)
        BY <1>0, <1>1, CallKeepsControl DEF DerefAllSentTimesteps, ThreadTypes, InCall
    <2>4. SendsNothing
        BY <1>0, <1>1, <2>1, <2>2 DEF DerefAllSentTimesteps, SendsNothing, ReaderTypes
    <2>5. SentOnce'
        BY <1>1, <2>3, <2>4, SentOnceKept DEF DerefAllSentTimesteps, RefInv
    <2>6. Counted'
        BY <1>1, <2>1, <2>2, <2>3, CountedDropped DEF DerefAllSentTimesteps, RefInv
    <2>7. UnknownKept /\ PeersKept
        BY <1>0, <1>1, <2>1, <2>2 DEF DerefAllSentTimesteps, UnknownKept, PeersKept,
            ThreadTypes, ReaderTypes, InCall
    <2>8. Admitted'
        BY <1>1, <2>7, AdmittedKept DEF DerefAllSentTimesteps, RefInv
    <2>9. QED
        BY <2>5, <2>6, <2>8 DEF RefInv
<1>2. CASE DerefRelocked(th)
    <2>1. ControlKept /\ (Providing' <=> Providing)
        BY <1>0, <1>2, CallKeepsControl DEF DerefRelocked, ThreadTypes, InCall
    <2>2. UnknownKept
        BY <1>0, <1>2 DEF DerefRelocked, UnknownKept, ThreadTypes, InCall
    <2>3. QED
        BY <1>2, <2>1, <2>2, RefKept DEF DerefRelocked, Shrinks
<1>3. CASE PeerFailCloseFinish(th)
    <2>1. rdr[th] \in Cohorts /\ ~NewReader(rdr[th])
        BY <1>3, <1>a DEF PeerFailCloseFinish, InCall
    <2>2. ControlKept /\ (Providing' <=> Providing)
        BY <1>0, <1>3, CallKeepsControl DEF PeerFailCloseFinish, ThreadTypes, InCall
    <2>3. UnknownKept
        BY <1>0, <1>3, <2>1 DEF PeerFailCloseFinish, UnknownKept, ThreadTypes, InCall
    <2>4. Shrinks
        BY <1>0, <1>3, MaintenanceEffect DEF PeerFailCloseFinish, QueueTypes, Shrinks
    <2>5. QED
        BY <1>3, <2>2, <2>3, <2>4, RefKept DEF PeerFailCloseFinish
<1>4. CASE Registered(th)
    <2>1. ControlKept /\ (Providing' <=> Providing)
        BY <1>0, <1>4, CallKeepsControl DEF Registered, ThreadTypes, InCall
    <2>2. UnknownKept
        BY <1>0, <1>4 DEF Registered, UnknownKept, ThreadTypes, InCall
    <2>3. QED
        BY <1>4, <2>1, <2>2, RefKept DEF Registered, Shrinks
<1>5. ASSUME NEW ok \in BOOLEAN, CMwrite(th, ok)
      PROVE  RefInv'
    <2>1. ControlKept /\ (Providing' <=> Providing)
        BY <1>0, <1>5, CallKeepsControl DEF CMwrite, ThreadTypes, InCall
    <2>2. UnknownKept
        BY <1>0, <1>5 DEF CMwrite, UnknownKept, ThreadTypes, InCall
    <2>3. QED
        BY <1>5, <2>1, <2>2, RefKept DEF CMwrite, Shrinks
<1>6. CASE Written(th)
    <2>1. ControlKept /\ (Providing' <=> Providing)
        BY <1>0, <1>6, CallKeepsControl DEF Written, ThreadTypes, InCall
    <2>2. UnknownKept
        BY <1>0, <1>6 DEF Written, UnknownKept, ThreadTypes, InCall
    <2>3. QED
        BY <1>6, <2>1, <2>2, RefKept DEF Written, Shrinks
<1>7. CASE WriteFailed(th)
    <2>1. rdr[th] \in Cohorts /\ ~NewReader(rdr[th])
        BY <1>7, <1>a DEF WriteFailed, InCall
    <2>2. ret[th] \in MainPcs \cup NetPcs \cup CallPcs
        BY <1>0, <1>7 DEF WriteFailed, ReturnOK
    <2>3. PeerFailEffect(th, rdr[th], ret[th])
        BY <1>7, <2>1, <2>2, PeerFailCloseEffect DEF WriteFailed, TypeInv, Statuses
    <2>4. ControlKept /\ (Providing' <=> Providing)
        BY <1>0, <1>7, <2>3, CallKeepsControl DEF WriteFailed, PeerFailEffect, ThreadTypes,
            InCall
    <2>5. UnknownKept
        BY <1>0, <1>7, <2>1, <2>3 DEF WriteFailed, PeerFailEffect, UnknownKept, ThreadTypes,
            InCall
    <2>6. QED
        BY <1>7, <2>3, <2>4, <2>5, RefKept DEF WriteFailed, PeerFailEffect, Shrinks
<1>8. CASE SendCloseMsgs(th)
    <2>1. NextReader(th, SendableReaders) \in 1 .. Len(Readers)
        BY <1>0, <1>8, NextReaderIsReader
        DEF SendCloseMsgs, TypeInv, TypeOK, StreamTypes, ThreadTypes, Positioned, MainAt
    <2>2. PICK i \in 1 .. Len(Readers) : WriteToReader(th, i, "closeLoop")
        BY <1>8, <2>1 DEF SendCloseMsgs
    <2>3. Readers[i] \in Cohorts /\ ~NewReader(Readers[i]) /\ pc[th] = "closeLoop"
        BY <1>8, <1>a DEF SendCloseMsgs
    <2>4. ControlKept /\ (Providing' <=> Providing)
        BY <1>0, <2>2, <2>3, CloseKeepsControl DEF WriteToReader, ThreadTypes
    <2>5. UnknownKept
        BY <1>0, <2>2, <2>3 DEF WriteToReader, UnknownKept, ThreadTypes, InCall
    <2>6. QED
        BY <2>2, <2>4, <2>5, RefKept DEF WriteToReader, Shrinks
<1>9. CASE SendCloseMsgsDone(th)
    <2>1. ControlKept /\ (Providing' <=> Providing)
        <3>1. CASE th = "main"
            BY <1>0, <1>9, <3>1, CloseKeepsControl DEF SendCloseMsgsDone, ThreadTypes
        <3>2. CASE th = "net"
            BY <1>0, <1>9, <3>2, NetKeepsControl DEF SendCloseMsgsDone, ThreadTypes
        <3>3. QED
            BY <3>1, <3>2
    <2>2. UnknownKept
        BY <1>0, <1>9 DEF SendCloseMsgsDone, UnknownKept, ThreadTypes, InCall
    <2>3. QED
        BY <1>9, <2>1, <2>2, RefKept DEF SendCloseMsgsDone, Shrinks
<1>10. QED
    BY <1>1, <1>2, <1>3, <1>4, <1>5, <1>6, <1>7, <1>8, <1>9 DEF Shared

(* The steps of main that send nothing and admit no one.                     *)
QuietMain ==
    \/ SstWriterOpenRendezvous
    \/ waitForReaderResponse
    \/ StrayUnlock
    \/ SendQueuedDone
    \/ DecideTimestep
    \/ BlockedOnQueueFull
    \/ ProcessReaderStatusListBegin
    \/ ProcessReaderStatusList
    \/ ProcessReaderStatusListDone
    \/ DeliverBegin
    \/ SendDiscarded
    \/ HandlePendingReaders
    \/ UntagPreciousTimesteps
    \/ SstWriterClose

(* They keep the invariant: nothing is counted, sent or admitted.            *)
LEMMA QuietMainRefInv ==
    ASSUME TypeInv, RefInv, QuietMain
    PROVE  RefInv'
<1> USE DEF Threads, CallPcs, markVars, queueVars, openVars, stepVars, distVars,
            closeVars, streamVars, listVars, linkVars, readerVars, callVars, localVars,
            peerVars, dataVars, Goto, Lock, Unlock, NoLock
<1>0. ThreadTypes /\ ReturnOK /\ QueueTypes /\ ReaderTypes /\ Positioned
    BY DEF TypeInv, TypeOK
<1>a. \A i \in 1 .. Len(Readers) : Readers[i] \in Cohorts /\ ~NewReader(Readers[i])
    BY KnownReaders
<1>1. CASE SstWriterOpenRendezvous
    <2>1. ControlKept /\ (Providing' <=> Providing)
        BY <1>0, <1>1 DEF SstWriterOpenRendezvous, ThreadTypes, ControlKept, Unserved,
            MainAt, InCall, Providing
    <2>2. UnknownKept
        BY <1>0, <1>1 DEF SstWriterOpenRendezvous, UnknownKept, ThreadTypes, InCall
    <2>3. QED
        BY <1>1, <2>1, <2>2, RefKept DEF SstWriterOpenRendezvous, Shrinks
<1>2. CASE waitForReaderResponse
    <2>1. ControlKept /\ (Providing' <=> Providing)
        BY <1>0, <1>2 DEF waitForReaderResponse, ReaderAdmitted, ThreadTypes, Positioned,
            ControlKept, Unserved, MainAt, InCall, Providing
    <2>2. UnknownKept
        BY <1>0, <1>2 DEF waitForReaderResponse, ReaderAdmitted, UnknownKept, ThreadTypes,
            InCall
    <2>3. QED
        BY <1>2, <2>1, <2>2, RefKept DEF waitForReaderResponse, Shrinks
<1>3. CASE StrayUnlock \/ SendQueuedDone
    <2>1. ControlKept /\ (Providing' <=> Providing)
        BY <1>0, <1>3 DEF StrayUnlock, SendQueuedDone, ReaderAdmitted, ThreadTypes,
            ControlKept, Unserved, MainAt, InCall, Providing
    <2>2. UnknownKept
        BY <1>0, <1>3 DEF StrayUnlock, SendQueuedDone, ReaderAdmitted, UnknownKept,
            ThreadTypes, InCall
    <2>3. QED
        BY <1>3, <2>1, <2>2, RefKept DEF StrayUnlock, SendQueuedDone, Shrinks
<1>4. CASE DecideTimestep \/ BlockedOnQueueFull
    <2>1. ControlKept /\ (Providing' <=> Providing)
        BY <1>0, <1>4 DEF DecideTimestep, BlockedOnQueueFull, TakeSnapshot, ThreadTypes,
            ControlKept, Unserved, MainAt, InCall, Providing
    <2>2. UnknownKept
        BY <1>0, <1>4 DEF DecideTimestep, BlockedOnQueueFull, TakeSnapshot, UnknownKept,
            ThreadTypes, InCall
    <2>3. Shrinks
        BY <1>0, <1>4, MaintenanceEffect DEF DecideTimestep, BlockedOnQueueFull, QueueTypes,
            Shrinks
    <2>4. QED
        BY <1>4, <2>1, <2>2, <2>3, RefKept DEF DecideTimestep, BlockedOnQueueFull
<1>5. CASE ProcessReaderStatusListBegin \/ ProcessReaderStatusListDone
    <2>1. ControlKept /\ (Providing' <=> Providing)
        BY <1>0, <1>5 DEF ProcessReaderStatusListBegin, ProcessReaderStatusListDone,
            ThreadTypes, ControlKept, Unserved, MainAt, InCall, Providing
    <2>2. UnknownKept
        BY <1>0, <1>5 DEF ProcessReaderStatusListBegin, ProcessReaderStatusListDone,
            UnknownKept, ThreadTypes, InCall
    <2>3. QED
        BY <1>5, <2>1, <2>2, RefKept DEF ProcessReaderStatusListBegin,
            ProcessReaderStatusListDone, Shrinks
<1>6. CASE ProcessReaderStatusList
    <2> DEFINE r == Readers[NextReader("main", StatusDiffers)]
    <2>1. r \in Cohorts /\ ~NewReader(r)
        BY <1>0, <1>6, <1>a, NextReaderIsReader
        DEF ProcessReaderStatusList, TypeInv, TypeOK, StreamTypes, ThreadTypes, Positioned, MainAt
    <2>2. snapshot[r] \in Statuses
        BY <1>0, <2>1 DEF ThreadTypes
    <2>3. PeerFailEffect("main", r, "statusLoop")
        BY <1>6, <2>1, <2>2, PeerFailCloseEffect DEF ProcessReaderStatusList, TypeInv, MainPcs
    <2>4. ControlKept /\ (Providing' <=> Providing)
        BY <1>0, <1>6, <2>3 DEF ProcessReaderStatusList, PeerFailEffect, ThreadTypes,
            ControlKept, Unserved, MainAt, InCall, Providing
    <2>5. UnknownKept
        BY <1>0, <1>6, <2>1, <2>3 DEF ProcessReaderStatusList, PeerFailEffect, UnknownKept,
            ThreadTypes, InCall
    <2>6. QED
        BY <1>6, <2>3, <2>4, <2>5, RefKept DEF ProcessReaderStatusList, PeerFailEffect, Shrinks
<1>7. CASE DeliverBegin
    <2>1. ControlKept /\ (Providing' <=> Providing)
        BY <1>0, <1>7 DEF DeliverBegin, ThreadTypes, ControlKept, Unserved, MainAt, InCall,
            Providing
    <2>2. UnknownKept
        BY <1>0, <1>7 DEF DeliverBegin, UnknownKept, ThreadTypes, InCall
    <2>3. QED
        BY <1>7, <2>1, <2>2, RefKept DEF DeliverBegin, Shrinks
<1>8. CASE SendDiscarded
    <2>1. NextReader("main", SendableReaders) \in 1 .. Len(Readers)
        BY <1>0, <1>8, NextReaderIsReader
        DEF SendDiscarded, TypeInv, TypeOK, StreamTypes, ThreadTypes, Positioned, MainAt
    <2>2. PICK i \in 1 .. Len(Readers) : WriteToReader("main", i, "discardLoop")
        BY <1>8, <2>1 DEF SendDiscarded
    <2>3. Readers[i] \in Cohorts /\ ~NewReader(Readers[i]) /\ pc["main"] = "discardLoop"
        BY <1>8, <1>a DEF SendDiscarded
    <2>4. ControlKept /\ (Providing' <=> Providing)
        BY <1>0, <2>2, <2>3 DEF WriteToReader, ThreadTypes, ControlKept, Unserved, MainAt,
            InCall, Providing
    <2>5. UnknownKept
        BY <1>0, <2>2, <2>3 DEF WriteToReader, UnknownKept, ThreadTypes, InCall
    <2>6. QED
        BY <2>2, <2>4, <2>5, RefKept DEF WriteToReader, Shrinks
<1>9. CASE HandlePendingReaders \/ SstWriterClose
    <2>1. ControlKept /\ (Providing' <=> Providing)
        BY <1>0, <1>9 DEF HandlePendingReaders, SstWriterClose, ThreadTypes, ControlKept,
            Unserved, MainAt, InCall, Providing
    <2>2. UnknownKept
        BY <1>0, <1>9 DEF HandlePendingReaders, SstWriterClose, UnknownKept, ThreadTypes, InCall
    <2>3. QED
        BY <1>9, <2>1, <2>2, RefKept DEF HandlePendingReaders, SstWriterClose, Shrinks
<1>10. CASE UntagPreciousTimesteps
    <2>1. ControlKept /\ (Providing' <=> Providing)
        BY <1>0, <1>10 DEF UntagPreciousTimesteps, ThreadTypes, ControlKept, Unserved,
            MainAt, InCall, Providing
    <2>2. UnknownKept
        BY <1>0, <1>10 DEF UntagPreciousTimesteps, UnknownKept, ThreadTypes, InCall
    <2>3. Shrinks
        BY <1>0, <1>10, MaintenanceEffect DEF UntagPreciousTimesteps, QueueTypes, Shrinks
    <2>4. QED
        BY <1>10, <2>1, <2>2, <2>3, RefKept DEF UntagPreciousTimesteps
<1>11. QED
    BY <1>1, <1>2, <1>3, <1>4, <1>5, <1>6, <1>7, <1>8, <1>9, <1>10 DEF QuietMain

(* What a send changes of the sent lists concerns an admitted reader only.   *)
LEMMA AdmittedSent ==
    ASSUME TypeInv, RefInv, NEW th \in Threads, NEW r \in Cohorts, IsEstablished(r),
           NEW t \in Steps, NEW back, SendTimestepEntryToSingleReader(th, r, t, back)
    PROVE  Admitted'
<1> USE DEF localVars, linkVars, SendTimestepEntryToSingleReader
<1>0. ThreadTypes /\ ReaderTypes
    BY DEF TypeInv, TypeOK
<1>1. ~NewReader(r)
    BY KnownReaders DEF IsEstablished
<1>2. UnknownKept
    BY <1>0, <1>1 DEF UnknownKept, ThreadTypes, ReaderTypes, InCall, Goto
<1>3. QED
    BY <1>2, AdmittedKept DEF RefInv, PeersKept

(* A new reader is sent the next of the queued steps.                        *)
LEMMA SendQueuedRefInv ==
    ASSUME TypeInv, RefInv, SendQueued
    PROVE  RefInv'
<1> DEFINE r == rdr["main"]
           t == Min(QueuedForReader(r))
<1>0. ThreadTypes /\ ReaderTypes /\ QueueTypes /\ Positioned
    BY DEF TypeInv, TypeOK
<1>1. r \in Cohorts /\ idx["main"] \in Int /\ StepDistributionMode = "AllToAll"
      /\ \A u \in SentTimestepList[r] : u < idx["main"]
    BY <1>0 DEF SendQueued, Positioned, ThreadTypes, Threads, RefInv, SentOnce, QueuedUnsent,
        MainAt
<1>2. t \in QueuedForReader(r)
    <2>1. QueuedForReader(r) # {}
        BY DEF SendQueued
    <2>2. QueuedForReader(r) \in SUBSET Steps
        BY <1>0 DEF QueuedForReader, QueueTypes
    <2>3. QED
        BY <2>1, <2>2, MinInSet DEF Steps
<1>3. t \in QueuedTimesteps /\ IsEstablished(r) /\ idx["main"] <= t /\ t \in Steps /\ t \in Int
    <2>1. t \in QueuedTimesteps /\ IsEstablished(r) /\ idx["main"] <= t
        BY <1>2 DEF QueuedForReader, IsEstablished
    <2>2. t \in Steps
        BY <1>0, <2>1 DEF QueueTypes
    <2>3. \A u \in Steps : u \in Int
        BY DEF Steps
    <2>4. QED
        BY <2>1, <2>2, <2>3
<1>4. SendTimestepEntryToSingleReader("main", r, t, "queuedLoop")
      /\ idx' = [idx EXCEPT !["main"] = t + 1] /\ UNCHANGED <<distVars, StepRequestQueue>>
      /\ pc["main"] = "queuedLoop"
    BY DEF SendQueued
<1>5. Admitted'
    BY <1>1, <1>3, <1>4, AdmittedSent DEF Threads
<1>6. pc'["main"] = "register" /\ ret'["main"] = "queuedLoop" /\ rdr'["main"] = r
      /\ idx'["main"] = t + 1
    BY <1>0, <1>4 DEF SendTimestepEntryToSingleReader, Goto, ThreadTypes, Threads
<1>7. ~Providing /\ ~Providing' /\ ~Unserved' /\ ~MainAt("sendLoop")'
    BY <1>4, <1>6 DEF Providing, Unserved, MainAt, InCall, CallPcs
<1>8. t \notin SentTimestepList[r]
    BY <1>1, <1>3 DEF Steps
<1>9. Counted'
    BY <1>1, <1>3, <1>4, <1>7, <1>8, CountedSent DEF SendTimestepEntryToSingleReader, RefInv,
        stepVars
<1>10. SentTimestepList'[r] = SentTimestepList[r] \cup {t}
    BY <1>0, <1>1, <1>4 DEF SendTimestepEntryToSingleReader, ReaderTypes
<1>11. StepUnsent' /\ DemandUnsent'
    BY <1>1, <1>4, <1>7 DEF StepUnsent, DemandUnsent, RefInv, SentOnce
<1>12. QueuedUnsent'
    <2>1. \A u \in SentTimestepList'[r] : u < t + 1
        BY <1>0, <1>1, <1>3, <1>10 DEF ReaderTypes, Steps
    <2>2. QED
        BY <1>1, <1>6, <2>1 DEF QueuedUnsent
<1>13. QED
    BY <1>5, <1>9, <1>11, <1>12 DEF RefInv, SentOnce

(* What the three ways of distributing a step have in common.                *)
LEMMA ProvidedStepSent ==
    ASSUME TypeInv, RefInv, pc["main"] = "sendLoop", NEW r \in Cohorts, IsEstablished(r),
           WriterTimestep \notin SentTimestepList[r],
           SendTimestepEntryToSingleReader("main", r, step["main"], "sendLoop")
    PROVE  /\ Admitted' /\ Counted'
           /\ SentTimestepList' = [SentTimestepList EXCEPT ![r] = @ \cup {WriterTimestep}]
           /\ WriterTimestep' = WriterTimestep /\ InProgressFlag' = InProgressFlag
           /\ Readers' = Readers
           /\ Providing /\ ~Unserved' /\ MainAt("sendLoop")' /\ ~MainAt("queuedLoop")'
           /\ pc'["main"] # "awaitReader"
<1>1. Providing /\ MainAt("sendLoop")
    BY DEF Providing, MainAt
<1>2. step["main"] = WriterTimestep /\ WriterTimestep \in Steps
      /\ WriterTimestep \in QueuedTimesteps
    BY <1>1 DEF TypeInv, Serving, RefInv, Counted, ProvidedEntryKept
<1>3. Admitted'
    BY <1>2, AdmittedSent DEF Threads
<1>4. pc'["main"] = "register" /\ ret'["main"] = "sendLoop"
    BY DEF SendTimestepEntryToSingleReader, Goto, TypeInv, TypeOK, ThreadTypes, Threads
<1>5. Providing' /\ ~Unserved' /\ MainAt("sendLoop")' /\ ~MainAt("queuedLoop")'
    BY <1>4 DEF Providing, Unserved, MainAt, InCall, CallPcs
<1>6. Counted'
    BY <1>1, <1>2, <1>5, CountedSent DEF SendTimestepEntryToSingleReader, RefInv, stepVars
<1>7. QED
    BY <1>1, <1>2, <1>3, <1>4, <1>5, <1>6 DEF SendTimestepEntryToSingleReader, stepVars, markVars

(* AllToAll: the readers further down the list do not have the step yet.     *)
LEMMA SendToAllRefInv ==
    ASSUME TypeInv, RefInv, SendToAll
    PROVE  RefInv'
<1> DEFINE i == NextReader("main", EstablishedReaders)
<1>0. ThreadTypes /\ ReaderTypes /\ Readers \in Seq(Cohorts) /\ idx["main"] \in Int
      /\ idx["main"] >= 1
    BY DEF TypeInv, TypeOK, StreamTypes, ThreadTypes, Positioned, MainAt, SendToAll, Threads
<1>1. i \in idx["main"] .. Len(Readers) /\ Readers[i] \in EstablishedReaders
    BY <1>0, NextReaderIsReader DEF SendToAll, Threads
<1>2. i \in 1 .. Len(Readers) /\ Readers[i] \in Cohorts /\ IsEstablished(Readers[i])
      /\ i >= idx["main"]
    BY <1>0, <1>1 DEF EstablishedReaders
<1>3. pc["main"] = "sendLoop" /\ StepDistributionMode = "AllToAll"
      /\ SendTimestepEntryToSingleReader("main", Readers[i], step["main"], "sendLoop")
      /\ idx'["main"] = i + 1 /\ UNCHANGED <<distVars, StepRequestQueue>>
    BY <1>0 DEF SendToAll, ThreadTypes, Threads
<1>4. \A j \in 1 .. Len(Readers) :
          j >= idx["main"] => WriterTimestep \notin SentTimestepList[Readers[j]]
    BY <1>3 DEF RefInv, SentOnce, StepUnsent, MainAt
<1>5. /\ Admitted' /\ Counted'
      /\ SentTimestepList' = [SentTimestepList EXCEPT ![Readers[i]] = @ \cup {WriterTimestep}]
      /\ WriterTimestep' = WriterTimestep /\ InProgressFlag' = InProgressFlag
      /\ Readers' = Readers
      /\ Providing /\ ~Unserved' /\ MainAt("sendLoop")' /\ ~MainAt("queuedLoop")'
      /\ pc'["main"] # "awaitReader"
    BY <1>2, <1>3, <1>4, ProvidedStepSent
<1>6. \A j \in 1 .. Len(Readers) :
          j >= i + 1 => WriterTimestep \notin SentTimestepList'[Readers[j]]
    <2> TAKE j \in 1 .. Len(Readers)
    <2>1. HAVE j >= i + 1
    <2>2. Readers[j] # Readers[i] /\ Readers[j] \in Cohorts
        BY <1>0, <1>2, <2>1 DEF RefInv, Admitted, ListedOnce
    <2>3. QED
        BY <1>0, <1>2, <1>4, <1>5, <2>1, <2>2 DEF ReaderTypes
<1>7. StepUnsent'
    BY <1>3, <1>5, <1>6 DEF StepUnsent, RefInv, SentOnce
<1>8. DemandUnsent' /\ QueuedUnsent'
    BY <1>3, <1>5 DEF DemandUnsent, QueuedUnsent, RefInv, SentOnce
<1>9. QED
    BY <1>5, <1>7, <1>8 DEF RefInv, SentOnce

(* RoundRobin: one send per step, to the reader whose turn it is.            *)
LEMMA SendRoundRobinRefInv ==
    ASSUME TypeInv, RefInv, SendRoundRobin
    PROVE  RefInv'
<1> DEFINE r == Readers[NextInTurn + 1]
<1>0. ThreadTypes /\ ReaderTypes /\ Readers \in Seq(Cohorts) /\ NextRRDistribution \in Nat
    BY DEF TypeInv, TypeOK, StreamTypes
<1>1. r \in Cohorts
    <2>1. Len(Readers) \in Nat \ {0}
        BY <1>0 DEF SendRoundRobin, RoundRobinDue
    <2>2. NextInTurn + 1 \in 1 .. Len(Readers)
        BY <1>0, <2>1 DEF NextInTurn
    <2>3. QED
        BY <1>0, <2>2
<1>2. pc["main"] = "sendLoop" /\ StepDistributionMode = "RoundRobin" /\ idx["main"] = 1
      /\ idx'["main"] = 2
    BY <1>0 DEF SendRoundRobin, RoundRobinDue, ThreadTypes, Threads
<1>3. WriterTimestep \notin SentTimestepList[r]
    BY <1>1, <1>2 DEF RefInv, SentOnce, StepUnsent, MainAt
<1>4. CASE IsEstablished(r)
    <2>1. SendTimestepEntryToSingleReader("main", r, step["main"], "sendLoop")
          /\ UNCHANGED <<LastDemandTimestep, StepRequestQueue>>
        BY <1>4 DEF SendRoundRobin
    <2>2. /\ Admitted' /\ Counted'
          /\ WriterTimestep' = WriterTimestep /\ InProgressFlag' = InProgressFlag
          /\ Providing /\ ~Unserved' /\ ~MainAt("queuedLoop")' /\ pc'["main"] # "awaitReader"
        BY <1>1, <1>2, <1>3, <1>4, <2>1, ProvidedStepSent
    <2>3. StepUnsent' /\ DemandUnsent' /\ QueuedUnsent'
        BY <1>2, <2>1, <2>2 DEF StepUnsent, DemandUnsent, QueuedUnsent, RefInv, SentOnce
    <2>4. QED
        BY <2>2, <2>3 DEF RefInv, SentOnce
<1>5. CASE ~IsEstablished(r)
    <2>1. UNCHANGED <<queueVars, openVars, stepVars, listVars, readerVars, pc, callVars,
                      localVars, peerVars, LastDemandTimestep>>
        BY <1>5 DEF SendRoundRobin
    <2>2. UnknownKept /\ PeersKept
        BY <2>1 DEF UnknownKept, PeersKept, readerVars, linkVars, localVars, peerVars, callVars,
            InCall
    <2>3. Admitted'
        BY <2>1, <2>2, AdmittedKept DEF RefInv, listVars
    <2>4. Providing' <=> Providing
        BY <2>1 DEF Providing, callVars
    <2>5. Counted'
        BY <2>1, <2>4, CountedKept DEF RefInv, Shrinks, queueVars, readerVars, stepVars
    <2>6. StepUnsent' /\ DemandUnsent' /\ QueuedUnsent'
        BY <1>2, <2>1, <2>4 DEF StepUnsent, DemandUnsent, QueuedUnsent, RefInv, SentOnce,
            Unserved, MainAt, InCall, queueVars, markVars, stepVars, listVars, readerVars,
            callVars
    <2>7. QED
        BY <2>3, <2>5, <2>6 DEF RefInv, SentOnce
<1>6. QED
    BY <1>4, <1>5

(* OnDemand: one send per step, to the reader that asked first.              *)
LEMMA SendOnDemandRefInv ==
    ASSUME TypeInv, RefInv, SendOnDemand
    PROVE  RefInv'
<1> DEFINE r == Head(StepRequestQueue)
<1>0. ThreadTypes /\ ReaderTypes /\ StepRequestQueue \in Seq(Cohorts)
      /\ WriterTimestep \in Steps \cup {-1} /\ QueuedTimesteps \subseteq Steps
    BY DEF TypeInv, TypeOK, StreamTypes, QueueTypes
<1>1. r \in Cohorts
    BY <1>0 DEF SendOnDemand, RequestDue
<1>2. pc["main"] = "sendLoop" /\ StepDistributionMode = "OnDemand" /\ idx["main"] = 1
    BY DEF SendOnDemand, RequestDue, RefInv, SentOnce, DemandUnsent
<1>3. \A s \in Cohorts : WriterTimestep \notin SentTimestepList[s]
    BY <1>2 DEF RefInv, SentOnce, StepUnsent, MainAt
<1>4. CASE IsEstablished(r)
    <2>1. SendTimestepEntryToSingleReader("main", r, step["main"], "sendLoop")
          /\ LastDemandTimestep' = step["main"] /\ idx'["main"] = 3
        BY <1>0, <1>4 DEF SendOnDemand, ThreadTypes, Threads
    <2>2. /\ Admitted' /\ Counted'
          /\ SentTimestepList' = [SentTimestepList EXCEPT ![r] = @ \cup {WriterTimestep}]
          /\ WriterTimestep' = WriterTimestep /\ InProgressFlag' = InProgressFlag
          /\ Providing /\ ~Unserved' /\ ~MainAt("queuedLoop")' /\ pc'["main"] # "awaitReader"
        BY <1>1, <1>2, <1>3, <1>4, <2>1, ProvidedStepSent
    <2>3. StepUnsent' /\ QueuedUnsent'
        BY <1>2, <2>1, <2>2 DEF StepUnsent, QueuedUnsent, RefInv, SentOnce
    <2>4. LastDemandTimestep' = WriterTimestep
        BY <1>2, <2>1 DEF TypeInv, Serving, MainAt
    <2>5. \A s \in Cohorts : \A t \in SentTimestepList'[s] : t <= WriterTimestep
        <3>1. \A s \in Cohorts : SentTimestepList'[s] \subseteq QueuedTimesteps'
            BY <2>2 DEF Counted, SentStepsRetained
        <3>2. \A t \in QueuedTimesteps' : t <= WriterTimestep'
            BY <2>2 DEF Counted, QueueInOrder
        <3>3. QED
            BY <2>2, <3>1, <3>2
    <2>6. DemandUnsent'
        BY <1>2, <2>4, <2>5 DEF DemandUnsent
    <2>7. QED
        BY <2>2, <2>3, <2>6 DEF RefInv, SentOnce
<1>5. CASE ~IsEstablished(r)
    <2>1. UNCHANGED <<queueVars, streamVars, Readers, ReaderRegisterQueue, readerVars, pc,
                      callVars, idx, localVars, peerVars>>
        BY <1>5 DEF SendOnDemand
    <2>2. UnknownKept /\ PeersKept
        BY <2>1 DEF UnknownKept, PeersKept, readerVars, linkVars, localVars, peerVars, callVars,
            InCall
    <2>3. Admitted'
        BY <2>1, <2>2, AdmittedKept DEF RefInv
    <2>4. ControlKept /\ (Providing' <=> Providing)
        BY <2>1, NetKeepsControl DEF callVars
    <2>5. Counted'
        BY <2>1, <2>4, CountedKept DEF RefInv, Shrinks, queueVars, readerVars, streamVars, stepVars
    <2>6. SendsNothing
        BY <1>2, <2>1 DEF SendsNothing, readerVars
    <2>7. SentOnce'
        BY <2>1, <2>4, <2>6, SentOnceKept DEF RefInv, queueVars, markVars, streamVars, stepVars,
            distVars
    <2>8. QED
        BY <2>3, <2>5, <2>7 DEF RefInv
<1>6. QED
    BY <1>4, <1>5

(* A new entry: no reader has it, and the one reference is the provider's.   *)
LEMMA ProvideTimestepRefInv ==
    ASSUME TypeInv, RefInv, ProvideTimestep
    PROVE  RefInv'
<1> USE DEF Threads, markVars, queueVars, openVars, distVars, closeVars, listVars, linkVars,
            readerVars, callVars, localVars, peerVars, Goto
<1>0. ThreadTypes /\ ReaderTypes /\ QueuedTimesteps \subseteq Steps
      /\ ReferenceCount \in [Steps -> Int] /\ WriterTimestep \in Steps \cup {-1}
    BY DEF TypeInv, TypeOK, StreamTypes, QueueTypes
<1>n. PICK n \in Steps : n = WriterTimestep + 1
    BY <1>0, ConstantsAssumption DEF ProvideTimestep, Steps
<1>1. \A t \in QueuedTimesteps : t # n /\ t <= n
    BY <1>0, <1>n, ConstantsAssumption DEF Steps, RefInv, Counted, QueueInOrder
<1>2. \A r \in Cohorts : n \notin SentTimestepList[r]
    BY <1>1 DEF RefInv, Counted, SentStepsRetained
<1>3. ~Providing /\ Providing' /\ Unserved' /\ ~MainAt("sendLoop")' /\ ~MainAt("queuedLoop")'
      /\ pc'["main"] = "decide"
    BY <1>0 DEF ProvideTimestep, Providing, Unserved, MainAt, InCall, CallPcs, ThreadTypes
<1>4. UnknownKept /\ PeersKept
    BY <1>0 DEF ProvideTimestep, UnknownKept, PeersKept, InCall, CallPcs, ThreadTypes
<1>5. Admitted'
    BY <1>4, AdmittedKept DEF ProvideTimestep, RefInv
<1>6. StepUnsent'
    BY <1>n, <1>2, <1>3 DEF ProvideTimestep, StepUnsent
<1>7. DemandUnsent' /\ QueuedUnsent'
    BY <1>3 DEF ProvideTimestep, DemandUnsent, QueuedUnsent, RefInv, SentOnce
<1>8. QueueInOrder' /\ SentStepsRetained' /\ ProvidedEntryKept'
    BY <1>0, <1>n, <1>1 DEF ProvideTimestep, QueueInOrder, SentStepsRetained,
        ProvidedEntryKept, RefInv, Counted, Steps
<1>9. ReferencesCounted'
    <2>1. \A t \in QueuedTimesteps :
              ReferenceCount'[t] = Cardinality(Holders(t)') + ProviderReference(t)'
        <3> TAKE t \in QueuedTimesteps
        <3>1. Holders(t)' = Holders(t)
            BY DEF ProvideTimestep, Holders
        <3>2. ProviderReference(t)' = 0 /\ ProviderReference(t) = 0
            BY <1>n, <1>1, <1>3 DEF ProvideTimestep, ProviderReference
        <3>3. ReferenceCount'[t] = ReferenceCount[t]
            BY <1>0, <1>n, <1>1 DEF ProvideTimestep
        <3>4. QED
            BY <3>1, <3>2, <3>3 DEF RefInv, Counted, ReferencesCounted
    <2>2. ReferenceCount'[n] = Cardinality(Holders(n)') + ProviderReference(n)'
        <3>1. Holders(n)' = {}
            BY <1>2 DEF ProvideTimestep, Holders
        <3>2. ProviderReference(n)' = 1
            BY <1>n, <1>3 DEF ProvideTimestep, ProviderReference
        <3>3. ReferenceCount'[n] = 1
            BY <1>0, <1>n DEF ProvideTimestep, EntryInitialReferences
        <3>4. QED
            BY <3>1, <3>2, <3>3, FS_EmptySet
    <2>3. QueuedTimesteps' = QueuedTimesteps \cup {n}
        BY <1>n DEF ProvideTimestep
    <2>4. QED
        BY <2>1, <2>2, <2>3 DEF ReferencesCounted
<1>10. QED
    BY <1>5, <1>6, <1>7, <1>8, <1>9 DEF RefInv, SentOnce, Counted

(* The provider is done with the step, sent or discarded.                    *)
LEMMA ProvidedRefInv ==
    ASSUME TypeInv, RefInv, ProvideTimestepSent \/ ProvideTimestepDiscarded
    PROVE  RefInv'
<1> USE DEF Threads, markVars, streamVars, openVars, stepVars, distVars, closeVars, listVars,
            linkVars, readerVars, callVars, localVars, peerVars, Goto
<1>0. ThreadTypes /\ ReaderTypes /\ QueueTypes
    BY DEF TypeInv, TypeOK
<1>1. Providing /\ ~Providing' /\ ~Unserved' /\ ~MainAt("sendLoop")' /\ ~MainAt("queuedLoop")'
      /\ pc'["main"] = "pending"
    BY <1>0 DEF ProvideTimestepSent, ProvideTimestepDiscarded, Providing, Unserved, MainAt, InCall,
        CallPcs, ThreadTypes
<1>2. step["main"] = WriterTimestep /\ WriterTimestep \in Steps
      /\ WriterTimestep \in QueuedTimesteps
    BY <1>1 DEF ProvideTimestepSent, ProvideTimestepDiscarded, MainAt, TypeInv, Serving, RefInv,
        Counted, ProvidedEntryKept
<1>3. Shrinks
    BY <1>0, <1>2, MaintenanceEffect DEF ProvideTimestepSent, ProvideTimestepDiscarded, QueueTypes,
        Shrinks
<1>4. ReferenceCount[WriterTimestep] = Cardinality(Holders(WriterTimestep)) + 1
      /\ Cardinality(Holders(WriterTimestep)) \in Nat
    <2>1. ProviderReference(WriterTimestep) = 1
        BY <1>1 DEF ProviderReference
    <2>2. QED
        BY <1>2, <2>1, HoldersFinite DEF RefInv, Counted, ReferencesCounted
<1>5. ReferenceCount' = [ReferenceCount EXCEPT
                            ![WriterTimestep] = Cardinality(Holders(WriterTimestep))]
    <2>1. CASE ProvideTimestepSent
        <3>1. ReferenceCount[WriterTimestep] - 1 = Cardinality(Holders(WriterTimestep))
            BY <1>4
        <3>2. ReferenceCount' = [ReferenceCount EXCEPT
                                    ![WriterTimestep] = ReferenceCount[WriterTimestep] - 1]
            BY <1>2, <2>1 DEF ProvideTimestepSent, SubRefTimestep
        <3>3. QED
            BY <3>1, <3>2
    <2>2. CASE ProvideTimestepDiscarded
        <3>1. Holders(WriterTimestep) = {}
            BY <2>2 DEF ProvideTimestepDiscarded, RefInv, SentOnce, StepUnsent, Unserved, MainAt,
                Holders
        <3>2. QED
            BY <1>2, <2>2, <3>1, FS_EmptySet DEF ProvideTimestepDiscarded
    <2>3. QED
        BY <2>1, <2>2
<1>6. UNCHANGED <<SentTimestepList, WriterTimestep, LastDemandTimestep>>
      /\ UNCHANGED <<Readers, ReaderRegisterQueue, StepRequestQueue, peer>>
    BY DEF ProvideTimestepSent, ProvideTimestepDiscarded
<1>7. Counted'
    BY <1>1, <1>3, <1>5, <1>6, CountedProvided DEF RefInv
<1>8. UnknownKept /\ PeersKept
    BY <1>0 DEF ProvideTimestepSent, ProvideTimestepDiscarded, UnknownKept, PeersKept, InCall,
        CallPcs, ThreadTypes
<1>9. Admitted'
    BY <1>6, <1>8, AdmittedKept DEF RefInv
<1>10. ControlKept /\ SendsNothing
    BY <1>1, <1>6 DEF ControlKept, SendsNothing
<1>11. SentOnce'
    BY <1>1, <1>6, <1>10, SentOnceKept DEF RefInv
<1>12. QED
    BY <1>7, <1>9, <1>11 DEF RefInv

(* A reader leaves the registration queue and enters the list of readers.    *)
LEMMA WriterParticipateRefInv ==
    ASSUME TypeInv, RefInv, WriterParticipateInReaderOpen
    PROVE  RefInv'
<1> DEFINE r == Head(ReaderRegisterQueue)
<1> USE DEF Threads, markVars, queueVars, streamVars, openVars, stepVars, distVars, closeVars,
            localVars, peerVars, Goto
<1>0. ThreadTypes /\ ReaderTypes /\ Readers \in Seq(Cohorts)
      /\ ReaderRegisterQueue \in Seq(Cohorts)
    BY DEF TypeInv, TypeOK, StreamTypes
<1>1. ReaderRegisterQueue # <<>>
    BY DEF TypeInv, Admissions, WriterParticipateInReaderOpen
<1>2. Len(ReaderRegisterQueue) \in Nat \ {0}
    BY <1>0, <1>1
<1>3. /\ r = ReaderRegisterQueue[1] /\ r \in Cohorts
      /\ Len(ReaderRegisterQueue') = Len(ReaderRegisterQueue) - 1
      /\ \A i \in 1 .. Len(ReaderRegisterQueue') :
            /\ i + 1 \in 1 .. Len(ReaderRegisterQueue)
            /\ ReaderRegisterQueue'[i] = ReaderRegisterQueue[i + 1]
    BY <1>0, <1>1, <1>2 DEF WriterParticipateInReaderOpen
<1>4. InQueue(r)
    BY <1>2, <1>3 DEF InQueue
<1>5. /\ Len(Readers') = Len(Readers) + 1 /\ Readers'[Len(Readers) + 1] = r
      /\ \A i \in 1 .. Len(Readers) : Readers'[i] = Readers[i]
    BY <1>0, <1>3 DEF WriterParticipateInReaderOpen
<1>6. /\ ~InReaders(r) /\ SentTimestepList[r] = {}
      /\ peer[r] \in {"registered", "crashed"}
    BY <1>3, <1>4 DEF RefInv, Admitted, ListedOnce, Unknown, NewReader
<1>7. \A s \in Cohorts : InQueue(s)' => InQueue(s) /\ s # r
    <2> SUFFICES ASSUME NEW s \in Cohorts, NEW i \in 1 .. Len(ReaderRegisterQueue'),
                        ReaderRegisterQueue'[i] = s
                 PROVE  InQueue(s) /\ s # r
        BY DEF InQueue
    <2>1. i + 1 \in 1 .. Len(ReaderRegisterQueue) /\ ReaderRegisterQueue[i + 1] = s
          /\ i + 1 # 1 /\ 1 \in 1 .. Len(ReaderRegisterQueue)
        BY <1>2, <1>3
    <2>2. QED
        BY <1>3, <2>1 DEF InQueue, RefInv, Admitted, ListedOnce
<1>8. UNCHANGED peer
    BY DEF WriterParticipateInReaderOpen
<1>9. ListedOnce'
    <2>1. \A i, j \in 1 .. Len(Readers') : Readers'[i] = Readers'[j] => i = j
        <3>1. \A i \in 1 .. Len(Readers) : Readers[i] # r
            BY <1>6 DEF InReaders
        <3>2. \A i, j \in 1 .. Len(Readers) : Readers[i] = Readers[j] => i = j
            BY DEF RefInv, Admitted, ListedOnce
        <3>3. \A i \in 1 .. Len(Readers') : i \in 1 .. Len(Readers) \/ i = Len(Readers) + 1
            BY <1>0, <1>5
        <3>4. QED
            BY <1>5, <3>1, <3>2, <3>3
    <2>2. \A i, j \in 1 .. Len(ReaderRegisterQueue') :
              ReaderRegisterQueue'[i] = ReaderRegisterQueue'[j] => i = j
        <3> SUFFICES ASSUME NEW i \in 1 .. Len(ReaderRegisterQueue'),
                            NEW j \in 1 .. Len(ReaderRegisterQueue'),
                            ReaderRegisterQueue'[i] = ReaderRegisterQueue'[j]
                     PROVE  i = j
            OBVIOUS
        <3>1. i + 1 = j + 1
            BY <1>3 DEF RefInv, Admitted, ListedOnce
        <3>2. QED
            BY <1>2, <1>3, <3>1
    <2>3. \A s \in Cohorts : InQueue(s)' => peer'[s] \in {"registered", "crashed"}
        BY <1>7, <1>8 DEF RefInv, Admitted, ListedOnce
    <2>4. QED
        BY <2>1, <2>2, <2>3 DEF ListedOnce
<1>10. pc' = [pc EXCEPT !["main"] = "awaitReader"] /\ rdr'["main"] = r
       /\ rdr'["net"] = rdr["net"] /\ ret' = ret /\ idx' = idx
       /\ pc["main"] = "participate"
    BY <1>0 DEF WriterParticipateInReaderOpen, ThreadTypes
<1>11. Unknown'
    <2> SUFFICES ASSUME NEW s \in Cohorts, NewReader(s)'
                 PROVE  /\ ReaderStatus'[s] = "NotOpen" /\ snapshot'[s] = "NotOpen"
                        /\ SentTimestepList'[s] = {}
                        /\ s \notin Delayed'
                        /\ ~InReaders(s)'
                        /\ \A th \in Threads : InCall(th)' => rdr'[th] # s
        BY DEF Unknown
    <2>1. NewReader(s) /\ s # r
        BY <1>6, <1>7, <1>8 DEF NewReader
    <2>2. /\ ReaderStatus[s] = "NotOpen" /\ snapshot[s] = "NotOpen"
          /\ SentTimestepList[s] = {} /\ s \notin Delayed /\ ~InReaders(s)
          /\ \A th \in Threads : InCall(th) => rdr[th] # s
        BY <2>1 DEF RefInv, Admitted, Unknown
    <2>3. ReaderStatus'[s] = "NotOpen" /\ snapshot'[s] = "NotOpen" /\ SentTimestepList'[s] = {}
          /\ s \notin Delayed'
        BY <1>0, <2>1, <2>2 DEF WriterParticipateInReaderOpen, ReaderTypes
    <2>4. ~InReaders(s)'
        <3>1. \A i \in 1 .. Len(Readers') : i \in 1 .. Len(Readers) \/ i = Len(Readers) + 1
            BY <1>0, <1>5
        <3>2. QED
            BY <1>5, <2>1, <2>2, <3>1 DEF InReaders
    <2>5. \A th \in Threads : InCall(th)' => rdr'[th] # s
        BY <1>0, <1>10, <2>2 DEF InCall, CallPcs, ThreadTypes
    <2>6. QED
        BY <2>3, <2>4, <2>5
<1>12. /\ ~Providing /\ ~Providing' /\ ~Unserved' /\ ~MainAt("sendLoop")'
       /\ ~MainAt("queuedLoop")' /\ pc'["main"] = "awaitReader"
    BY <1>0, <1>10 DEF Providing, Unserved, MainAt, InCall, CallPcs, ThreadTypes
<1>13. Counted'
    BY <1>12, CountedKept DEF WriterParticipateInReaderOpen, RefInv, Shrinks
<1>14. SentOnce'
    BY <1>6, <1>10, <1>12 DEF WriterParticipateInReaderOpen, RefInv, SentOnce, StepUnsent,
        DemandUnsent, QueuedUnsent
<1>15. QED
    BY <1>9, <1>11, <1>13, <1>14 DEF RefInv, Admitted

(* The end of the stream.                                                    *)
LEMMA CloseDrainRefInv ==
    ASSUME TypeInv, RefInv, WriterCloseDrain \/ SstStreamDestroy
    PROVE  RefInv'
<1> USE DEF Threads, markVars, queueVars, streamVars, openVars, stepVars, distVars, closeVars,
            linkVars, readerVars, callVars, localVars, peerVars, Goto, NoLock
<1>0. ThreadTypes /\ ReaderTypes
    BY DEF TypeInv, TypeOK
<1>1. ~Providing /\ ~Providing' /\ ~Unserved' /\ ~MainAt("sendLoop")' /\ ~MainAt("queuedLoop")'
      /\ pc'["main"] # "awaitReader"
    BY <1>0 DEF WriterCloseDrain, SstStreamDestroy, Providing, Unserved, MainAt, InCall, CallPcs,
        ThreadTypes
<1>2. Counted'
    BY <1>1, CountedKept DEF WriterCloseDrain, SstStreamDestroy, RefInv, Shrinks
<1>3. ControlKept /\ SendsNothing
    BY <1>1 DEF WriterCloseDrain, SstStreamDestroy, ControlKept, SendsNothing
<1>4. SentOnce'
    BY <1>1, <1>3, SentOnceKept DEF WriterCloseDrain, SstStreamDestroy, RefInv
<1>5. UnknownKept /\ PeersKept
    BY <1>0 DEF WriterCloseDrain, SstStreamDestroy, UnknownKept, PeersKept, InCall, CallPcs,
        ThreadTypes
<1>6. CASE WriterCloseDrain
    <2>1. Admitted'
        BY <1>5, <1>6, AdmittedKept DEF WriterCloseDrain, RefInv
    <2>2. QED
        BY <1>2, <1>4, <2>1 DEF RefInv
<1>7. CASE SstStreamDestroy
    <2>1. Readers' = <<>> /\ UNCHANGED <<ReaderRegisterQueue, peer>>
        BY <1>7 DEF SstStreamDestroy
    <2>2. \A s \in Cohorts : InQueue(s)' = InQueue(s) /\ NewReader(s)' = NewReader(s)
                             /\ ~InReaders(s)'
        BY <2>1 DEF InQueue, NewReader, InReaders
    <2>3. ListedOnce'
        BY <2>1, <2>2 DEF RefInv, Admitted, ListedOnce
    <2>4. Unknown'
        BY <1>5, <2>2 DEF UnknownKept, RefInv, Admitted, Unknown
    <2>5. QED
        BY <1>2, <1>4, <2>3, <2>4 DEF RefInv, Admitted
<1>8. QED
    BY <1>6, <1>7

(* What a handler does that sends nothing: the queue may shrink, a reader    *)
(* that is not new changes its status, a peer moves on.                      *)
LEMMA HandlerKeeps ==
    ASSUME TypeInv, RefInv, Shrinks, PeersKept,
           NEW r \in Cohorts, ~NewReader(r),
           \A s \in Cohorts \ {r} : ReaderStatus'[s] = ReaderStatus[s],
           \A s \in Cohorts \ {r} : s \in Delayed' => s \in Delayed,
           UNCHANGED snapshot,
           UNCHANGED <<ReferenceCount, SentTimestepList, WriterTimestep>>,
           UNCHANGED <<InProgressFlag, LastDemandTimestep>>,
           UNCHANGED <<Readers, ReaderRegisterQueue>>,
           StepDistributionMode = "OnDemand" \/ UNCHANGED StepRequestQueue,
           pc'["main"] = pc["main"], ret'["main"] = ret["main"],
           rdr'["main"] = rdr["main"], idx'["main"] = idx["main"],
           \A s \in Cohorts \ {r} :
               (InCall("net")' /\ rdr'["net"] = s) => (InCall("net") /\ rdr["net"] = s)
    PROVE  RefInv'
<1>1. ControlKept /\ (Providing' <=> Providing)
    BY NetKeepsControl
<1>2. UnknownKept
    BY DEF UnknownKept, InCall, Threads
<1>3. SendsNothing
    BY DEF SendsNothing
<1>4. Admitted'
    BY <1>2, AdmittedKept DEF RefInv
<1>5. SentOnce'
    BY <1>1, <1>3, SentOnceKept DEF RefInv
<1>6. Counted'
    BY <1>1, CountedKept DEF RefInv
<1>7. QED
    BY <1>4, <1>5, <1>6 DEF RefInv

(* The handlers and delayed tasks that are under way.                        *)
LEMMA NetRefInv ==
    ASSUME TypeInv, RefInv, NetInHandler
    PROVE  RefInv'
<1> USE DEF Threads, CallPcs, markVars, queueVars, openVars, stepVars, distVars,
            closeVars, streamVars, listVars, linkVars, readerVars, callVars, localVars,
            peerVars, dataVars, Goto, Lock, Unlock, NoLock
<1>0. ThreadTypes /\ QueueTypes
    BY DEF TypeInv, TypeOK
<1>1. CASE Shared("net")
    BY <1>1, SharedRefInv
<1>2. CASE ConnCloseDone \/ ReleaseDone
    <2>1. ControlKept /\ (Providing' <=> Providing)
        BY <1>0, <1>2, NetKeepsControl DEF ConnCloseDone, ReleaseDone, ThreadTypes
    <2>2. UnknownKept
        BY <1>0, <1>2 DEF ConnCloseDone, ReleaseDone, UnknownKept, ThreadTypes, InCall
    <2>3. Shrinks
        BY <1>0, <1>2, MaintenanceEffect DEF ConnCloseDone, ReleaseDone, QueueTypes, Shrinks
    <2>4. QED
        BY <1>2, <2>1, <2>2, <2>3, RefKept DEF ConnCloseDone, ReleaseDone
<1>3. CASE HandlerDone \/ RequestSent \/ ReleaseRelocked
    <2>1. ControlKept /\ (Providing' <=> Providing)
        BY <1>0, <1>3, NetKeepsControl DEF HandlerDone, RequestSent, ReleaseRelocked, ThreadTypes
    <2>2. UnknownKept
        BY <1>0, <1>3 DEF HandlerDone, RequestSent, ReleaseRelocked, UnknownKept, ThreadTypes,
            InCall
    <2>3. QED
        BY <1>3, <2>1, <2>2, RefKept DEF HandlerDone, RequestSent, ReleaseRelocked, Shrinks
<1>4. ASSUME NEW r \in Cohorts, CloseWSRStream(r)
      PROVE  RefInv'
    <2>1. ~NewReader(r)
        BY <1>4, KnownReaders DEF CloseWSRStream
    <2>2. PeerFailEffect("net", r, "handlerDone")
        BY <1>4, PeerFailCloseEffect DEF CloseWSRStream, TypeInv, Statuses, NetPcs
    <2>3. Shrinks /\ PeersKept
        BY <1>4, <2>2 DEF CloseWSRStream, PeerFailEffect, Shrinks, PeersKept
    <2>4. UNCHANGED <<ReferenceCount, SentTimestepList, WriterTimestep, InProgressFlag,
                      LastDemandTimestep, Readers, ReaderRegisterQueue, StepRequestQueue,
                      snapshot, idx>>
        BY <1>4, <2>2 DEF CloseWSRStream, HandlerFrame, PeerFailEffect
    <2>5. \A s \in Cohorts \ {r} : ReaderStatus'[s] = ReaderStatus[s]
                                   /\ (s \in Delayed' => s \in Delayed)
        BY <1>4, <2>2 DEF CloseWSRStream, PeerFailEffect
    <2>6. pc'["main"] = pc["main"] /\ ret'["main"] = ret["main"]
          /\ rdr'["main"] = rdr["main"] /\ rdr'["net"] = r
        BY <1>0, <1>4, <2>2 DEF PeerFailEffect, ThreadTypes
    <2>7. QED
        BY <2>1, <2>3, <2>4, <2>5, <2>6, HandlerKeeps
<1>5. QED
    BY <1>1, <1>2, <1>3, <1>4 DEF NetInHandler

(* A reader that registers is unknown until main admits it.                  *)
LEMMA ReaderRegistersRefInv ==
    ASSUME TypeInv, RefInv, NEW r \in Cohorts, ReaderRegisters(r)
    PROVE  RefInv'
<1> USE DEF Threads, CallPcs, markVars, queueVars, openVars, stepVars, distVars,
            closeVars, streamVars, linkVars, readerVars, callVars, localVars, NoLock
<1>0. ReaderRegisterQueue \in Seq(Cohorts) /\ peer \in [Cohorts -> {"absent", "registered",
          "live", "closed", "crashed", "gone"}]
    BY DEF TypeInv, TypeOK, StreamTypes, PeerTypes
<1> DEFINE last == Len(ReaderRegisterQueue) + 1
<1>1. /\ Len(ReaderRegisterQueue') = last /\ ReaderRegisterQueue'[last] = r
      /\ \A i \in 1 .. Len(ReaderRegisterQueue) :
            ReaderRegisterQueue'[i] = ReaderRegisterQueue[i]
      /\ \A i \in 1 .. Len(ReaderRegisterQueue') :
            i \in 1 .. Len(ReaderRegisterQueue) \/ i = last
    BY <1>0 DEF ReaderRegisters, queueReaderRegisterMsgAndNotify
<1>2. peer[r] = "absent" /\ peer'[r] = "registered" /\ ~InQueue(r)
      /\ \A s \in Cohorts \ {r} : peer'[s] = peer[s]
    BY <1>0 DEF ReaderRegisters, RefInv, Admitted, ListedOnce
<1>3. \A s \in Cohorts : InQueue(s)' => InQueue(s) \/ s = r
    BY <1>1 DEF InQueue
<1>4. UNCHANGED <<Readers, queueVars, streamVars, StepRequestQueue, readerVars, pc, callVars,
                  idx, localVars>>
    BY DEF ReaderRegisters, queueReaderRegisterMsgAndNotify
<1>5. ListedOnce'
    <2>1. \A i, j \in 1 .. Len(ReaderRegisterQueue') :
              ReaderRegisterQueue'[i] = ReaderRegisterQueue'[j] => i = j
        <3>1. \A i \in 1 .. Len(ReaderRegisterQueue) : ReaderRegisterQueue[i] # r
            BY <1>2 DEF InQueue
        <3>2. \A i, j \in 1 .. Len(ReaderRegisterQueue) :
                  ReaderRegisterQueue[i] = ReaderRegisterQueue[j] => i = j
            BY DEF RefInv, Admitted, ListedOnce
        <3>3. QED
            BY <1>1, <3>1, <3>2
    <2>2. \A s \in Cohorts : InQueue(s)' => peer'[s] \in {"registered", "crashed"}
        BY <1>2, <1>3 DEF RefInv, Admitted, ListedOnce
    <2>3. QED
        BY <1>4, <2>1, <2>2 DEF RefInv, Admitted, ListedOnce
<1>6. Unknown'
    <2>1. \A s \in Cohorts : NewReader(s)' => NewReader(s)
        BY <1>2, <1>3 DEF NewReader
    <2>2. QED
        BY <1>4, <2>1 DEF RefInv, Admitted, Unknown, InReaders, InCall
<1>7. ControlKept /\ (Providing' <=> Providing)
    BY <1>4, NetKeepsControl
<1>8. SentOnce'
    BY <1>4, <1>7, SentOnceKept DEF RefInv, SendsNothing
<1>9. Counted'
    BY <1>4, <1>7, CountedKept DEF RefInv, Shrinks
<1>10. QED
    BY <1>5, <1>6, <1>8, <1>9 DEF RefInv, Admitted

(* A reader gives a step back.                                               *)
LEMMA ReaderReleasesRefInv ==
    ASSUME TypeInv, RefInv, NEW r \in Cohorts, NEW t \in Steps, ReaderReleases(r, t)
    PROVE  RefInv'
<1> USE DEF Threads, CallPcs, markVars, queueVars, openVars, stepVars, distVars,
            closeVars, streamVars, listVars, linkVars, readerVars, callVars, localVars, Goto
<1>0. ThreadTypes /\ ReaderTypes
    BY DEF TypeInv, TypeOK
<1>1. /\ UNCHANGED <<peer, WriterTimestep, LastDemandTimestep, InProgressFlag, QueuedTimesteps>>
      /\ UNCHANGED <<Readers, ReaderRegisterQueue, StepRequestQueue, ReaderStatus>>
      /\ UNCHANGED <<Delayed, ret, idx, snapshot>>
    BY DEF ReaderReleases, CP_ReleaseTimestepHandler
<1>2. pc'["main"] = pc["main"] /\ rdr'["main"] = rdr["main"] /\ pc["net"] = "idle"
      /\ pc'["net"] \in {"idle", "releaseRelease", "releaseDone"}
    BY <1>0 DEF ReaderReleases, CP_ReleaseTimestepHandler, ThreadTypes
<1>3. ControlKept /\ (Providing' <=> Providing)
    BY <1>1, <1>2, NetKeepsControl
<1>4. CASE UNCHANGED <<SentTimestepList, ReferenceCount>>
    <2>1. UnknownKept
        BY <1>1, <1>2, <1>4 DEF UnknownKept, InCall
    <2>2. QED
        BY <1>1, <1>3, <1>4, <2>1, RefKept DEF Shrinks
<1>5. CASE ~UNCHANGED <<SentTimestepList, ReferenceCount>>
    <2>1. /\ t \in SentTimestepList[r] /\ SubRefTimestep(t)
          /\ SentTimestepList' = [SentTimestepList EXCEPT ![r] = @ \ {t}]
        BY <1>5 DEF ReaderReleases, CP_ReleaseTimestepHandler
    <2>2. Counted'
        BY <1>1, <1>3, <2>1, CountedDropped DEF RefInv
    <2>3. ~NewReader(r)
        BY <2>1 DEF RefInv, Admitted, Unknown
    <2>4. UnknownKept /\ PeersKept
        BY <1>0, <1>1, <1>2, <2>1, <2>3 DEF UnknownKept, PeersKept, InCall, ReaderTypes
    <2>5. Admitted'
        BY <1>1, <2>4, AdmittedKept DEF RefInv
    <2>6. SendsNothing
        BY <1>0, <1>1, <2>1 DEF SendsNothing, ReaderTypes
    <2>7. SentOnce'
        BY <1>1, <1>3, <2>6, SentOnceKept DEF RefInv
    <2>8. QED
        BY <2>2, <2>5, <2>7 DEF RefInv
<1>6. QED
    BY <1>4, <1>5

(* A request is answered with the step after the last one demanded, which    *)
(* no reader has and which main is not providing, or it is queued.           *)
LEMMA ReaderRequestsRefInv ==
    ASSUME TypeInv, RefInv, NEW r \in Cohorts, ReaderRequests(r)
    PROVE  RefInv'
<1> USE DEF Threads, CallPcs, markVars, queueVars, openVars, stepVars, distVars,
            closeVars, streamVars, listVars, linkVars, readerVars, callVars, localVars, Goto
<1>0. ThreadTypes /\ ReaderTypes /\ QueuedTimesteps \subseteq Steps
      /\ LastDemandTimestep \in Steps \cup {-1}
    BY DEF TypeInv, TypeOK, QueueTypes, StreamTypes
<1>1. StepDistributionMode = "OnDemand" /\ UNCHANGED peer
    BY DEF ReaderRequests
<1>2. CASE \E t \in NextOnDemand :
              /\ IsEstablished(r)
              /\ LastDemandTimestep' = t
              /\ SendTimestepEntryToSingleReader("net", r, t, "requestSent")
              /\ UNCHANGED <<NextRRDistribution, StepRequestQueue, idx>>
    <2>1. PICK t \in NextOnDemand :
              /\ IsEstablished(r)
              /\ LastDemandTimestep' = t
              /\ SendTimestepEntryToSingleReader("net", r, t, "requestSent")
              /\ UNCHANGED <<NextRRDistribution, StepRequestQueue, idx>>
        BY <1>2
    <2>2. t \in QueuedTimesteps /\ t \in Steps /\ t \notin InProgressFlag
          /\ t = LastDemandTimestep + 1
        BY <1>0 DEF NextOnDemand
    <2>3. \A s \in Cohorts : \A u \in SentTimestepList[s] : u <= LastDemandTimestep /\ u \in Int
        BY <1>0, <1>1 DEF RefInv, SentOnce, DemandUnsent, ReaderTypes, Steps
    <2>4. t \notin SentTimestepList[r]
        BY <1>0, <2>2, <2>3 DEF Steps
    <2>5. SentTimestepList' = [SentTimestepList EXCEPT ![r] = @ \cup {t}]
          /\ UNCHANGED <<WriterTimestep, InProgressFlag, Readers>>
          /\ UNCHANGED <<QueuedTimesteps, idx>>
        BY <2>1 DEF SendTimestepEntryToSingleReader
    <2>6. pc'["main"] = pc["main"] /\ ret'["main"] = ret["main"] /\ rdr'["main"] = rdr["main"]
        BY <1>0, <2>1 DEF SendTimestepEntryToSingleReader, ThreadTypes
    <2>7. ControlKept /\ (Providing' <=> Providing)
        BY <2>5, <2>6, NetKeepsControl
    <2>8. Counted'
        BY <2>1, <2>2, <2>4, <2>5, <2>7, CountedSent DEF SendTimestepEntryToSingleReader, RefInv
    <2>9. Admitted'
        BY <2>1, <2>2, AdmittedSent
    <2>10. DemandUnsent'
        <3>1. \A s \in Cohorts : \A u \in SentTimestepList'[s] : u <= t
            BY <1>0, <2>2, <2>3, <2>5 DEF ReaderTypes, Steps
        <3>2. QED
            BY <1>1, <2>1, <3>1 DEF DemandUnsent
    <2>11. StepUnsent'
        <3>1. Providing => t # WriterTimestep
            BY <2>2 DEF RefInv, SentOnce, StepUnsent
        <3>2. Unserved \/ MainAt("sendLoop") => Providing
            BY DEF Unserved, MainAt, InCall, Providing
        <3>3. (Unserved' => Unserved) /\ (MainAt("sendLoop")' => MainAt("sendLoop"))
            BY <2>6 DEF Unserved, MainAt, InCall
        <3>4. Providing => \A s \in Cohorts : WriterTimestep \notin SentTimestepList[s]
                                                => WriterTimestep \notin SentTimestepList'[s]
            BY <1>0, <2>5, <3>1 DEF ReaderTypes
        <3>5. QED
            BY <1>1, <2>5, <2>7, <3>2, <3>3, <3>4 DEF RefInv, SentOnce, StepUnsent
    <2>12. QueuedUnsent'
        BY <1>1, <2>6 DEF RefInv, SentOnce, QueuedUnsent, MainAt, InCall
    <2>13. QED
        BY <2>8, <2>9, <2>10, <2>11, <2>12 DEF RefInv, SentOnce
<1>3. CASE UNCHANGED <<queueVars, streamVars, Readers, ReaderRegisterQueue, readerVars, pc,
                       callVars, idx, localVars>>
    <2>1. UnknownKept /\ PeersKept
        BY <1>1, <1>3 DEF UnknownKept, PeersKept, InCall
    <2>2. Admitted'
        BY <1>3, <2>1, AdmittedKept DEF RefInv
    <2>3. ControlKept /\ (Providing' <=> Providing)
        BY <1>3, NetKeepsControl
    <2>4. SentOnce'
        BY <1>1, <1>3, <2>3, SentOnceKept DEF RefInv, SendsNothing
    <2>5. Counted'
        BY <1>3, <2>3, CountedKept DEF RefInv, Shrinks
    <2>6. QED
        BY <2>2, <2>4, <2>5 DEF RefInv
<1>4. QED
    BY <1>2, <1>3 DEF ReaderRequests, CP_ReaderRequestStepHandler

(* Everything the readers do.                                                *)
LEMMA EnvironmentRefInv ==
    ASSUME TypeInv, RefInv, Environment
    PROVE  RefInv'
<1> USE DEF Threads, CallPcs, markVars, queueVars, openVars, stepVars, distVars,
            closeVars, streamVars, listVars, linkVars, readerVars, callVars, localVars, Goto,
            Lock, NoLock
<1>0. ThreadTypes /\ QueueTypes /\ ReaderTypes
      /\ peer \in [Cohorts -> {"absent", "registered", "live", "closed", "crashed", "gone"}]
    BY DEF TypeInv, TypeOK, PeerTypes
<1>1. ASSUME NEW r \in Cohorts, ReaderActivates(r)
      PROVE  RefInv'
    <2>1. ~NewReader(r) /\ peer[r] = "registered" /\ peer' = [peer EXCEPT ![r] = "live"]
        BY <1>1, KnownReaders DEF ReaderActivates
    <2>2. PeersKept
        BY <1>0, <2>1 DEF PeersKept, NewReader
    <2>3. \A s \in Cohorts \ {r} : ReaderStatus'[s] = ReaderStatus[s]
        BY <1>1 DEF ReaderActivates, CP_ReaderActivateHandler, ReaderTypes
    <2>4. /\ UNCHANGED <<queueVars, streamVars, listVars, SentTimestepList, linkVars, pc, callVars>>
          /\ UNCHANGED <<idx, localVars>>
        BY <1>1 DEF ReaderActivates, CP_ReaderActivateHandler
    <2>5. QED
        BY <2>1, <2>2, <2>3, <2>4, HandlerKeeps DEF Shrinks, InCall
<1>2. ASSUME NEW r \in Cohorts, ReaderCloses(r)
      PROVE  RefInv'
    <2>1. peer[r] = "live" /\ peer' = [peer EXCEPT ![r] = "closed"]
        BY <1>2 DEF ReaderCloses
    <2>2. ~NewReader(r)
        BY <2>1 DEF NewReader, RefInv, Admitted, ListedOnce
    <2>3. PeersKept
        BY <1>0, <2>1, <2>2 DEF PeersKept, NewReader
    <2>4. CASE Status = "Established"
        <3>1. PeerFailEffect("net", r, "handlerDone")
            BY <1>2, <2>4, PeerFailCloseEffect DEF ReaderCloses, CP_ReaderCloseHandler, TypeInv,
                Statuses, NetPcs
        <3>2. UNCHANGED <<SentTimestepList, WriterTimestep, InProgressFlag, LastDemandTimestep,
                          Readers, ReaderRegisterQueue, StepRequestQueue, Delayed, snapshot, idx>>
            BY <1>2, <2>4 DEF ReaderCloses, CP_ReaderCloseHandler, HandlerFrame
        <3>3. pc'["main"] = pc["main"] /\ ret'["main"] = ret["main"]
              /\ rdr'["main"] = rdr["main"] /\ rdr'["net"] = r
            BY <1>0, <3>1 DEF PeerFailEffect, ThreadTypes
        <3>4. QED
            BY <2>2, <2>3, <3>1, <3>2, <3>3, HandlerKeeps DEF PeerFailEffect, Shrinks
    <2>5. CASE Status # "Established"
        <3>1. UNCHANGED <<queueVars, streamVars, listVars, readerVars, pc, callVars, idx,
                          localVars>>
            BY <1>2, <2>5 DEF ReaderCloses, CP_ReaderCloseHandler
        <3>2. QED
            BY <2>2, <2>3, <3>1, HandlerKeeps DEF Shrinks, InCall
    <2>6. QED
        BY <2>4, <2>5
<1>3. ASSUME NEW r \in Cohorts, ReaderCrashes(r)
      PROVE  RefInv'
    <2>1. /\ UNCHANGED <<queueVars, streamVars, listVars, readerVars, pc, callVars, idx,
                         localVars>>
          /\ peer' = [peer EXCEPT ![r] = "crashed"] /\ peer[r] \in {"registered", "live"}
        BY <1>3 DEF ReaderCrashes
    <2>2. UnknownKept /\ PeersKept
        BY <1>0, <2>1 DEF UnknownKept, PeersKept, InCall
    <2>3. Admitted'
        BY <2>1, <2>2, AdmittedKept DEF RefInv
    <2>4. ControlKept /\ (Providing' <=> Providing)
        BY <2>1, NetKeepsControl
    <2>5. SentOnce'
        BY <2>1, <2>4, SentOnceKept DEF RefInv, SendsNothing
    <2>6. Counted'
        BY <2>1, <2>4, CountedKept DEF RefInv, Shrinks
    <2>7. QED
        BY <2>3, <2>5, <2>6 DEF RefInv
<1>4. ASSUME NEW r \in Cohorts, ConnectionCloses(r)
      PROVE  RefInv'
    <2>1. peer[r] \in {"closed", "crashed"} /\ peer' = [peer EXCEPT ![r] = "gone"]
          /\ ~NewReader(r)
        BY <1>4, KnownReaders DEF ConnectionCloses
    <2>2. PeersKept
        BY <1>0, <2>1 DEF PeersKept, NewReader
    <2>3. CASE Status # "Destroyed" /\ ReaderStatus[r] = "Established"
        <3>1. PeerFailEffect("net", r, "connCloseDone")
            BY <1>4, <2>3, PeerFailCloseEffect DEF ConnectionCloses, WriterConnCloseHandler,
                TypeInv, Statuses, NetPcs
        <3>2. UNCHANGED <<SentTimestepList, WriterTimestep, InProgressFlag, LastDemandTimestep,
                          Readers, ReaderRegisterQueue, StepRequestQueue, Delayed, snapshot, idx>>
            BY <1>4, <2>3 DEF ConnectionCloses, WriterConnCloseHandler, HandlerFrame
        <3>3. pc'["main"] = pc["main"] /\ ret'["main"] = ret["main"]
              /\ rdr'["main"] = rdr["main"] /\ rdr'["net"] = r
            BY <1>0, <3>1 DEF PeerFailEffect, ThreadTypes
        <3>4. QED
            BY <2>1, <2>2, <3>1, <3>2, <3>3, HandlerKeeps DEF PeerFailEffect, Shrinks
    <2>4. CASE ~(Status # "Destroyed" /\ ReaderStatus[r] = "Established")
        <3>1. UNCHANGED <<ReferenceCount, InProgressFlag, streamVars, listVars, readerVars, pc,
                          callVars, idx, localVars>>
            BY <1>4, <2>4 DEF ConnectionCloses, WriterConnCloseHandler
        <3>2. Shrinks
            BY <1>0, <1>4, <2>4, MaintenanceEffect DEF ConnectionCloses, WriterConnCloseHandler,
                QueueTypes, Shrinks
        <3>3. QED
            BY <2>1, <2>2, <3>1, <3>2, HandlerKeeps DEF InCall
    <2>5. QED
        BY <2>3, <2>4
<1>5. QED
    BY <1>1, <1>2, <1>3, <1>4, ReaderRegistersRefInv, ReaderReleasesRefInv, ReaderRequestsRefInv
    DEF Environment

(* The initial states.                                                       *)
LEMMA InitRefInv == Init => RefInv
<1> SUFFICES ASSUME Init PROVE RefInv
    OBVIOUS
<1>1. Len(<<>>) = 0
    OBVIOUS
<1>2. \A r \in Cohorts : ~InReaders(r) /\ ~InQueue(r)
    BY <1>1 DEF Init, InReaders, InQueue
<1>3. Admitted
    BY <1>1, <1>2 DEF Init, Admitted, ListedOnce, Unknown, InCall, CallPcs, Threads
<1>4. SentOnce
    BY DEF Init, SentOnce, StepUnsent, DemandUnsent, QueuedUnsent, Unserved, MainAt, InCall,
        Providing, CallPcs, Threads
<1>5. Counted
    BY DEF Init, Counted, QueueInOrder, ReferencesCounted, SentStepsRetained, ProvidedEntryKept,
        Providing, CallPcs, Threads
<1>6. QED
    BY <1>3, <1>4, <1>5 DEF RefInv

(* Every step keeps the invariant.                                           *)
LEMMA NextRefInv ==
    ASSUME TypeInv, RefInv, [Next]_vars
    PROVE  RefInv'
<1>1. CASE MainInCall
    BY <1>1, SharedRefInv, QuietMainRefInv, SendQueuedRefInv, SendToAllRefInv,
        SendRoundRobinRefInv, SendOnDemandRefInv, ProvidedRefInv, WriterParticipateRefInv,
        CloseDrainRefInv
    DEF MainInCall, QuietMain, Threads
<1>2. CASE MainCalls
    BY <1>2, ProvideTimestepRefInv, QuietMainRefInv, CloseDrainRefInv DEF MainCalls, QuietMain
<1>3. CASE UNCHANGED vars
    <2> USE DEF vars, dataVars, queueVars, markVars, streamVars, openVars, stepVars, distVars,
                closeVars, listVars, readerVars, linkVars, callVars, localVars, peerVars
    <2>1. ControlKept /\ (Providing' <=> Providing)
        BY <1>3, NetKeepsControl
    <2>2. UnknownKept
        BY <1>3 DEF UnknownKept, InCall
    <2>3. QED
        BY <1>3, <2>1, <2>2, RefKept DEF Shrinks
<1>4. CASE Terminated
    BY <1>3, <1>4 DEF Terminated
<1>5. QED
    BY <1>1, <1>2, <1>3, <1>4, NetRefInv, EnvironmentRefInv DEF Next

-----------------------------------------------------------------------------
(* The inductive invariant behind the three theorems that follow.            *)
THEOREM RefInvariance == Spec => []RefInv
<1>1. Init => RefInv
    BY InitRefInv
<1>2. TypeInv /\ RefInv /\ [Next]_vars => RefInv'
    BY NextRefInv
<1>3. QED
    BY <1>1, <1>2, TypeInvariance, PTL DEF Spec

(* The reference count of every queued step is the number of readers that    *)
(* hold it plus the provider's own reference: every ReferenceCount++ is      *)
(* matched by one decrement on every path through send, release, close,      *)
(* failed write and discard, however the two threads interleave.             *)
THEOREM ReferencesAreCounted == Spec => []ReferencesCounted
<1>1. RefInv => ReferencesCounted
    BY DEF RefInv, Counted
<1>2. QED
    BY <1>1, RefInvariance, PTL

(* QueueMaintenance never frees a step that is in some reader's sent list.   *)
THEOREM SentStepsAreRetained == Spec => []SentStepsRetained
<1>1. RefInv => SentStepsRetained
    BY DEF RefInv, Counted
<1>2. QED
    BY <1>1, RefInvariance, PTL

(* The entry SstInternalProvideTimestep works on does not disappear under it *)
(* while it has given up the lock.                                           *)
THEOREM ProvidedEntryIsKept == Spec => []ProvidedEntryKept
<1>1. RefInv => ProvidedEntryKept
    BY DEF RefInv, Counted
<1>2. QED
    BY <1>1, RefInvariance, PTL

-----------------------------------------------------------------------------
(* Waits and wake-ups *)

WaitPcs == {"rendezvous", "awaitReader", "blocked", "drain"}

(* main sleeps in one of its four waits only, and not when what it waits *)
(* for is there.                                                         *)
WakeInv ==
    /\ asleep => pc["main"] \in WaitPcs
    /\ NoLostWakeup

(* What main waits for is as before, or main was woken. *)
WaitKept ==
    asleep' => /\ asleep /\ pc'["main"] = pc["main"] /\ rdr'["main"] = rdr["main"]
               /\ UNCHANGED <<ReaderRegisterQueue, QueuedTimesteps>>
               /\ pc["main"] = "awaitReader" =>
                    ReaderStatus'[rdr["main"]] = ReaderStatus[rdr["main"]]

(* What neither puts main to sleep nor changes what it waits for loses no *)
(* wake-up.                                                               *)
LEMMA WakeKept ==
    ASSUME WakeInv, WaitKept
    PROVE  WakeInv'
BY DEF WakeInv, WaitKept, NoLostWakeup, QueueFull

(* CP_PeerFailCloseWSReader wakes main whenever it changes the status of a *)
(* reader or the queue.                                                    *)
LEMMA PeerFailWakes ==
    ASSUME NEW th, NEW r, NEW new, NEW back, PeerFailCloseWSReader(th, r, new, back)
    PROVE  asleep' => asleep /\ UNCHANGED <<ReaderStatus, QueuedTimesteps>>
BY DEF PeerFailCloseWSReader, SignalIf

(* Neither thread loses a wake-up in the procedures that both call. *)
LEMMA SharedWakes ==
    ASSUME TypeInv, WakeInv, NEW th \in Threads, Shared(th)
    PROVE  WakeInv'
<1> USE DEF Threads, CallPcs, WaitPcs, markVars, queueVars, openVars, stepVars, distVars,
            closeVars, streamVars, listVars, linkVars, readerVars, callVars, localVars,
            peerVars, dataVars, Goto
<1>0. ThreadTypes
    BY DEF TypeInv, TypeOK
<1>1. th = "main" => ~asleep
    BY DEF WakeInv, Shared, DerefAllSentTimesteps, DerefRelocked, PeerFailCloseFinish,
        Registered, CMwrite, Written, WriteFailed, SendCloseMsgs, SendCloseMsgsDone
<1>2. CASE DerefAllSentTimesteps(th)
    BY <1>0, <1>1, <1>2, WakeKept DEF DerefAllSentTimesteps, WaitKept, ThreadTypes
<1>3. CASE DerefRelocked(th) \/ Registered(th) \/ Written(th)
    BY <1>0, <1>1, <1>3, WakeKept DEF DerefRelocked, Registered, Written, WaitKept, ThreadTypes
<1>4. CASE PeerFailCloseFinish(th)
    BY <1>0, <1>1, <1>4, WakeKept DEF PeerFailCloseFinish, SignalRemoval, SignalIf, WaitKept,
        ThreadTypes
<1>5. ASSUME NEW ok \in BOOLEAN, CMwrite(th, ok) PROVE WakeInv'
    BY <1>0, <1>1, <1>5, WakeKept DEF CMwrite, WaitKept, ThreadTypes
<1>6. CASE WriteFailed(th)
    <2>1. PeerFailCloseWSReader(th, rdr[th], "PeerFailed", ret[th])
        BY <1>6 DEF WriteFailed
    <2>2. asleep' => asleep /\ UNCHANGED <<ReaderStatus, QueuedTimesteps>>
        BY <2>1, PeerFailWakes
    <2>3. asleep' => pc'["main"] = pc["main"] /\ rdr'["main"] = rdr["main"]
        BY <1>0, <1>1, <2>1, <2>2 DEF PeerFailCloseWSReader, ThreadTypes
    <2>4. UNCHANGED ReaderRegisterQueue
        BY <1>6 DEF WriteFailed
    <2>5. QED
        BY <2>2, <2>3, <2>4, WakeKept DEF WaitKept
<1>7. CASE SendCloseMsgs(th)
    BY <1>0, <1>1, <1>7, WakeKept DEF SendCloseMsgs, WriteToReader, WaitKept, ThreadTypes
<1>8. CASE SendCloseMsgsDone(th)
    BY <1>0, <1>1, <1>8, WakeKept DEF SendCloseMsgsDone, WaitKept, ThreadTypes
<1>9. QED
    BY <1>2, <1>3, <1>4, <1>5, <1>6, <1>7, <1>8 DEF Shared

(* main goes to sleep in a wait only when what it waits for is not there. *)
LEMMA MainWakes ==
    ASSUME TypeInv, WakeInv, MainInCall \/ MainCalls
    PROVE  WakeInv'
<1> USE DEF Threads, CallPcs, WaitPcs, markVars, queueVars, openVars, stepVars, distVars,
            closeVars, streamVars, listVars, linkVars, readerVars, callVars, localVars,
            peerVars, dataVars, Goto
<1>0. ThreadTypes
    BY DEF TypeInv, TypeOK
<1>1. CASE Shared("main")
    BY <1>1, SharedWakes
<1>2. CASE SstWriterOpenRendezvous
    BY <1>0, <1>2 DEF SstWriterOpenRendezvous, WakeInv, NoLostWakeup, ThreadTypes
<1>3. CASE waitForReaderResponse
    BY <1>0, <1>3 DEF waitForReaderResponse, WakeInv, NoLostWakeup, ThreadTypes
<1>4. CASE DecideTimestep
    BY <1>0, <1>4 DEF DecideTimestep, WakeInv, NoLostWakeup, TakeSnapshot, ThreadTypes
<1>5. CASE BlockedOnQueueFull
    BY <1>0, <1>5 DEF BlockedOnQueueFull, WakeInv, NoLostWakeup, TakeSnapshot, QueueFull, ThreadTypes
<1>6. CASE WriterCloseDrain
    BY <1>0, <1>6 DEF WriterCloseDrain, WakeInv, NoLostWakeup, ThreadTypes
<1>7. ASSUME ~asleep' PROVE WakeInv'
    BY <1>7 DEF WakeInv, NoLostWakeup
<1>8. pc["main"] \notin WaitPcs => ~asleep
    BY DEF WakeInv
<1> HIDE DEF WaitPcs
<1>9. CASE WriterParticipateInReaderOpen \/ StrayUnlock \/ SendQueuedDone
    BY <1>7, <1>8, <1>9 DEF WriterParticipateInReaderOpen, StrayUnlock, SendQueuedDone, WaitPcs
<1>10. CASE SendQueued
    BY <1>7, <1>8, <1>10 DEF SendQueued, SendTimestepEntryToSingleReader, WaitPcs
<1>11. CASE ProcessReaderStatusListBegin \/ ProcessReaderStatusListDone \/ DeliverBegin
    BY <1>7, <1>8, <1>11 DEF ProcessReaderStatusListBegin, ProcessReaderStatusListDone, DeliverBegin, WaitPcs
<1>12. CASE ProcessReaderStatusList
    <2>1. asleep' => asleep
        BY <1>12, PeerFailWakes DEF ProcessReaderStatusList
    <2>2. QED
        BY <1>7, <1>8, <1>12, <2>1 DEF ProcessReaderStatusList, WaitPcs
<1>13. CASE SendToAll \/ SendRoundRobin \/ SendOnDemand
    BY <1>7, <1>8, <1>13 DEF SendToAll, SendRoundRobin, SendOnDemand, SendTimestepEntryToSingleReader, WaitPcs
<1>14. CASE ProvideTimestepSent \/ ProvideTimestepDiscarded
    BY <1>7, <1>8, <1>14 DEF ProvideTimestepSent, ProvideTimestepDiscarded, SignalRemoval, SignalIf, WaitPcs
<1>15. CASE SendDiscarded
    BY <1>7, <1>8, <1>15 DEF SendDiscarded, WriteToReader, WaitPcs
<1>16. CASE HandlePendingReaders \/ UntagPreciousTimesteps
    BY <1>7, <1>8, <1>16 DEF HandlePendingReaders, UntagPreciousTimesteps, WaitPcs
<1>17. CASE MainCalls
    BY <1>7, <1>8, <1>17 DEF MainCalls, ProvideTimestep, SstWriterClose, SstStreamDestroy, WaitPcs
<1>18. QED
    BY <1>1, <1>2, <1>3, <1>4, <1>5, <1>6, <1>9, <1>10, <1>11, <1>12, <1>13, <1>14, <1>15, <1>16,
        <1>17 DEF MainInCall

(* Whatever a handler does that main may be waiting for, it signals. *)
LEMMA NetWakes ==
    ASSUME TypeInv, WakeInv, NetInHandler \/ Environment
    PROVE  WakeInv'
<1> USE DEF Threads, CallPcs, markVars, queueVars, openVars, stepVars, distVars,
            closeVars, streamVars, listVars, linkVars, readerVars, callVars, localVars,
            peerVars, dataVars, Goto
<1>0. ThreadTypes
    BY DEF TypeInv, TypeOK
<1>1. CASE Shared("net")
    BY <1>1, SharedWakes
<1>2. CASE ConnCloseDone \/ ReleaseDone
    BY <1>0, <1>2, WakeKept DEF ConnCloseDone, ReleaseDone, SignalRemoval, SignalIf, WaitKept, ThreadTypes
<1>3. CASE HandlerDone \/ RequestSent \/ ReleaseRelocked
    BY <1>0, <1>3, WakeKept DEF HandlerDone, RequestSent, ReleaseRelocked, WaitKept, ThreadTypes
<1>4. ASSUME NEW r, NEW new, NEW back, PeerFailCloseWSReader("net", r, new, back),
             UNCHANGED ReaderRegisterQueue
      PROVE  WakeInv'
    <2>1. asleep' => asleep /\ UNCHANGED <<ReaderStatus, QueuedTimesteps>>
        BY <1>4, PeerFailWakes
    <2>2. pc'["main"] = pc["main"] /\ rdr'["main"] = rdr["main"]
        BY <1>0, <1>4 DEF PeerFailCloseWSReader, ThreadTypes
    <2>3. QED
        BY <1>4, <2>1, <2>2, WakeKept DEF WaitKept
<1>5. ASSUME NEW r \in Cohorts, CloseWSRStream(r) PROVE WakeInv'
    BY <1>4, <1>5 DEF CloseWSRStream, HandlerFrame
<1>6. ASSUME NEW r \in Cohorts, ReaderRegisters(r) \/ ReaderActivates(r)
      PROVE  WakeInv'
    BY <1>0, <1>6, WakeKept DEF ReaderRegisters, queueReaderRegisterMsgAndNotify, ReaderActivates,
        CP_ReaderActivateHandler, SignalIf, WaitKept
<1>7. ASSUME NEW r \in Cohorts, NEW t \in Steps, ReaderReleases(r, t)
      PROVE  WakeInv'
    BY <1>0, <1>7, WakeKept DEF ReaderReleases, CP_ReleaseTimestepHandler, WaitKept, ThreadTypes
<1>8. ASSUME NEW r \in Cohorts, ReaderRequests(r)
      PROVE  WakeInv'
    BY <1>0, <1>8, WakeKept DEF ReaderRequests, CP_ReaderRequestStepHandler,
        SendTimestepEntryToSingleReader, WaitKept, ThreadTypes
<1>9. ASSUME NEW r \in Cohorts, ReaderCloses(r)
      PROVE  WakeInv'
    <2>1. CP_ReaderCloseHandler(r)
        BY <1>9 DEF ReaderCloses
    <2>2. CASE Status = "Established"
        BY <1>4, <2>1, <2>2 DEF CP_ReaderCloseHandler, HandlerFrame
    <2>3. CASE Status # "Established"
        BY <2>1, <2>3, WakeKept DEF CP_ReaderCloseHandler, WaitKept
    <2>4. QED
        BY <2>2, <2>3
<1>10. ASSUME NEW r \in Cohorts, ReaderCrashes(r)
       PROVE  WakeInv'
    BY <1>10, WakeKept DEF ReaderCrashes, WaitKept
<1>11. ASSUME NEW r \in Cohorts, ConnectionCloses(r)
       PROVE  WakeInv'
    <2>1. WriterConnCloseHandler(r)
        BY <1>11 DEF ConnectionCloses
    <2>2. CASE PeerFailCloseWSReader("net", r, "PeerFailed", "connCloseDone") /\ HandlerFrame
        BY <1>4, <2>2 DEF HandlerFrame
    <2>3. CASE /\ UNCHANGED <<pc, rdr, ReaderRegisterQueue, ReaderStatus>>
               /\ asleep' => asleep /\ UNCHANGED QueuedTimesteps
        BY <2>3, WakeKept DEF WaitKept
    <2>4. UNCHANGED <<pc, rdr, ReaderRegisterQueue, ReaderStatus>>
          /\ asleep' = (asleep /\ ~(ReaderStatus[r] = "Opening" \/ QueuedTimesteps' # QueuedTimesteps))
              => WakeInv'
        BY <2>3
    <2>5. UNCHANGED <<pc, rdr, ReaderRegisterQueue, ReaderStatus, asleep, QueuedTimesteps>>
              => WakeInv'
        BY <2>3
    <2>6. QED
        BY <2>1, <2>2, <2>4, <2>5 DEF WriterConnCloseHandler, SignalIf
<1>12. QED
    BY <1>1, <1>2, <1>3, <1>5, <1>6, <1>7, <1>8, <1>9, <1>10, <1>11 DEF NetInHandler, Environment

(* Every pthread_cond_signal that main needs is sent: main never sleeps in *)
(* SstWriterOpen's rendezvous, in the wait for a reader's activation, on a *)
(* full queue or in SstWriterClose while what it waits for is already so.  *)
THEOREM WakeupsAreNotLost == Spec => []NoLostWakeup
<1>1. Init => WakeInv
    BY DEF Init, WakeInv, NoLostWakeup
<1>2. TypeInv /\ WakeInv /\ [Next]_vars => WakeInv'
    <2> SUFFICES ASSUME TypeInv, WakeInv, [Next]_vars PROVE WakeInv'
        OBVIOUS
    <2>1. CASE UNCHANGED vars
        BY <2>1, WakeKept DEF WaitKept, vars, dataVars, queueVars, listVars, readerVars, callVars
    <2>2. CASE Terminated
        BY <2>1, <2>2 DEF Terminated
    <2>3. QED
        BY <2>1, <2>2, MainWakes, NetWakes DEF Next
<1>3. WakeInv => NoLostWakeup
    BY DEF WakeInv
<1>4. QED
    BY <1>1, <1>2, <1>3, TypeInvariance, PTL DEF Spec

-----------------------------------------------------------------------------
(* Who the readers are *)

(* A reader that is not there any more. *)
Left == {"closed", "crashed", "gone"}

(* What a reader does and what the writer takes it to do *)
Peers ==
    \A r \in Cohorts :
        /\ peer[r] = "live" => ReaderStatus[r] = "Established"
        /\ peer[r] = "live" /\ Status # "Destroyed" => r \in CMconn /\ InReaders(r)
        /\ peer[r] = "registered" => InQueue(r) \/ ReaderStatus[r] = "Opening"
        /\ ReaderStatus[r] = "Opening" =>
               /\ pc["main"] = "awaitReader" /\ rdr["main"] = r /\ InReaders(r)
               /\ peer[r] \in {"registered"} \cup Left
               /\ peer[r] = "registered" => r \in CMconn
        /\ ReaderStatus[r] = "Established" => peer[r] \in {"live"} \cup Left
        /\ ReaderStatus[r] \in Departed => peer[r] \in Left
        /\ InReaders(r) => ReaderStatus[r] # "NotOpen"
        /\ r \in Delayed => peer[r] \in Left

(* From the snapshot of the readers that a step is distributed to, to the *)
(* adjustment of what the snapshot says.                                  *)
InWindow == pc["main"] \in {"distribute", "statusLoop"} \/ MainAt("statusLoop")

(* No reader is admitted between the snapshot and what it is taken for. *)
Snapshots ==
    InWindow => \A r \in Cohorts :
        /\ snapshot[r] # "Opening"
        /\ peer[r] = "live" => snapshot[r] = "Established"
        /\ InReaders(r) => snapshot[r] # "NotOpen"
        /\ snapshot[r] \in Departed => peer[r] \in Left

(* Where a thread treats a reader as failed. *)
GivingUp == {"failed", "derefLoop", "derefRelease"}

(* A thread writes to readers that were there, and gives up those that left. *)
Calls ==
    \A th \in Threads : InCall(th) =>
        /\ peer[rdr[th]] \in {"live"} \cup Left
        /\ pc[th] \in GivingUp => peer[rdr[th]] \in Left

(* Who the readers are: the inductive invariant that relates the peers to *)
(* the statuses and snapshots the writer keeps.                           *)
LiveInv == Peers /\ Snapshots /\ Calls

(* A reader, once live, only leaves; its status changes when it has left. *)
ReadersKept ==
    /\ UNCHANGED <<Readers, ReaderRegisterQueue, Status>>
    /\ \A r \in Cohorts :
          /\ \/ peer'[r] = peer[r]
             \/ peer[r] \in {"registered", "live"} \cup Left /\ peer'[r] \in Left
          /\ \/ ReaderStatus'[r] = ReaderStatus[r]
             \/ ReaderStatus'[r] \in Departed /\ peer'[r] \in Left
          /\ r \in CMconn => r \in CMconn' \/ peer'[r] \in Left
          /\ r \in Delayed' => r \in Delayed \/ peer'[r] \in Left

(* main goes on admitting a reader, and is not put back in the window. *)
AdmissionKept ==
    /\ \/ pc'["main"] = pc["main"] /\ rdr'["main"] = rdr["main"]
       \/ pc["main"] # "awaitReader"
       \/ ReaderStatus[rdr["main"]] # "Opening"
    /\ InWindow' => InWindow /\ snapshot' = snapshot

CallsKept ==
    \A th \in Threads : InCall(th)' =>
        /\ \/ InCall(th) /\ rdr'[th] = rdr[th]
           \/ rdr'[th] \in Cohorts /\ peer'[rdr'[th]] \in {"live"} \cup Left
        /\ pc'[th] \in GivingUp =>
              \/ pc[th] \in GivingUp /\ rdr'[th] = rdr[th]
              \/ peer'[rdr'[th]] \in Left

(* What lets readers only leave, admits none and writes to none but live *)
(* ones keeps it.                                                        *)
LEMMA LiveKept ==
    ASSUME TypeInv, LiveInv, ReadersKept, AdmissionKept, CallsKept
    PROVE  LiveInv'
<1>1. \A r : InReaders(r)' = InReaders(r) /\ InQueue(r)' = InQueue(r)
    BY DEF InReaders, InQueue, ReadersKept
<1>2. \A th \in Threads : InCall(th) => rdr[th] \in Cohorts
    BY DEF TypeInv, Positioned
<1>3. Peers'
    <2> SUFFICES ASSUME NEW r \in Cohorts
        PROVE  /\ peer'[r] = "live" => ReaderStatus'[r] = "Established"
               /\ peer'[r] = "live" /\ Status' # "Destroyed" => r \in CMconn' /\ InReaders(r)'
               /\ peer'[r] = "registered" => InQueue(r)' \/ ReaderStatus'[r] = "Opening"
               /\ ReaderStatus'[r] = "Opening" =>
                      /\ pc'["main"] = "awaitReader" /\ rdr'["main"] = r /\ InReaders(r)'
                      /\ peer'[r] \in {"registered"} \cup Left
                      /\ peer'[r] = "registered" => r \in CMconn'
               /\ ReaderStatus'[r] = "Established" => peer'[r] \in {"live"} \cup Left
               /\ ReaderStatus'[r] \in Departed => peer'[r] \in Left
               /\ InReaders(r)' => ReaderStatus'[r] # "NotOpen"
               /\ r \in Delayed' => peer'[r] \in Left
        BY DEF Peers
    <2>1. /\ peer[r] = "live" => ReaderStatus[r] = "Established"
          /\ peer[r] = "live" /\ Status # "Destroyed" => r \in CMconn /\ InReaders(r)
          /\ peer[r] = "registered" => InQueue(r) \/ ReaderStatus[r] = "Opening"
          /\ ReaderStatus[r] = "Opening" =>
                 /\ pc["main"] = "awaitReader" /\ rdr["main"] = r /\ InReaders(r)
                 /\ peer[r] \in {"registered"} \cup Left
                 /\ peer[r] = "registered" => r \in CMconn
          /\ ReaderStatus[r] = "Established" => peer[r] \in {"live"} \cup Left
          /\ ReaderStatus[r] \in Departed => peer[r] \in Left
          /\ InReaders(r) => ReaderStatus[r] # "NotOpen"
          /\ r \in Delayed => peer[r] \in Left
        BY DEF LiveInv, Peers
    <2>2. /\ \/ peer'[r] = peer[r]
             \/ peer[r] \in {"registered", "live"} \cup Left /\ peer'[r] \in Left
          /\ \/ ReaderStatus'[r] = ReaderStatus[r]
             \/ ReaderStatus'[r] \in Departed /\ peer'[r] \in Left
          /\ r \in CMconn => r \in CMconn' \/ peer'[r] \in Left
          /\ r \in Delayed' => r \in Delayed \/ peer'[r] \in Left
          /\ Status' = Status
        BY DEF ReadersKept
    <2>3. QED
        BY <1>1, <2>1, <2>2 DEF AdmissionKept, Left, Departed
<1>4. Snapshots'
    BY <1>1 DEF LiveInv, Snapshots, AdmissionKept, ReadersKept, Left
<1>5. Calls'
    <2> SUFFICES ASSUME NEW th \in Threads, InCall(th)'
                 PROVE  /\ peer'[rdr'[th]] \in {"live"} \cup Left
                        /\ pc'[th] \in GivingUp => peer'[rdr'[th]] \in Left
        BY DEF Calls
    <2>1. InCall(th) => /\ rdr[th] \in Cohorts /\ peer[rdr[th]] \in {"live"} \cup Left
                        /\ pc[th] \in GivingUp => peer[rdr[th]] \in Left
        BY <1>2 DEF LiveInv, Calls
    <2>2. pc[th] \in GivingUp => InCall(th)
        BY DEF GivingUp, InCall, CallPcs
    <2>3. \A r \in Cohorts : \/ peer'[r] = peer[r]
                             \/ peer'[r] \in Left
        BY DEF ReadersKept
    <2>4. QED
        BY <2>1, <2>2, <2>3 DEF CallsKept
<1>6. QED
    BY <1>3, <1>4, <1>5 DEF LiveInv

(* CP_PeerFailCloseWSReader brings a reader to the new status, or not. *)
StatusEffect(th, r, new, back) ==
    /\ \A s \in Cohorts \ {r} : ReaderStatus'[s] = ReaderStatus[s]
    /\ ReaderStatus'[r] \in {ReaderStatus[r], new}
    /\ ret' = [ret EXCEPT ![th] = back]
    /\ rdr' = [rdr EXCEPT ![th] = r]
    /\ \/ pc' = [pc EXCEPT ![th] = back]
       \/ pc' = [pc EXCEPT ![th] = "derefLoop"] /\ new \in Departed

(* This is all CP_PeerFailCloseWSReader does to the status of the readers *)
(* and to its thread.                                                     *)
LEMMA PeerFailCloseStatus ==
    ASSUME TypeOK, NEW th \in Threads, NEW r \in Cohorts, NEW new, NEW back,
           PeerFailCloseWSReader(th, r, new, back)
    PROVE  StatusEffect(th, r, new, back)
<1>1. ReaderStatus \in [Cohorts -> Statuses]
    BY DEF TypeOK, ReaderTypes
<1>2. QED
    BY <1>1 DEF PeerFailCloseWSReader, StatusEffect, Goto

(* The procedures that both threads call keep it. *)
LEMMA SharedLive ==
    ASSUME TypeInv, RefInv, LiveInv, NEW th \in Threads, Shared(th)
    PROVE  LiveInv'
<1> USE DEF Threads, CallPcs, GivingUp, markVars, queueVars, openVars, stepVars, distVars,
            closeVars, streamVars, listVars, linkVars, readerVars, callVars, localVars,
            peerVars, dataVars, Goto
<1>0. ThreadTypes /\ ReaderTypes /\ ReturnOK
    BY DEF TypeInv, TypeOK
<1>a. /\ InCall(th) => rdr[th] \in Cohorts /\ peer[rdr[th]] \in {"live"} \cup Left
      /\ pc[th] \in GivingUp => rdr[th] \in Cohorts /\ peer[rdr[th]] \in Left
    BY DEF TypeInv, Positioned, LiveInv, Calls, InCall
<1>b. /\ pc[th] \in CallPcs \ {"closeLoop"} => InCall(th)
      /\ ret["main"] \in DerefRets => ret["main"] # "awaitReader" /\ ret["main"] # "distribute"
    BY DEF InCall, DerefRets, WriteRets, SendRets
<1>c. ASSUME pc[th] \in CallPcs, pc'[th] \in CallPcs \cup {ret[th]} \cup {"untag", "idle"},
             pc[th] = "closeLoop" => pc'[th] # ret[th],
             pc'[th] \notin {"statusLoop", "closeLoop"} => ret'[th] = ret[th] \/ pc[th] = "closeLoop",
             pc[th] = "closeLoop" => pc'[th] \in {"untag", "idle"} \/ ret'[th] = "closeLoop",
             pc'[th] = "statusLoop" => ret[th] = "statusLoop",
             \A o \in Threads \ {th} : pc'[o] = pc[o] /\ ret'[o] = ret[o] /\ rdr'[o] = rdr[o],
             UNCHANGED snapshot
      PROVE  AdmissionKept
    BY <1>0, <1>c DEF AdmissionKept, InWindow, MainAt, InCall, ReturnOK, DerefRets, WriteRets, SendRets,
        NetDerefRets, NetWriteRets
<1>1. CASE DerefAllSentTimesteps(th) \/ DerefRelocked(th)
    <2>1. AdmissionKept
        BY <1>0, <1>1, <1>c DEF DerefAllSentTimesteps, DerefRelocked, ThreadTypes
    <2>2. CallsKept
        BY <1>0, <1>1, <1>a, <1>b DEF DerefAllSentTimesteps, DerefRelocked, ThreadTypes, CallsKept, InCall
    <2>3. ReadersKept
        BY <1>0, <1>1 DEF DerefAllSentTimesteps, DerefRelocked, ReadersKept
    <2>4. QED
        BY <2>1, <2>2, <2>3, LiveKept
<1>2. CASE PeerFailCloseFinish(th)
    <2>1. AdmissionKept
        BY <1>0, <1>2, <1>c DEF PeerFailCloseFinish, ThreadTypes
    <2>2. CallsKept
        BY <1>0, <1>2, <1>a, <1>b DEF PeerFailCloseFinish, ThreadTypes, CallsKept, InCall, ReturnOK,
            DerefRets, WriteRets, SendRets, NetDerefRets, NetWriteRets
    <2>3. ReadersKept
        BY <1>0, <1>2, <1>a DEF PeerFailCloseFinish, ReadersKept
    <2>4. QED
        BY <2>1, <2>2, <2>3, LiveKept
<1>3. CASE Registered(th) \/ Written(th)
    <2>1. AdmissionKept
        BY <1>0, <1>3, <1>c DEF Registered, Written, ThreadTypes
    <2>2. CallsKept
        BY <1>0, <1>3, <1>a, <1>b DEF Registered, Written, ThreadTypes, CallsKept, InCall, ReturnOK,
            WriteRets, SendRets, NetWriteRets
    <2>3. ReadersKept
        BY <1>0, <1>3 DEF Registered, Written, ReadersKept
    <2>4. QED
        BY <2>1, <2>2, <2>3, LiveKept
<1>4. ASSUME NEW ok \in BOOLEAN, CMwrite(th, ok)
      PROVE  LiveInv'
    <2>1. AdmissionKept
        BY <1>0, <1>4, <1>c DEF CMwrite, ThreadTypes
    <2>2. CallsKept
        BY <1>0, <1>4, <1>a, <1>b DEF CMwrite, ThreadTypes, CallsKept, InCall
    <2>3. ReadersKept
        BY <1>0, <1>4 DEF CMwrite, ReadersKept
    <2>4. QED
        BY <2>1, <2>2, <2>3, LiveKept
<1>5. CASE WriteFailed(th)
    <2>1. /\ rdr[th] \in Cohorts /\ peer[rdr[th]] \in Left /\ pc[th] = "failed"
          /\ StatusEffect(th, rdr[th], "PeerFailed", ret[th])
        BY <1>5, <1>a, PeerFailCloseStatus DEF WriteFailed, TypeInv
    <2>2. AdmissionKept
        BY <1>0, <1>5, <1>c, <2>1 DEF WriteFailed, StatusEffect, ThreadTypes
    <2>3. CallsKept
        BY <1>0, <1>5, <1>b, <2>1 DEF WriteFailed, StatusEffect, ThreadTypes, CallsKept, InCall, ReturnOK,
            WriteRets, SendRets, NetWriteRets
    <2>4. ReadersKept
        BY <1>0, <1>5, <2>1 DEF WriteFailed, StatusEffect, ReadersKept, ReaderTypes, Departed
    <2>5. QED
        BY <2>2, <2>3, <2>4, LiveKept
<1>6. CASE SendCloseMsgs(th)
    <2>1. /\ Readers \in Seq(Cohorts) /\ idx[th] \in Int /\ idx[th] >= 1 /\ pc[th] = "closeLoop"
        BY <1>0, <1>6 DEF SendCloseMsgs, TypeInv, TypeOK, StreamTypes, ThreadTypes, Positioned, MainAt
    <2>2. PICK i \in 1 .. Len(Readers) : WriteToReader(th, i, "closeLoop") /\ Readers[i] \in SendableReaders
        BY <1>6, <2>1, NextReaderIsReader DEF SendCloseMsgs
    <2>3. Readers[i] \in Cohorts /\ peer[Readers[i]] \in {"live"} \cup Left
        BY <2>2 DEF SendableReaders, Sendable, LiveInv, Peers
    <2>4. AdmissionKept
        BY <1>0, <2>1, <2>2 DEF WriteToReader, ThreadTypes, AdmissionKept, InWindow, MainAt, InCall
    <2>5. CallsKept
        BY <1>0, <2>1, <2>2, <2>3 DEF WriteToReader, ThreadTypes, CallsKept, InCall
    <2>6. ReadersKept
        BY <2>2 DEF WriteToReader, ReadersKept
    <2>7. QED
        BY <2>4, <2>5, <2>6, LiveKept
<1>7. CASE SendCloseMsgsDone(th)
    <2>1. AdmissionKept
        BY <1>0, <1>7 DEF SendCloseMsgsDone, ThreadTypes, AdmissionKept, InWindow, MainAt, InCall
    <2>2. CallsKept
        BY <1>0, <1>7 DEF SendCloseMsgsDone, ThreadTypes, CallsKept, InCall
    <2>3. ReadersKept
        BY <1>7 DEF SendCloseMsgsDone, ReadersKept
    <2>4. QED
        BY <2>1, <2>2, <2>3, LiveKept
<1>8. QED
    BY <1>1, <1>2, <1>3, <1>4, <1>5, <1>6, <1>7 DEF Shared

(* So do main's steps outside of its sends and its calls. *)
LEMMA QuietMainLive ==
    ASSUME TypeInv, RefInv, LiveInv, QuietMain
    PROVE  LiveInv'
<1> USE DEF Threads, CallPcs, GivingUp, markVars, queueVars, openVars, stepVars, distVars,
            closeVars, streamVars, listVars, linkVars, readerVars, callVars, localVars,
            peerVars, dataVars, Goto
<1>0. ThreadTypes /\ ReaderTypes /\ ReturnOK
    BY DEF TypeInv, TypeOK
<1>a. \A r \in Cohorts : ReaderStatus[r] = "Opening" => pc["main"] = "awaitReader" /\ rdr["main"] = r
    BY DEF LiveInv, Peers
<1>1. CASE \/ SstWriterOpenRendezvous \/ waitForReaderResponse \/ StrayUnlock \/ SendQueuedDone
           \/ ProcessReaderStatusListBegin \/ ProcessReaderStatusListDone \/ DeliverBegin
           \/ HandlePendingReaders \/ UntagPreciousTimesteps \/ SstWriterClose
    <2> USE DEF SstWriterOpenRendezvous, waitForReaderResponse, StrayUnlock, SendQueuedDone,
            ProcessReaderStatusListBegin, ProcessReaderStatusListDone, DeliverBegin,
            HandlePendingReaders, UntagPreciousTimesteps, SstWriterClose, ReaderAdmitted
    <2>1. AdmissionKept
        BY <1>0, <1>1 DEF ThreadTypes, AdmissionKept, InWindow, MainAt, InCall
    <2>2. CallsKept
        BY <1>0, <1>1 DEF ThreadTypes, CallsKept, InCall
    <2>3. CASE ~SstWriterOpenRendezvous
        <3>1. ReadersKept
            BY <1>1, <2>3 DEF ReadersKept
        <3>2. QED
            BY <2>1, <2>2, <3>1, LiveKept
    <2>4. CASE SstWriterOpenRendezvous
        <3>1. CASE UNCHANGED Status
            <4>1. ReadersKept
                BY <2>4, <3>1 DEF ReadersKept
            <4>2. QED
                BY <2>1, <2>2, <4>1, LiveKept
        <3>2. CASE Status' = "Established"
            <4>1. Status # "Destroyed" /\ Status' # "Destroyed"
                BY <2>4, <3>2 DEF TypeInv, Admissions
            <4>2. \A r : InReaders(r)' = InReaders(r) /\ InQueue(r)' = InQueue(r)
                BY <2>4 DEF InReaders, InQueue
            <4>3. Peers'
                BY <1>0, <1>a, <2>4, <4>1, <4>2 DEF LiveInv, Peers
            <4>4. Snapshots' /\ Calls'
                BY <2>1, <2>2, <2>4, <4>2 DEF LiveInv, Snapshots, Calls, AdmissionKept, CallsKept,
                    InCall
            <4>5. QED
                BY <4>3, <4>4 DEF LiveInv
        <3>3. QED
            BY <2>4, <3>1, <3>2
    <2>5. QED
        BY <2>3, <2>4
<1>2. CASE DecideTimestep \/ BlockedOnQueueFull
    <2>0. /\ UNCHANGED <<Status, Readers, ReaderRegisterQueue, peer, ReaderStatus, CMconn, Delayed, rdr, ret>>
          /\ pc["main"] \in {"decide", "blocked"}
        BY <1>2 DEF DecideTimestep, BlockedOnQueueFull
    <2>1. /\ UNCHANGED <<Status, Readers, ReaderRegisterQueue, peer, ReaderStatus, CMconn, Delayed, rdr, ret>>
          /\ pc["main"] \in {"decide", "blocked"}
          /\ \/ pc' = [pc EXCEPT !["main"] = "blocked"]
             \/ pc' = pc
             \/ pc' = [pc EXCEPT !["main"] = "distribute"] /\ snapshot' = ReaderStatus
        <3>1. CASE DecideTimestep
            BY <2>0, <3>1 DEF DecideTimestep, TakeSnapshot
        <3>2. CASE BlockedOnQueueFull
            BY <2>0, <3>2 DEF BlockedOnQueueFull, TakeSnapshot
        <3>3. QED
            BY <1>2, <3>1, <3>2
    <2>2. \A r : InReaders(r)' = InReaders(r) /\ InQueue(r)' = InQueue(r)
        BY <2>1 DEF InReaders, InQueue
    <2>3. Peers'
        BY <1>0, <1>a, <2>1, <2>2 DEF LiveInv, Peers
    <2>4. Calls'
        BY <1>0, <2>1 DEF LiveInv, Calls, InCall, ThreadTypes
    <2>5. Snapshots'
        <3>1. \A r \in Cohorts : ReaderStatus[r] # "Opening"
            BY <1>a, <2>1
        <3>2. InWindow' => snapshot' = ReaderStatus
            BY <1>0, <2>1 DEF InWindow, MainAt, InCall, ThreadTypes
        <3>3. Status # "Destroyed"
            BY <2>1 DEF TypeInv, Admissions
        <3>4. QED
            BY <2>1, <2>2, <3>1, <3>2, <3>3 DEF LiveInv, Peers, Snapshots, Left
    <2>6. QED
        BY <2>3, <2>4, <2>5 DEF LiveInv
<1>3. CASE ProcessReaderStatusList
    <2> DEFINE i == NextReader("main", StatusDiffers)
               r == Readers[i]
    <2>1. i \in 1 .. Len(Readers) /\ r \in Cohorts /\ r \in StatusDiffers
        BY <1>0, <1>3, NextReaderIsReader
        DEF ProcessReaderStatusList, TypeInv, TypeOK, StreamTypes, ThreadTypes, Positioned, MainAt
    <2>2. InReaders(r) /\ InWindow /\ pc["main"] = "statusLoop"
        BY <1>3, <2>1 DEF InReaders, ProcessReaderStatusList, InWindow
    <2>3. StatusEffect("main", r, snapshot[r], "statusLoop")
        BY <1>3, <2>1, PeerFailCloseStatus DEF ProcessReaderStatusList, TypeInv
    <2>4. /\ UNCHANGED <<Status, Readers, ReaderRegisterQueue, peer, CMconn, Delayed, snapshot>>
        BY <1>3 DEF ProcessReaderStatusList
    <2> HIDE DEF r
    <2>5. \A s : InReaders(s)' = InReaders(s) /\ InQueue(s)' = InQueue(s)
        BY <2>4 DEF InReaders, InQueue
    <2>6. Status # "Destroyed" /\ \A s \in Cohorts : ReaderStatus[s] # "Opening"
        BY <1>a, <2>2 DEF TypeInv, Admissions
    <2>7. /\ snapshot[r] # "Opening" /\ snapshot[r] # "NotOpen" /\ snapshot[r] \in Statuses
          /\ peer[r] = "live" => snapshot[r] = "Established"
          /\ snapshot[r] \in Departed => peer[r] \in Left
        BY <1>0, <2>1, <2>2 DEF LiveInv, Snapshots, ThreadTypes
    <2>8. ReaderStatus[r] # "NotOpen"
        BY <2>1, <2>2 DEF LiveInv, Peers
    <2>9. peer[r] \in {"live"} \cup Left
        BY <1>0, <2>1, <2>6, <2>8 DEF LiveInv, Peers, ReaderTypes, Statuses, Departed
    <2>10. Peers'
        <3> SUFFICES ASSUME NEW s \in Cohorts
            PROVE  /\ peer[s] = "live" => ReaderStatus'[s] = "Established"
                   /\ peer[s] = "live" /\ Status # "Destroyed" => s \in CMconn /\ InReaders(s)
                   /\ peer[s] = "registered" => InQueue(s) \/ ReaderStatus'[s] = "Opening"
                   /\ ReaderStatus'[s] # "Opening"
                   /\ ReaderStatus'[s] = "Established" => peer[s] \in {"live"} \cup Left
                   /\ ReaderStatus'[s] \in Departed => peer[s] \in Left
                   /\ InReaders(s) => ReaderStatus'[s] # "NotOpen"
                   /\ s \in Delayed => peer[s] \in Left
            BY <2>4, <2>5 DEF Peers
        <3>1. CASE s # r
            BY <2>1, <2>3, <2>6, <3>1 DEF StatusEffect, LiveInv, Peers
        <3>2. CASE s = r
            BY <2>1, <2>3, <2>6, <2>7, <2>8, <2>9, <3>2 DEF StatusEffect, LiveInv, Peers, Left
        <3>3. QED
            BY <3>1, <3>2
    <2>11. Snapshots'
        BY <2>2, <2>4, <2>5 DEF LiveInv, Snapshots
    <2>12. Calls'
        <3>1. InCall("main")' => rdr'["main"] = r /\ snapshot[r] \in Departed
            BY <1>0, <2>3 DEF StatusEffect, InCall, ThreadTypes
        <3>2. pc'["net"] = pc["net"] /\ rdr'["net"] = rdr["net"]
            BY <1>0, <2>3 DEF StatusEffect, ThreadTypes
        <3>3. QED
            BY <2>4, <2>7, <3>1, <3>2 DEF LiveInv, Calls, InCall
    <2>13. QED
        BY <2>10, <2>11, <2>12 DEF LiveInv
<1>4. CASE SendDiscarded
    <2>1. /\ Readers \in Seq(Cohorts) /\ idx["main"] \in Int /\ idx["main"] >= 1
        BY <1>0, <1>4 DEF SendDiscarded, TypeInv, TypeOK, StreamTypes, ThreadTypes, Positioned, MainAt
    <2>2. PICK i \in 1 .. Len(Readers) : WriteToReader("main", i, "discardLoop") /\ Readers[i] \in SendableReaders
        BY <1>4, <2>1, NextReaderIsReader DEF SendDiscarded
    <2>3. Readers[i] \in Cohorts /\ peer[Readers[i]] \in {"live"} \cup Left
        BY <2>2 DEF SendableReaders, Sendable, LiveInv, Peers
    <2>4. AdmissionKept
        BY <1>0, <1>4, <2>2 DEF SendDiscarded, WriteToReader, ThreadTypes, AdmissionKept, InWindow, MainAt, InCall
    <2>5. CallsKept
        BY <1>0, <2>2, <2>3 DEF WriteToReader, ThreadTypes, CallsKept, InCall
    <2>6. ReadersKept
        BY <2>2 DEF WriteToReader, ReadersKept
    <2>7. QED
        BY <2>4, <2>5, <2>6, LiveKept
<1>5. QED
    BY <1>1, <1>2, <1>3, <1>4 DEF QuietMain

(* The sends of main and net *)
LEMMA SendLive ==
    ASSUME TypeInv, LiveInv, NEW th \in Threads, NEW r \in Cohorts, IsEstablished(r),
           NEW t, NEW back \in {"queuedLoop", "sendLoop", "requestSent"},
           SendTimestepEntryToSingleReader(th, r, t, back),
           th = "main" => pc["main"] \in {"queuedLoop", "sendLoop"}
    PROVE  LiveInv'
<1> USE DEF Threads, CallPcs, GivingUp, openVars, linkVars, localVars, SendTimestepEntryToSingleReader, Goto
<1>0. ThreadTypes
    BY DEF TypeInv, TypeOK
<1>1. peer[r] \in {"live"} \cup Left
    BY DEF IsEstablished, LiveInv, Peers
<1>2. AdmissionKept
    BY <1>0 DEF ThreadTypes, AdmissionKept, InWindow, MainAt, InCall
<1>3. CallsKept
    BY <1>0, <1>1 DEF ThreadTypes, CallsKept, InCall
<1>4. ReadersKept
    BY DEF ReadersKept
<1>5. QED
    BY <1>2, <1>3, <1>4, LiveKept

(* main's loops send to established readers only. *)
LEMMA SendingLive ==
    ASSUME TypeInv, LiveInv, SendQueued \/ SendToAll \/ SendRoundRobin \/ SendOnDemand
    PROVE  LiveInv'
<1> USE DEF Threads, CallPcs, GivingUp, markVars, queueVars, openVars, stepVars, distVars,
            closeVars, streamVars, listVars, linkVars, readerVars, callVars, localVars,
            peerVars, dataVars, Goto
<1>0. ThreadTypes /\ Positioned /\ Readers \in Seq(Cohorts) /\ StepRequestQueue \in Seq(Cohorts)
      /\ NextRRDistribution \in Nat
    BY DEF TypeInv, TypeOK, StreamTypes
<1>1. CASE SendQueued
    <2>1. QueuedForReader(rdr["main"]) # {} /\ pc["main"] = "queuedLoop"
        BY <1>1 DEF SendQueued
    <2>2. IsEstablished(rdr["main"])
        BY <2>1 DEF QueuedForReader, IsEstablished
    <2>3. QED
        BY <1>0, <1>1, <2>1, <2>2, SendLive DEF SendQueued, Positioned
<1>2. CASE SendToAll
    <2> DEFINE i == NextReader("main", EstablishedReaders)
    <2>1. Readers[i] \in EstablishedReaders
        BY <1>0, <1>2, NextReaderIsReader DEF SendToAll, Positioned, MainAt, ThreadTypes
    <2>2. QED
        BY <1>2, <2>1, SendLive DEF SendToAll, EstablishedReaders
<1>3. CASE SendRoundRobin
    <2> DEFINE r == Readers[NextInTurn + 1]
    <2>1. r \in Cohorts
        <3>1. Len(Readers) \in Nat \ {0}
            BY <1>0, <1>3 DEF SendRoundRobin, RoundRobinDue
        <3>2. NextInTurn + 1 \in 1 .. Len(Readers)
            BY <1>0, <3>1 DEF NextInTurn
        <3>3. QED
            BY <1>0, <3>2
    <2>2. CASE IsEstablished(r)
        BY <1>3, <2>1, <2>2, SendLive DEF SendRoundRobin
    <2>3. CASE ~IsEstablished(r)
        <3>1. AdmissionKept
            BY <1>3, <2>3 DEF SendRoundRobin, AdmissionKept, InWindow, MainAt, InCall
        <3>2. CallsKept
            BY <1>3, <2>3 DEF SendRoundRobin, CallsKept, InCall
        <3>3. ReadersKept
            BY <1>3, <2>3 DEF SendRoundRobin, ReadersKept
        <3>4. QED
            BY <3>1, <3>2, <3>3, LiveKept
    <2>4. QED
        BY <2>2, <2>3
<1>4. CASE SendOnDemand
    <2> DEFINE r == Head(StepRequestQueue)
    <2>1. r \in Cohorts
        BY <1>0, <1>4 DEF SendOnDemand, RequestDue
    <2>2. CASE IsEstablished(r)
        BY <1>4, <2>1, <2>2, SendLive DEF SendOnDemand
    <2>3. CASE ~IsEstablished(r)
        <3>1. AdmissionKept
            BY <1>4, <2>3 DEF SendOnDemand, AdmissionKept, InWindow, MainAt, InCall
        <3>2. CallsKept
            BY <1>4, <2>3 DEF SendOnDemand, CallsKept, InCall
        <3>3. ReadersKept
            BY <1>4, <2>3 DEF SendOnDemand, ReadersKept
        <3>4. QED
            BY <3>1, <3>2, <3>3, LiveKept
    <2>4. QED
        BY <2>2, <2>3
<1>5. QED
    BY <1>1, <1>2, <1>3, <1>4

(* Admitting a reader, providing a step and destroying the stream keep it. *)
LEMMA OtherMainLive ==
    ASSUME TypeInv, RefInv, LiveInv,
           \/ ProvideTimestep \/ ProvideTimestepSent \/ ProvideTimestepDiscarded
           \/ WriterParticipateInReaderOpen \/ WriterCloseDrain \/ SstStreamDestroy
    PROVE  LiveInv'
<1> USE DEF Threads, CallPcs, GivingUp, markVars, queueVars, openVars, stepVars, distVars,
            closeVars, streamVars, listVars, linkVars, readerVars, callVars, localVars,
            peerVars, dataVars, Goto
<1>0. ThreadTypes /\ ReaderTypes
    BY DEF TypeInv, TypeOK
<1>1. CASE ProvideTimestep \/ ProvideTimestepSent \/ ProvideTimestepDiscarded \/ WriterCloseDrain
    <2> USE DEF ProvideTimestep, ProvideTimestepSent, ProvideTimestepDiscarded, WriterCloseDrain
    <2>1. AdmissionKept
        BY <1>0, <1>1 DEF ThreadTypes, AdmissionKept, InWindow, MainAt, InCall
    <2>2. CallsKept
        BY <1>0, <1>1 DEF ThreadTypes, CallsKept, InCall
    <2>3. ReadersKept
        BY <1>1 DEF ReadersKept
    <2>4. QED
        BY <2>1, <2>2, <2>3, LiveKept
<1>2. CASE SstStreamDestroy
    <2>1. /\ UNCHANGED <<ReaderRegisterQueue, peer, ReaderStatus, Delayed, rdr, snapshot>>
          /\ Status' = "Destroyed" /\ Readers' = <<>> /\ pc["main"] = "closed"
          /\ pc' = [pc EXCEPT !["main"] = "destroyed"]
        BY <1>2 DEF SstStreamDestroy
    <2>2. \A s : ~InReaders(s)' /\ InQueue(s)' = InQueue(s)
        BY <2>1 DEF InReaders, InQueue
    <2>3. Peers'
        BY <2>1, <2>2 DEF LiveInv, Peers
    <2>4. Calls'
        BY <1>0, <2>1 DEF LiveInv, Calls, InCall, ThreadTypes
    <2>5. Snapshots'
        BY <1>0, <2>1 DEF Snapshots, InWindow, MainAt, InCall, ThreadTypes
    <2>6. QED
        BY <2>3, <2>4, <2>5 DEF LiveInv
<1>3. CASE WriterParticipateInReaderOpen
    <2>1. /\ ReaderRegisterQueue \in Seq(Cohorts) /\ Readers \in Seq(Cohorts)
          /\ ReaderRegisterQueue # <<>> /\ pc["main"] = "participate"
        BY <1>3 DEF TypeInv, TypeOK, StreamTypes, Admissions, WriterParticipateInReaderOpen
    <2>2. Len(ReaderRegisterQueue) \in Nat \ {0}
        BY <2>1
    <2>r. PICK r \in Cohorts : r = Head(ReaderRegisterQueue)
        BY <2>1
    <2>3. /\ r = ReaderRegisterQueue[1] /\ r \in Cohorts
          /\ Len(ReaderRegisterQueue') = Len(ReaderRegisterQueue) - 1
          /\ \A i \in 1 .. Len(ReaderRegisterQueue') : ReaderRegisterQueue'[i] = ReaderRegisterQueue[i + 1]
        BY <2>1, <2>2, <2>r, <1>3 DEF WriterParticipateInReaderOpen
    <2>4. InQueue(r)
        BY <2>2, <2>3 DEF InQueue
    <2>5. /\ Len(Readers') = Len(Readers) + 1 /\ Readers'[Len(Readers) + 1] = r
          /\ \A i \in 1 .. Len(Readers) : Readers'[i] = Readers[i]
        BY <1>3, <2>1, <2>r DEF WriterParticipateInReaderOpen
    <2>6. /\ UNCHANGED <<Status, peer, snapshot, Delayed>>
          /\ ReaderStatus' = [ReaderStatus EXCEPT ![r] = "Opening"]
          /\ CMconn' = CMconn \cup {r}
          /\ pc' = [pc EXCEPT !["main"] = "awaitReader"]
          /\ rdr' = [rdr EXCEPT !["main"] = r]
        BY <1>3, <2>r DEF WriterParticipateInReaderOpen
    <2>7. \A s \in Cohorts : InReaders(s) => InReaders(s)'
        BY <2>1, <2>5 DEF InReaders
    <2>8. InReaders(r)'
        <3>1. Len(Readers) + 1 \in 1 .. Len(Readers')
            BY <2>1, <2>5
        <3>2. QED
            BY <2>5, <3>1 DEF InReaders
    <2>9. \A s \in Cohorts : InReaders(s)' => s = r \/ InReaders(s)
        BY <2>1, <2>5 DEF InReaders
    <2>10. \A s \in Cohorts : InQueue(s) => s = r \/ InQueue(s)'
        <3> SUFFICES ASSUME NEW s \in Cohorts, NEW i \in 1 .. Len(ReaderRegisterQueue),
                            ReaderRegisterQueue[i] = s, s # r
                     PROVE  InQueue(s)'
            BY DEF InQueue
        <3>1. i # 1
            BY <2>3
        <3>2. i - 1 \in 1 .. Len(ReaderRegisterQueue')
            BY <2>2, <2>3, <3>1
        <3>3. ReaderRegisterQueue'[i - 1] = s
            BY <2>3, <3>2
        <3>4. QED
            BY <3>2, <3>3 DEF InQueue
    <2>11. peer[r] \in {"registered", "crashed"} /\ r \notin Delayed
        BY <2>3, <2>4 DEF RefInv, Admitted, ListedOnce, Unknown, NewReader
    <2>12. \A s \in Cohorts : ReaderStatus[s] # "Opening"
        BY <2>1 DEF LiveInv, Peers
    <2>13. Peers'
        <3> SUFFICES ASSUME NEW s \in Cohorts
            PROVE  /\ peer[s] = "live" => ReaderStatus'[s] = "Established"
                   /\ peer[s] = "live" /\ Status # "Destroyed" => s \in CMconn' /\ InReaders(s)'
                   /\ peer[s] = "registered" => InQueue(s)' \/ ReaderStatus'[s] = "Opening"
                   /\ ReaderStatus'[s] = "Opening" =>
                          /\ s = r /\ InReaders(s)' /\ peer[s] \in {"registered"} \cup Left
                          /\ peer[s] = "registered" => s \in CMconn'
                   /\ ReaderStatus'[s] = "Established" => peer[s] \in {"live"} \cup Left
                   /\ ReaderStatus'[s] \in Departed => peer[s] \in Left
                   /\ InReaders(s)' => ReaderStatus'[s] # "NotOpen"
                   /\ s \in Delayed => peer[s] \in Left
            BY <1>0, <2>6 DEF Peers, ThreadTypes
        <3>1. CASE s # r
            BY <1>0, <2>6, <2>7, <2>9, <2>10, <2>12, <3>1 DEF LiveInv, Peers, ReaderTypes
        <3>2. CASE s = r
            <4>1. ReaderStatus'[r] = "Opening" /\ r \in CMconn' /\ InReaders(r)'
                BY <1>0, <2>3, <2>6, <2>8 DEF ReaderTypes
            <4>2. QED
                BY <2>11, <3>2, <4>1 DEF Left, Departed
        <3>3. QED
            BY <3>1, <3>2
    <2>14. Calls'
        BY <1>0, <2>6 DEF LiveInv, Calls, InCall, ThreadTypes
    <2>15. Snapshots'
        BY <1>0, <2>6 DEF Snapshots, InWindow, MainAt, InCall, ThreadTypes
    <2>16. QED
        BY <2>13, <2>14, <2>15 DEF LiveInv
<1>4. QED
    BY <1>1, <1>2, <1>3

(* A reader that has left is given up by net. *)
LEMMA GiveUpLive ==
    ASSUME TypeInv, LiveInv, NEW r \in Cohorts, NEW new \in Departed, NEW back \in {"handlerDone", "connCloseDone"},
           PeerFailCloseWSReader("net", r, new, back),
           UNCHANGED <<Readers, ReaderRegisterQueue, Status, CMconn, snapshot>>,
           \A s \in Cohorts : s \in Delayed' => s \in Delayed,
           peer' = peer \/ (peer[r] \in {"registered", "live"} \cup Left
                            /\ \E p \in Left : peer' = [peer EXCEPT ![r] = p]),
           peer'[r] \in Left
    PROVE  LiveInv'
<1>0. ThreadTypes /\ PeerTypes
    BY DEF TypeInv, TypeOK
<1>1. StatusEffect("net", r, new, back)
    BY PeerFailCloseStatus DEF TypeInv, Threads
<1>2. AdmissionKept
    BY <1>0, <1>1 DEF StatusEffect, ThreadTypes, AdmissionKept, InWindow, MainAt, InCall, Threads
<1>3. CallsKept
    BY <1>0, <1>1 DEF StatusEffect, ThreadTypes, CallsKept, InCall, Threads, GivingUp, CallPcs
<1>4. ReadersKept
    BY <1>0, <1>1 DEF StatusEffect, ReadersKept, PeerTypes
<1>5. QED
    BY <1>2, <1>3, <1>4, LiveKept

(* net's handlers keep it from their first statement to their last. *)
LEMMA NetLive ==
    ASSUME TypeInv, RefInv, LiveInv, NetInHandler
    PROVE  LiveInv'
<1> USE DEF Threads, CallPcs, GivingUp, markVars, queueVars, openVars, stepVars, distVars,
            closeVars, streamVars, listVars, linkVars, readerVars, callVars, localVars,
            peerVars, dataVars, Goto
<1>0. ThreadTypes /\ ReaderTypes
    BY DEF TypeInv, TypeOK
<1>1. CASE Shared("net")
    BY <1>1, SharedLive
<1>2. CASE ConnCloseDone \/ ReleaseDone \/ HandlerDone \/ RequestSent \/ ReleaseRelocked
    <2> USE DEF ConnCloseDone, ReleaseDone, HandlerDone, RequestSent, ReleaseRelocked
    <2>1. AdmissionKept
        BY <1>0, <1>2 DEF ThreadTypes, AdmissionKept, InWindow, MainAt, InCall
    <2>2. CallsKept
        BY <1>0, <1>2 DEF ThreadTypes, CallsKept, InCall
    <2>3. ReadersKept
        BY <1>2 DEF ReadersKept
    <2>4. QED
        BY <2>1, <2>2, <2>3, LiveKept
<1>3. ASSUME NEW r \in Cohorts, CloseWSRStream(r)
      PROVE  LiveInv'
    <2>1. peer[r] \in Left
        BY <1>3 DEF CloseWSRStream, LiveInv, Peers
    <2>2. UNCHANGED peer /\ PeerFailCloseWSReader("net", r, "PeerClosed", "handlerDone")
          /\ UNCHANGED <<Readers, ReaderRegisterQueue, Status, CMconn, snapshot>>
          /\ \A s \in Cohorts : s \in Delayed' => s \in Delayed
        BY <1>3 DEF CloseWSRStream, HandlerFrame
    <2>3. QED
        BY <2>1, <2>2, GiveUpLive DEF Departed
<1>4. QED
    BY <1>1, <1>2, <1>3 DEF NetInHandler

(* What readers do, and the handlers that run in one step, keep it. *)
LEMMA EnvironmentLive ==
    ASSUME TypeInv, RefInv, LiveInv, Environment
    PROVE  LiveInv'
<1> USE DEF Threads, CallPcs, GivingUp, markVars, queueVars, openVars, stepVars, distVars,
            closeVars, streamVars, listVars, linkVars, readerVars, callVars, localVars,
            peerVars, dataVars, Goto
<1>0. ThreadTypes /\ ReaderTypes /\ PeerTypes /\ ReaderRegisterQueue \in Seq(Cohorts)
    BY DEF TypeInv, TypeOK, StreamTypes
<1>1. ASSUME NEW r \in Cohorts, ReaderRegisters(r)
      PROVE  LiveInv'
    <2>1. /\ UNCHANGED <<Status, Readers, ReaderStatus, snapshot, Delayed, CMconn, pc, ret, rdr>>
          /\ peer[r] = "absent" /\ peer' = [peer EXCEPT ![r] = "registered"]
          /\ ReaderRegisterQueue' = Append(ReaderRegisterQueue, r)
        BY <1>1 DEF ReaderRegisters, queueReaderRegisterMsgAndNotify
    <2>2. /\ Len(ReaderRegisterQueue') = Len(ReaderRegisterQueue) + 1
          /\ ReaderRegisterQueue'[Len(ReaderRegisterQueue) + 1] = r
          /\ \A i \in 1 .. Len(ReaderRegisterQueue) : ReaderRegisterQueue'[i] = ReaderRegisterQueue[i]
        BY <1>0, <2>1
    <2>3. /\ InQueue(r)'
          /\ \A s \in Cohorts : InQueue(s) => InQueue(s)'
        BY <1>0, <2>2 DEF InQueue
    <2>4. \A s : InReaders(s)' = InReaders(s)
        BY <2>1 DEF InReaders
    <2>5. ReaderStatus[r] = "NotOpen" /\ ~InReaders(r) /\ r \notin Delayed /\ snapshot[r] = "NotOpen"
          /\ \A th \in Threads : InCall(th) => rdr[th] # r
        BY <2>1 DEF RefInv, Admitted, Unknown, NewReader
    <2>6. \A s \in Cohorts \ {r} : peer'[s] = peer[s]
        BY <1>0, <2>1
    <2>7. Peers'
        BY <1>0, <2>1, <2>3, <2>4, <2>5, <2>6 DEF LiveInv, Peers, PeerTypes, Departed
    <2>8. Snapshots'
        BY <1>0, <2>1, <2>4, <2>5, <2>6 DEF LiveInv, Snapshots, InWindow, MainAt, InCall, PeerTypes, Departed
    <2>9. Calls'
        BY <2>1, <2>5, <2>6 DEF LiveInv, Calls, InCall, TypeInv, Positioned
    <2>10. QED
        BY <2>7, <2>8, <2>9 DEF LiveInv
<1>2. ASSUME NEW r \in Cohorts, ReaderActivates(r)
      PROVE  LiveInv'
    <2>1. /\ UNCHANGED <<Status, Readers, ReaderRegisterQueue, snapshot, Delayed, CMconn, pc, ret, rdr>>
          /\ ReaderStatus[r] = "Opening" /\ ReaderStatus' = [ReaderStatus EXCEPT ![r] = "Established"]
          /\ peer[r] = "registered" /\ peer' = [peer EXCEPT ![r] = "live"]
        BY <1>2 DEF ReaderActivates, CP_ReaderActivateHandler
    <2>2. pc["main"] = "awaitReader" /\ InReaders(r)
        BY <2>1 DEF LiveInv, Peers
    <2>3. \A s : InReaders(s)' = InReaders(s) /\ InQueue(s)' = InQueue(s)
        BY <2>1 DEF InReaders, InQueue
    <2>4. \A s \in Cohorts \ {r} : peer'[s] = peer[s] /\ ReaderStatus'[s] = ReaderStatus[s]
        BY <1>0, <2>1
    <2>5. peer'[r] = "live" /\ ReaderStatus'[r] = "Established"
        BY <1>0, <2>1 DEF PeerTypes, ReaderTypes
    <2>6. r \in CMconn /\ r \notin Delayed
        BY <2>1 DEF LiveInv, Peers, Left
    <2>7. Peers'
        BY <2>1, <2>2, <2>3, <2>4, <2>5, <2>6 DEF LiveInv, Peers, Departed
    <2>8. Snapshots'
        BY <2>1, <2>2 DEF Snapshots, InWindow, MainAt, InCall
    <2>9. Calls'
        BY <2>1, <2>4, <2>5 DEF LiveInv, Calls, InCall, TypeInv, Positioned, Left
    <2>10. QED
        BY <2>7, <2>8, <2>9 DEF LiveInv
<1>3. ASSUME NEW r \in Cohorts, NEW t \in Steps, ReaderReleases(r, t)
      PROVE  LiveInv'
    <2> USE DEF ReaderReleases, CP_ReleaseTimestepHandler
    <2>1. AdmissionKept
        BY <1>0, <1>3 DEF ThreadTypes, AdmissionKept, InWindow, MainAt, InCall
    <2>2. CallsKept
        BY <1>0, <1>3 DEF ThreadTypes, CallsKept, InCall
    <2>3. ReadersKept
        BY <1>3 DEF ReadersKept
    <2>4. QED
        BY <2>1, <2>2, <2>3, LiveKept
<1>4. ASSUME NEW r \in Cohorts, ReaderRequests(r)
      PROVE  LiveInv'
    <2> USE DEF ReaderRequests, CP_ReaderRequestStepHandler
    <2>1. CASE \E t \in NextOnDemand : SendTimestepEntryToSingleReader("net", r, t, "requestSent")
                    /\ IsEstablished(r)
        BY <2>1, SendLive
    <2>2. CASE UNCHANGED <<queueVars, readerVars, pc, callVars, Readers, ReaderRegisterQueue, openVars, peer, localVars>>
        <3>1. AdmissionKept
            BY <2>2 DEF AdmissionKept, InWindow, MainAt, InCall
        <3>2. CallsKept
            BY <2>2 DEF CallsKept, InCall
        <3>3. ReadersKept
            BY <2>2 DEF ReadersKept
        <3>4. QED
            BY <3>1, <3>2, <3>3, LiveKept
    <2>3. QED
        BY <1>4, <2>1, <2>2
<1>5. ASSUME NEW r \in Cohorts, ReaderCloses(r)
      PROVE  LiveInv'
    <2>1. /\ peer[r] = "live" /\ peer' = [peer EXCEPT ![r] = "closed"] /\ peer'[r] = "closed"
          /\ CP_ReaderCloseHandler(r)
        BY <1>0, <1>5 DEF ReaderCloses, PeerTypes
    <2>2. CASE Status = "Established"
        <3>1. PeerFailCloseWSReader("net", r, "PeerClosed", "handlerDone")
              /\ UNCHANGED <<Readers, ReaderRegisterQueue, Status, CMconn, snapshot, Delayed>>
            BY <2>1, <2>2 DEF CP_ReaderCloseHandler, HandlerFrame
        <3>2. QED
            BY <2>1, <3>1, GiveUpLive DEF Departed, Left
    <2>3. CASE Status # "Established"
        <3>1. AdmissionKept
            BY <2>1, <2>3 DEF CP_ReaderCloseHandler, AdmissionKept, InWindow, MainAt, InCall
        <3>2. CallsKept
            BY <2>1, <2>3 DEF CP_ReaderCloseHandler, CallsKept, InCall
        <3>3. ReadersKept
            BY <1>0, <2>1, <2>3 DEF CP_ReaderCloseHandler, ReadersKept, PeerTypes, Left
        <3>4. QED
            BY <3>1, <3>2, <3>3, LiveKept
    <2>4. QED
        BY <2>2, <2>3
<1>6. ASSUME NEW r \in Cohorts, ReaderCrashes(r)
      PROVE  LiveInv'
    <2> USE DEF ReaderCrashes
    <2>1. AdmissionKept
        BY <1>6 DEF AdmissionKept, InWindow, MainAt, InCall
    <2>2. CallsKept
        BY <1>6 DEF CallsKept, InCall
    <2>3. ReadersKept
        BY <1>0, <1>6 DEF ReadersKept, PeerTypes, Left
    <2>4. QED
        BY <2>1, <2>2, <2>3, LiveKept
<1>7. ASSUME NEW r \in Cohorts, ConnectionCloses(r)
      PROVE  LiveInv'
    <2>1. /\ peer[r] \in Left /\ peer' = [peer EXCEPT ![r] = "gone"] /\ peer'[r] = "gone"
          /\ WriterConnCloseHandler(r)
        BY <1>0, <1>7 DEF ConnectionCloses, PeerTypes, Left
    <2>2. CASE PeerFailCloseWSReader("net", r, "PeerFailed", "connCloseDone") /\ HandlerFrame
               /\ UNCHANGED Delayed
        <3>1. UNCHANGED <<Readers, ReaderRegisterQueue, Status, CMconn, snapshot, Delayed>>
            BY <2>2 DEF HandlerFrame
        <3>2. QED
            BY <2>1, <2>2, <3>1, GiveUpLive DEF Departed, Left
    <2>3. CASE UNCHANGED <<readerVars, pc, callVars, listVars, openVars, localVars>>
        <3>1. AdmissionKept
            BY <2>3 DEF AdmissionKept, InWindow, MainAt, InCall
        <3>2. CallsKept
            BY <2>3 DEF CallsKept, InCall
        <3>3. ReadersKept
            BY <1>0, <2>1, <2>3 DEF ReadersKept, PeerTypes, Left
        <3>4. QED
            BY <3>1, <3>2, <3>3, LiveKept
    <2>4. QED
        BY <2>1, <2>2, <2>3 DEF WriterConnCloseHandler
<1>8. QED
    BY <1>1, <1>2, <1>3, <1>4, <1>5, <1>6, <1>7 DEF Environment

(* Every step keeps it. *)
LEMMA NextLive ==
    ASSUME TypeInv, RefInv, LiveInv, [Next]_vars
    PROVE  LiveInv'
<1>1. CASE MainInCall
    BY <1>1, SharedLive, QuietMainLive, SendingLive, OtherMainLive DEF MainInCall, QuietMain, Threads
<1>2. CASE MainCalls
    BY <1>2, QuietMainLive, OtherMainLive DEF MainCalls, QuietMain
<1>3. CASE UNCHANGED vars
    <2> USE DEF vars, dataVars, queueVars, markVars, streamVars, openVars, stepVars, distVars,
                closeVars, listVars, readerVars, linkVars, callVars, localVars, peerVars
    <2>1. AdmissionKept
        BY <1>3 DEF AdmissionKept, InWindow, MainAt, InCall
    <2>2. CallsKept
        BY <1>3 DEF CallsKept, InCall
    <2>3. ReadersKept
        BY <1>3 DEF ReadersKept
    <2>4. QED
        BY <2>1, <2>2, <2>3, LiveKept
<1>4. CASE Terminated
    BY <1>3, <1>4 DEF Terminated
<1>5. QED
    BY <1>1, <1>2, <1>3, <1>4, NetLive, EnvironmentLive DEF Next

(* A live reader is an established one with a connection; one that the      *)
(* writer takes for established is live or has left, and one it gave up has *)
(* left.                                                                    *)
THEOREM LiveInvariance == Spec => []LiveInv
<1>1. Init => LiveInv
    <2>1. Init => Readers = <<>> /\ pc["main"] = "rendezvous" /\ pc["net"] = "idle"
        BY DEF Init, Threads
    <2>2. Init => Peers
        BY <2>1 DEF Init, Peers, InReaders, Departed
    <2>3. Init => Snapshots /\ Calls
        BY <2>1 DEF Snapshots, Calls, InWindow, MainAt, InCall, CallPcs, Threads
    <2>4. QED
        BY <2>2, <2>3 DEF LiveInv
<1>2. TypeInv /\ RefInv /\ LiveInv /\ [Next]_vars => LiveInv'
    BY NextLive
<1>3. QED
    BY <1>1, <1>2, TypeInvariance, RefInvariance, PTL DEF Spec

-----------------------------------------------------------------------------
(* Handing steps out *)

(* A step that a reader has not been sent is handed to it. *)
Handout(th, r, t, back) ==
    /\ r \in Cohorts /\ IsEstablished(r)
    /\ t \in Steps /\ t \in QueuedTimesteps /\ t \notin SentTimestepList[r]
    /\ SendTimestepEntryToSingleReader(th, r, t, back)

(* waitForReaderResponseAndSendQueued hands a new reader the oldest queued *)
(* step it has not come to.                                                *)
LEMMA QueuedHandout ==
    ASSUME TypeInv, RefInv, SendQueued
    PROVE  \E t \in QueuedForReader(rdr["main"]) :
              /\ Handout("main", rdr["main"], t, "queuedLoop")
              /\ \A u \in QueuedForReader(rdr["main"]) : t <= u
              /\ idx["main"] <= t
              /\ idx' = [idx EXCEPT !["main"] = t + 1]
              /\ UNCHANGED <<distVars, StepRequestQueue, requested>>
              /\ StepDistributionMode = "AllToAll" /\ pc["main"] = "queuedLoop"
<1> DEFINE r == rdr["main"]
           t == Min(QueuedForReader(r))
<1>0. ThreadTypes /\ ReaderTypes /\ QueueTypes /\ Positioned
    BY DEF TypeInv, TypeOK
<1>1. r \in Cohorts /\ idx["main"] \in Int /\ StepDistributionMode = "AllToAll"
      /\ \A u \in SentTimestepList[r] : u < idx["main"]
    BY <1>0 DEF SendQueued, Positioned, ThreadTypes, Threads, RefInv, SentOnce, QueuedUnsent,
        MainAt
<1>2. t \in QueuedForReader(r) /\ \A u \in QueuedForReader(r) : t <= u
    <2>1. QueuedForReader(r) # {}
        BY DEF SendQueued
    <2>2. QueuedForReader(r) \in SUBSET Steps
        BY <1>0 DEF QueuedForReader, QueueTypes
    <2>3. QED
        BY <2>1, <2>2, MinInSet DEF Steps
<1>3. t \in QueuedTimesteps /\ IsEstablished(r) /\ idx["main"] <= t /\ t \in Steps /\ t \in Int
    <2>1. t \in QueuedTimesteps /\ IsEstablished(r) /\ idx["main"] <= t
        BY <1>2 DEF QueuedForReader, IsEstablished
    <2>2. t \in Steps
        BY <1>0, <2>1 DEF QueueTypes
    <2>3. \A u \in Steps : u \in Int
        BY DEF Steps
    <2>4. QED
        BY <2>1, <2>2, <2>3
<1>4. SendTimestepEntryToSingleReader("main", r, t, "queuedLoop")
      /\ idx' = [idx EXCEPT !["main"] = t + 1] /\ UNCHANGED <<distVars, StepRequestQueue, requested>>
      /\ pc["main"] = "queuedLoop"
    BY DEF SendQueued
<1>5. t \notin SentTimestepList[r]
    BY <1>1, <1>3
<1> HIDE DEF t
<1>6. QED
    BY <1>1, <1>2, <1>3, <1>4, <1>5 DEF Handout

(* The provided step is handed to a reader at the given place of the list. *)
Provides(r) ==
    /\ Handout("main", r, WriterTimestep, "sendLoop")
    /\ Providing /\ pc["main"] = "sendLoop" /\ idx["main"] \in Nat \ {0}

(* AllToAll hands the provided step to the next established reader of the *)
(* list.                                                                  *)
LEMMA AllHandout ==
    ASSUME TypeInv, RefInv, SendToAll
    PROVE  \E i \in 1 .. Len(Readers) :
              /\ Provides(Readers[i]) /\ i >= idx["main"]
              /\ idx' = [idx EXCEPT !["main"] = i + 1]
              /\ StepDistributionMode = "AllToAll"
              /\ UNCHANGED <<distVars, StepRequestQueue, requested>>
<1> DEFINE i == NextReader("main", EstablishedReaders)
<1>0. ThreadTypes /\ ReaderTypes /\ Readers \in Seq(Cohorts) /\ idx["main"] \in Int
      /\ idx["main"] >= 1
    BY DEF TypeInv, TypeOK, StreamTypes, ThreadTypes, Positioned, MainAt, SendToAll, Threads
<1>1. i \in idx["main"] .. Len(Readers) /\ Readers[i] \in EstablishedReaders
    BY <1>0, NextReaderIsReader DEF SendToAll, Threads
<1>2. i \in 1 .. Len(Readers) /\ Readers[i] \in Cohorts /\ IsEstablished(Readers[i])
      /\ i >= idx["main"]
    BY <1>0, <1>1 DEF EstablishedReaders
<1>3. pc["main"] = "sendLoop" /\ StepDistributionMode = "AllToAll"
      /\ SendTimestepEntryToSingleReader("main", Readers[i], step["main"], "sendLoop")
      /\ idx' = [idx EXCEPT !["main"] = i + 1] /\ UNCHANGED <<distVars, StepRequestQueue, requested>>
    BY DEF SendToAll
<1>4. Providing /\ MainAt("sendLoop")
    BY <1>3 DEF Providing, MainAt
<1>5. WriterTimestep \notin SentTimestepList[Readers[i]]
    BY <1>2, <1>3, <1>4 DEF RefInv, SentOnce, StepUnsent
<1>6. step["main"] = WriterTimestep /\ WriterTimestep \in Steps /\ WriterTimestep \in QueuedTimesteps
    BY <1>4 DEF TypeInv, Serving, RefInv, Counted, ProvidedEntryKept
<1>7. idx["main"] \in Nat \ {0}
    BY <1>0
<1>8. Provides(Readers[i])
    BY <1>2, <1>3, <1>4, <1>5, <1>6, <1>7 DEF Handout, Provides
<1> HIDE DEF i
<1>9. QED
    BY <1>2, <1>3, <1>8

(* RoundRobin hands it to one reader, or to none. *)
LEMMA RoundRobinHandout ==
    ASSUME TypeInv, RefInv, SendRoundRobin
    PROVE  /\ StepDistributionMode = "RoundRobin" /\ pc["main"] = "sendLoop"
           /\ idx["main"] = 1 /\ idx' = [idx EXCEPT !["main"] = 2]
           /\ UNCHANGED <<LastDemandTimestep, StepRequestQueue, requested>>
           /\ \/ \E r \in Cohorts : Provides(r)
              \/ UNCHANGED <<queueVars, openVars, stepVars, ReserveCount, closeVars, listVars,
                             readerVars, pc, callVars, asleep, localVars, peerVars>>
<1> DEFINE r == Readers[NextInTurn + 1]
<1>0. ThreadTypes /\ ReaderTypes /\ Readers \in Seq(Cohorts) /\ NextRRDistribution \in Nat
    BY DEF TypeInv, TypeOK, StreamTypes
<1>1. r \in Cohorts
    <2>1. Len(Readers) \in Nat \ {0}
        BY <1>0 DEF SendRoundRobin, RoundRobinDue
    <2>2. NextInTurn + 1 \in 1 .. Len(Readers)
        BY <1>0, <2>1 DEF NextInTurn
    <2>3. QED
        BY <1>0, <2>2
<1>2. pc["main"] = "sendLoop" /\ StepDistributionMode = "RoundRobin" /\ idx["main"] = 1
      /\ idx' = [idx EXCEPT !["main"] = 2]
    BY DEF SendRoundRobin, RoundRobinDue
<1>3. WriterTimestep \notin SentTimestepList[r]
    BY <1>1, <1>2 DEF RefInv, SentOnce, StepUnsent, MainAt
<1>4. Providing /\ MainAt("sendLoop")
    BY <1>2 DEF Providing, MainAt
<1>6. step["main"] = WriterTimestep /\ WriterTimestep \in Steps /\ WriterTimestep \in QueuedTimesteps
    BY <1>4 DEF TypeInv, Serving, RefInv, Counted, ProvidedEntryKept
<1>7. CASE IsEstablished(r)
    <2>1. SendTimestepEntryToSingleReader("main", r, step["main"], "sendLoop")
          /\ UNCHANGED <<LastDemandTimestep, StepRequestQueue, requested>>
        BY <1>7 DEF SendRoundRobin
    <2>2. QED
        BY <1>1, <1>2, <1>3, <1>4, <1>6, <1>7, <2>1 DEF Handout, Provides
<1>8. CASE ~IsEstablished(r)
    BY <1>2, <1>8 DEF SendRoundRobin, listVars, peerVars
<1>9. QED
    BY <1>7, <1>8

(* OnDemand hands it to the reader whose request is first, or drops that *)
(* request when the reader is not established.                           *)
LEMMA OnDemandHandout ==
    ASSUME TypeInv, RefInv, SendOnDemand
    PROVE  /\ StepDistributionMode = "OnDemand" /\ pc["main"] = "sendLoop" /\ idx["main"] = 1
           /\ StepRequestQueue # <<>> /\ StepRequestQueue' = Tail(StepRequestQueue)
           /\ Head(StepRequestQueue) \in Cohorts
           /\ \/ /\ Provides(Head(StepRequestQueue))
                 /\ LastDemandTimestep' = WriterTimestep
                 /\ idx' = [idx EXCEPT !["main"] = 3]
                 /\ UNCHANGED requested
              \/ /\ ~IsEstablished(Head(StepRequestQueue))
                 /\ UNCHANGED <<queueVars, streamVars, Readers, ReaderRegisterQueue, readerVars, lock,
                             pc, callVars, idx, asleep, localVars, peerVars>>
<1> DEFINE r == Head(StepRequestQueue)
<1>0. ThreadTypes /\ ReaderTypes /\ StepRequestQueue \in Seq(Cohorts)
    BY DEF TypeInv, TypeOK, StreamTypes
<1>1. r \in Cohorts /\ StepRequestQueue # <<>> /\ StepRequestQueue' = Tail(StepRequestQueue)
    BY <1>0 DEF SendOnDemand, RequestDue
<1>2. pc["main"] = "sendLoop" /\ StepDistributionMode = "OnDemand" /\ idx["main"] = 1
    BY DEF SendOnDemand, RequestDue, RefInv, SentOnce, DemandUnsent
<1>3. WriterTimestep \notin SentTimestepList[r]
    BY <1>1, <1>2 DEF RefInv, SentOnce, StepUnsent, MainAt
<1>4. Providing /\ MainAt("sendLoop")
    BY <1>2 DEF Providing, MainAt
<1>6. step["main"] = WriterTimestep /\ WriterTimestep \in Steps /\ WriterTimestep \in QueuedTimesteps
    BY <1>4 DEF TypeInv, Serving, RefInv, Counted, ProvidedEntryKept
<1>7. CASE IsEstablished(r)
    <2>1. /\ SendTimestepEntryToSingleReader("main", r, step["main"], "sendLoop")
          /\ LastDemandTimestep' = step["main"]
          /\ idx' = [idx EXCEPT !["main"] = 3]
          /\ UNCHANGED requested
        BY <1>7 DEF SendOnDemand
    <2>2. Provides(r)
        BY <1>1, <1>2, <1>3, <1>4, <1>6, <1>7, <2>1 DEF Handout, Provides
    <2>3. QED
        BY <1>1, <1>2, <1>6, <2>1, <2>2
<1>8. CASE ~IsEstablished(r)
    BY <1>1, <1>2, <1>8 DEF SendOnDemand
<1>9. QED
    BY <1>7, <1>8

(* A reader's request gets it the step after the last one demanded, when *)
(* that is queued and not in progress; otherwise the request is queued.  *)
LEMMA RequestHandout ==
    ASSUME TypeInv, RefInv, NEW r \in Cohorts, ReaderRequests(r)
    PROVE  /\ StepDistributionMode = "OnDemand" /\ pc["net"] = "idle"
           /\ peer[r] = "live" /\ r \notin requested /\ r \notin gotClose
           /\ requested' = requested \cup {r}
           /\ UNCHANGED <<peer, delivered, received, gotClose, idx>>
           /\ \/ \E t \in NextOnDemand :
                    /\ Handout("net", r, t, "requestSent")
                    /\ t \notin InProgressFlag /\ t = LastDemandTimestep + 1
                    /\ LastDemandTimestep' = t
                    /\ UNCHANGED <<NextRRDistribution, StepRequestQueue>>
              \/ /\ UNCHANGED <<queueVars, streamVars, Readers, ReaderRegisterQueue, readerVars, lock,
                             pc, callVars, asleep, localVars>>
                 /\ StepRequestQueue' \in {StepRequestQueue, Append(StepRequestQueue, r)}
<1>0. ThreadTypes /\ ReaderTypes /\ QueuedTimesteps \subseteq Steps
      /\ LastDemandTimestep \in Steps \cup {-1}
    BY DEF TypeInv, TypeOK, QueueTypes, StreamTypes
<1>1. /\ StepDistributionMode = "OnDemand" /\ pc["net"] = "idle"
      /\ peer[r] = "live" /\ r \notin requested /\ r \notin gotClose
      /\ requested' = requested \cup {r}
      /\ UNCHANGED <<peer, delivered, received, gotClose>>
    BY DEF ReaderRequests, CP_ReaderRequestStepHandler
<1>2. CASE \E t \in NextOnDemand :
              /\ IsEstablished(r)
              /\ LastDemandTimestep' = t
              /\ SendTimestepEntryToSingleReader("net", r, t, "requestSent")
              /\ UNCHANGED <<NextRRDistribution, StepRequestQueue, idx>>
    <2>1. PICK t \in NextOnDemand :
              /\ IsEstablished(r)
              /\ LastDemandTimestep' = t
              /\ SendTimestepEntryToSingleReader("net", r, t, "requestSent")
              /\ UNCHANGED <<NextRRDistribution, StepRequestQueue, idx>>
        BY <1>2
    <2>2. t \in QueuedTimesteps /\ t \in Steps /\ t \notin InProgressFlag
          /\ t = LastDemandTimestep + 1
        BY <1>0 DEF NextOnDemand
    <2>3. \A s \in Cohorts : \A u \in SentTimestepList[s] : u <= LastDemandTimestep /\ u \in Int
        BY <1>0, <1>1 DEF RefInv, SentOnce, DemandUnsent, ReaderTypes, Steps
    <2>4. t \notin SentTimestepList[r]
        BY <1>0, <2>2, <2>3 DEF Steps
    <2>5. QED
        BY <1>1, <2>1, <2>2, <2>4 DEF Handout
<1>3. CASE /\ UNCHANGED <<queueVars, streamVars, Readers, ReaderRegisterQueue, readerVars, lock,
                             pc, callVars, idx, asleep, localVars>>
           /\ StepRequestQueue' \in {StepRequestQueue, Append(StepRequestQueue, r)}
    BY <1>1, <1>3
<1>4. CP_ReaderRequestStepHandler(r)
    BY DEF ReaderRequests
<1>5. QED
    BY <1>2, <1>3, <1>4 DEF CP_ReaderRequestStepHandler, listVars

=============================================================================
