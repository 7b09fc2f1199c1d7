--------------------------- MODULE BP5AppendProofs ---------------------------
(***************************************************************************)
(* WriteData implements SubfileAppend, for any number of ranks, of         *)
(* subfiles and of steps, and for any sizes.  What carries the proof:      *)
(*   - in a rerouted step, where each rank is and what is on its way to it *)
(*     agrees with what its coordinator keeps (WriteInv);                  *)
(*   - in one that is not, the token has come to one rank of each group,   *)
(*     those before have written and those behind have not (ChainInv);     *)
(*   - from either, where a subfile ends (EndsOk, ChainEndsOk);            *)
(*   - and a subcoordinator writes first in its group, because no request  *)
(*     to give a writer away comes before that (OwnInv).                   *)
(***************************************************************************)
EXTENDS BP5WriteDataProofs

-----------------------------------------------------------------------------
(* The subcoordinator writes first in its group, so it is not sent to another. *)
OwnFirst ==
    rerouting => \A s \in SubCoords :
        ~rank[s].m_ReadyToWrite => sc[s].writerQueue # <<>> /\ Head(sc[s].writerQueue) = s

(* r is the one its coordinator waits for. *)
Works(r) == rank[r].m_ReadyToWrite /\ sc[rank[r].m_TargetCoordinator].writingRank = r

Behind(p)    == p + Padding(p)
RegionEnd(r) == rank[r].m_StartDataPos + size[r]

(* What is true of a thread of a rerouted step *)
ThreadOk(r) ==
    LET t == rank[r]
        s == t.m_TargetCoordinator
    IN  /\ t.main \in {"join", "done"} <=> t.m_FinishedWriting
        /\ t.sentFinished => t.m_FinishedWriting
        /\ t.m_ReadyToWrite => s \in SubCoords /\ SubCoord(t.m_TargetIndex) = s
        /\ t.main # "wait" => t.m_SubStreamIndex = t.m_TargetIndex
        /\ r \in SubCoords => SubCoord(t.m_SubStreamIndex) = r /\ (t.m_ReadyToWrite => s = r)
        /\ t.m_ReadyToWrite /\ ~t.sentFinished => Works(r)
        /\ t.m_ReadyToWrite /\ t.main = "wait" => t.m_DataPos = sc[s].currentFilePos
        /\ Works(r) /\ t.main # "wait" => t.m_StartDataPos = Behind(sc[s].currentFilePos)
        /\ t.m_FinishedWriting /\ ~t.sentFinished => t.m_DataPos = RegionEnd(r)
        /\ t.m_FinishedWriting /\ ~Works(r) => RegionEnd(r) <= sc[s].currentFilePos

(* of a subcoordinator *)
FileOk(g) ==
    LET s == SubCoord(g)
    IN  /\ start[g] <= sc[s].currentFilePos
        /\ \/ sc[s].currentFilePos = start[g]
           \/ \E r \in Rank : rank[r].m_FinishedWriting /\ rank[r].m_SubStreamIndex = g /\ RegionEnd(r) = sc[s].currentFilePos
        /\ ~rank[s].looping => sc[s].writingRank = NoRank /\ rank[s].m_DataPos = sc[s].currentFilePos /\ rank[s].m_ReadyToWrite

DoWrites == {m \in Message : m.type = "DO_WRITE"}
Dones    == {m \in Message : m.type = "WRITE_COMPLETION"}

WrongTells(q, w) ==
    {m \in DoWrites :
        ~(/\ rerouting /\ q \in SubCoords /\ w \notin SubCoords /\ SubCoord(m.index) = q
          /\ sc[q].writingRank = w /\ m.offset = sc[q].currentFilePos)}
WrongDones(q, w) ==
    {m \in Dones :
        ~(/\ rerouting /\ rank[q].m_ReadyToWrite /\ rank[q].sentFinished /\ rank[q].m_TargetCoordinator = w
          /\ sc[w].writingRank = q /\ m.offset = RegionEnd(q))}

ChannelOk(q, w) ==
    /\ NotIn(Msgs(<<q, w>>), WrongTells(q, w))
    /\ NotIn(Msgs(<<q, w>>), WrongDones(q, w))
    /\ NotIn(Msgs(<<q, w>>), Dones) \/ OnceIn(Msgs(<<q, w>>), Dones)

WriteInv ==
    /\ rerouting => (\A r \in Rank : ThreadOk(r)) /\ \A g \in Groups : FileOk(g)
    /\ \A q, w \in Rank : ChannelOk(q, w)

-----------------------------------------------------------------------------
(* Positions, groups and their first ranks *)

LEMMA BehindNat ==
    ASSUME NEW p \in Nat
    PROVE  Behind(p) \in Nat /\ p <= Behind(p)
<1>1. Padding(p) \in Nat
    BY PaddingType
<1>2. QED
    BY <1>1 DEF Behind

LEMMA SubCoordsApart ==
    ASSUME PlanInv
    PROVE  /\ \A g, h \in Groups : SubCoord(g) = SubCoord(h) => g = h
           /\ \A r \in SubCoords : \E g \in Groups : r = SubCoord(g)
<1>1. \A g, h \in Groups : \A i \in 1..Len(Partition(g)), j \in 1..Len(Partition(h)) :
             Partition(g)[i] = Partition(h)[j] => g = h /\ i = j
    BY PlanInvGroups DEF Partition
<1>2. \A g \in Groups : Partition(g) \in Seq(Rank) /\ Len(Partition(g)) > 0
    BY PlanInvGroups DEF Partition
<1>3. \A g \in Groups : 1 \in 1..Len(Partition(g))
    BY <1>2
<1>4. \A g, h \in Groups : SubCoord(g) = SubCoord(h) => g = h
    BY <1>1, <1>3 DEF SubCoord
<1>5. QED
    BY <1>4 DEF SubCoords

(* The group a rank is put in when a call begins *)
LEMMA GroupIs ==
    ASSUME PlanInv, NEW g \in Groups, NEW i \in 1..Len(Partition(g)), NEW r, r = Partition(g)[i]
    PROVE  (CHOOSE h \in DOMAIN m_Partitioning.m_Partitions : r \in Range(m_Partitioning.m_Partitions[h])) = g
<1>1. \A f, h \in Groups : \A k \in 1..Len(Partition(f)), j \in 1..Len(Partition(h)) :
             Partition(f)[k] = Partition(h)[j] => f = h /\ k = j
    BY PlanInvGroups DEF Partition
<1>2. \A h \in Groups : Partition(h) \in Seq(Rank)
    BY PlanInvGroups DEF Partition
<1>3. r \in Range(Partition(g))
    BY <1>2 DEF Range
<1>4. ASSUME NEW h \in Groups, r \in Range(Partition(h)) PROVE h = g
    <2>1. PICK j \in 1..Len(Partition(h)) : Partition(h)[j] = r
        BY <1>2, <1>4 DEF Range
    <2>2. QED
        BY <1>1, <2>1
<1>5. QED
    BY <1>3, <1>4 DEF Groups, Partition

-----------------------------------------------------------------------------
(* The messages of a channel after an exchange *)

LEMMA NotInPart ==
    ASSUME NEW s, NEW S, NEW T, NotIn(s, S), \A i \in 1..Len(s) : s[i] \in T => s[i] \in S
    PROVE  NotIn(s, T)
BY DEF NotIn

LEMMA ChannelStep ==
    ASSUME NEW r \in Rank, NEW q, NEW out \in [Rank -> Seq(Message)], Exchanges(r, q, out),
           NEW from \in Rank, NEW to \in Rank, NEW S
    PROVE  /\ NotIn(Msgs(<<from, to>>), S) /\ (from = r => NotIn(out[to], S)) => NotIn(Msgs(<<from, to>>)', S)
           /\ NotIn(Msgs(<<from, to>>), S) /\ from = r /\ OnceIn(out[to], S) => OnceIn(Msgs(<<from, to>>)', S)
           /\ OnceIn(Msgs(<<from, to>>), S) /\ (from = q /\ to = r => First(r, q) \notin S)
                  /\ (from = r => NotIn(out[to], S)) => OnceIn(Msgs(<<from, to>>)', S)
           /\ OnceIn(Msgs(<<from, to>>), S) /\ from = q /\ to = r /\ First(r, q) \in S
                  /\ (from = r => NotIn(out[to], S)) => NotIn(Msgs(<<from, to>>)', S)
<1>1. PICK s \in Seq(Message) : s = Msgs(<<from, to>>)
    BY ExchangedMsgs
<1>2. PICK e \in Seq(Message) : e = <<>>
    BY EmptySeq
<1>3. PICK o : o = IF from = r THEN out[to] ELSE e
    OBVIOUS
<1>4. o \in Seq(Message)
    BY <1>3
<1>5. from = q /\ to = r => s # <<>> /\ Head(s) = First(r, q)
    BY <1>1, ExchangedMsgs
<1>6. PICK t : t = IF from = q /\ to = r THEN Tail(s) ELSE s
    OBVIOUS
<1>7. t \in Seq(Message)
    BY <1>5, <1>6
<1>8. Msgs(<<from, to>>)' = t \o o
    <2>1. Stripped(channel'[<<from, to>>]) = MsgsThen(from, to, r, q, out)
        BY ExchangedMsgs
    <2>2. MsgsThen(from, to, r, q, out) = t \o o
        BY <1>1, <1>2, <1>3, <1>6, Zenon DEF MsgsThen, RestMsgs, MoreMsgs
    <2>3. QED
        BY <2>1, <2>2 DEF Msgs
<1>9. /\ NotIn(s, S) => NotIn(t, S)
      /\ OnceIn(s, S) /\ from = q /\ to = r /\ First(r, q) \in S => NotIn(t, S)
      /\ OnceIn(s, S) /\ (from = q /\ to = r => First(r, q) \notin S) => OnceIn(t, S)
    <2>1. CASE from = q /\ to = r
        BY <1>5, <1>6, <2>1, TailNotIn
    <2>2. CASE ~(from = q /\ to = r)
        BY <1>6, <2>2
    <2>3. QED
        BY <2>1, <2>2
<1>10. (from = r => NotIn(out[to], S)) => NotIn(o, S)
    BY <1>2, <1>3, NoneNotIn
<1>11. from = r => o = out[to]
    BY <1>3
<1>12. /\ NotIn(t, S) /\ NotIn(o, S) => NotIn(t \o o, S)
       /\ OnceIn(t, S) /\ NotIn(o, S) => OnceIn(t \o o, S)
       /\ NotIn(t, S) /\ OnceIn(o, S) => OnceIn(t \o o, S)
    BY <1>4, <1>7, ConcatNotIn
<1>13. QED
    BY <1>1, <1>8, <1>9, <1>10, <1>11, <1>12

(* The message that is received first *)
LEMMA FirstNotIn ==
    ASSUME NEW r \in Rank, NEW q \in Rank, NEW out, Exchanges(r, q, out), NEW S, NotIn(Msgs(<<q, r>>), S)
    PROVE  First(r, q) \notin S
<1>1. PICK s \in Seq(Message) : s = Msgs(<<q, r>>) /\ s # <<>> /\ Head(s) = First(r, q)
    BY ExchangedMsgs
<1>2. Head(s) = s[1] /\ 1 \in 1..Len(s)
    BY <1>1
<1>3. QED
    BY <1>1, <1>2 DEF NotIn

(* What ThreadOk and FileOk say of a thread stays. *)
SameThread(x) ==
    /\ rank'[x].main = rank[x].main /\ rank'[x].m_ReadyToWrite = rank[x].m_ReadyToWrite
    /\ rank'[x].m_FinishedWriting = rank[x].m_FinishedWriting /\ rank'[x].sentFinished = rank[x].sentFinished
    /\ rank'[x].m_TargetIndex = rank[x].m_TargetIndex
    /\ rank'[x].m_TargetCoordinator = rank[x].m_TargetCoordinator
    /\ rank'[x].m_SubStreamIndex = rank[x].m_SubStreamIndex
    /\ rank'[x].m_DataPos = rank[x].m_DataPos /\ rank'[x].m_StartDataPos = rank[x].m_StartDataPos
SameFile(s) == sc'[s].writingRank = sc[s].writingRank /\ sc'[s].currentFilePos = sc[s].currentFilePos

(* Who was not told has not begun, and has nothing to tell. *)
LEMMA NotReady ==
    ASSUME TypeInv, LoopsInv, rerouting, NEW x \in Rank, ThreadOk(x)
    PROVE  /\ ~rank[x].m_ReadyToWrite => rank[x].main = "wait"
           /\ rank[x].main \in {"wait", "write"} => ~rank[x].m_FinishedWriting /\ ~rank[x].sentFinished
           /\ rank[x].m_FinishedWriting => rank[x].m_ReadyToWrite
           /\ Works(x) => rank[x].m_TargetCoordinator \in SubCoords
BY ThreadsBefore DEF ThreadType, LoopsInv, ThreadOk, Works

LEMMA ThreadKept ==
    ASSUME UNCHANGED callVars, NEW x, ThreadOk(x), SameThread(x),
           rank[x].m_ReadyToWrite \/ rank[x].m_FinishedWriting =>
               SameFile(rank[x].m_TargetCoordinator)
    PROVE  ThreadOk(x)'
<1>1. /\ SubCoords' = SubCoords /\ size' = size /\ \A g : SubCoord(g)' = SubCoord(g)
      /\ \A p : Behind(p)' = Behind(p)
    BY CallKept DEF Behind, Padding
<1>2. PICK t : t = rank[x].m_TargetCoordinator
    OBVIOUS
<1>3. RegionEnd(x)' = RegionEnd(x)
    BY <1>1 DEF RegionEnd, SameThread
<1>4. rank[x].m_ReadyToWrite => Works(x)' = Works(x)
    BY DEF Works, SameThread, SameFile
<1>5. ~rank[x].m_ReadyToWrite => ~Works(x)' /\ ~Works(x)
    BY DEF Works, SameThread
<1>6. QED
    BY <1>1, <1>3, <1>4, <1>5 DEF ThreadOk, SameThread, SameFile

LEMMA FileKept ==
    ASSUME PlanInv, UNCHANGED callVars, NEW g \in Groups, FileOk(g),
           \A x \in Rank : rank[x].m_FinishedWriting =>
               /\ rank'[x].m_FinishedWriting /\ rank'[x].m_SubStreamIndex = rank[x].m_SubStreamIndex
               /\ rank'[x].m_StartDataPos = rank[x].m_StartDataPos,
           NEW s, s = SubCoord(g), sc'[s].currentFilePos = sc[s].currentFilePos,
           ~rank'[s].looping =>
               sc'[s].writingRank = NoRank /\ rank'[s].m_DataPos = sc[s].currentFilePos /\ rank'[s].m_ReadyToWrite
    PROVE  FileOk(g)'
<1>1. start' = start /\ size' = size /\ SubCoord(g)' = s
    BY CallKept
<1>2. \A x \in Rank : rank[x].m_FinishedWriting => RegionEnd(x)' = RegionEnd(x)
    BY <1>1 DEF RegionEnd
<1>3. QED
    BY <1>1, <1>2 DEF FileOk

LEMMA WrongKept ==
    ASSUME UNCHANGED callVars, NEW q, NEW w,
           q \in SubCoords /\ sc[q].writingRank = w => SameFile(q),
           rank[q].m_ReadyToWrite /\ rank[q].sentFinished /\ rank[q].m_TargetCoordinator = w /\ sc[w].writingRank = q =>
               /\ rank'[q].m_ReadyToWrite /\ rank'[q].sentFinished /\ rank'[q].m_TargetCoordinator = w
               /\ sc'[w].writingRank = q /\ rank'[q].m_StartDataPos = rank[q].m_StartDataPos
    PROVE  WrongTells(q, w)' \subseteq WrongTells(q, w) /\ WrongDones(q, w)' \subseteq WrongDones(q, w)
<1>1. /\ SubCoords' = SubCoords /\ size' = size /\ rerouting' = rerouting /\ Message' = Message
      /\ \A g : SubCoord(g)' = SubCoord(g)
    BY CallKept
<1>2. DoWrites' = DoWrites /\ Dones' = Dones
    BY <1>1 DEF DoWrites, Dones
<1>3. ASSUME NEW m \in DoWrites, m \notin WrongTells(q, w) PROVE m \notin WrongTells(q, w)'
    BY <1>1, <1>3 DEF WrongTells, SameFile
<1>4. ASSUME NEW m \in Dones, m \notin WrongDones(q, w) PROVE m \notin WrongDones(q, w)'
    BY <1>1, <1>4 DEF WrongDones, RegionEnd
<1>5. WrongTells(q, w)' \subseteq DoWrites /\ WrongDones(q, w)' \subseteq Dones
    BY <1>2 DEF WrongTells, WrongDones
<1>6. QED
    BY <1>3, <1>4, <1>5

LEMMA ChannelKept ==
    ASSUME UNCHANGED callVars, NEW r \in Rank, NEW q, NEW out \in [Rank -> Seq(Message)], Exchanges(r, q, out),
           NEW from \in Rank, NEW to \in Rank, ChannelOk(from, to),
           WrongTells(from, to)' \subseteq WrongTells(from, to),
           WrongDones(from, to)' \subseteq WrongDones(from, to),
           from = r => NotIn(out[to], DoWrites) /\ NotIn(out[to], Dones)
    PROVE  ChannelOk(from, to)'
<1>1. PICK A, B, D : A = WrongTells(from, to) /\ B = WrongDones(from, to) /\ D = Dones
    OBVIOUS
<1>2. A \subseteq DoWrites /\ B \subseteq D
    BY <1>1 DEF WrongTells, WrongDones
<1>3. from = r => NotIn(out[to], A) /\ NotIn(out[to], B) /\ NotIn(out[to], D)
    BY <1>1, <1>2 DEF NotIn
<1>4. PICK s, t : s = Msgs(<<from, to>>) /\ t = Msgs(<<from, to>>)'
    OBVIOUS
<1>5. /\ NotIn(s, A) => NotIn(t, A)
      /\ NotIn(s, B) => NotIn(t, B)
      /\ NotIn(s, D) => NotIn(t, D)
    BY <1>3, <1>4, ChannelStep
<1>6. OnceIn(s, D) => NotIn(t, D) \/ OnceIn(t, D)
    BY <1>3, <1>4, ChannelStep
<1>7. NotIn(s, A) /\ NotIn(s, B) /\ (NotIn(s, D) \/ OnceIn(s, D))
    BY <1>1, <1>4 DEF ChannelOk
<1>8. NotIn(t, WrongTells(from, to)') /\ NotIn(t, WrongDones(from, to)')
    BY <1>1, <1>5, <1>7 DEF NotIn
<1>9. Dones' = D
    <2>1. Message' = Message
        BY CallKept
    <2>2. QED
        BY <1>1, <2>1 DEF Dones
<1>10. QED
    BY <1>4, <1>5, <1>6, <1>7, <1>8, <1>9 DEF ChannelOk

(* A step that sends and receives nothing *)
LEMMA ChannelStays ==
    ASSUME UNCHANGED callVars, channel' = channel, NEW from, NEW to, ChannelOk(from, to),
           WrongTells(from, to)' \subseteq WrongTells(from, to),
           WrongDones(from, to)' \subseteq WrongDones(from, to)
    PROVE  ChannelOk(from, to)'
<1>1. Msgs(<<from, to>>)' = Msgs(<<from, to>>) /\ Message' = Message
    BY CallKept DEF Msgs
<1>2. Dones' = Dones
    BY <1>1 DEF Dones
<1>3. QED
    BY <1>1, <1>2 DEF ChannelOk, NotIn

-----------------------------------------------------------------------------
(* The handlers of messages that are not about a write *)

Writes == [to \in Rank |-> DoWrites \cup Dones]

LEMMA WritesNot ==
    ASSUME NEW out, OutNone(out, Writes), NEW to \in Rank
    PROVE  NotIn(out[to], DoWrites) /\ NotIn(out[to], Dones)
BY DEF OutNone, Writes, NotIn

LEMMA ToNoWrites ==
    ASSUME NEW D, NEW m, m.type \notin {"DO_WRITE", "WRITE_COMPLETION"}
    PROVE  OutNone(To(D, m), Writes) /\ OutNone(Nothing, Writes)
<1>1. \A to \in Rank : m \notin Writes[to]
    BY DEF Writes, DoWrites, Dones
<1>2. QED
    BY <1>1, ToNone, NothingNone

LEMMA ReceiveKeepsWrites ==
    ASSUME TypeInv, QueueInv, WriteInv, NEW r \in Rank, NEW q \in Rank, NEW type,
           NEW out \in [Rank -> Seq(Message)], Received(r, q, type, out), OutNone(out, Writes),
           \A x \in Rank : SameThread(x) /\ SameFile(x) /\ rank'[x].looping = rank[x].looping
    PROVE  WriteInv'
<1>1. Exchanges(r, q, out) /\ UNCHANGED callVars /\ rank[r].looping
    BY ReceivedExchanges
<1>2. rerouting /\ PlanInv /\ LoopsInv
    BY <1>1 DEF QueueInv, LoopsInv, TypeInv
<1>3. SubCoords \subseteq Rank /\ \A g \in Groups : SubCoord(g) \in Rank
    BY <1>2, PlanInvCoords
<1>4. ASSUME NEW x \in Rank PROVE ThreadOk(x)'
    <2>1. ThreadOk(x)
        BY <1>2 DEF WriteInv
    <2>2. rank[x].m_ReadyToWrite \/ rank[x].m_FinishedWriting => rank[x].m_TargetCoordinator \in SubCoords
        BY <1>2, <2>1, NotReady DEF ThreadOk
    <2>3. QED
        BY <1>1, <1>3, <2>1, <2>2, ThreadKept
<1>5. ASSUME NEW g \in Groups PROVE FileOk(g)'
    <2>1. FileOk(g)
        BY <1>2, <1>5 DEF WriteInv
    <2>2. PICK s \in Rank : s = SubCoord(g)
        BY <1>3
    <2>3. /\ sc'[s].currentFilePos = sc[s].currentFilePos /\ sc'[s].writingRank = sc[s].writingRank
          /\ rank'[s].looping = rank[s].looping /\ rank'[s].m_DataPos = rank[s].m_DataPos
          /\ rank'[s].m_ReadyToWrite = rank[s].m_ReadyToWrite
        BY DEF SameThread, SameFile
    <2>4. ~rank[s].looping =>
              sc[s].writingRank = NoRank /\ rank[s].m_DataPos = sc[s].currentFilePos /\ rank[s].m_ReadyToWrite
        BY <2>1, <2>2 DEF FileOk
    <2>5. ASSUME NEW x \in Rank
          PROVE  /\ rank'[x].m_FinishedWriting = rank[x].m_FinishedWriting
                 /\ rank'[x].m_SubStreamIndex = rank[x].m_SubStreamIndex
                 /\ rank'[x].m_StartDataPos = rank[x].m_StartDataPos
        BY DEF SameThread
    <2>6. QED
        BY <1>1, <1>2, <2>1, <2>2, <2>3, <2>4, <2>5, FileKept
<1>6. ASSUME NEW from \in Rank, NEW to \in Rank PROVE ChannelOk(from, to)'
    <2>1. WrongTells(from, to)' \subseteq WrongTells(from, to) /\ WrongDones(from, to)' \subseteq WrongDones(from, to)
        <3>1. SameFile(from) /\ sc'[to].writingRank = sc[to].writingRank
            BY DEF SameFile
        <3>2. /\ rank'[from].m_ReadyToWrite = rank[from].m_ReadyToWrite
              /\ rank'[from].sentFinished = rank[from].sentFinished
              /\ rank'[from].m_TargetCoordinator = rank[from].m_TargetCoordinator
              /\ rank'[from].m_StartDataPos = rank[from].m_StartDataPos
            BY DEF SameThread
        <3>3. QED
            BY <1>1, <3>1, <3>2, WrongKept
    <2>2. QED
        BY <1>1, <2>1, WritesNot, ChannelKept DEF WriteInv
<1>7. Groups' = Groups
    BY <1>1, CallKept
<1>8. QED
    BY <1>4, <1>5, <1>6, <1>7 DEF WriteInv

LEMMA OtherHandlersWrite ==
    ASSUME TypeInv, QueueInv, WriteInv, NEW r \in Rank, NEW q \in Rank,
           \/ WriteMore(r, q) \/ GroupClose(r, q) \/ GroupCloseAck(r, q)
           \/ WriterIdle(r, q) \/ WriterCapacity(r, q)
           \/ StatusInquiry(r, q) \/ StatusReply(r, q)
           \/ RerouteRequest(r, q) \/ RerouteReject(r, q) \/ RerouteAck(r, q)
    PROVE  WriteInv'
<1>0. PlanInv /\ rank \in [Rank -> ThreadType(Groups)] /\ sc \in [Rank -> CoordinatorType]
    BY ThreadsBefore DEF TypeInv
<1>n. Nothing \in [Rank -> Seq(Message)] /\ OutNone(Nothing, Writes)
    BY NothingType, NothingNone
<1>s. ASSUME rank' = rank, sc' = sc
      PROVE  \A x \in Rank : SameThread(x) /\ SameFile(x) /\ rank'[x].looping = rank[x].looping
    BY <1>s DEF SameThread, SameFile
<1>t. ASSUME NEW D, NEW m \in Message, m.type \notin {"DO_WRITE", "WRITE_COMPLETION"}
      PROVE  To(D, m) \in [Rank -> Seq(Message)] /\ OutNone(To(D, m), Writes)
    BY <1>t, ToType, ToNoWrites
<1>1. CASE WriteMore(r, q)
    <2>1. Received(r, q, "WRITE_MORE", Nothing) /\ rank' = rank
        BY <1>1 DEF WriteMore
    <2>2. PICK queue, more : sc' = [sc EXCEPT ![r].writerQueue = queue, ![r].sentIdle = FALSE, ![r].writeMoreCount = more]
        BY <1>1 DEF WriteMore
    <2>3. \A x \in Rank : SameThread(x) /\ SameFile(x) /\ rank'[x].looping = rank[x].looping
        BY <1>0, <2>1, <2>2 DEF SameThread, SameFile, CoordinatorType
    <2>4. QED
        BY <1>n, <2>1, <2>3, ReceiveKeepsWrites
<1>2. CASE GroupClose(r, q)
    <2>1. PICK m : m = [type |-> "GROUP_CLOSE_ACK", index |-> rank[r].m_SubStreamIndex]
        OBVIOUS
    <2>2. m \in Message /\ m.type \notin {"DO_WRITE", "WRITE_COMPLETION"}
        BY <1>0, <2>1 DEF Message, ThreadType
    <2>3. Received(r, q, "GROUP_CLOSE", To({GlobalCoord}, m)) /\ sc' = sc
          /\ rank' = [rank EXCEPT ![r].receivedGroupClose = TRUE]
        BY <1>2, <2>1 DEF GroupClose
    <2>4. \A x \in Rank : SameThread(x) /\ SameFile(x) /\ rank'[x].looping = rank[x].looping
        BY <1>0, <2>3 DEF SameThread, SameFile, ThreadType
    <2>5. PICK out \in [Rank -> Seq(Message)] : out = To({GlobalCoord}, m) /\ OutNone(out, Writes)
        BY <1>t, <2>2
    <2>6. QED
        BY <2>3, <2>4, <2>5, ReceiveKeepsWrites
<1>3. CASE WriterIdle(r, q)
    <2>1. PICK m : m = [type |-> "STATUS_INQUIRY"]
        OBVIOUS
    <2>2. m \in Message /\ m.type \notin {"DO_WRITE", "WRITE_COMPLETION"}
        BY <2>1 DEF Message
    <2>3. PICK out : out = IF gc.firstIdleMsg THEN Inquiries(q) ELSE Nothing
        OBVIOUS
    <2>4. out \in [Rank -> Seq(Message)] /\ OutNone(out, Writes)
        BY <1>n, <1>t, <2>1, <2>2, <2>3 DEF Inquiries
    <2>5. Received(r, q, "WRITER_IDLE", out) /\ rank' = rank /\ sc' = sc
        BY <1>3, <2>3 DEF WriterIdle, CoordinatorReceived
    <2>6. QED
        BY <1>s, <2>4, <2>5, ReceiveKeepsWrites
<1>4. CASE StatusInquiry(r, q)
    <2>1. PICK m : m = [type |-> "STATUS_REPLY", index |-> rank[r].m_SubStreamIndex, size |-> Len(sc[r].writerQueue)]
        OBVIOUS
    <2>2. Len(sc[r].writerQueue) \in Nat
        BY <1>0, LenProperties DEF CoordinatorType
    <2>3. m \in Message /\ m.type \notin {"DO_WRITE", "WRITE_COMPLETION"}
        BY <1>0, <2>1, <2>2 DEF Message, ThreadType
    <2>4. PICK out \in [Rank -> Seq(Message)] : out = To({GlobalCoord}, m) /\ OutNone(out, Writes)
        BY <1>t, <2>3
    <2>5. Received(r, q, "STATUS_INQUIRY", out) /\ rank' = rank /\ sc' = sc
        BY <1>4, <2>1, <2>4 DEF StatusInquiry
    <2>6. QED
        BY <1>s, <2>4, <2>5, ReceiveKeepsWrites
<1>5. CASE RerouteRequest(r, q)
    <2>1. PICK n : n = First(r, q)
        OBVIOUS
    <2>2. PICK m : m = IF sc[r].writerQueue = <<>> THEN [n EXCEPT !.type = "REROUTE_REJECT"]
                       ELSE [n EXCEPT !.type = "REROUTE_ACK", !.rank = Head(sc[r].writerQueue)]
        OBVIOUS
    <2>3. Received(r, q, "REROUTE_REQUEST", To({GlobalCoord}, m)) /\ rank' = rank
          /\ sc' = [sc EXCEPT ![r].writerQueue = TakeRerouted(r)]
        BY <1>5, <2>1, <2>2 DEF RerouteRequest
    <2>4. n \in Message /\ n.type = "REROUTE_REQUEST"
        <3>1. Arrives(r, q) /\ n.type = "REROUTE_REQUEST"
            BY <2>1, <2>3 DEF Received
        <3>2. QED
            BY <2>1, <3>1, FirstType
    <2>5. m \in Message
        <3>1. CASE sc[r].writerQueue = <<>>
            <4>1. [n EXCEPT !.type = "REROUTE_REJECT"] \in Message
                BY <2>4, AnswerTypes
            <4>2. QED
                BY <2>2, <3>1, <4>1
        <3>2. CASE sc[r].writerQueue # <<>>
            <4>1. PICK w \in Rank : w = Head(sc[r].writerQueue)
                BY <1>0, <3>2 DEF CoordinatorType
            <4>2. [n EXCEPT !.type = "REROUTE_ACK", !.rank = w] \in Message
                BY <2>4, AnswerTypes
            <4>3. QED
                BY <2>2, <3>2, <4>1, <4>2
        <3>3. QED
            BY <3>1, <3>2
    <2>6. m.type \notin {"DO_WRITE", "WRITE_COMPLETION"}
        <3>1. n \in [type : {"REROUTE_REQUEST", "REROUTE_REJECT"}, src : Rank, dest : Rank, rank : {NoRank}]
            BY <2>4 DEF Message
        <3>2. QED
            BY <2>2, <3>1
    <2>7. PICK out \in [Rank -> Seq(Message)] : out = To({GlobalCoord}, m) /\ OutNone(out, Writes)
        BY <1>t, <2>5, <2>6
    <2>8. \A x \in Rank : SameThread(x) /\ SameFile(x) /\ rank'[x].looping = rank[x].looping
        BY <1>0, <2>3 DEF SameThread, SameFile, CoordinatorType
    <2>9. QED
        BY <2>3, <2>7, <2>8, ReceiveKeepsWrites
<1>6. CASE RerouteAck(r, q)
    <2>1. PICK n : n = First(r, q)
        OBVIOUS
    <2>2. PICK m : m = [type |-> "WRITE_MORE", rank |-> n.rank]
        OBVIOUS
    <2>3. Received(r, q, "REROUTE_ACK", To({n.dest}, m)) /\ rank' = rank /\ sc' = sc
        BY <1>6, <2>1, <2>2 DEF RerouteAck, CoordinatorReceived
    <2>4. n \in Message /\ n.type = "REROUTE_ACK"
        <3>1. Arrives(r, q) /\ n.type = "REROUTE_ACK"
            BY <2>1, <2>3 DEF Received
        <3>2. QED
            BY <2>1, <3>1, FirstType
    <2>5. m \in Message /\ m.type \notin {"DO_WRITE", "WRITE_COMPLETION"}
        BY <2>2, <2>4, MessageFields DEF Message
    <2>6. PICK out \in [Rank -> Seq(Message)] : out = To({n.dest}, m) /\ OutNone(out, Writes)
        BY <1>t, <2>5
    <2>7. QED
        BY <1>s, <2>3, <2>6, ReceiveKeepsWrites
<1>7. ASSUME GroupCloseAck(r, q) \/ WriterCapacity(r, q) \/ StatusReply(r, q) \/ RerouteReject(r, q)
      PROVE  WriteInv'
    <2>1. PICK type : Received(r, q, type, Nothing) /\ rank' = rank /\ sc' = sc
        BY <1>7 DEF GroupCloseAck, WriterCapacity, StatusReply, RerouteReject, CoordinatorReceived
    <2>2. QED
        BY <1>n, <1>s, <2>1, ReceiveKeepsWrites
<1>8. QED
    BY <1>1, <1>2, <1>3, <1>4, <1>5, <1>6, <1>7

(* What the messages of a channel say, when they are received *)
LEMMA FirstWrites ==
    ASSUME TypeInv, WriteInv, NEW r \in Rank, NEW q \in Rank, NEW type, NEW out \in [Rank -> Seq(Message)],
           Received(r, q, type, out)
    PROVE  /\ First(r, q) \notin WrongTells(q, r) /\ First(r, q) \notin WrongDones(q, r)
           /\ First(r, q) \in Dones => ~NotIn(Msgs(<<q, r>>), Dones)
           /\ First(r, q) \in Message /\ First(r, q).type = type
<1>1. Exchanges(r, q, out) /\ First(r, q) \in Message /\ First(r, q).type = type
    BY ReceivedExchanges
<1>2. NotIn(Msgs(<<q, r>>), WrongTells(q, r)) /\ NotIn(Msgs(<<q, r>>), WrongDones(q, r))
    BY DEF WriteInv, ChannelOk
<1>3. QED
    BY <1>1, <1>2, FirstNotIn

LEMMA DoWriteWrites ==
    ASSUME TypeInv, QueueInv, WriteInv, NEW r \in Rank, NEW q \in Rank, DoWrite(r, q)
    PROVE  WriteInv'
<1>1. PICK out \in [Rank -> Seq(Message)] : out = Nothing /\ OutNone(out, Writes)
    BY NothingType, NothingNone
<1>2. PICK m : m = First(r, q)
    OBVIOUS
<1>3. /\ Received(r, q, "DO_WRITE", out) /\ sc' = sc
      /\ rank' = [rank EXCEPT ![r].m_TargetIndex = m.index, ![r].m_DataPos = m.offset,
                              ![r].m_TargetCoordinator = q, ![r].m_ReadyToWrite = TRUE]
    BY <1>1, <1>2 DEF DoWrite
<1>4. /\ Exchanges(r, q, out) /\ UNCHANGED callVars /\ m \in Message /\ m.type = "DO_WRITE"
      /\ channel[<<q, r>>] # <<>> /\ rank[r].looping
    BY <1>2, <1>3, ReceivedExchanges
<1>5. rerouting /\ PlanInv /\ LoopsInv /\ Held(r)
    BY <1>4 DEF QueueInv, LoopsInv, HeldInv, TypeInv
<1>6. ~rank[r].m_ReadyToWrite
    <2>1. m \in TellsOf(r)[r]
        BY <1>4, <1>5, TellsWhom
    <2>2. QED
        BY <1>2, <1>4, <1>5, <2>1, HeldFirst
<1>7. /\ q \in SubCoords /\ r \notin SubCoords /\ SubCoord(m.index) = q
      /\ sc[q].writingRank = r /\ m.offset = sc[q].currentFilePos
    <2>1. m \in DoWrites /\ m \notin WrongTells(q, r)
        BY <1>2, <1>3, <1>4, FirstWrites DEF DoWrites
    <2>2. QED
        BY <2>1 DEF WrongTells
<1>8. ASSUME NEW x \in Rank PROVE ThreadOk(x) /\ (x # r => rank'[x] = rank[x])
    BY <1>3, <1>5, ThreadsBefore DEF WriteInv
<1>9. rank[r].main = "wait" /\ ~rank[r].m_FinishedWriting /\ ~rank[r].sentFinished
    BY <1>5, <1>6, <1>8, NotReady
<1>10. /\ rank'[r].main = rank[r].main /\ rank'[r].m_ReadyToWrite /\ rank'[r].looping = rank[r].looping
       /\ rank'[r].m_FinishedWriting = rank[r].m_FinishedWriting /\ rank'[r].sentFinished = rank[r].sentFinished
       /\ rank'[r].m_TargetIndex = m.index /\ rank'[r].m_TargetCoordinator = q
       /\ rank'[r].m_SubStreamIndex = rank[r].m_SubStreamIndex
       /\ rank'[r].m_DataPos = m.offset /\ rank'[r].m_StartDataPos = rank[r].m_StartDataPos
    BY <1>3, ThreadsBefore DEF ThreadType
<1>11. SubCoords' = SubCoords /\ Groups' = Groups /\ \A g : SubCoord(g)' = SubCoord(g)
    BY <1>4, CallKept
<1>12. ThreadOk(r)'
    <2>1. Works(r)'
        BY <1>3, <1>7, <1>10 DEF Works
    <2>2. QED
        BY <1>3, <1>7, <1>8, <1>9, <1>10, <1>11, <2>1 DEF ThreadOk
<1>13. ASSUME NEW x \in Rank, x # r PROVE ThreadOk(x)'
    <2>1. SameThread(x) /\ \A s : SameFile(s)
        BY <1>3, <1>8, <1>13 DEF SameThread, SameFile
    <2>2. QED
        BY <1>4, <1>8, <2>1, ThreadKept
<1>14. ASSUME NEW g \in Groups PROVE FileOk(g)'
    <2>1. PICK s \in Rank : s = SubCoord(g) /\ s # r
        BY <1>5, <1>7, PlanInvCoords
    <2>2. FileOk(g)
        BY <1>5, <1>14 DEF WriteInv
    <2>3. rank'[s] = rank[s] /\ sc' = sc
        BY <1>3, <1>8, <2>1
    <2>4. ~rank[s].looping =>
              sc[s].writingRank = NoRank /\ rank[s].m_DataPos = sc[s].currentFilePos /\ rank[s].m_ReadyToWrite
        BY <2>1, <2>2 DEF FileOk
    <2>5. ASSUME NEW x \in Rank, rank[x].m_FinishedWriting PROVE rank'[x] = rank[x]
        BY <1>8, <1>9, <2>5
    <2>6. QED
        BY <1>4, <1>5, <2>1, <2>2, <2>3, <2>4, <2>5, FileKept
<1>15. ASSUME NEW from \in Rank, NEW to \in Rank PROVE ChannelOk(from, to)'
    <2>1. SameFile(from) /\ sc' = sc
        BY <1>3 DEF SameFile
    <2>2. rank[from].m_ReadyToWrite => rank'[from] = rank[from]
        BY <1>6, <1>8
    <2>3. WrongTells(from, to)' \subseteq WrongTells(from, to) /\ WrongDones(from, to)' \subseteq WrongDones(from, to)
        BY <1>4, <2>1, <2>2, WrongKept
    <2>4. QED
        BY <1>1, <1>4, <2>3, WritesNot, ChannelKept DEF WriteInv
<1>16. QED
    BY <1>11, <1>12, <1>13, <1>14, <1>15 DEF WriteInv

LEMMA WriteCompletionWrites ==
    ASSUME TypeInv, QueueInv, WriteInv, NEW r \in Rank, NEW q \in Rank, WriteCompletion(r, q)
    PROVE  WriteInv'
<1>1. PICK out \in [Rank -> Seq(Message)] : out = Nothing /\ OutNone(out, Writes)
    BY NothingType, NothingNone
<1>2. PICK m : m = First(r, q)
    OBVIOUS
<1>3. /\ Received(r, q, "WRITE_COMPLETION", out) /\ rank' = rank
      /\ sc' = [sc EXCEPT ![r] = WriterDone(sc[r], m.offset)]
    BY <1>1, <1>2 DEF WriteCompletion
<1>4. /\ Exchanges(r, q, out) /\ UNCHANGED callVars /\ m \in Message /\ m.type = "WRITE_COMPLETION"
      /\ rank[r].looping
    BY <1>2, <1>3, ReceivedExchanges
<1>5. /\ rerouting /\ PlanInv /\ LoopsInv /\ Held(q) /\ NoRank \notin Rank /\ SubCoords \subseteq Rank
      /\ size \in [Rank -> Nat]
    BY <1>4, PlanInvCoords DEF QueueInv, LoopsInv, HeldInv, TypeInv
<1>6. /\ rank[q].m_ReadyToWrite /\ rank[q].sentFinished /\ rank[q].m_TargetCoordinator = r
      /\ sc[r].writingRank = q /\ m.offset = RegionEnd(q) /\ m \in Dones
    <2>1. m \in Dones /\ m \notin WrongDones(q, r)
        BY <1>2, <1>3, <1>4, FirstWrites DEF Dones
    <2>2. QED
        BY <2>1 DEF WrongDones
<1>7. /\ sc'[r].writingRank = NoRank /\ sc'[r].currentFilePos = RegionEnd(q)
      /\ \A s \in Rank : s # r => SameFile(s)
    <2>1. PICK pos : pos = RegionEnd(q)
        OBVIOUS
    <2>2. sc[r] \in CoordinatorType
        BY ThreadsBefore
    <2>3. WriterDone(sc[r], pos).writingRank = NoRank /\ WriterDone(sc[r], pos).currentFilePos = pos
        BY <2>2 DEF WriterDone, Completed, CoordinatorType
    <2>4. QED
        BY <1>3, <1>6, <2>1, <2>3, ThreadsBefore DEF SameFile
<1>8. \A x \in Rank : ThreadOk(x)
    BY <1>5 DEF WriteInv
<1>9. Works(q) /\ rank[q].main # "wait" /\ rank[q].m_FinishedWriting
      /\ SubCoord(rank[q].m_SubStreamIndex) = r /\ rank[q].m_SubStreamIndex \in Groups
      /\ rank[q].m_StartDataPos = Behind(sc[r].currentFilePos)
    <2>1. rank[q].m_FinishedWriting /\ Works(q)
        BY <1>6, <1>8 DEF ThreadOk, Works
    <2>2. rank[q].main # "wait" /\ rank[q].m_SubStreamIndex \in Groups
        BY <1>8, <2>1, ThreadsBefore DEF ThreadOk, ThreadType
    <2>3. QED
        BY <1>6, <1>8, <2>1, <2>2 DEF ThreadOk
<1>10. /\ RegionEnd(q) \in Nat /\ sc[r].currentFilePos \in Nat /\ sc[r].currentFilePos <= RegionEnd(q)
    <2>1. sc[r].currentFilePos \in Nat
        BY ThreadsBefore DEF CoordinatorType
    <2>2. PICK pos \in Nat : pos = sc[r].currentFilePos
        BY <2>1
    <2>3. Behind(pos) \in Nat /\ pos <= Behind(pos)
        BY BehindNat
    <2>4. size[q] \in Nat
        BY <1>5
    <2>5. QED
        BY <1>9, <2>2, <2>3, <2>4 DEF RegionEnd
<1>11. /\ SubCoords' = SubCoords /\ Groups' = Groups /\ start' = start /\ \A g : SubCoord(g)' = SubCoord(g)
       /\ rerouting' = rerouting /\ \A x : RegionEnd(x)' = RegionEnd(x)
    BY <1>3, <1>4, CallKept DEF RegionEnd
<1>12. ASSUME NEW x \in Rank PROVE ThreadOk(x)'
    <2>1. ThreadOk(x) /\ SameThread(x)
        BY <1>3, <1>8 DEF SameThread
    <2>2. /\ ~rank[x].m_ReadyToWrite => rank[x].main = "wait"
          /\ rank[x].main \in {"wait", "write"} => ~rank[x].m_FinishedWriting /\ ~rank[x].sentFinished
          /\ rank[x].m_FinishedWriting => rank[x].m_ReadyToWrite
        BY <1>5, <2>1, NotReady
    <2>3. CASE rank[x].m_ReadyToWrite /\ rank[x].m_TargetCoordinator = r
        <3>1. ~Works(x)'
            BY <1>3, <1>5, <1>7, <2>3 DEF Works
        <3>2. Works(x) <=> x = q
            BY <1>6, <1>9, <2>3 DEF Works
        <3>3. x # q => rank[x].sentFinished
            BY <2>1, <2>3, <3>2 DEF ThreadOk
        <3>4. rank[x].sentFinished
            BY <1>6, <3>3
        <3>5. rank[x].m_FinishedWriting /\ rank[x].main # "wait"
            BY <2>1, <2>2, <3>4 DEF ThreadOk
        <3>6. RegionEnd(x) <= RegionEnd(q)
            <4>1. CASE x = q
                BY <1>10, <4>1
            <4>2. CASE x # q
                <5>1. RegionEnd(x) <= sc[r].currentFilePos
                    BY <2>1, <2>3, <3>2, <3>5, <4>2 DEF ThreadOk
                <5>2. RegionEnd(x) \in Nat
                    <6>1. rank[x].m_StartDataPos \in Nat
                        BY ThreadsBefore DEF ThreadType
                    <6>2. QED
                        BY <1>5, <6>1 DEF RegionEnd
                <5>3. QED
                    BY <1>10, <5>1, <5>2
            <4>3. QED
                BY <4>1, <4>2
        <3>7. QED
            BY <1>3, <1>7, <1>11, <2>1, <2>3, <3>1, <3>4, <3>5, <3>6 DEF ThreadOk
    <2>4. CASE ~(rank[x].m_ReadyToWrite /\ rank[x].m_TargetCoordinator = r)
        <3>1. rank[x].m_ReadyToWrite => rank[x].m_TargetCoordinator \in Rank
            BY <1>5, <2>1 DEF ThreadOk
        <3>2. rank[x].m_ReadyToWrite \/ rank[x].m_FinishedWriting => SameFile(rank[x].m_TargetCoordinator)
            BY <1>7, <2>2, <2>4, <3>1
        <3>3. QED
            BY <1>4, <2>1, <3>2, ThreadKept
    <2>5. QED
        BY <2>3, <2>4
<1>13. ASSUME NEW g \in Groups PROVE FileOk(g)'
    <2>1. PICK s \in Rank : s = SubCoord(g)
        BY <1>5, PlanInvCoords
    <2>2. FileOk(g)
        BY <1>5, <1>13 DEF WriteInv
    <2>3. CASE s = r
        <3>1. rank[q].m_SubStreamIndex = g
            BY <1>5, <1>9, <2>1, <2>3, SubCoordsApart
        <3>2. start[g] \in Nat /\ start[g] <= sc[r].currentFilePos
            BY <2>1, <2>2, <2>3 DEF FileOk, TypeInv, CallTyped
        <3>3. start[g] <= RegionEnd(q)
            BY <1>10, <3>2
        <3>4. QED
            BY <1>3, <1>4, <1>7, <1>9, <1>11, <2>1, <2>3, <3>1, <3>3 DEF FileOk
    <2>4. CASE s # r
        <3>1. SameFile(s)
            BY <1>7, <2>4
        <3>2. QED
            BY <1>3, <1>11, <2>1, <2>2, <3>1 DEF FileOk, SameFile
    <2>5. QED
        BY <2>3, <2>4
<1>14. ASSUME NEW from \in Rank, NEW to \in Rank PROVE ChannelOk(from, to)'
    <2>1. PICK s : s = Msgs(<<from, to>>)
        OBVIOUS
    <2>2. NotIn(s, WrongTells(from, to)) /\ NotIn(s, WrongDones(from, to)) /\ (NotIn(s, Dones) \/ OnceIn(s, Dones))
        BY <2>1 DEF WriteInv, ChannelOk
    <2>3. /\ DoWrites' = DoWrites /\ Dones' = Dones
          /\ WrongTells(from, to)' \subseteq DoWrites /\ WrongDones(from, to)' \subseteq Dones
        <3>1. Message' = Message
            BY <1>4, CallKept
        <3>2. QED
            BY <3>1 DEF WrongTells, WrongDones, DoWrites, Dones
    <2>4. NotIn(out[to], DoWrites) /\ NotIn(out[to], Dones)
        BY <1>1, WritesNot
    <2>5. NotIn(Msgs(<<from, to>>)', WrongTells(from, to)')
        <3>1. CASE from = r
            <4>1. NotIn(s, DoWrites)
                <5>1. ASSUME NEW i \in 1..Len(s), s[i] \in DoWrites PROVE FALSE
                    <6>1. s[i] \notin WrongTells(from, to)
                        BY <2>2 DEF NotIn
                    <6>2. to = q /\ s[i] \in Message /\ s[i].type = "DO_WRITE"
                        BY <1>6, <3>1, <5>1, <6>1 DEF WrongTells, DoWrites
                    <6>3. s[i] \in TellsOf(q)[to]
                        BY <1>5, <6>2, TellsWhom
                    <6>4. NoneTells(q)
                        BY <1>5, <1>6 DEF Held
                    <6>5. NotIn(AllMsgs[<<from, to>>], ByReceiver(TellsOf(q))[<<from, to>>])
                        BY <6>4 DEF NoneTells, MsgsNone, AllNot
                    <6>6. AllMsgs[<<from, to>>] = s /\ ByReceiver(TellsOf(q))[<<from, to>>] = TellsOf(q)[to]
                        BY <2>1, PairOf DEF AllMsgs, ByReceiver
                    <6>7. QED
                        BY <6>3, <6>5, <6>6 DEF NotIn
                <5>2. QED
                    BY <5>1 DEF NotIn
            <4>2. PICK D : D = DoWrites
                OBVIOUS
            <4>3. NotIn(Msgs(<<from, to>>)', D)
                BY <1>4, <2>1, <2>4, <4>1, <4>2, ChannelStep
            <4>4. QED
                BY <2>3, <4>2, <4>3 DEF NotIn
        <3>2. CASE from # r
            <4>1. WrongTells(from, to)' \subseteq WrongTells(from, to)
                <5>1. SameFile(from)
                    BY <1>7, <3>2
                <5>2. QED
                    BY <1>11, <2>3, <5>1 DEF WrongTells, SameFile
            <4>2. PICK A : A = WrongTells(from, to)
                OBVIOUS
            <4>3. from # r
                BY <3>2
            <4>4. NotIn(Msgs(<<from, to>>)', A)
                BY <1>4, <2>1, <2>2, <4>2, <4>3, ChannelStep
            <4>5. QED
                BY <4>1, <4>2, <4>4 DEF NotIn
        <3>3. QED
            BY <3>1, <3>2
    <2>6. /\ NotIn(Msgs(<<from, to>>)', WrongDones(from, to)')
          /\ NotIn(Msgs(<<from, to>>)', Dones) \/ OnceIn(Msgs(<<from, to>>)', Dones)
        <3>0. PICK B, D : B = WrongDones(from, to) /\ D = Dones
            OBVIOUS
        <3>1. CASE to = r
            <4>1. from # q => NotIn(s, D)
                <5>1. ASSUME from # q, NEW i \in 1..Len(s), s[i] \in D PROVE FALSE
                    <6>1. s[i] \notin WrongDones(from, to)
                        BY <2>2 DEF NotIn
                    <6>2. QED
                        BY <1>6, <3>0, <3>1, <5>1, <6>1 DEF WrongDones
                <5>2. QED
                    BY <5>1 DEF NotIn
            <4>2. from = q => First(r, q) \in D /\ OnceIn(s, D)
                <5>1. First(r, q) \in D
                    BY <1>2, <1>6, <3>0
                <5>2. ~NotIn(Msgs(<<q, r>>), Dones)
                    BY <1>2, <1>3, <1>6, FirstWrites
                <5>3. QED
                    BY <2>1, <2>2, <3>0, <3>1, <5>1, <5>2
            <4>3. NotIn(Msgs(<<from, to>>)', D)
                BY <1>4, <2>1, <2>4, <3>0, <3>1, <4>1, <4>2, ChannelStep
            <4>4. QED
                BY <2>3, <3>0, <4>3 DEF NotIn
        <3>2. CASE to # r
            <4>1. B = WrongDones(from, to)'
                <5>1. SameFile(to)
                    BY <1>7, <3>2
                <5>2. QED
                    BY <1>3, <1>11, <2>3, <3>0, <5>1 DEF WrongDones, SameFile
            <4>2. to # r
                BY <3>2
            <4>3. NotIn(out[to], B) /\ NotIn(out[to], D)
                BY <2>3, <2>4, <3>0, <4>1 DEF NotIn
            <4>4. NotIn(Msgs(<<from, to>>)', B)
                BY <1>4, <2>1, <2>2, <3>0, <4>2, <4>3, ChannelStep
            <4>5. NotIn(Msgs(<<from, to>>)', D) \/ OnceIn(Msgs(<<from, to>>)', D)
                BY <1>4, <2>1, <2>2, <3>0, <4>2, <4>3, ChannelStep
            <4>6. QED
                BY <3>0, <4>1, <4>4, <4>5
        <3>3. QED
            BY <3>1, <3>2
    <2>7. QED
        BY <2>3, <2>5, <2>6 DEF ChannelOk
<1>15. QED
    BY <1>11, <1>12, <1>13, <1>14 DEF WriteInv

-----------------------------------------------------------------------------
(* The rest of a turn *)

ToldItself(r) == Dispatches(r) /\ NextWriter(r) = r

(* What it does to the threads, field by field *)
LEMMA WorkFields ==
    ASSUME TypeInv, NEW r \in Rank, Work(r)
    PROVE  /\ \A x \in Rank \ {r} : rank'[x] = rank[x] /\ sc'[x] = sc[x]
           /\ rank'[r].main = rank[r].main /\ rank'[r].m_FinishedWriting = rank[r].m_FinishedWriting
           /\ rank'[r].m_SubStreamIndex = rank[r].m_SubStreamIndex
           /\ rank'[r].m_StartDataPos = rank[r].m_StartDataPos
           /\ rank'[r].sentFinished = (rank[r].sentFinished \/ Notifies(r))
           /\ rank'[r].looping = KeepsGoing(r)
           /\ ToldItself(r) =>
                 /\ rank'[r].m_ReadyToWrite /\ rank'[r].m_TargetIndex = rank[r].m_SubStreamIndex
                 /\ rank'[r].m_TargetCoordinator = r /\ rank'[r].m_DataPos = sc[r].currentFilePos
           /\ ~ToldItself(r) =>
                 /\ rank'[r].m_ReadyToWrite = rank[r].m_ReadyToWrite
                 /\ rank'[r].m_TargetIndex = rank[r].m_TargetIndex
                 /\ rank'[r].m_TargetCoordinator = rank[r].m_TargetCoordinator
                 /\ rank'[r].m_DataPos = IF r \in SubCoords /\ ~rank'[r].looping THEN sc[r].currentFilePos
                                         ELSE rank[r].m_DataPos
           /\ sc'[r].currentFilePos = sc[r].currentFilePos
           /\ Dispatches(r) => sc'[r].writingRank = NextWriter(r) /\ sc'[r].writerQueue = Tail(sc[r].writerQueue)
           /\ ~Dispatches(r) => sc'[r].writingRank = sc[r].writingRank /\ sc'[r].writerQueue = sc[r].writerQueue
<1>0. rank \in [Rank -> ThreadType(Groups)] /\ sc \in [Rank -> CoordinatorType]
    BY ThreadsBefore
<1>1. PICK told \in ThreadType(Groups) : told = Told(r)
    BY ToldType
<1>2. PICK sent, closed, keeps, pos :
          /\ sent = (told.sentFinished \/ Notifies(r))
          /\ closed = (told.receivedGroupClose \/ Closes(r))
          /\ keeps = KeepsGoing(r)
          /\ pos = IF r \in SubCoords /\ ~KeepsGoing(r) THEN sc[r].currentFilePos ELSE told.m_DataPos
    OBVIOUS
<1>3. rank' = [rank EXCEPT ![r] = [told EXCEPT !.sentFinished = sent, !.receivedGroupClose = closed,
                                              !.looping = keeps, !.m_DataPos = pos]]
    <2>1. rank' = [rank EXCEPT ![r] =
                     [Told(r) EXCEPT !.sentFinished = @ \/ Notifies(r),
                                     !.receivedGroupClose = @ \/ Closes(r),
                                     !.looping = KeepsGoing(r),
                                     !.m_DataPos = IF r \in SubCoords /\ ~KeepsGoing(r)
                                                   THEN sc[r].currentFilePos ELSE @]]
        BY WorkParts
    <2>2. QED
        BY <1>1, <1>2, <2>1, Zenon
<1>4. rank'[r] = [told EXCEPT !.sentFinished = sent, !.receivedGroupClose = closed, !.looping = keeps, !.m_DataPos = pos]
      /\ \A x \in Rank \ {r} : rank'[x] = rank[x]
    BY <1>0, <1>3
<1>5. /\ rank'[r].main = told.main /\ rank'[r].m_FinishedWriting = told.m_FinishedWriting
      /\ rank'[r].m_SubStreamIndex = told.m_SubStreamIndex /\ rank'[r].m_StartDataPos = told.m_StartDataPos
      /\ rank'[r].sentFinished = sent /\ rank'[r].looping = keeps /\ rank'[r].m_DataPos = pos
      /\ rank'[r].m_ReadyToWrite = told.m_ReadyToWrite /\ rank'[r].m_TargetIndex = told.m_TargetIndex
      /\ rank'[r].m_TargetCoordinator = told.m_TargetCoordinator
    BY <1>1, <1>4 DEF ThreadType
<1>6. /\ told.main = rank[r].main /\ told.m_FinishedWriting = rank[r].m_FinishedWriting
      /\ told.m_SubStreamIndex = rank[r].m_SubStreamIndex /\ told.m_StartDataPos = rank[r].m_StartDataPos
      /\ told.sentFinished = rank[r].sentFinished
      /\ ToldItself(r) => /\ told.m_ReadyToWrite /\ told.m_TargetIndex = rank[r].m_SubStreamIndex
                          /\ told.m_TargetCoordinator = r /\ told.m_DataPos = sc[r].currentFilePos
      /\ ~ToldItself(r) => told = rank[r]
    <2>1. CASE ToldItself(r)
        <3>1. told = [rank[r] EXCEPT !.m_TargetIndex = rank[r].m_SubStreamIndex, !.m_TargetCoordinator = r,
                                     !.m_ReadyToWrite = TRUE, !.m_DataPos = sc[r].currentFilePos]
            BY <1>1, <2>1 DEF Told, ToldItself
        <3>2. rank[r] \in ThreadType(Groups)
            BY <1>0
        <3>3. QED
            BY <2>1, <3>1, <3>2 DEF ThreadType
    <2>2. CASE ~ToldItself(r)
        BY <1>1, <2>2 DEF Told, ToldItself
    <2>3. QED
        BY <2>1, <2>2
<1>7. /\ \A x \in Rank \ {r} : sc'[x] = sc[x]
      /\ sc'[r].currentFilePos = sc[r].currentFilePos
      /\ Dispatches(r) => sc'[r].writingRank = NextWriter(r) /\ sc'[r].writerQueue = Tail(sc[r].writerQueue)
      /\ ~Dispatches(r) => sc'[r].writingRank = sc[r].writingRank /\ sc'[r].writerQueue = sc[r].writerQueue
    <2>1. Dispatch(r)
        BY WorkParts
    <2>2. CASE Dispatches(r)
        <3>1. PICK v, queue : v = NextWriter(r) /\ queue = Tail(sc[r].writerQueue)
            OBVIOUS
        <3>2. sc' = [sc EXCEPT ![r] = [sc[r] EXCEPT !.writingRank = v, !.writerQueue = queue,
                                                    !.expectingWriteCompletion = TRUE]]
            BY <2>1, <2>2, <3>1, Zenon DEF Dispatch
        <3>3. QED
            BY <1>0, <2>2, <3>1, <3>2 DEF CoordinatorType
    <2>3. CASE ~Dispatches(r)
        <3>1. PICK idles : sc' = [sc EXCEPT ![r] = [sc[r] EXCEPT !.sentIdle = idles]]
            BY <2>1, <2>3, Zenon DEF Dispatch
        <3>2. QED
            BY <1>0, <2>3, <3>1 DEF CoordinatorType
    <2>4. QED
        BY <2>2, <2>3
<1>8. pos = IF r \in SubCoords /\ ~keeps THEN sc[r].currentFilePos ELSE told.m_DataPos
    BY <1>2
<1>9. QED
    BY <1>2, <1>4, <1>5, <1>6, <1>7, <1>8

(* What it sends: the completion, if its main thread is done, and who it dispatches *)
LEMMA WorkSends ==
    ASSUME TypeInv, NEW r \in Rank, NEW idle \in Groups, NEW writing \in Groups,
           NEW out, out = Output(r, idle, writing), NEW to \in Rank, NEW S, S \subseteq DoWrites \cup Dones,
           NEW done, done = IF Notifies(r) /\ to = rank[r].m_TargetCoordinator
                            THEN <<[type |-> "WRITE_COMPLETION", offset |-> rank[r].m_DataPos]>> ELSE <<>>,
           NEW order, order = Orders(r)[to]
    PROVE  /\ NotIn(done, S) /\ NotIn(order, S) => NotIn(out[to], S)
           /\ OnceIn(done, S) /\ NotIn(order, S) => OnceIn(out[to], S)
<1>1. PICK a \in Seq(Message), b \in Seq(Message), c \in Seq(Message) :
          a = Completion(r)[to] /\ b = Orders(r)[to] /\ c = Coordination(r, idle, writing)[to]
    <2>1. Completion(r)[to] \in Seq(Message)
        BY CompletionType
    <2>2. Orders(r)[to] \in Seq(Message)
        BY OrdersType
    <2>3. Coordination(r, idle, writing)[to] \in Seq(Message)
        BY CoordinationType
    <2>4. QED
        BY <2>1, <2>2, <2>3
<1>2. out[to] = a \o b \o c
    BY <1>1 DEF Output
<1>3. a = done /\ b = order
    BY <1>1 DEF Completion, To
<1>4. NotIn(c, S)
    <2>1. PICK m, D : /\ m.type \notin {"DO_WRITE", "WRITE_COMPLETION"}
                      /\ Coordination(r, idle, writing) \in {To(D, m), Nothing}
        <3>1. [type |-> "GROUP_CLOSE"].type = "GROUP_CLOSE"
            OBVIOUS
        <3>2. [type |-> "REROUTE_REQUEST", src |-> SubCoord(writing), dest |-> SubCoord(idle), rank |-> NoRank].type
                  = "REROUTE_REQUEST"
            OBVIOUS
        <3>3. QED
            BY <3>1, <3>2 DEF Coordination
    <2>2. OutNone(Coordination(r, idle, writing), Writes)
        BY <2>1, ToNoWrites
    <2>3. NotIn(c, DoWrites) /\ NotIn(c, Dones)
        BY <1>1, <2>2, WritesNot
    <2>4. QED
        BY <2>3 DEF NotIn
<1>5. PICK ab \in Seq(Message) : ab = a \o b
    BY ConcatProperties
<1>6. /\ NotIn(a, S) /\ NotIn(b, S) => NotIn(ab, S)
      /\ OnceIn(a, S) /\ NotIn(b, S) => OnceIn(ab, S)
    BY <1>5, ConcatNotIn
<1>7. /\ NotIn(ab, S) /\ NotIn(c, S) => NotIn(ab \o c, S)
      /\ OnceIn(ab, S) /\ NotIn(c, S) => OnceIn(ab \o c, S)
    BY ConcatNotIn
<1>8. out[to] = ab \o c
    BY <1>1, <1>2, <1>5
<1>9. QED
    BY <1>1, <1>3, <1>4, <1>6, <1>7, <1>8, Zenon

(* Who is dispatched was not told, and leads no group unless it is the rank itself. *)
LEMMA DispatchedWaits ==
    ASSUME TypeInv, QueueInv, OwnFirst, rerouting, NEW r \in Rank, Dispatches(r)
    PROVE  /\ NextWriter(r) \in Rank /\ ~rank[NextWriter(r)].m_ReadyToWrite
           /\ r \in SubCoords /\ sc[r].writingRank = NoRank
           /\ NextWriter(r) # r => NextWriter(r) \notin SubCoords
<1>1. PICK v \in Rank : v = NextWriter(r)
    BY NextWriterType
<1>2. PICK queue \in Seq(Rank) : queue = sc[r].writerQueue
    BY ThreadsBefore DEF CoordinatorType
<1>3. queue # <<>> /\ v = Head(queue) /\ r \in SubCoords /\ sc[r].writingRank = NoRank
    BY <1>1, <1>2 DEF Dispatches, NobodyWrites, NextWriter
<1>4. queue[1] = v /\ 1 \in 1..Len(queue)
    BY <1>3
<1>5. ~NotIn(Queues[r], Just(v)[r])
    BY <1>2, <1>4 DEF NotIn, Queues, Just
<1>6. ~rank[v].m_ReadyToWrite /\ OneQueues(v)
    <2>1. Held(v) /\ ~NoneQueues(v)
        BY <1>5 DEF QueueInv, HeldInv, NoneQueues, AllNot
    <2>2. QED
        BY <2>1 DEF Held
<1>7. ASSUME v # r, v \in SubCoords PROVE FALSE
    <2>1. PICK own \in Seq(Rank) : own = sc[v].writerQueue
        BY ThreadsBefore DEF CoordinatorType
    <2>2. own # <<>> /\ Head(own) = v
        BY <1>6, <1>7, <2>1 DEF OwnFirst
    <2>3. own[1] = v /\ 1 \in 1..Len(own)
        BY <2>2
    <2>4. ~NotIn(Queues[v], Just(v)[v])
        BY <2>1, <2>3 DEF NotIn, Queues, Just
    <2>5. PICK s \in Rank : \A y \in Rank \ {s} : NotIn(Queues[y], Just(v)[y])
        BY <1>6 DEF OneQueues, OneOf
    <2>6. QED
        BY <1>5, <1>7, <2>4, <2>5
<1>8. QED
    BY <1>1, <1>3, <1>6, <1>7

LEMMA WorkWrites ==
    ASSUME TypeInv, TypeInv', QueueInv, WriteInv, OwnFirst, NEW r \in Rank, rank[r].looping, Work(r)
    PROVE  WriteInv'
<1>1. PICK idle \in Groups, writing \in Groups :
          Exchanges(r, NoRank, Output(r, idle, writing)) /\ UNCHANGED callVars
    BY WorkExchanges
<1>2. PICK out \in [Rank -> Seq(Message)] : out = Output(r, idle, writing)
    BY OutputType
<1>3. Exchanges(r, NoRank, out)
    BY <1>1, <1>2
<1>4. /\ rerouting /\ PlanInv /\ LoopsInv /\ NoRank \notin Rank /\ SubCoords \subseteq Rank
      /\ \A g \in Groups : SubCoord(g) \in Rank
    BY PlanInvCoords DEF QueueInv, LoopsInv, TypeInv
<1>5. \A x \in Rank : ThreadOk(x)
    BY <1>4 DEF WriteInv
<1>6. /\ SubCoords' = SubCoords /\ Groups' = Groups /\ start' = start /\ \A g : SubCoord(g)' = SubCoord(g)
      /\ rerouting' = rerouting /\ Message' = Message /\ size' = size
    BY <1>1, CallKept
<1>7. PICK v : v = NextWriter(r)
    OBVIOUS
<1>8. Dispatches(r) => /\ v \in Rank /\ ~rank[v].m_ReadyToWrite /\ r \in SubCoords /\ sc[r].writingRank = NoRank
                       /\ (v # r => v \notin SubCoords)
    BY <1>4, <1>7, DispatchedWaits
<1>9. /\ \A x \in Rank \ {r} : rank'[x] = rank[x] /\ sc'[x] = sc[x]
      /\ sc'[r].currentFilePos = sc[r].currentFilePos
      /\ Dispatches(r) => sc'[r].writingRank = v
      /\ ~Dispatches(r) => sc'[r].writingRank = sc[r].writingRank
    BY <1>7, WorkFields
<1>10. /\ rank'[r].main = rank[r].main /\ rank'[r].m_FinishedWriting = rank[r].m_FinishedWriting
       /\ rank'[r].m_SubStreamIndex = rank[r].m_SubStreamIndex
       /\ rank'[r].m_StartDataPos = rank[r].m_StartDataPos
       /\ rank'[r].sentFinished = (rank[r].sentFinished \/ Notifies(r))
    BY WorkFields
<1>11. /\ ToldItself(r) =>
             /\ rank'[r].m_ReadyToWrite /\ rank'[r].m_TargetIndex = rank[r].m_SubStreamIndex
             /\ rank'[r].m_TargetCoordinator = r /\ rank'[r].m_DataPos = sc[r].currentFilePos
       /\ ~ToldItself(r) =>
             /\ rank'[r].m_ReadyToWrite = rank[r].m_ReadyToWrite
             /\ rank'[r].m_TargetIndex = rank[r].m_TargetIndex
             /\ rank'[r].m_TargetCoordinator = rank[r].m_TargetCoordinator
             /\ rank'[r].m_DataPos = IF r \in SubCoords /\ ~rank'[r].looping THEN sc[r].currentFilePos
                                     ELSE rank[r].m_DataPos
       /\ ToldItself(r) <=> Dispatches(r) /\ v = r
    BY <1>7, WorkFields DEF ToldItself
<1>12. /\ ~rank[r].m_ReadyToWrite => rank[r].main = "wait"
       /\ rank[r].main \in {"wait", "write"} => ~rank[r].m_FinishedWriting /\ ~rank[r].sentFinished
       /\ rank[r].m_FinishedWriting => rank[r].m_ReadyToWrite
       /\ Works(r) => rank[r].m_TargetCoordinator \in SubCoords
    BY <1>4, <1>5, NotReady
<1>13. rank[r].m_ReadyToWrite => rank'[r].m_ReadyToWrite /\ ~ToldItself(r)
    BY <1>8, <1>11
<1>14. ASSUME NEW w \in Rank, NEW x \in Rank, sc[w].writingRank = x
       PROVE  sc'[w].writingRank = x
    BY <1>4, <1>8, <1>9, <1>14
<1>15. ASSUME NEW x \in Rank, NEW w \in Rank, sc'[w].writingRank = x, rank[x].m_ReadyToWrite
       PROVE  sc[w].writingRank = x
    BY <1>8, <1>9, <1>15
<1>16. \A x \in Rank : RegionEnd(x)' = RegionEnd(x)
    BY <1>6, <1>9, <1>10 DEF RegionEnd
<1>17. ThreadOk(r)'
    <2>1. CASE ToldItself(r)
        <3>1. ~rank[r].m_ReadyToWrite /\ r \in SubCoords
            BY <1>8, <1>11, <2>1
        <3>2. rank[r].main = "wait" /\ ~rank[r].m_FinishedWriting /\ ~rank[r].sentFinished
            BY <1>12, <3>1
        <3>3. ~Notifies(r)
            BY <3>2 DEF Notifies
        <3>4. Works(r)'
            BY <1>9, <1>11, <2>1 DEF Works
        <3>5. SubCoord(rank[r].m_SubStreamIndex) = r
            BY <1>5, <3>1 DEF ThreadOk
        <3>6. QED
            BY <1>6, <1>9, <1>10, <1>11, <2>1, <3>1, <3>2, <3>3, <3>4, <3>5 DEF ThreadOk
    <2>2. CASE ~ToldItself(r)
        <3>1. PICK s : s = rank[r].m_TargetCoordinator
            OBVIOUS
        <3>2. rank[r].m_ReadyToWrite => s \in SubCoords /\ s \in Rank /\ sc'[s].currentFilePos = sc[s].currentFilePos
            BY <1>4, <1>5, <1>9, <3>1 DEF ThreadOk
        <3>3. rank[r].m_ReadyToWrite => Works(r)' = Works(r)
            BY <1>11, <1>13, <1>14, <1>15, <2>2, <3>1, <3>2 DEF Works
        <3>4. \A p : Behind(p)' = Behind(p)
            BY DEF Behind, Padding
        <3>5. rank[r].m_FinishedWriting => rank'[r].sentFinished
            BY <1>10 DEF Notifies
        <3>6. rank'[r].sentFinished => rank[r].m_FinishedWriting
            BY <1>5, <1>10 DEF Notifies, ThreadOk
        <3>7. rank[r].m_ReadyToWrite /\ rank[r].main = "wait" => rank'[r].m_DataPos = sc[s].currentFilePos
            <4>1. rank[r].m_ReadyToWrite /\ rank[r].main = "wait" => rank[r].m_DataPos = sc[s].currentFilePos
                BY <1>5, <3>1 DEF ThreadOk
            <4>2. rank[r].m_ReadyToWrite /\ r \in SubCoords => s = r
                BY <1>5, <3>1 DEF ThreadOk
            <4>3. QED
                BY <1>11, <2>2, <4>1, <4>2
        <3>8. /\ rank'[r].m_ReadyToWrite = rank[r].m_ReadyToWrite
              /\ rank'[r].m_TargetIndex = rank[r].m_TargetIndex
              /\ rank'[r].m_TargetCoordinator = s
            BY <1>11, <2>2, <3>1
        <3>9. ~rank[r].m_ReadyToWrite => ~Works(r)'
            BY <3>8 DEF Works
        <3>10. rank[r].m_ReadyToWrite /\ ~rank'[r].sentFinished => Works(r)
            BY <1>5, <1>10 DEF ThreadOk
        <3>11. ThreadOk(r)
            BY <1>5
        <3>12. Works(r)' /\ rank[r].main # "wait" => rank[r].m_StartDataPos = Behind(sc[s].currentFilePos)
            BY <3>1, <3>3, <3>9, <3>11 DEF ThreadOk
        <3>13. rank[r].m_FinishedWriting /\ ~Works(r)' => RegionEnd(r) <= sc[s].currentFilePos
            BY <1>12, <3>1, <3>3, <3>11 DEF ThreadOk
        <3>14. /\ rank[r].main \in {"join", "done"} <=> rank[r].m_FinishedWriting
               /\ rank[r].m_ReadyToWrite => SubCoord(rank[r].m_TargetIndex) = s
               /\ rank[r].main # "wait" => rank[r].m_SubStreamIndex = rank[r].m_TargetIndex
               /\ r \in SubCoords => SubCoord(rank[r].m_SubStreamIndex) = r /\ (rank[r].m_ReadyToWrite => s = r)
            BY <3>1, <3>11 DEF ThreadOk
        <3>15. PICK pos : rank[r].m_ReadyToWrite => pos = sc'[s].currentFilePos /\ pos = sc[s].currentFilePos
            BY <3>2
        <3>16. rank[r].m_ReadyToWrite /\ ~rank'[r].sentFinished => Works(r)'
            BY <3>3, <3>10
        <3>17. rank[r].main # "wait" => rank[r].m_ReadyToWrite
            BY <1>12
        <3>18. /\ rank'[r].m_ReadyToWrite /\ rank'[r].main = "wait" => rank'[r].m_DataPos = sc'[s].currentFilePos
               /\ Works(r)' /\ rank'[r].main # "wait" => rank'[r].m_StartDataPos = Behind(sc'[s].currentFilePos)
               /\ rank'[r].m_FinishedWriting /\ ~Works(r)' => RegionEnd(r)' <= sc'[s].currentFilePos
               /\ rank'[r].m_FinishedWriting /\ ~rank'[r].sentFinished => rank'[r].m_DataPos = RegionEnd(r)'
            BY <1>10, <1>12, <1>16, <3>4, <3>5, <3>7, <3>8, <3>12, <3>13, <3>15, <3>17
        <3>19. QED
            BY <1>6, <1>10, <3>2, <3>6, <3>8, <3>14, <3>16, <3>18 DEF ThreadOk
    <2>3. QED
        BY <2>1, <2>2
<1>18. ASSUME NEW x \in Rank, x # r PROVE ThreadOk(x)'
    <2>1. ThreadOk(x) /\ rank'[x] = rank[x]
        BY <1>5, <1>9, <1>18
    <2>2. PICK s : s = rank[x].m_TargetCoordinator
        OBVIOUS
    <2>3. rank[x].m_FinishedWriting => rank[x].m_ReadyToWrite
        BY <1>4, <1>5, NotReady
    <2>4. rank[x].m_ReadyToWrite => s \in SubCoords /\ s \in Rank /\ sc'[s].currentFilePos = sc[s].currentFilePos
        BY <1>4, <1>9, <2>1, <2>2 DEF ThreadOk
    <2>5. Works(x)' <=> Works(x)
        BY <1>14, <1>15, <2>1, <2>2, <2>4 DEF Works
    <2>6. \A p : Behind(p)' = Behind(p)
        BY DEF Behind, Padding
    <2>7. RegionEnd(x)' = RegionEnd(x)
        BY <1>16
    <2>8. Works(x) => rank[x].m_ReadyToWrite
        BY DEF Works
    <2>9. QED
        BY <1>6, <2>1, <2>2, <2>3, <2>4, <2>5, <2>6, <2>7, <2>8 DEF ThreadOk
<1>19. ASSUME NEW g \in Groups PROVE FileOk(g)'
    <2>1. PICK s \in Rank : s = SubCoord(g)
        BY <1>4
    <2>2. FileOk(g) /\ s \in SubCoords
        BY <1>4, <1>19, <2>1, PlanInvCoords DEF WriteInv
    <2>3. ASSUME ~rank'[s].looping
          PROVE  sc'[s].writingRank = NoRank /\ rank'[s].m_DataPos = sc[s].currentFilePos /\ rank'[s].m_ReadyToWrite
        <3>1. CASE s = r
            <4>1. ~KeepsGoing(r)
                BY <2>3, <3>1, WorkFields
            <4>2. ~sc'[r].expectingWriteCompletion
                BY <2>2, <3>1, <4>1 DEF KeepsGoing
            <4>3. sc'[r].writingRank = NoRank
                BY <4>2 DEF TypeInv, ThreadsTyped, Expecting
            <4>4. ~Dispatches(r) /\ sc[r].writingRank = NoRank
                BY <1>4, <1>8, <1>9, <4>3
            <4>5. sc[r].writerQueue = <<>>
                BY <2>2, <3>1, <4>4 DEF Dispatches, NobodyWrites
            <4>6. rank[r].m_ReadyToWrite
                BY <1>4, <2>2, <3>1, <4>5 DEF OwnFirst
            <4>7. QED
                BY <1>11, <1>13, <2>2, <2>3, <3>1, <4>3, <4>6
        <3>2. CASE s # r
            BY <1>9, <2>1, <2>2, <2>3, <3>2 DEF FileOk
        <3>3. QED
            BY <3>1, <3>2
    <2>4. sc'[s].currentFilePos = sc[s].currentFilePos
        BY <1>9
    <2>5. ASSUME NEW x \in Rank, rank[x].m_FinishedWriting
          PROVE  /\ rank'[x].m_FinishedWriting /\ rank'[x].m_SubStreamIndex = rank[x].m_SubStreamIndex
                 /\ rank'[x].m_StartDataPos = rank[x].m_StartDataPos
        BY <1>9, <1>10, <2>5
    <2>6. QED
        BY <1>1, <1>4, <2>1, <2>2, <2>3, <2>4, <2>5, FileKept
<1>20. ASSUME NEW from \in Rank, NEW to \in Rank PROVE ChannelOk(from, to)'
    <2>1. WrongTells(from, to)' \subseteq WrongTells(from, to) /\ WrongDones(from, to)' \subseteq WrongDones(from, to)
        <3>1. from \in SubCoords /\ sc[from].writingRank = to => SameFile(from)
            BY <1>9, <1>14 DEF SameFile
        <3>2. ASSUME rank[from].m_ReadyToWrite, rank[from].sentFinished,
                     rank[from].m_TargetCoordinator = to, sc[to].writingRank = from
              PROVE  /\ rank'[from].m_ReadyToWrite /\ rank'[from].sentFinished
                     /\ rank'[from].m_TargetCoordinator = to
                     /\ sc'[to].writingRank = from /\ rank'[from].m_StartDataPos = rank[from].m_StartDataPos
            BY <1>9, <1>10, <1>11, <1>13, <1>14, <3>2
        <3>3. QED
            BY <1>1, <3>1, <3>2, WrongKept
    <2>2. CASE from # r
        BY <1>1, <1>3, <2>1, <2>2, ChannelKept DEF WriteInv
    <2>3. CASE from = r
        <3>1. PICK s \in Seq(Message) : s = Msgs(<<r, to>>)
            BY <1>3, ExchangedMsgs
        <3>2. PICK A, B, D : A = WrongTells(r, to) /\ B = WrongDones(r, to) /\ D = Dones
            OBVIOUS
        <3>3. NotIn(s, A) /\ NotIn(s, B) /\ (NotIn(s, D) \/ OnceIn(s, D))
            BY <3>1, <3>2 DEF WriteInv, ChannelOk
        <3>4. /\ DoWrites' = DoWrites /\ Dones' = D
              /\ WrongTells(r, to)' \subseteq DoWrites /\ WrongDones(r, to)' \subseteq D
            BY <1>6, <3>2 DEF WrongTells, WrongDones, DoWrites, Dones
        <3>5. PICK A1, B1 : A1 = WrongTells(r, to)' /\ B1 = WrongDones(r, to)'
            OBVIOUS
        <3>6. PICK done, order :
                  /\ done = IF Notifies(r) /\ to = rank[r].m_TargetCoordinator
                            THEN <<[type |-> "WRITE_COMPLETION", offset |-> rank[r].m_DataPos]>> ELSE <<>>
                  /\ order = Orders(r)[to]
            OBVIOUS
        <3>7. ASSUME NEW S, S \subseteq DoWrites \cup D
              PROVE  /\ NotIn(done, S) /\ NotIn(order, S) => NotIn(out[to], S)
                     /\ OnceIn(done, S) /\ NotIn(order, S) => OnceIn(out[to], S)
            BY <1>2, <3>2, <3>6, <3>7, WorkSends
        <3>8. NotIn(order, D) /\ NotIn(order, B1) /\ NotIn(order, A1)
            <4>1. CASE Dispatches(r) /\ to = v /\ v # r
                <5>1. PICK m : m = [type |-> "DO_WRITE", index |-> rank[r].m_SubStreamIndex, offset |-> sc[r].currentFilePos]
                    OBVIOUS
                <5>2. order = <<m>>
                    BY <1>7, <3>6, <4>1, <5>1 DEF Orders, To
                <5>3. m.type = "DO_WRITE" /\ m.index = rank[r].m_SubStreamIndex /\ m.offset = sc[r].currentFilePos
                    BY <5>1
                <5>4. m \notin D /\ m \notin B1
                    BY <3>2, <3>4, <3>5, <5>3 DEF Dones
                <5>5. SubCoord(rank[r].m_SubStreamIndex) = r
                    BY <1>5, <1>8, <4>1 DEF ThreadOk
                <5>6. m \notin A1
                    BY <1>4, <1>6, <1>8, <1>9, <3>5, <4>1, <5>3, <5>5 DEF WrongTells
                <5>7. QED
                    BY <5>2, <5>4, <5>6, NoneNotIn
            <4>2. CASE ~(Dispatches(r) /\ to = v /\ v # r)
                <5>1. PICK m : m = [type |-> Reports(r), index |-> rank[r].m_SubStreamIndex]
                    OBVIOUS
                <5>2. order = <<>> \/ order = <<m>>
                    BY <1>7, <3>6, <4>2, <5>1 DEF Orders, To, Nothing
                <5>3. m.type \in {"WRITER_CAPACITY", "WRITER_IDLE"}
                    BY <5>1 DEF Reports
                <5>4. m \notin D /\ m \notin B1 /\ m \notin A1
                    BY <3>2, <3>4, <3>5, <5>3 DEF Dones, DoWrites
                <5>5. QED
                    BY <5>2, <5>4, NoneNotIn
            <4>3. QED
                BY <4>1, <4>2
        <3>9. CASE Notifies(r) /\ to = rank[r].m_TargetCoordinator
            <4>1. rank[r].m_FinishedWriting /\ ~rank[r].sentFinished
                BY <3>9 DEF Notifies
            <4>2. rank[r].m_ReadyToWrite /\ Works(r) /\ rank[r].m_DataPos = RegionEnd(r) /\ ~ToldItself(r)
                BY <1>5, <1>12, <1>13, <4>1 DEF ThreadOk
            <4>3. NotIn(s, D)
                <5>1. B = D
                    BY <3>2, <4>1 DEF WrongDones
                <5>2. QED
                    BY <3>3, <5>1
            <4>4. PICK m : m = [type |-> "WRITE_COMPLETION", offset |-> rank[r].m_DataPos]
                OBVIOUS
            <4>5. done = <<m>> /\ m.type = "WRITE_COMPLETION" /\ m.offset = RegionEnd(r)
                BY <3>6, <3>9, <4>2, <4>4
            <4>6. m \in D
                <5>1. rank[r].m_DataPos \in Nat
                    BY ThreadsBefore DEF ThreadType
                <5>2. QED
                    BY <3>2, <4>4, <4>5, <5>1 DEF Dones, Message, Pos
            <4>7. m \notin A1 /\ m \notin B1
                <5>1. m \notin A1
                    BY <3>4, <3>5, <4>5 DEF DoWrites
                <5>2. sc'[to].writingRank = r
                    BY <1>14, <3>9, <4>2 DEF Works
                <5>3. rank'[r].m_ReadyToWrite /\ rank'[r].sentFinished /\ rank'[r].m_TargetCoordinator = to
                    BY <1>10, <1>11, <1>13, <3>9, <4>2
                <5>4. m \notin B1
                    BY <1>4, <1>6, <1>16, <3>5, <4>5, <5>2, <5>3 DEF WrongDones
                <5>5. QED
                    BY <5>1, <5>4
            <4>8. NotIn(done, A1) /\ NotIn(done, B1) /\ OnceIn(done, D)
                BY <4>5, <4>6, <4>7, NoneNotIn
            <4>9. NotIn(out[to], A1) /\ NotIn(out[to], B1) /\ OnceIn(out[to], D)
                BY <3>4, <3>5, <3>7, <3>8, <4>8
            <4>10. NotIn(s, A1) /\ NotIn(s, B1)
                BY <2>1, <2>3, <3>2, <3>3, <3>5 DEF NotIn
            <4>11. NotIn(Msgs(<<r, to>>)', A1) /\ NotIn(Msgs(<<r, to>>)', B1) /\ OnceIn(Msgs(<<r, to>>)', D)
                BY <1>3, <3>1, <4>3, <4>9, <4>10, ChannelStep
            <4>12. QED
                BY <2>3, <3>4, <3>5, <4>11 DEF ChannelOk
        <3>10. CASE ~(Notifies(r) /\ to = rank[r].m_TargetCoordinator)
            <4>1. done = <<>>
                BY <3>6, <3>10
            <4>2. NotIn(done, A1) /\ NotIn(done, B1) /\ NotIn(done, D)
                BY <4>1, NoneNotIn
            <4>3. NotIn(out[to], A1) /\ NotIn(out[to], B1) /\ NotIn(out[to], D)
                BY <3>4, <3>5, <3>7, <3>8, <4>2
            <4>4. NotIn(s, A1) /\ NotIn(s, B1)
                BY <2>1, <2>3, <3>2, <3>3, <3>5 DEF NotIn
            <4>5. NotIn(Msgs(<<r, to>>)', A1) /\ NotIn(Msgs(<<r, to>>)', B1)
                BY <1>3, <3>1, <4>3, <4>4, ChannelStep
            <4>6. OnceIn(s, D) => OnceIn(Msgs(<<r, to>>)', D)
                BY <1>3, <1>4, <3>1, <4>3, ChannelStep
            <4>7. NotIn(s, D) => NotIn(Msgs(<<r, to>>)', D)
                BY <1>3, <3>1, <4>3, ChannelStep
            <4>8. QED
                BY <2>3, <3>3, <3>4, <3>5, <4>5, <4>6, <4>7 DEF ChannelOk
        <3>11. QED
            BY <3>9, <3>10
    <2>4. QED
        BY <2>2, <2>3
<1>21. QED
    BY <1>6, <1>17, <1>18, <1>19, <1>20 DEF WriteInv

-----------------------------------------------------------------------------
(* The main threads *)

LEMMA MainFields ==
    ASSUME TypeInv, NEW r \in Rank, WriteV(r) \/ FinishWriting(r) \/ Join(r)
    PROVE  /\ \A x \in Rank \ {r} : rank'[x] = rank[x]
           /\ WriteV(r) => rank[r].main = "wait" /\ rank[r].m_ReadyToWrite
           /\ FinishWriting(r) => rank[r].main = "write"
           /\ Join(r) => rank[r].main = "join" /\ ~rank[r].looping
           /\ rerouting /\ UNCHANGED callVars /\ channel' = channel /\ sc' = sc
           /\ rank'[r].m_ReadyToWrite = rank[r].m_ReadyToWrite
           /\ rank'[r].m_TargetCoordinator = rank[r].m_TargetCoordinator
           /\ rank'[r].m_TargetIndex = rank[r].m_TargetIndex /\ rank'[r].sentFinished = rank[r].sentFinished
           /\ rank'[r].looping = rank[r].looping
           /\ WriteV(r) => /\ rank'[r].main = "write" /\ rank'[r].m_FinishedWriting = rank[r].m_FinishedWriting
                           /\ rank'[r].m_SubStreamIndex = rank[r].m_TargetIndex
                           /\ rank'[r].m_StartDataPos = Behind(rank[r].m_DataPos)
                           /\ rank'[r].m_DataPos = rank[r].m_DataPos
           /\ FinishWriting(r) => /\ rank'[r].main = "join" /\ rank'[r].m_FinishedWriting
                                  /\ rank'[r].m_SubStreamIndex = rank[r].m_SubStreamIndex
                                  /\ rank'[r].m_StartDataPos = rank[r].m_StartDataPos
                                  /\ rank'[r].m_DataPos = RegionEnd(r)
           /\ Join(r) => /\ rank'[r].main = "done" /\ rank'[r].m_FinishedWriting = rank[r].m_FinishedWriting
                         /\ rank'[r].m_SubStreamIndex = rank[r].m_SubStreamIndex
                         /\ rank'[r].m_StartDataPos = rank[r].m_StartDataPos
                         /\ rank'[r].m_DataPos = rank[r].m_DataPos
<1>1. /\ rerouting /\ UNCHANGED callVars /\ channel' = channel /\ sc' = sc
      /\ WriteV(r) => rank[r].main = "wait" /\ rank[r].m_ReadyToWrite
      /\ FinishWriting(r) => rank[r].main = "write"
      /\ Join(r) => rank[r].main = "join" /\ ~rank[r].looping
    BY DEF WriteV, FinishWriting, Join, OwnStep, callVars
<1>2. rank \in [Rank -> ThreadType(Groups)] /\ rank[r] \in ThreadType(Groups)
    BY ThreadsBefore
<1>3. CASE WriteV(r)
    <2>1. PICK from, index : from = Behind(rank[r].m_DataPos) /\ index = rank[r].m_TargetIndex
        OBVIOUS
    <2>2. rank' = [rank EXCEPT ![r] = [rank[r] EXCEPT !.main = "write", !.m_SubStreamIndex = index,
                                                      !.m_StartDataPos = from]]
        BY <1>3, <2>1, Zenon DEF WriteV, Behind
    <2>3. ~FinishWriting(r) /\ ~Join(r)
        BY <1>1, <1>3
    <2>4. QED
        BY <1>1, <1>2, <1>3, <2>1, <2>2, <2>3 DEF ThreadType
<1>4. CASE FinishWriting(r)
    <2>1. PICK to : to = RegionEnd(r)
        OBVIOUS
    <2>2. rank' = [rank EXCEPT ![r] = [rank[r] EXCEPT !.main = "join", !.m_FinishedWriting = TRUE, !.m_DataPos = to]]
        BY <1>4, <2>1, Zenon DEF FinishWriting, RegionEnd
    <2>3. ~WriteV(r) /\ ~Join(r)
        BY <1>1, <1>4
    <2>4. QED
        BY <1>1, <1>2, <1>4, <2>1, <2>2, <2>3 DEF ThreadType
<1>5. CASE Join(r)
    <2>1. rank' = [rank EXCEPT ![r].main = "done"]
        BY <1>5 DEF Join
    <2>2. ~WriteV(r) /\ ~FinishWriting(r)
        BY <1>1, <1>5
    <2>3. QED
        BY <1>1, <1>2, <1>5, <2>1, <2>2 DEF ThreadType
<1>6. QED
    BY <1>3, <1>4, <1>5

LEMMA WriteVWrites ==
    ASSUME TypeInv, QueueInv, WriteInv, NEW r \in Rank, WriteV(r) \/ FinishWriting(r) \/ Join(r)
    PROVE  WriteInv'
<1>1. /\ rerouting /\ UNCHANGED callVars /\ channel' = channel /\ sc' = sc
      /\ WriteV(r) => rank[r].main = "wait" /\ rank[r].m_ReadyToWrite
      /\ FinishWriting(r) => rank[r].main = "write"
      /\ Join(r) => rank[r].main = "join"
    BY DEF WriteV, FinishWriting, Join, OwnStep, callVars
<1>2. /\ PlanInv /\ LoopsInv /\ NoRank \notin Rank /\ SubCoords \subseteq Rank /\ \A g \in Groups : SubCoord(g) \in Rank
      /\ \A x \in Rank : ThreadOk(x)
    BY <1>1, PlanInvCoords DEF QueueInv, TypeInv, WriteInv
<1>3. /\ SubCoords' = SubCoords /\ Groups' = Groups /\ start' = start /\ \A g : SubCoord(g)' = SubCoord(g)
      /\ rerouting' = rerouting /\ Message' = Message /\ size' = size
      /\ \A p : Behind(p)' = Behind(p)
    BY <1>1, CallKept DEF Behind, Padding
<1>4. /\ rank[r].m_ReadyToWrite
      /\ rank[r].main \in {"wait", "write"} => ~rank[r].m_FinishedWriting /\ ~rank[r].sentFinished
    <2>1. rank[r].main \in {"wait", "write"} => ~rank[r].m_FinishedWriting /\ ~rank[r].sentFinished
        BY <1>1, <1>2, NotReady
    <2>2. rank[r].m_ReadyToWrite
        BY <1>1 DEF QueueInv, LoopsInv
    <2>3. QED
        BY <2>1, <2>2
<1>5. PICK s : s = rank[r].m_TargetCoordinator
    OBVIOUS
<1>6. ThreadOk(r) /\ s \in SubCoords /\ s \in Rank /\ SubCoord(rank[r].m_TargetIndex) = s
    BY <1>2, <1>4, <1>5 DEF ThreadOk
<1>7. \A x \in Rank \ {r} : rank'[x] = rank[x]
    BY MainThreads DEF Main
<1>8. /\ rank'[r].m_ReadyToWrite /\ rank'[r].m_TargetCoordinator = s
      /\ rank'[r].m_TargetIndex = rank[r].m_TargetIndex /\ rank'[r].sentFinished = rank[r].sentFinished
      /\ rank'[r].looping = rank[r].looping
      /\ WriteV(r) => /\ rank'[r].main = "write" /\ ~rank'[r].m_FinishedWriting
                      /\ rank'[r].m_SubStreamIndex = rank[r].m_TargetIndex
                      /\ rank'[r].m_StartDataPos = Behind(rank[r].m_DataPos)
                      /\ rank'[r].m_DataPos = rank[r].m_DataPos
      /\ FinishWriting(r) => /\ rank'[r].main = "join" /\ rank'[r].m_FinishedWriting
                             /\ rank'[r].m_SubStreamIndex = rank[r].m_SubStreamIndex
                             /\ rank'[r].m_StartDataPos = rank[r].m_StartDataPos
                             /\ rank'[r].m_DataPos = RegionEnd(r)
      /\ Join(r) => /\ rank'[r].main = "done" /\ rank'[r].m_FinishedWriting = rank[r].m_FinishedWriting
                    /\ rank'[r].m_SubStreamIndex = rank[r].m_SubStreamIndex
                    /\ rank'[r].m_StartDataPos = rank[r].m_StartDataPos
                    /\ rank'[r].m_DataPos = rank[r].m_DataPos
    BY <1>1, <1>4, <1>5, MainFields
<1>9. Works(r)' = Works(r)
    BY <1>1, <1>4, <1>5, <1>8 DEF Works
<1>10. ~WriteV(r) => RegionEnd(r)' = RegionEnd(r)
    BY <1>3, <1>8 DEF RegionEnd
<1>11. rank[r].main \in {"wait", "write"} => Works(r)
    BY <1>4, <1>6 DEF ThreadOk
<1>12. ThreadOk(r)'
    <2>1. CASE WriteV(r)
        <3>1. rank[r].m_DataPos = sc[s].currentFilePos /\ Works(r)
            BY <1>1, <1>4, <1>5, <1>6, <1>11, <2>1 DEF ThreadOk
        <3>2. ~rank[r].sentFinished /\ (r \in SubCoords => s = r)
            BY <1>1, <1>4, <1>5, <1>6, <2>1 DEF ThreadOk
        <3>3. QED
            BY <1>1, <1>3, <1>6, <1>8, <1>9, <2>1, <3>1, <3>2 DEF ThreadOk
    <2>2. CASE FinishWriting(r)
        <3>1. rank[r].m_StartDataPos = Behind(sc[s].currentFilePos) /\ Works(r)
            BY <1>1, <1>5, <1>6, <1>11, <2>2 DEF ThreadOk
        <3>2. QED
            BY <1>1, <1>3, <1>4, <1>5, <1>6, <1>8, <1>9, <1>10, <2>2, <3>1 DEF ThreadOk
    <2>3. CASE Join(r)
        <3>1. RegionEnd(r)' = RegionEnd(r)
            BY <1>1, <1>3, <1>10, <2>3
        <3>2. rank[r].main = "join" /\ rank[r].m_FinishedWriting
            BY <1>1, <1>6, <2>3 DEF ThreadOk
        <3>3. /\ rank'[r].main = "done" /\ rank'[r].m_FinishedWriting
              /\ rank'[r].m_SubStreamIndex = rank[r].m_SubStreamIndex
              /\ rank'[r].m_StartDataPos = rank[r].m_StartDataPos
              /\ rank'[r].m_DataPos = rank[r].m_DataPos
            BY <1>8, <2>3, <3>2
        <3>4. rank[r].m_SubStreamIndex = rank[r].m_TargetIndex
            BY <1>6, <3>2 DEF ThreadOk
        <3>5. r \in SubCoords => SubCoord(rank[r].m_SubStreamIndex) = r /\ s = r
            BY <1>4, <1>5, <1>6 DEF ThreadOk
        <3>6. rank[r].sentFinished \/ Works(r)
            BY <1>4, <1>6 DEF ThreadOk
        <3>7. Works(r) => rank[r].m_StartDataPos = Behind(sc[s].currentFilePos)
            BY <1>5, <1>6, <3>2 DEF ThreadOk
        <3>8. ~rank[r].sentFinished => rank[r].m_DataPos = RegionEnd(r)
            BY <1>6, <3>2 DEF ThreadOk
        <3>9. ~Works(r) => RegionEnd(r) <= sc[s].currentFilePos
            BY <1>5, <1>6, <3>2 DEF ThreadOk
        <3>10. SubCoord(rank[r].m_TargetIndex)' = s /\ SubCoord(rank[r].m_SubStreamIndex)' = SubCoord(rank[r].m_SubStreamIndex)
            BY <1>3, <1>6, <1>8, <3>3
        <3>11. Behind(sc[s].currentFilePos)' = Behind(sc[s].currentFilePos)
            BY <1>1, <1>3
        <3>12. QED
            BY <1>1, <1>3, <1>6, <1>8, <1>9, <3>1, <3>3, <3>4, <3>5, <3>6, <3>7, <3>8, <3>9, <3>10, <3>11 DEF ThreadOk
    <2>4. QED
        BY <2>1, <2>2, <2>3
<1>13. ASSUME NEW x \in Rank, x # r PROVE ThreadOk(x)'
    <2>1. SameThread(x) /\ \A w : SameFile(w)
        BY <1>1, <1>7, <1>13 DEF SameThread, SameFile
    <2>2. QED
        BY <1>1, <1>2, <2>1, ThreadKept
<1>14. ASSUME NEW g \in Groups PROVE FileOk(g)'
    <2>1. PICK w \in Rank : w = SubCoord(g)
        BY <1>2
    <2>2. FileOk(g) /\ w \in SubCoords
        BY <1>1, <1>2, <2>1, PlanInvCoords DEF WriteInv
    <2>3. ASSUME ~rank'[w].looping
          PROVE  sc'[w].writingRank = NoRank /\ rank'[w].m_DataPos = sc[w].currentFilePos /\ rank'[w].m_ReadyToWrite
        <3>1. ~rank[w].looping
            BY <1>7, <1>8, <2>3
        <3>2. sc[w].writingRank = NoRank /\ rank[w].m_DataPos = sc[w].currentFilePos /\ rank[w].m_ReadyToWrite
            BY <2>1, <2>2, <3>1 DEF FileOk
        <3>3. w = r => ~Works(r)
            <4>1. w = r => s = r
                BY <1>4, <1>5, <1>6, <2>2 DEF ThreadOk
            <4>2. QED
                BY <1>2, <1>5, <3>2, <4>1 DEF Works
        <3>4. w = r => Join(r)
            BY <1>1, <1>11, <3>3
        <3>5. QED
            BY <1>1, <1>7, <1>8, <3>2, <3>4
    <2>4. sc'[w].currentFilePos = sc[w].currentFilePos
        BY <1>1
    <2>5. ASSUME NEW x \in Rank, rank[x].m_FinishedWriting
          PROVE  /\ rank'[x].m_FinishedWriting /\ rank'[x].m_SubStreamIndex = rank[x].m_SubStreamIndex
                 /\ rank'[x].m_StartDataPos = rank[x].m_StartDataPos
        BY <1>1, <1>4, <1>7, <1>8, <2>5
    <2>6. QED
        BY <1>1, <1>2, <2>1, <2>2, <2>3, <2>4, <2>5, FileKept
<1>15. ASSUME NEW from \in Rank, NEW to \in Rank PROVE ChannelOk(from, to)'
    <2>1. SameFile(from) /\ sc' = sc
        BY <1>1 DEF SameFile
    <2>2. ASSUME rank[from].m_ReadyToWrite, rank[from].sentFinished, rank[from].m_TargetCoordinator = to
          PROVE  /\ rank'[from].m_ReadyToWrite /\ rank'[from].sentFinished /\ rank'[from].m_TargetCoordinator = to
                 /\ rank'[from].m_StartDataPos = rank[from].m_StartDataPos
        BY <1>1, <1>4, <1>5, <1>7, <1>8, <2>2
    <2>3. WrongTells(from, to)' \subseteq WrongTells(from, to) /\ WrongDones(from, to)' \subseteq WrongDones(from, to)
        BY <1>1, <2>1, <2>2, WrongKept
    <2>4. QED
        BY <1>1, <2>3, ChannelStays DEF WriteInv
<1>16. QED
    BY <1>3, <1>12, <1>13, <1>14, <1>15 DEF WriteInv

(* Without rerouting there are no such messages. *)
LEMMA ChainWrites ==
    ASSUME WriteInv, ~rerouting, UNCHANGED callVars, channel' = channel
    PROVE  WriteInv'
<1>1. rerouting' = rerouting /\ Message' = Message
    BY CallKept
<1>2. ASSUME NEW from \in Rank, NEW to \in Rank PROVE ChannelOk(from, to)'
    <2>1. DoWrites' = DoWrites /\ Dones' = Dones
        BY <1>1 DEF DoWrites, Dones
    <2>2. /\ WrongTells(from, to) = DoWrites /\ WrongDones(from, to) = Dones
          /\ WrongTells(from, to)' = DoWrites' /\ WrongDones(from, to)' = Dones'
        BY <1>1 DEF WrongTells, WrongDones
    <2>3. QED
        BY <2>1, <2>2, ChannelStays DEF WriteInv
<1>3. QED
    BY <1>1, <1>2 DEF WriteInv

(* A step that changes nothing of it *)
LEMMA StayWrites ==
    ASSUME WriteInv, UNCHANGED callVars, channel' = channel, rank' = rank, sc' = sc
    PROVE  WriteInv'
<1>1. /\ SubCoords' = SubCoords /\ Groups' = Groups /\ start' = start /\ \A g : SubCoord(g)' = SubCoord(g)
      /\ rerouting' = rerouting /\ Message' = Message /\ size' = size
    BY CallKept
<1>2. \A x : SameThread(x) /\ SameFile(x)
    BY DEF SameThread, SameFile
<1>3. ASSUME NEW x \in Rank, ThreadOk(x) PROVE ThreadOk(x)'
    BY <1>2, <1>3, ThreadKept
<1>4. ASSUME NEW g \in Groups, FileOk(g) PROVE FileOk(g)'
    BY <1>1, <1>4 DEF FileOk, RegionEnd
<1>5. ASSUME NEW from \in Rank, NEW to \in Rank PROVE ChannelOk(from, to)'
    <2>1. SameFile(from)
        BY <1>2
    <2>2. WrongTells(from, to)' \subseteq WrongTells(from, to) /\ WrongDones(from, to)' \subseteq WrongDones(from, to)
        BY <2>1, WrongKept
    <2>3. QED
        BY <2>2, ChannelStays DEF WriteInv
<1>6. QED
    BY <1>1, <1>3, <1>4, <1>5 DEF WriteInv

-----------------------------------------------------------------------------
(* The beginning of a call *)

(* What a call begins with: the subcoordinators of a rerouted step know the position *)
(* of their subfile.                                                                  *)
Begins ==
    /\ \A r \in Rank :
          /\ rank[r].main = "wait" /\ ~rank[r].m_ReadyToWrite /\ ~rank[r].m_FinishedWriting
          /\ ~rank[r].sentFinished /\ rank[r].looping = rerouting
          /\ rank[r].m_SubStreamIndex =
                 CHOOSE g \in DOMAIN m_Partitioning.m_Partitions : r \in Range(m_Partitioning.m_Partitions[g])
    /\ rerouting => \E pos : /\ sc = SubCoordinators(m_Partitioning, TRUE, pos)
                             /\ \A g \in Groups : pos[g] = start[g]

NoWrites ==
    \A q, w \in Rank : NotIn(Msgs(<<q, w>>), DoWrites) /\ NotIn(Msgs(<<q, w>>), Dones)

LEMMA SubCoordIs ==
    ASSUME PlanInv, NEW pos, sc = SubCoordinators(m_Partitioning, TRUE, pos), NEW g \in Groups
    PROVE  sc[SubCoord(g)] = Coordinator(Partition(g), pos[g])
<1>1. PICK s \in Rank : s = SubCoord(g)
    BY PlanInvCoords
<1>2. PICK led : led = {h \in DOMAIN m_Partitioning.m_Partitions : TRUE /\ m_Partitioning.m_Partitions[h][1] = s}
    OBVIOUS
<1>3. led = {g}
    <2>1. led = {h \in Groups : SubCoord(h) = s}
        BY <1>2 DEF SubCoord, Partition, Groups
    <2>2. QED
        BY <1>1, <2>1, SubCoordsApart
<1>4. PICK h : h = CHOOSE x \in led : TRUE
    OBVIOUS
<1>5. h = g
    BY <1>3, <1>4
<1>6. sc[s] = IF led = {} THEN Coordinator(<<>>, 0)
              ELSE Coordinator(m_Partitioning.m_Partitions[CHOOSE x \in led : TRUE], pos[CHOOSE x \in led : TRUE])
    BY <1>1, <1>2 DEF SubCoordinators
<1>7. QED
    BY <1>1, <1>3, <1>4, <1>5, <1>6 DEF Partition

LEMMA FirstOfGroup ==
    ASSUME PlanInv, NEW g \in Groups
    PROVE  (CHOOSE h \in DOMAIN m_Partitioning.m_Partitions : SubCoord(g) \in Range(m_Partitioning.m_Partitions[h])) = g
<1>1. 1 \in 1..Len(Partition(g)) /\ SubCoord(g) = Partition(g)[1]
    <2>1. Len(Partition(g)) \in Nat /\ Len(Partition(g)) > 0
        BY PlanInvGroups
    <2>2. QED
        BY <2>1 DEF SubCoord
<1>2. QED
    BY <1>1, GroupIs

LEMMA BeginsWrites ==
    PlanInv /\ CallTyped /\ Begins /\ NoWrites => WriteInv
<1> SUFFICES ASSUME PlanInv, CallTyped, Begins, NoWrites PROVE WriteInv
    OBVIOUS
<1>1. ASSUME NEW r \in Rank, rerouting PROVE ThreadOk(r)
    <2>1. r \in SubCoords => SubCoord(rank[r].m_SubStreamIndex) = r
        BY SubCoordsApart, FirstOfGroup DEF Begins
    <2>2. QED
        BY <2>1 DEF Begins, ThreadOk, Works
<1>2. ASSUME NEW g \in Groups, rerouting PROVE FileOk(g)
    <2>1. PICK pos : sc = SubCoordinators(m_Partitioning, TRUE, pos) /\ \A h \in Groups : pos[h] = start[h]
        BY <1>2 DEF Begins
    <2>2. sc[SubCoord(g)] = Coordinator(Partition(g), pos[g])
        BY <2>1, SubCoordIs
    <2>3. PICK queue, n, s : queue = Partition(g) /\ n = start[g] /\ s = SubCoord(g)
        OBVIOUS
    <2>4. sc[s] = Coordinator(queue, n)
        BY <2>1, <2>2, <2>3, Zenon
    <2>5. sc[s].currentFilePos = n
        BY <2>4 DEF Coordinator
    <2>6. s \in Rank /\ n \in Nat
        BY <2>3, PlanInvCoords DEF CallTyped
    <2>7. rank[s].looping
        BY <1>2, <2>6 DEF Begins
    <2>8. n <= n
        BY <2>6
    <2>9. QED
        BY <2>3, <2>5, <2>7, <2>8 DEF FileOk
<1>3. ASSUME NEW q \in Rank, NEW w \in Rank PROVE ChannelOk(q, w)
    <2>1. WrongTells(q, w) \subseteq DoWrites /\ WrongDones(q, w) \subseteq Dones
        BY DEF WrongTells, WrongDones
    <2>2. QED
        BY <2>1 DEF NoWrites, NotIn, ChannelOk
<1>4. QED
    BY <1>1, <1>2, <1>3 DEF WriteInv

LEMMA NextBeginsWrites == (PlanInv /\ CallTyped /\ Begins /\ NoWrites)' => WriteInv'
BY BeginsWrites, PTL

(* When all have returned nobody is still to write, or to tell that it did. *)
LEMMA DoneNoWrites ==
    ASSUME TypeInv, QueueInv, WriteInv, AllDone
    PROVE  NoWrites
<1> SUFFICES ASSUME NEW q \in Rank, NEW w \in Rank
             PROVE  NotIn(Msgs(<<q, w>>), DoWrites) /\ NotIn(Msgs(<<q, w>>), Dones)
    BY DEF NoWrites
<1>1. NotIn(Msgs(<<q, w>>), WrongTells(q, w)) /\ NotIn(Msgs(<<q, w>>), WrongDones(q, w))
    BY DEF WriteInv, ChannelOk
<1>2. ASSUME rerouting, NEW s \in SubCoords PROVE sc[s].writingRank = NoRank
    <2>1. PICK g \in Groups : s = SubCoord(g)
        BY DEF SubCoords
    <2>2. ~rank[s].looping
        BY <1>2, PlanInvCoords DEF TypeInv, QueueInv, LoopsInv, AllDone
    <2>3. QED
        BY <1>2, <2>1, <2>2 DEF WriteInv, FileOk
<1>3. NoRank \notin Rank
    BY PlanInvCoords DEF TypeInv
<1>4. WrongTells(q, w) = DoWrites
    BY <1>2, <1>3 DEF WrongTells
<1>5. WrongDones(q, w) = Dones
    <2>1. rerouting /\ rank[q].m_ReadyToWrite => rank[q].m_TargetCoordinator \in SubCoords
        BY DEF WriteInv, ThreadOk
    <2>2. QED
        BY <1>2, <1>3, <2>1 DEF WrongDones
<1>6. QED
    BY <1>1, <1>4, <1>5

(* What NextCall does *)
LEMMA NextCallIs ==
    ASSUME TypeInv, NextCall
    PROVE  /\ AllDone /\ channel' = channel /\ turn' = turn /\ plan' = plan /\ token' = token
           /\ start' = Reached /\ Groups' = Groups /\ rerouting' = Reroutable(step')
           /\ rerouting' => block = Len(plan.steps[step])
           /\ IF block = Len(plan.steps[step]) THEN m_SubstreamDataPos' = Reached
              ELSE m_SubstreamDataPos' = m_SubstreamDataPos /\ m_Partitioning' = m_Partitioning
<1>1. /\ AllDone /\ channel' = channel /\ turn' = turn /\ plan' = plan /\ token' = token /\ start' = Reached
      /\ step' = IF block = Len(plan.steps[step]) THEN step + 1 ELSE step
      /\ IF block = Len(plan.steps[step]) THEN m_SubstreamDataPos' = Reached
         ELSE m_SubstreamDataPos' = m_SubstreamDataPos /\ m_Partitioning' = m_Partitioning
    BY DEF NextCall, Reached
<1>2. rerouting' = Reroutable(step')
    BY <1>1 DEF rerouting, Reroutable
<1>3. Groups' = Groups
    <2>1. PlanInv /\ PlanInv'
        BY NextPlanInv DEF TypeInv, Next
    <2>2. Groups = 1..plan.NumSubFiles /\ Groups' = (1..plan.NumSubFiles)'
        BY <2>1, PlanInvFits, NextPlanInvFits DEF GroupsFit
    <2>3. QED
        BY <1>1, <2>2
<1>4. ASSUME rerouting' PROVE block = Len(plan.steps[step])
    <2>1. Len(plan.steps[step']) = 1
        BY <1>2, <1>4 DEF Reroutable
    <2>2. block \in 1..Len(plan.steps[step])
        BY DEF TypeInv, PlanInv
    <2>3. ASSUME block # Len(plan.steps[step]) PROVE FALSE
        <3>1. step' = step
            BY <1>1, <2>3
        <3>2. Len(plan.steps[step]) = 1
            BY <2>1, <3>1
        <3>3. QED
            BY <2>2, <2>3, <3>2
    <2>4. QED
        BY <2>3
<1>5. QED
    BY <1>1, <1>2, <1>3, <1>4

LEMMA NextCallBegins ==
    ASSUME TypeInv, NextCall
    PROVE  Begins'
<1> DEFINE endsStep == block = Len(plan.steps[step])
           shares(r) == endsStep \/ rank[r].m_DataPosShared
           first(g) == m_Partitioning'.m_Partitions[g][1]
           coordinates(r) == Reroutable(step') /\ \E g \in Groups : first(g) = r
           pos == [g \in Groups |-> IF shares(first(g)) THEN m_SubstreamDataPos'[g] ELSE rank[first(g)].m_DataPos]
           reroutes == Reroutable(step')
<1>1. /\ rank' = [r \in Rank |-> WaitingRank(m_Partitioning', reroutes, r, rank[r].m_DataPos, shares(r) /\ ~coordinates(r))]
      /\ sc' = SubCoordinators(m_Partitioning', reroutes, pos)
    BY Zenon DEF NextCall
<1>2. rerouting' = reroutes /\ Groups' = Groups /\ (rerouting' => endsStep /\ m_SubstreamDataPos' = start')
    BY NextCallIs
<1>3. ASSUME NEW r \in Rank
      PROVE  /\ rank'[r].main = "wait" /\ ~rank'[r].m_ReadyToWrite /\ ~rank'[r].m_FinishedWriting
             /\ ~rank'[r].sentFinished /\ rank'[r].looping = reroutes
             /\ rank'[r].m_SubStreamIndex =
                    CHOOSE g \in DOMAIN m_Partitioning'.m_Partitions : r \in Range(m_Partitioning'.m_Partitions[g])
    <2>1. PICK p, x, y : rank'[r] = WaitingRank(m_Partitioning', reroutes, r, x, y)
        BY <1>1
    <2>2. QED
        BY <2>1 DEF WaitingRank
<1>4. ASSUME rerouting'
      PROVE  sc' = SubCoordinators(m_Partitioning', TRUE, pos) /\ \A g \in Groups' : pos[g] = start'[g]
    <2>1. reroutes = TRUE
        BY <1>2, <1>4
    <2>2. sc' = SubCoordinators(m_Partitioning', TRUE, pos)
        BY <1>1, <2>1, Zenon
    <2>3. \A g \in Groups' : pos[g] = start'[g]
        BY <1>2, <1>4
    <2>4. QED
        BY <2>2, <2>3
<1> HIDE DEF pos
<1>5. rerouting' => \E x : sc' = SubCoordinators(m_Partitioning', TRUE, x) /\ \A g \in Groups' : x[g] = start'[g]
    BY <1>4
<1>6. QED
    BY <1>2, <1>3, <1>5 DEF Begins

LEMMA NextCallWrites ==
    ASSUME TypeInv, QueueInv, WriteInv, NextCall
    PROVE  WriteInv'
<1>1. Begins'
    BY NextCallBegins
<1>2. NoWrites'
    <2>1. AllDone /\ channel' = channel /\ Groups' = Groups
        BY NextCallIs
    <2>2. Message' = Message
        BY <2>1 DEF Message, Pos
    <2>3. NoWrites
        BY <2>1, DoneNoWrites
    <2>4. DoWrites' = DoWrites /\ Dones' = Dones /\ \A c : Msgs(c)' = Msgs(c)
        BY <2>1, <2>2 DEF DoWrites, Dones, Msgs
    <2>5. QED
        BY <2>3, <2>4 DEF NoWrites
<1>3. PlanInv' /\ CallTyped'
    <2>1. [Next]_vars
        BY DEF Next
    <2>2. QED
        BY <2>1, NextTypeInv DEF TypeInv
<1>4. QED
    BY <1>1, <1>2, <1>3, NextBeginsWrites

LEMMA InitBegins ==
    ASSUME Init
    PROVE  Begins /\ NoWrites
<1>1. Begins
    <2>1. ASSUME NEW r \in Rank
          PROVE  /\ rank[r].main = "wait" /\ ~rank[r].m_ReadyToWrite /\ ~rank[r].m_FinishedWriting
                 /\ ~rank[r].sentFinished /\ rank[r].looping = rerouting
                 /\ rank[r].m_SubStreamIndex =
                        CHOOSE g \in DOMAIN m_Partitioning.m_Partitions : r \in Range(m_Partitioning.m_Partitions[g])
        <3>1. rank[r] = WaitingRank(m_Partitioning, rerouting, r, 0, FALSE)
            BY DEF Init
        <3>2. QED
            BY <3>1 DEF WaitingRank
    <2>2. sc = SubCoordinators(m_Partitioning, rerouting, start)
        BY DEF Init
    <2>3. rerouting => sc = SubCoordinators(m_Partitioning, TRUE, start)
        <3>1. rerouting \in BOOLEAN
            BY DEF rerouting, Reroutable
        <3>2. rerouting => rerouting = TRUE
            BY <3>1
        <3>3. QED
            BY <2>2, <3>2, Zenon
    <2>4. QED
        BY <2>1, <2>3 DEF Begins
<1>2. ASSUME NEW q \in Rank, NEW w \in Rank, NEW S PROVE NotIn(Msgs(<<q, w>>), S)
    <2>1. PICK e \in Seq(Entry) : e = <<>>
        BY EmptySeq
    <2>2. channel[<<q, w>>] = e
        BY <2>1 DEF Init
    <2>3. Len(Stripped(e)) = 0
        BY <2>1, StrippedType, EmptySeq
    <2>4. QED
        BY <2>2, <2>3 DEF NotIn, Msgs
<1>3. QED
    BY <1>1, <1>2 DEF NoWrites

LEMMA InitWriteInv == Init => WriteInv
<1>1. Init => PlanInv /\ CallTyped
    BY InitTypeInv DEF TypeInv
<1>2. QED
    BY <1>1, InitBegins, BeginsWrites

LEMMA NextWriteInv ==
    ASSUME TypeInv, QueueInv, WriteInv, NoRequestLeft, OwnFirst, [Next]_vars
    PROVE  WriteInv'
<1>0. TypeInv' /\ QueueInv'
    BY NextTypeInv, NextQueueInv
<1>1. ASSUME NEW r \in Rank, Comm(r) PROVE WriteInv'
    <2>1. ASSUME NEW q \in Rank, Receive(r, q) PROVE WriteInv'
        <3>1. CASE DoWrite(r, q)
            BY <3>1, DoWriteWrites
        <3>2. CASE WriteCompletion(r, q)
            BY <3>2, WriteCompletionWrites
        <3>3. CASE Misdelivered(r, q)
            <4>1. UNCHANGED callVars /\ channel' = channel /\ rank' = rank /\ sc' = sc
                BY <3>3 DEF Misdelivered
            <4>2. QED
                BY <4>1, StayWrites
        <3>4. QED
            BY <2>1, <3>1, <3>2, <3>3, OtherHandlersWrite DEF Receive
    <2>2. CASE FinishTurn(r)
        BY <1>0, <2>2, WorkWrites DEF FinishTurn, QueueInv, LoopsInv
    <2>3. CASE ProbeNothing(r)
        BY <1>0, <2>3, WorkWrites DEF ProbeNothing
    <2>4. QED
        BY <1>1, <2>1, <2>2, <2>3 DEF Comm
<1>2. ASSUME NEW r \in Rank, Main(r) PROVE WriteInv'
    <2>1. CASE WriteV(r) \/ FinishWriting(r) \/ Join(r)
        BY <2>1, WriteVWrites
    <2>2. CASE ChainWriteV(r) \/ ChainPass(r) \/ ChainReturn(r)
        <3>1. ~rerouting
            BY <2>2 DEF ChainWriteV, ChainPass, ChainReturn
        <3>2. UNCHANGED callVars /\ channel' = channel
            BY <1>2, MainThreads
        <3>3. QED
            BY <3>1, <3>2, ChainWrites
    <2>3. QED
        BY <1>2, <2>1, <2>2 DEF Main
<1>3. CASE NextCall
    BY <1>3, NextCallWrites
<1>4. CASE UNCHANGED vars
    <2>1. UNCHANGED callVars /\ channel' = channel /\ rank' = rank /\ sc' = sc
        BY <1>4 DEF vars
    <2>2. QED
        BY <2>1, StayWrites
<1>5. QED
    BY <1>1, <1>2, <1>3, <1>4 DEF Next, Terminated

-----------------------------------------------------------------------------
(* The chains of a step that is not rerouted *)

(* The position that the first k - 1 ranks of a group have reached *)
ChainReached(g, k) == IF k = 1 THEN start[g] ELSE RegionEnd(Partition(g)[k - 1])

(* The i-th rank of a group whose k-th rank has the token *)
LinkAt(g, k, i) ==
    LET r == Partition(g)[i]
    IN  /\ rank[r].m_SubStreamIndex = g
        /\ i < k => /\ rank[r].main = "done" \/ (rank[r].main = "join" /\ i = 1)
                    /\ start[g] <= RegionEnd(r) /\ RegionEnd(r) <= ChainReached(g, k)
        /\ i > k => rank[r].main = "wait"
        /\ i = k => \/ rank[r].main = "wait" /\ (i # 1 => token[r] = ChainReached(g, k))
                    \/ /\ rank[r].main = "write" /\ token[r] = NoToken
                       /\ ChainReached(g, k) <= rank[r].m_StartDataPos
                       /\ rank[r].m_DataPos = RegionEnd(r)
        /\ i # k /\ i # 1 => token[r] = NoToken

(* The first one, which gets the token in the end *)
HeadAt(g, k) ==
    LET r == SubCoord(g)
    IN  /\ token[r] = IF k = Len(Partition(g)) + 1 /\ rank[r].main = "join" THEN ChainReached(g, k) ELSE NoToken
        /\ rank[r].main = "done" => k = Len(Partition(g)) + 1 /\ rank[r].m_DataPos = ChainReached(g, k)
        /\ rank[r].main = "wait" => start[g] = IF rank[r].m_DataPosShared THEN m_SubstreamDataPos[g] ELSE rank[r].m_DataPos
        /\ rank[r].main # "wait" => ~rank[r].m_DataPosShared

ChainAt(g, k) == HeadAt(g, k) /\ \A i \in 1..Len(Partition(g)) : LinkAt(g, k, i)

ChainInv ==
    IF rerouting THEN \A r \in Rank : token[r] = NoToken
    ELSE \A g \in Groups : \E k \in 1..(Len(Partition(g)) + 1) : ChainAt(g, k)

LEMMA LinkOf ==
    ASSUME PlanInv, NEW g \in Groups, NEW i \in 1..Len(Partition(g)), NEW r, r = Partition(g)[i]
    PROVE  /\ r \in Rank /\ GroupOf(r) = g /\ Chain(r) = Partition(g) /\ ChainRank(r) = i
           /\ IsFirst(r) <=> i = 1
           /\ IsLast(r) <=> i = Len(Partition(g))
<1>1. GroupOf(r) = g
    BY GroupIs DEF GroupOf, Groups, Partition
<1>2. Chain(r) = Partition(g)
    BY <1>1 DEF Chain
<1>3. Partition(g) \in Seq(Rank)
    BY PlanInvGroups
<1>4. \A j \in 1..Len(Partition(g)) : Partition(g)[j] = r => j = i
    BY PlanInvGroups
<1>5. DOMAIN Chain(r) = 1..Len(Partition(g)) /\ r \in Rank
    BY <1>2, <1>3
<1>6. ChainRank(r) = i
    BY <1>2, <1>4, <1>5 DEF ChainRank
<1>7. QED
    BY <1>1, <1>2, <1>5, <1>6 DEF IsFirst, IsLast

LEMMA LinkExists ==
    ASSUME PlanInv, NEW r \in Rank
    PROVE  \E g \in Groups : \E i \in 1..Len(Partition(g)) : r = Partition(g)[i]
BY PlanInvGroups DEF InGroups, Partition

LEMMA HeadIsFirst ==
    ASSUME PlanInv, NEW g \in Groups
    PROVE  /\ Len(Partition(g)) \in Nat \ {0} /\ 1 \in 1..Len(Partition(g)) /\ SubCoord(g) = Partition(g)[1]
           /\ SubCoord(g) \in Rank /\ \A i \in 1..Len(Partition(g)) : Partition(g)[i] \in Rank
<1>1. Partition(g) \in Seq(Rank) /\ Len(Partition(g)) > 0
    BY PlanInvGroups
<1>2. Len(Partition(g)) \in Nat
    BY <1>1
<1>3. QED
    BY <1>1, <1>2 DEF SubCoord

LEMMA RegionEndNat ==
    ASSUME TypeInv, NEW r \in Rank
    PROVE  RegionEnd(r) \in Nat /\ size[r] \in Nat /\ rank[r].m_StartDataPos \in Nat /\ rank[r].m_DataPos \in Nat
           /\ rank[r].m_StartDataPos <= RegionEnd(r)
<1>1. size[r] \in Nat /\ rank[r].m_StartDataPos \in Nat /\ rank[r].m_DataPos \in Nat
    BY PlanInvCoords, ThreadsBefore DEF TypeInv, ThreadType
<1>2. QED
    BY <1>1 DEF RegionEnd

LEMMA ChainReachedNat ==
    ASSUME TypeInv, NEW g \in Groups, NEW k \in 1..(Len(Partition(g)) + 1)
    PROVE  ChainReached(g, k) \in Nat
<1>1. CASE k = 1
    BY <1>1 DEF ChainReached, TypeInv, CallTyped
<1>2. CASE k # 1
    <2>1. k - 1 \in 1..Len(Partition(g))
        BY <1>2, HeadIsFirst DEF TypeInv
    <2>2. Partition(g)[k - 1] \in Rank
        BY <2>1, HeadIsFirst DEF TypeInv
    <2>3. QED
        BY <1>2, <2>2, RegionEndNat DEF ChainReached
<1>3. QED
    BY <1>1, <1>2

(* A step of another group *)
LEMMA ChainKept ==
    ASSUME PlanInv, UNCHANGED callVars, NEW g \in Groups, NEW k \in 1..(Len(Partition(g)) + 1), ChainAt(g, k),
           \A i \in 1..Len(Partition(g)) :
               /\ rank'[Partition(g)[i]] = rank[Partition(g)[i]]
               /\ token'[Partition(g)[i]] = token[Partition(g)[i]]
    PROVE  ChainAt(g, k)'
<1>1. /\ Partition(g)' = Partition(g) /\ SubCoord(g)' = SubCoord(g) /\ start' = start /\ size' = size
      /\ m_SubstreamDataPos' = m_SubstreamDataPos
    BY CallKept
<1>2. \A r : rank'[r] = rank[r] => RegionEnd(r)' = RegionEnd(r)
    BY <1>1 DEF RegionEnd
<1>3. ChainReached(g, k)' = ChainReached(g, k)
    <2>1. k # 1 => k - 1 \in 1..Len(Partition(g))
        BY HeadIsFirst
    <2>2. PICK r : r = Partition(g)[k - 1]
        OBVIOUS
    <2>3. k # 1 => RegionEnd(r)' = RegionEnd(r)
        BY <1>2, <2>1, <2>2
    <2>4. QED
        BY <1>1, <2>2, <2>3 DEF ChainReached
<1>4. HeadAt(g, k)'
    <2>1. rank'[SubCoord(g)] = rank[SubCoord(g)] /\ token'[SubCoord(g)] = token[SubCoord(g)]
        BY HeadIsFirst
    <2>2. QED
        BY <1>1, <1>3, <2>1 DEF ChainAt, HeadAt
<1>5. ASSUME NEW i \in 1..Len(Partition(g)) PROVE LinkAt(g, k, i)'
    <2>1. PICK r : r = Partition(g)[i]
        OBVIOUS
    <2>2. rank'[r] = rank[r] /\ token'[r] = token[r] /\ RegionEnd(r)' = RegionEnd(r) /\ LinkAt(g, k, i)
        BY <1>2, <2>1 DEF ChainAt
    <2>3. QED
        BY <1>1, <1>3, <2>1, <2>2 DEF LinkAt
<1>6. QED
    BY <1>1, <1>4, <1>5 DEF ChainAt

(* What a call begins with without rerouting *)
ChainBegins ==
    /\ \A r \in Rank : token[r] = NoToken
    /\ ~rerouting => \A g \in Groups :
           start[g] = IF rank[SubCoord(g)].m_DataPosShared THEN m_SubstreamDataPos[g] ELSE rank[SubCoord(g)].m_DataPos

LEMMA BeginsChain == PlanInv /\ Begins /\ ChainBegins => ChainInv
<1> SUFFICES ASSUME PlanInv, Begins, ChainBegins PROVE ChainInv
    OBVIOUS
<1>1. CASE rerouting
    BY <1>1 DEF ChainInv, ChainBegins
<1>2. CASE ~rerouting
    <2>1. ASSUME NEW g \in Groups PROVE ChainAt(g, 1) /\ 1 \in 1..(Len(Partition(g)) + 1)
        <3>1. SubCoord(g) \in Rank /\ Len(Partition(g)) \in Nat \ {0}
            BY HeadIsFirst
        <3>2. HeadAt(g, 1)
            BY <1>2, <3>1 DEF HeadAt, Begins, ChainBegins
        <3>3. ASSUME NEW i \in 1..Len(Partition(g)) PROVE LinkAt(g, 1, i)
            <4>1. PICK r : r = Partition(g)[i]
                OBVIOUS
            <4>2. r \in Rank /\ rank[r].m_SubStreamIndex = g
                <5>1. r \in Rank
                    BY <4>1, HeadIsFirst
                <5>2. (CHOOSE h \in DOMAIN m_Partitioning.m_Partitions : r \in Range(m_Partitioning.m_Partitions[h])) = g
                    BY <4>1, GroupIs
                <5>3. QED
                    BY <5>1, <5>2 DEF Begins
            <4>3. rank[r].main = "wait" /\ token[r] = NoToken
                BY <4>2 DEF Begins, ChainBegins
            <4>4. QED
                BY <4>1, <4>2, <4>3 DEF LinkAt
        <3>4. QED
            BY <3>1, <3>2, <3>3 DEF ChainAt
    <2>2. QED
        BY <1>2, <2>1 DEF ChainInv
<1>3. QED
    BY <1>1, <1>2

LEMMA NextBeginsChain == (PlanInv /\ Begins /\ ChainBegins)' => ChainInv'
BY BeginsChain, PTL

LEMMA InitChainInv == Init => ChainInv
<1> SUFFICES ASSUME Init PROVE ChainInv
    OBVIOUS
<1>1. PlanInv /\ Begins
    BY InitPlanInv, InitBegins
<1>2. ASSUME NEW g \in Groups
      PROVE  start[g] = IF rank[SubCoord(g)].m_DataPosShared THEN m_SubstreamDataPos[g] ELSE rank[SubCoord(g)].m_DataPos
    <2>1. SubCoord(g) \in Rank
        BY <1>1, PlanInvCoords
    <2>2. rank[SubCoord(g)] = WaitingRank(m_Partitioning, rerouting, SubCoord(g), 0, FALSE)
        BY <2>1 DEF Init
    <2>3. rank[SubCoord(g)].m_DataPos = 0 /\ rank[SubCoord(g)].m_DataPosShared = FALSE
        BY <2>2 DEF WaitingRank
    <2>4. start[g] = 0
        BY DEF Init
    <2>5. QED
        BY <2>3, <2>4
<1>3. ChainBegins
    BY <1>2 DEF ChainBegins, Init
<1>4. QED
    BY <1>1, <1>3, BeginsChain

LEMMA NextCallChain ==
    ASSUME TypeInv, QueueInv, ChainInv, NextCall
    PROVE  ChainInv'
<1> DEFINE endsStep == block = Len(plan.steps[step])
           shares(r) == endsStep \/ rank[r].m_DataPosShared
           first(g) == m_Partitioning'.m_Partitions[g][1]
           coordinates(r) == Reroutable(step') /\ \E g \in Groups : first(g) = r
           reroutes == Reroutable(step')
<1>1. rank' = [r \in Rank |-> WaitingRank(m_Partitioning', reroutes, r, rank[r].m_DataPos, shares(r) /\ ~coordinates(r))]
    BY Zenon DEF NextCall
<1>2. /\ rerouting' = reroutes /\ Groups' = Groups /\ token' = token /\ start' = Reached /\ AllDone
      /\ IF endsStep THEN m_SubstreamDataPos' = Reached
         ELSE m_SubstreamDataPos' = m_SubstreamDataPos /\ m_Partitioning' = m_Partitioning
    BY NextCallIs
<1>3. Begins' /\ PlanInv'
    BY NextCallBegins, NextPlanInv DEF TypeInv, Next
<1>4. ASSUME NEW r \in Rank PROVE token[r] = NoToken
    <2>1. CASE rerouting
        BY <2>1 DEF ChainInv
    <2>2. CASE ~rerouting
        <3>1. PICK g \in Groups : \E i \in 1..Len(Partition(g)) : r = Partition(g)[i]
            BY LinkExists DEF TypeInv
        <3>2. PICK i \in 1..Len(Partition(g)) : r = Partition(g)[i]
            BY <3>1
        <3>3. PICK k \in 1..(Len(Partition(g)) + 1) : ChainAt(g, k)
            BY <2>2 DEF ChainInv
        <3>4. SubCoord(g) \in Rank /\ SubCoord(g) = Partition(g)[1] /\ Len(Partition(g)) \in Nat
            BY HeadIsFirst DEF TypeInv
        <3>5. rank[r].main = "done" /\ rank[SubCoord(g)].main = "done"
            BY <1>2, <3>4 DEF AllDone
        <3>6. HeadAt(g, k) /\ LinkAt(g, k, i)
            BY <3>3 DEF ChainAt
        <3>7. k = Len(Partition(g)) + 1 /\ token[SubCoord(g)] = NoToken
            BY <3>5, <3>6 DEF HeadAt
        <3>8. i # k
            BY <3>4, <3>7
        <3>9. QED
            BY <3>2, <3>4, <3>6, <3>7, <3>8 DEF LinkAt
    <2>3. QED
        BY <2>1, <2>2
<1>5. ASSUME ~rerouting', NEW g \in Groups
      PROVE  start'[g] = IF rank'[SubCoord(g)'].m_DataPosShared THEN m_SubstreamDataPos'[g] ELSE rank'[SubCoord(g)'].m_DataPos
    <2>1. PICK r \in Rank : r = SubCoord(g)'
        BY <1>2, <1>3, NextPlanInvFits DEF GroupsFit, SubCoords
    <2>2. ~coordinates(r) /\ reroutes = FALSE
        BY <1>2, <1>5 DEF Reroutable
    <2>3. PICK pos, shared : pos = rank[r].m_DataPos /\ shared = (shares(r) /\ ~coordinates(r))
        OBVIOUS
    <2>4. rank'[r] = WaitingRank(m_Partitioning', reroutes, r, pos, shared)
        BY <1>1, <2>3
    <2>5. rank'[r].m_DataPos = pos /\ rank'[r].m_DataPosShared = shared
        BY <2>4 DEF WaitingRank
    <2>6. CASE endsStep
        <3>1. shared = TRUE
            BY <2>2, <2>3, <2>6
        <3>2. QED
            BY <1>2, <2>1, <2>5, <2>6, <3>1
    <2>7. CASE ~endsStep
        <3>1. m_Partitioning' = m_Partitioning /\ step' = step /\ plan' = plan
            BY <1>2, <2>7 DEF NextCall
        <3>2. ~rerouting /\ r = SubCoord(g)
            BY <1>5, <2>1, <3>1 DEF rerouting, Reroutable, SubCoord, Partition
        <3>3. PICK k \in 1..(Len(Partition(g)) + 1) : ChainAt(g, k)
            BY <3>2 DEF ChainInv
        <3>4. rank[r].main = "done"
            BY <1>2 DEF AllDone
        <3>5. ~rank[r].m_DataPosShared
            BY <3>2, <3>3, <3>4 DEF ChainAt, HeadAt
        <3>6. shared = FALSE
            BY <2>3, <2>7, <3>5
        <3>7. start'[g] = pos
            BY <1>2, <2>3, <3>2 DEF Reached
        <3>8. QED
            BY <2>1, <2>5, <3>6, <3>7
    <2>8. QED
        BY <2>6, <2>7
<1>6. ChainBegins'
    BY <1>2, <1>4, <1>5 DEF ChainBegins
<1>7. QED
    BY <1>3, <1>6, NextBeginsChain

(* The ranks of another group have their own chain. *)
LEMMA OneChain ==
    ASSUME TypeInv, ChainInv, ~rerouting, UNCHANGED callVars, NEW g \in Groups, NEW l \in 1..(Len(Partition(g)) + 1),
           ChainAt(g, l)',
           \A x \in Rank : (\A i \in 1..Len(Partition(g)) : x # Partition(g)[i]) => rank'[x] = rank[x] /\ token'[x] = token[x]
    PROVE  ChainInv'
<1>1. rerouting' = rerouting /\ Groups' = Groups /\ \A h : Partition(h)' = Partition(h)
    BY CallKept
<1>2. ASSUME NEW h \in Groups PROVE \E k \in 1..(Len(Partition(h)) + 1) : ChainAt(h, k)'
    <2>1. CASE h = g
        BY <2>1
    <2>2. CASE h # g
        <3>1. PICK k \in 1..(Len(Partition(h)) + 1) : ChainAt(h, k)
            BY DEF ChainInv
        <3>2. ASSUME NEW i \in 1..Len(Partition(h))
              PROVE  rank'[Partition(h)[i]] = rank[Partition(h)[i]] /\ token'[Partition(h)[i]] = token[Partition(h)[i]]
            <4>1. PICK x \in Rank : x = Partition(h)[i]
                BY HeadIsFirst DEF TypeInv
            <4>2. ASSUME NEW j \in 1..Len(Partition(g)) PROVE x # Partition(g)[j]
                <5>1. \A e, f \in Groups : \A m \in 1..Len(Partition(e)), n \in 1..Len(Partition(f)) :
                          Partition(e)[m] = Partition(f)[n] => e = f /\ m = n
                    BY PlanInvGroups DEF TypeInv
                <5>2. QED
                    BY <2>2, <4>1, <5>1
            <4>3. QED
                BY <4>1, <4>2
        <3>3. QED
            BY <3>1, <3>2, ChainKept DEF TypeInv
    <2>3. QED
        BY <2>1, <2>2
<1>3. QED
    BY <1>1, <1>2 DEF ChainInv

(* The one that writes, or is to write, has the token. *)
LEMMA HasToken ==
    ASSUME TypeInv, NEW g \in Groups, NEW k \in 1..(Len(Partition(g)) + 1), ChainAt(g, k),
           NEW i \in 1..Len(Partition(g)), NEW r, r = Partition(g)[i]
    PROVE  /\ rank[r].main = "write" => i = k
           /\ rank[r].main = "wait" /\ (i = 1 \/ token[r] # NoToken) => i = k
           /\ rank[r].main = "join" => i = 1 /\ i < k
<1>1. i \in Nat /\ k \in Nat /\ i > 0 /\ k > 0 /\ LinkAt(g, k, i)
    BY HeadIsFirst DEF TypeInv, ChainAt
<1>2. i < k \/ i = k \/ i > k
    BY <1>1
<1>3. i < k => rank[r].main \in {"done", "join"} /\ (rank[r].main = "join" => i = 1)
    BY <1>1 DEF LinkAt
<1>4. i > k => rank[r].main = "wait" /\ i # 1 /\ i # k
    BY <1>1 DEF LinkAt
<1>5. i > k => token[r] = NoToken
    BY <1>1, <1>4 DEF LinkAt
<1>6. i = k => rank[r].main \in {"wait", "write"}
    BY <1>1 DEF LinkAt
<1>7. QED
    BY <1>2, <1>3, <1>4, <1>5, <1>6

LEMMA ChainWriteVChain ==
    ASSUME TypeInv, ChainInv, NEW r \in Rank, ChainWriteV(r),
           NEW g \in Groups, NEW i \in 1..Len(Partition(g)), r = Partition(g)[i],
           NEW k \in 1..(Len(Partition(g)) + 1), ChainAt(g, k)
    PROVE  /\ ChainAt(g, k)' /\ i = k /\ rank'[r].m_StartDataPos = Behind(ChainReached(g, k))
           /\ \A x \in Rank \ {r} : rank'[x] = rank[x] /\ token'[x] = token[x]
           /\ rank'[r].main = "write" /\ rank'[r].m_SubStreamIndex = g /\ rank[r].main = "wait"
<1>1. /\ Chain(r) = Partition(g) /\ GroupOf(r) = g /\ (IsFirst(r) <=> i = 1)
      /\ PlanInv /\ Len(Partition(g)) \in Nat \ {0} /\ SubCoord(g) = Partition(g)[1] /\ 1 \in 1..Len(Partition(g))
    BY LinkOf, HeadIsFirst DEF TypeInv
<1>2. /\ rank[r].main = "wait" /\ (i = 1 \/ token[r] # NoToken) /\ UNCHANGED callVars
      /\ token' = [token EXCEPT ![r] = NoToken]
    BY <1>1 DEF ChainWriteV, OwnStep
<1>3. i = k
    BY <1>2, HasToken
<1>4. HeadAt(g, k) /\ LinkAt(g, k, i) /\ \A j \in 1..Len(Partition(g)) : LinkAt(g, k, j)
    BY DEF ChainAt
<1>5. PICK pos : pos = IF ~IsFirst(r) THEN token[r]
                       ELSE IF rank[r].m_DataPosShared THEN m_SubstreamDataPos[GroupOf(r)]
                       ELSE rank[r].m_DataPos
    OBVIOUS
<1>6. pos = ChainReached(g, k)
    <2>1. CASE i = 1
        BY <1>1, <1>2, <1>3, <1>4, <1>5, <2>1 DEF HeadAt, ChainReached
    <2>2. CASE i # 1
        BY <1>1, <1>2, <1>3, <1>4, <1>5, <2>2 DEF LinkAt
    <2>3. QED
        BY <2>1, <2>2
<1>7. PICK from, to, shared : from = Behind(pos) /\ to = from + size[r] /\ shared = (rank[r].m_DataPosShared /\ ~IsFirst(r))
    OBVIOUS
<1>8. rank' = [rank EXCEPT ![r] = [rank[r] EXCEPT !.main = "write", !.m_StartDataPos = from, !.m_DataPos = to,
                                                  !.m_DataPosShared = shared]]
    BY <1>5, <1>7, Zenon DEF ChainWriteV, Behind
<1>9. rank \in [Rank -> ThreadType(Groups)] /\ token \in [Rank -> Nat \cup {NoToken}]
    BY ThreadsBefore
<1>10. /\ rank'[r].main = "write" /\ rank'[r].m_StartDataPos = from /\ rank'[r].m_DataPos = to
       /\ rank'[r].m_DataPosShared = shared /\ rank'[r].m_SubStreamIndex = rank[r].m_SubStreamIndex
    BY <1>8, <1>9 DEF ThreadType
<1>11. \A x \in Rank \ {r} : rank'[x] = rank[x] /\ token'[x] = token[x]
    BY <1>2, <1>8, <1>9
<1>12. token'[r] = NoToken
    BY <1>2, <1>9
<1>13. /\ Partition(g)' = Partition(g) /\ SubCoord(g)' = SubCoord(g) /\ start' = start /\ size' = size
       /\ m_SubstreamDataPos' = m_SubstreamDataPos
    BY <1>2, CallKept
<1>14. \A j \in 1..Len(Partition(g)) : Partition(g)[j] \in Rank /\ (j # i => Partition(g)[j] # r)
    BY <1>1, HeadIsFirst, PlanInvGroups
<1>15. \A x \in Rank \ {r} : RegionEnd(x)' = RegionEnd(x)
    BY <1>11, <1>13 DEF RegionEnd
<1>16. ChainReached(g, k)' = ChainReached(g, k)
    <2>1. k # 1 => k - 1 \in 1..Len(Partition(g)) /\ k - 1 # i
        BY <1>1, <1>3
    <2>2. PICK x : x = Partition(g)[k - 1]
        OBVIOUS
    <2>3. k # 1 => RegionEnd(x)' = RegionEnd(x)
        BY <1>14, <1>15, <2>1, <2>2
    <2>4. QED
        BY <1>13, <2>2, <2>3 DEF ChainReached
<1>17. HeadAt(g, k)'
    <2>1. CASE i = 1
        <3>1. k # Len(Partition(g)) + 1 /\ SubCoord(g) = r
            BY <1>1, <1>3, <2>1
        <3>3. IsFirst(r)
            BY <1>1, <2>1
        <3>4. shared = FALSE
            BY <1>7, <3>3
        <3>2. QED
            BY <1>10, <1>12, <1>13, <3>1, <3>4 DEF HeadAt
    <2>2. CASE i # 1
        <3>1. SubCoord(g) \in Rank \ {r}
            BY <1>1, <1>14, <2>2
        <3>2. QED
            BY <1>4, <1>11, <1>13, <1>16, <3>1 DEF HeadAt
    <2>3. QED
        BY <2>1, <2>2
<1>18. ChainReached(g, k) \in Nat /\ from \in Nat /\ ChainReached(g, k) <= from
    <2>1. ChainReached(g, k) \in Nat
        BY ChainReachedNat
    <2>2. QED
        BY <1>6, <1>7, <2>1, BehindNat
<1>19. RegionEnd(r)' = to
    BY <1>7, <1>10, <1>13 DEF RegionEnd
<1>20. ASSUME NEW j \in 1..Len(Partition(g)) PROVE LinkAt(g, k, j)'
    <2>1. CASE j = i
        <3>1. rank'[r].m_SubStreamIndex = g
            BY <1>4, <1>10 DEF LinkAt
        <3>2. j \in Nat /\ ~(j < k) /\ ~(j > k) /\ j = k
            BY <1>1, <1>3, <2>1
        <3>3. QED
            BY <1>3, <1>10, <1>12, <1>13, <1>16, <1>18, <1>19, <2>1, <3>1, <3>2 DEF LinkAt
    <2>2. CASE j # i
        <3>1. PICK x : x = Partition(g)[j]
            OBVIOUS
        <3>2. x \in Rank \ {r} /\ LinkAt(g, k, j)
            BY <1>4, <1>14, <2>2, <3>1
        <3>3. rank'[x] = rank[x] /\ token'[x] = token[x] /\ RegionEnd(x)' = RegionEnd(x)
            BY <1>11, <1>15, <3>2
        <3>4. QED
            BY <1>13, <1>16, <3>1, <3>2, <3>3 DEF LinkAt
    <2>3. QED
        BY <2>1, <2>2
<1>21. rank[r].m_SubStreamIndex = g
    BY <1>4 DEF LinkAt
<1>22. ChainAt(g, k)'
    BY <1>13, <1>17, <1>20 DEF ChainAt
<1>23. QED
    BY <1>2, <1>3, <1>6, <1>7, <1>10, <1>11, <1>21, <1>22

LEMMA ChainPassChain ==
    ASSUME TypeInv, ChainInv, NEW r \in Rank, ChainPass(r),
           NEW g \in Groups, NEW i \in 1..Len(Partition(g)), r = Partition(g)[i],
           NEW k \in 1..(Len(Partition(g)) + 1), ChainAt(g, k)
    PROVE  /\ i = k /\ k + 1 \in 1..(Len(Partition(g)) + 1) /\ ChainAt(g, k + 1)'
           /\ \A x \in Rank \ {r} : rank'[x] = rank[x]
           /\ \A x \in Rank : (\A j \in 1..Len(Partition(g)) : x # Partition(g)[j]) => token'[x] = token[x]
           /\ rank[r].main = "write" /\ rank'[r].main \in {"join", "done"} /\ rank'[r].m_SubStreamIndex = g
           /\ rank[r].m_SubStreamIndex = g /\ rank'[r].m_StartDataPos = rank[r].m_StartDataPos
<1> DEFINE n == Len(Partition(g))
<1>1. /\ Chain(r) = Partition(g) /\ GroupOf(r) = g /\ (IsFirst(r) <=> i = 1) /\ (IsLast(r) <=> i = n) /\ ChainRank(r) = i
      /\ PlanInv /\ n \in Nat \ {0} /\ SubCoord(g) = Partition(g)[1] /\ 1 \in 1..n /\ i \in 1..n
    BY LinkOf, HeadIsFirst DEF TypeInv
<1>2. rank[r].main = "write" /\ UNCHANGED callVars
    BY DEF ChainPass, OwnStep
<1>3. i = k
    BY <1>2, HasToken
<1>4. HeadAt(g, k) /\ LinkAt(g, k, i) /\ \A j \in 1..n : LinkAt(g, k, j)
    BY DEF ChainAt
<1>5. PICK next : next = IF IsLast(r) THEN 1 ELSE ChainRank(r) + 1
    OBVIOUS
<1>6. next = (IF i = n THEN 1 ELSE i + 1) /\ next \in 1..n
    BY <1>1, <1>5
<1>7. PICK y, pos : y = Partition(g)[next] /\ pos = rank[r].m_DataPos
    OBVIOUS
<1>8. token' = IF n = 1 THEN token ELSE [token EXCEPT ![y] = pos]
    <2>1. token' = IF Len(Chain(r)) = 1 THEN token ELSE [token EXCEPT ![Chain(r)[next]] = rank[r].m_DataPos]
        BY <1>5, Zenon DEF ChainPass
    <2>2. QED
        BY <1>1, <1>7, <2>1
<1>9. PICK main : main = IF IsFirst(r) /\ Len(Chain(r)) > 1 THEN "join" ELSE "done"
    OBVIOUS
<1>10. main = (IF i = 1 /\ n > 1 THEN "join" ELSE "done") /\ rank' = [rank EXCEPT ![r].main = main]
    <2>1. rank' = [rank EXCEPT ![r].main = main]
        BY <1>9, Zenon DEF ChainPass
    <2>2. QED
        BY <1>1, <1>9, <2>1
<1>11. rank \in [Rank -> ThreadType(Groups)] /\ token \in [Rank -> Nat \cup {NoToken}] /\ NoToken \notin Nat
    BY ThreadsBefore DEF NoToken
<1>12. /\ rank'[r].main = main /\ rank'[r].m_StartDataPos = rank[r].m_StartDataPos /\ rank'[r].m_DataPos = pos
       /\ rank'[r].m_DataPosShared = rank[r].m_DataPosShared /\ rank'[r].m_SubStreamIndex = rank[r].m_SubStreamIndex
    BY <1>7, <1>10, <1>11 DEF ThreadType
<1>13. \A x \in Rank \ {r} : rank'[x] = rank[x]
    BY <1>10, <1>11
<1>14. \A x \in Rank : token'[x] = IF n > 1 /\ x = y THEN pos ELSE token[x]
    <2>1. CASE n = 1
        BY <1>8, <2>1
    <2>2. CASE n # 1
        <3>0. n \in Nat \ {0}
            BY <1>1
        <3> HIDE DEF n
        <3>1. n > 1
            BY <2>2, <3>0
        <3>2. QED
            BY <1>8, <1>11, <2>2, <3>1
    <2>3. QED
        BY <2>1, <2>2
<1>15. /\ Partition(g)' = Partition(g) /\ SubCoord(g)' = SubCoord(g) /\ start' = start /\ size' = size
       /\ m_SubstreamDataPos' = m_SubstreamDataPos
    BY <1>2, CallKept
<1>16. /\ \A j \in 1..n : Partition(g)[j] \in Rank
       /\ \A j, m \in 1..n : Partition(g)[j] = Partition(g)[m] => j = m
    <2>1. \A e, f \in Groups : \A a \in 1..Len(Partition(e)), b \in 1..Len(Partition(f)) :
              Partition(e)[a] = Partition(f)[b] => e = f /\ a = b
        BY <1>1, PlanInvGroups
    <2>2. \A j \in 1..n : Partition(g)[j] \in Rank
        BY <1>1, HeadIsFirst
    <2>3. QED
        BY <2>1, <2>2
<1>17. \A x \in Rank : RegionEnd(x)' = RegionEnd(x)
    BY <1>12, <1>13, <1>15 DEF RegionEnd
<1>18. pos = RegionEnd(r) /\ rank[r].m_SubStreamIndex = g /\ token[r] = NoToken
       /\ ChainReached(g, k) <= rank[r].m_StartDataPos
    BY <1>1, <1>2, <1>3, <1>4, <1>7 DEF LinkAt
<1>19. k + 1 \in 1..(n + 1) /\ k + 1 # 1 /\ (k + 1) - 1 = i /\ k \in Nat
    BY <1>1, <1>3
<1>20. PICK l : l = k + 1
    OBVIOUS
<1>21. ChainReached(g, l)' = pos /\ l # 1 /\ l = i + 1
    <2>1. ChainReached(g, l)' = RegionEnd(Partition(g)[l - 1])'
        BY <1>19, <1>20 DEF ChainReached
    <2>2. l - 1 = i
        BY <1>19, <1>20
    <2>3. RegionEnd(r)' = pos
        BY <1>17, <1>18
    <2>4. Partition(g)[l - 1] = r /\ Partition(g)' = Partition(g)
        BY <1>15, <2>2
    <2>5. QED
        BY <1>3, <1>19, <1>20, <2>1, <2>3, <2>4
<1>22. /\ ChainReached(g, k) \in Nat /\ pos \in Nat /\ ChainReached(g, k) <= pos /\ start[g] \in Nat
       /\ \A x \in Rank : RegionEnd(x) \in Nat
    <2>1. ChainReached(g, k) \in Nat /\ \A x \in Rank : RegionEnd(x) \in Nat
        BY ChainReachedNat, RegionEndNat
    <2>2. rank[r].m_StartDataPos <= RegionEnd(r) /\ rank[r].m_StartDataPos \in Nat
        BY RegionEndNat
    <2>3. start[g] \in Nat
        BY DEF TypeInv, CallTyped
    <2>4. QED
        BY <1>18, <2>1, <2>2, <2>3
<1>23. start[g] <= ChainReached(g, k)
    <2>1. CASE k = 1
        BY <1>22, <2>1 DEF ChainReached
    <2>2. CASE k # 1
        <3>1. 1 < k /\ LinkAt(g, k, 1)
            BY <1>1, <1>4, <1>19, <2>2
        <3>2. PICK x \in Rank : x = Partition(g)[1]
            BY <1>1, <1>16
        <3>3. start[g] <= RegionEnd(x) /\ RegionEnd(x) <= ChainReached(g, k) /\ RegionEnd(x) \in Nat
            BY <1>22, <3>1, <3>2 DEF LinkAt
        <3>4. QED
            BY <1>22, <3>3
    <2>3. QED
        BY <2>1, <2>2
<1>24. HeadAt(g, l)'
    <2>1. PICK h \in Rank : h = SubCoord(g)
        BY <1>1, <1>16
    <2>2. CASE i = 1
        <3>1. h = r
            BY <1>1, <2>1, <2>2
        <3>2. ~rank[r].m_DataPosShared
            BY <1>2, <1>4, <2>1, <3>1 DEF HeadAt
        <3>3. CASE n = 1
            <4>1. main = "done" /\ l = n + 1 /\ token'[r] = NoToken
                BY <1>10, <1>14, <1>18, <1>21, <2>2, <3>3
            <4>2. QED
                BY <1>12, <1>15, <1>21, <2>1, <3>1, <3>2, <4>1 DEF HeadAt
        <3>4. CASE n # 1
            <4>1. n > 1 /\ main = "join" /\ l # n + 1 /\ next # 1
                BY <1>1, <1>6, <1>10, <1>21, <2>2, <3>4
            <4>2. y # r
                BY <1>1, <1>6, <1>7, <1>16, <2>2, <4>1
            <4>3. token'[r] = NoToken
                BY <1>14, <1>18, <4>2
            <4>4. QED
                BY <1>12, <1>15, <1>21, <2>1, <3>1, <3>2, <4>1, <4>3 DEF HeadAt
        <3>5. QED
            BY <3>3, <3>4
    <2>3. CASE i # 1
        <3>1. h # r /\ n > 1 /\ 1 < k
            BY <1>1, <1>3, <1>16, <1>19, <2>1, <2>3
        <3>2. k # n + 1
            BY <1>1, <1>3
        <3>3. rank[h].main = "join" /\ token[h] = NoToken /\ ~rank[h].m_DataPosShared
            <4>1. rank[h].main # "done"
                BY <1>4, <2>1, <3>2 DEF HeadAt
            <4>2. LinkAt(g, k, 1)
                BY <1>1, <1>4
            <4>3. rank[h].main = "join"
                BY <1>1, <2>1, <3>1, <4>1, <4>2 DEF LinkAt
            <4>4. QED
                BY <1>4, <2>1, <3>2, <4>3 DEF HeadAt
        <3>4. rank'[h] = rank[h]
            BY <1>13, <3>1
        <3>5. y = h <=> i = n
            BY <1>1, <1>6, <1>7, <1>16, <2>1, <2>3
        <3>6. i = n <=> l = n + 1
            BY <1>1, <1>21
        <3>7. token'[h] = IF l = n + 1 THEN pos ELSE NoToken
            BY <1>14, <3>1, <3>3, <3>5, <3>6
        <3>8. QED
            BY <1>15, <1>21, <2>1, <3>3, <3>4, <3>7 DEF HeadAt
    <2>4. QED
        BY <2>2, <2>3
<1>25. ASSUME NEW j \in 1..n PROVE LinkAt(g, l, j)'
    <2>0. j \in Nat /\ l \in Nat /\ j > 0
        BY <1>1, <1>19, <1>20
    <2>1. PICK x : x = Partition(g)[j]
        OBVIOUS
    <2>2. x \in Rank /\ LinkAt(g, k, j) /\ (x = r <=> j = i)
        BY <1>4, <1>16, <2>1
    <2>3. rank'[x].m_SubStreamIndex = g
        <3>1. rank[x].m_SubStreamIndex = g
            BY <2>1, <2>2 DEF LinkAt
        <3>2. QED
            BY <1>12, <1>13, <2>2, <3>1
    <2>4. RegionEnd(x)' = RegionEnd(x)
        BY <1>17, <2>2
    <2>5. CASE j < l
        <3>1. j <= k /\ j # l /\ ~(j > l) /\ ~(j = l)
            BY <1>20, <1>19, <2>0, <2>5
        <3>2. start[g] <= RegionEnd(x) /\ RegionEnd(x) <= pos
            <4>1. CASE j = i
                BY <1>18, <1>22, <1>23, <2>2, <4>1
            <4>2. CASE j # i
                <5>1. j < k
                    BY <1>3, <2>0, <1>19, <3>1, <4>2
                <5>2. start[g] <= RegionEnd(x) /\ RegionEnd(x) <= ChainReached(g, k) /\ RegionEnd(x) \in Nat
                    BY <1>22, <2>1, <2>2, <5>1 DEF LinkAt
                <5>3. QED
                    BY <1>22, <5>2
            <4>3. QED
                BY <4>1, <4>2
        <3>3. rank'[x].main = "done" \/ (rank'[x].main = "join" /\ j = 1)
            <4>1. CASE j = i
                BY <1>10, <1>12, <2>2, <4>1
            <4>2. CASE j # i
                <5>1. j < k
                    BY <1>3, <2>0, <1>19, <3>1, <4>2
                <5>2. QED
                    BY <1>13, <2>1, <2>2, <4>2, <5>1 DEF LinkAt
            <4>3. QED
                BY <4>1, <4>2
        <3>4. j # 1 => token'[x] = NoToken
            <4>1. j # 1 => token[x] = NoToken
                BY <1>3, <1>18, <2>1, <2>2 DEF LinkAt
            <4>2. j # 1 => y # x
                <5>1. next # 1 => next = l
                    BY <1>6, <1>21
                <5>2. QED
                    BY <1>6, <1>7, <1>16, <2>1, <3>1, <5>1
            <4>3. QED
                BY <1>14, <2>2, <4>1, <4>2
        <3>5. QED
            BY <1>15, <1>21, <2>1, <2>3, <2>4, <3>1, <3>2, <3>3, <3>4 DEF LinkAt
    <2>6. CASE j = l
        <3>1. j > k /\ j # 1 /\ j # i /\ ~(j < l) /\ ~(j > l)
            BY <1>19, <1>20, <1>3, <2>0, <2>6
        <3>2. rank[x].main = "wait"
            BY <2>1, <2>2, <3>1 DEF LinkAt
        <3>3. rank'[x].main = "wait"
            BY <1>13, <2>2, <3>1, <3>2
        <3>4. next = l /\ n > 1
            BY <1>1, <1>6, <1>21, <2>0, <2>6
        <3>5. token'[x] = pos
            BY <1>7, <1>14, <2>1, <2>2, <2>6, <3>4
        <3>6. QED
            BY <1>15, <1>21, <2>1, <2>3, <2>6, <3>1, <3>3, <3>5 DEF LinkAt
    <2>7. CASE j > l
        <3>1. j > k /\ j # 1 /\ j # i /\ ~(j < l) /\ j # l /\ j # k
            BY <1>19, <1>20, <1>3, <2>0, <2>7
        <3>2. rank[x].main = "wait" /\ token[x] = NoToken
            BY <2>1, <2>2, <3>1 DEF LinkAt
        <3>3. rank'[x].main = "wait"
            BY <1>13, <2>2, <3>1, <3>2
        <3>4. next # j
            BY <1>6, <1>21, <3>1
        <3>5. token'[x] = NoToken
            BY <1>6, <1>7, <1>14, <1>16, <2>1, <2>2, <3>2, <3>4
        <3>6. QED
            BY <1>15, <2>1, <2>3, <3>1, <3>3, <3>5 DEF LinkAt
    <2>8. QED
        BY <2>0, <2>5, <2>6, <2>7
<1>26. ChainAt(g, l)'
    BY <1>15, <1>24, <1>25 DEF ChainAt
<1>27. \A x \in Rank : (\A j \in 1..n : x # Partition(g)[j]) => token'[x] = token[x]
    BY <1>6, <1>7, <1>14
<1>28. ChainAt(g, k + 1)'
    BY <1>15, <1>20, <1>26
<1>29. QED
    BY <1>2, <1>3, <1>10, <1>12, <1>13, <1>18, <1>19, <1>27, <1>28

LEMMA ChainReturnChain ==
    ASSUME TypeInv, ChainInv, NEW r \in Rank, ChainReturn(r),
           NEW g \in Groups, NEW i \in 1..Len(Partition(g)), r = Partition(g)[i],
           NEW k \in 1..(Len(Partition(g)) + 1), ChainAt(g, k)
    PROVE  /\ k = Len(Partition(g)) + 1 /\ ChainAt(g, k)' /\ i = 1
           /\ \A x \in Rank \ {r} : rank'[x] = rank[x] /\ token'[x] = token[x]
           /\ rank[r].main = "join" /\ rank'[r].main = "done" /\ rank'[r].m_SubStreamIndex = rank[r].m_SubStreamIndex
           /\ rank'[r].m_StartDataPos = rank[r].m_StartDataPos
<1> DEFINE n == Len(Partition(g))
<1>1. /\ PlanInv /\ n \in Nat \ {0} /\ SubCoord(g) = Partition(g)[1] /\ 1 \in 1..n /\ i \in 1..n
    BY HeadIsFirst DEF TypeInv
<1>2. /\ rank[r].main = "join" /\ token[r] # NoToken /\ UNCHANGED callVars
      /\ rank' = [rank EXCEPT ![r].main = "done", ![r].m_DataPos = token[r]]
      /\ token' = [token EXCEPT ![r] = NoToken]
    BY DEF ChainReturn, OwnStep
<1>3. i = 1 /\ i < k /\ r = SubCoord(g)
    BY <1>1, <1>2, HasToken
<1>4. HeadAt(g, k) /\ \A j \in 1..n : LinkAt(g, k, j)
    BY DEF ChainAt
<1>5. k = n + 1 /\ token[r] = ChainReached(g, k) /\ ~rank[r].m_DataPosShared
    BY <1>2, <1>3, <1>4 DEF HeadAt
<1>6. rank \in [Rank -> ThreadType(Groups)] /\ token \in [Rank -> Nat \cup {NoToken}]
    BY ThreadsBefore
<1>7. PICK pos : pos = token[r]
    OBVIOUS
<1>8. /\ rank'[r].main = "done" /\ rank'[r].m_DataPos = pos /\ rank'[r].m_StartDataPos = rank[r].m_StartDataPos
      /\ rank'[r].m_DataPosShared = rank[r].m_DataPosShared /\ rank'[r].m_SubStreamIndex = rank[r].m_SubStreamIndex
    <2>1. rank' = [rank EXCEPT ![r].main = "done", ![r].m_DataPos = pos]
        BY <1>2, <1>7
    <2>2. QED
        BY <1>6, <2>1 DEF ThreadType
<1>9. (\A x \in Rank \ {r} : rank'[x] = rank[x] /\ token'[x] = token[x]) /\ token'[r] = NoToken
    BY <1>2, <1>6
<1>10. /\ Partition(g)' = Partition(g) /\ SubCoord(g)' = SubCoord(g) /\ start' = start /\ size' = size
       /\ m_SubstreamDataPos' = m_SubstreamDataPos
    BY <1>2, CallKept
<1>11. \A x \in Rank : RegionEnd(x)' = RegionEnd(x)
    BY <1>8, <1>9, <1>10 DEF RegionEnd
<1>12. ChainReached(g, k)' = pos
    <2>1. k # 1 /\ k - 1 \in 1..n
        BY <1>1, <1>5
    <2>2. PICK x \in Rank : x = Partition(g)[k - 1]
        BY <2>1, HeadIsFirst, <1>1
    <2>3. ChainReached(g, k)' = RegionEnd(x)' /\ ChainReached(g, k) = RegionEnd(x)
        BY <1>10, <2>1, <2>2 DEF ChainReached
    <2>4. QED
        BY <1>5, <1>7, <1>11, <2>3
<1>13. HeadAt(g, k)'
    BY <1>3, <1>5, <1>8, <1>9, <1>10, <1>12 DEF HeadAt
<1>14. ASSUME NEW j \in 1..n PROVE LinkAt(g, k, j)'
    <2>0. j < k /\ j # k /\ ~(j > k)
        BY <1>1, <1>5
    <2>1. PICK x \in Rank : x = Partition(g)[j]
        BY HeadIsFirst, <1>1
    <2>2. LinkAt(g, k, j) /\ RegionEnd(x)' = RegionEnd(x) /\ ChainReached(g, k) = pos
        BY <1>4, <1>5, <1>7, <1>11, <2>1
    <2>3. /\ rank[x].m_SubStreamIndex = g /\ start[g] <= RegionEnd(x) /\ RegionEnd(x) <= pos
          /\ j # 1 => token[x] = NoToken
          /\ rank[x].main = "done" \/ (rank[x].main = "join" /\ j = 1)
        BY <2>0, <2>1, <2>2 DEF LinkAt
    <2>4. /\ rank'[x].m_SubStreamIndex = g
          /\ j # 1 => token'[x] = NoToken
          /\ rank'[x].main = "done" \/ (rank'[x].main = "join" /\ j = 1)
        BY <1>8, <1>9, <2>3
    <2>5. QED
        BY <1>10, <1>12, <2>0, <2>1, <2>2, <2>3, <2>4 DEF LinkAt
<1>15. ChainAt(g, k)'
    BY <1>10, <1>13, <1>14 DEF ChainAt
<1>16. QED
    BY <1>2, <1>3, <1>5, <1>8, <1>9, <1>15

LEMMA NextChainInv ==
    ASSUME TypeInv, QueueInv, ChainInv, [Next]_vars
    PROVE  ChainInv'
<1>1. ASSUME rerouting, UNCHANGED callVars, token' = token PROVE ChainInv'
    BY <1>1, CallKept DEF ChainInv
<1>2. ASSUME NEW r \in Rank, Comm(r) PROVE ChainInv'
    <2>1. UNCHANGED callVars /\ token' = token /\ rank[r].looping
        <3>1. ASSUME NEW q \in Rank, Receive(r, q) PROVE UNCHANGED callVars /\ token' = token /\ rank[r].looping
            BY <3>1 DEF Receive, Received, Arrives, DoWrite, WriteCompletion, WriteMore, GroupClose, GroupCloseAck,
                WriterIdle, WriterCapacity, StatusInquiry, StatusReply, RerouteRequest, RerouteReject, RerouteAck,
                CoordinatorReceived, Misdelivered
        <3>2. Work(r) => UNCHANGED callVars /\ token' = token
            BY DEF Work
        <3>3. QED
            BY <1>2, <3>1, <3>2 DEF Comm, FinishTurn, ProbeNothing, QueueInv, LoopsInv
    <2>2. rerouting
        BY <2>1 DEF QueueInv, LoopsInv
    <2>3. QED
        BY <1>1, <2>1, <2>2
<1>3. ASSUME NEW r \in Rank, Main(r) PROVE ChainInv'
    <2>0. UNCHANGED callVars
        BY <1>3, MainThreads
    <2>1. CASE WriteV(r) \/ FinishWriting(r) \/ Join(r)
        BY <1>1, <2>0, <2>1 DEF WriteV, FinishWriting, Join
    <2>2. CASE ChainWriteV(r) \/ ChainPass(r) \/ ChainReturn(r)
        <3>1. ~rerouting
            BY <2>2 DEF ChainWriteV, ChainPass, ChainReturn
        <3>2. PICK g \in Groups : \E i \in 1..Len(Partition(g)) : r = Partition(g)[i]
            BY LinkExists DEF TypeInv
        <3>3. PICK i \in 1..Len(Partition(g)) : r = Partition(g)[i]
            BY <3>2
        <3>4. PICK k \in 1..(Len(Partition(g)) + 1) : ChainAt(g, k)
            BY <3>1 DEF ChainInv
        <3>5. CASE ChainWriteV(r)
            <4>1. /\ ChainAt(g, k)'
                  /\ \A x \in Rank \ {r} : rank'[x] = rank[x] /\ token'[x] = token[x]
                BY <3>3, <3>4, <3>5, ChainWriteVChain
            <4>2. QED
                BY <2>0, <3>1, <3>3, <4>1, OneChain
        <3>6. CASE ChainPass(r)
            <4>1. /\ k + 1 \in 1..(Len(Partition(g)) + 1) /\ ChainAt(g, k + 1)'
                  /\ \A x \in Rank \ {r} : rank'[x] = rank[x]
                  /\ \A x \in Rank : (\A j \in 1..Len(Partition(g)) : x # Partition(g)[j]) => token'[x] = token[x]
                BY <3>3, <3>4, <3>6, ChainPassChain
            <4>2. PICK l \in 1..(Len(Partition(g)) + 1) : l = k + 1
                BY <4>1
            <4>3. ChainAt(g, l)'
                BY <4>1, <4>2
            <4>4. \A x \in Rank : (\A j \in 1..Len(Partition(g)) : x # Partition(g)[j]) => rank'[x] = rank[x] /\ token'[x] = token[x]
                BY <3>3, <4>1
            <4>5. QED
                BY <2>0, <3>1, <4>3, <4>4, OneChain
        <3>7. CASE ChainReturn(r)
            <4>1. /\ ChainAt(g, k)'
                  /\ \A x \in Rank \ {r} : rank'[x] = rank[x] /\ token'[x] = token[x]
                BY <3>3, <3>4, <3>7, ChainReturnChain
            <4>2. QED
                BY <2>0, <3>1, <3>3, <4>1, OneChain
        <3>8. QED
            BY <2>2, <3>5, <3>6, <3>7
    <2>3. QED
        BY <1>3, <2>1, <2>2 DEF Main
<1>4. CASE NextCall
    BY <1>4, NextCallChain
<1>5. CASE UNCHANGED vars
    <2>1. UNCHANGED callVars /\ rank' = rank /\ token' = token
        BY <1>5 DEF vars
    <2>2. CASE rerouting
        BY <1>1, <2>1, <2>2
    <2>3. CASE ~rerouting
        <3>1. Groups' = Groups /\ rerouting' = rerouting /\ \A g : Partition(g)' = Partition(g)
            BY <2>1, CallKept
        <3>2. ASSUME NEW g \in Groups PROVE \E k \in 1..(Len(Partition(g)) + 1) : ChainAt(g, k)'
            <4>1. PICK k \in 1..(Len(Partition(g)) + 1) : ChainAt(g, k)
                BY <2>3 DEF ChainInv
            <4>2. QED
                BY <2>1, <4>1, ChainKept DEF TypeInv
        <3>3. QED
            BY <2>3, <3>1, <3>2 DEF ChainInv
    <2>4. QED
        BY <2>2, <2>3
<1>6. QED
    BY <1>2, <1>3, <1>4, <1>5 DEF Next, Terminated

-----------------------------------------------------------------------------
(* The end of a subfile *)

LEMMA EndOfIs ==
    ASSUME TypeInv, NEW f \in Groups, NEW e \in Nat, start[f] <= e,
           \A x \in Rank : Ended(x) /\ rank[x].m_SubStreamIndex = f => RegionEnd(x) <= e,
           e = start[f] \/ \E x \in Rank : Ended(x) /\ rank[x].m_SubStreamIndex = f /\ RegionEnd(x) = e,
           rank[SubCoord(f)].main = "done" => rank[SubCoord(f)].m_DataPos = e
    PROVE  EndOf(f) = e
<1>1. PICK S : S = {start[f]} \cup {x.to : x \in {y \in RegionsOf({r \in Rank : Ended(r)}) : y.file = f}}
    OBVIOUS
<1>2. ASSUME NEW v PROVE v \in S <=> v = start[f] \/ \E x \in Rank : Ended(x) /\ rank[x].m_SubStreamIndex = f /\ RegionEnd(x) = v
    <2>1. \A x : RegionOf(x).to = RegionEnd(x) /\ RegionOf(x).file = rank[x].m_SubStreamIndex
        BY DEF RegionOf, RegionEnd
    <2>2. v \in S <=> v = start[f] \/ \E x \in Rank : Ended(x) /\ RegionOf(x).file = f /\ RegionOf(x).to = v
        BY <1>1 DEF RegionsOf
    <2>3. QED
        BY <2>1, <2>2
<1>3. start[f] \in Nat /\ \A x \in Rank : RegionEnd(x) \in Nat
    BY RegionEndNat DEF TypeInv, CallTyped
<1>4. e \in S /\ (\A v \in S : e >= v) /\ S \subseteq Nat
    BY <1>2, <1>3
<1>5. Max(S) = e
    <2>1. Max(S) \in S /\ \A v \in S : Max(S) >= v
        BY <1>4 DEF Max
    <2>2. Max(S) \in Nat /\ Max(S) >= e /\ e >= Max(S)
        BY <1>4, <2>1
    <2>3. QED
        BY <2>2
<1>6. QED
    BY <1>1, <1>5 DEF EndOf

LEMMA EndOfKept ==
    ASSUME UNCHANGED callVars, NEW f,
           \A x \in Rank : /\ (Ended(x) /\ rank[x].m_SubStreamIndex = f) <=> (Ended(x)' /\ rank'[x].m_SubStreamIndex = f)
                           /\ Ended(x) /\ rank[x].m_SubStreamIndex = f => rank'[x].m_StartDataPos = rank[x].m_StartDataPos,
           LET s == SubCoord(f)
           IN  /\ rank[s].main = "done" <=> rank'[s].main = "done"
               /\ rank[s].main = "done" => rank'[s].m_DataPos = rank[s].m_DataPos
    PROVE  EndOf(f)' = EndOf(f)
<1>1. Groups' = Groups /\ SubCoord(f)' = SubCoord(f) /\ start' = start /\ size' = size
    BY CallKept
<1>2. PICK S, T : /\ S = {x.to : x \in {y \in RegionsOf({r \in Rank : Ended(r)}) : y.file = f}}
                  /\ T = {x.to : x \in {y \in RegionsOf({r \in Rank : Ended(r)}) : y.file = f}}'
    OBVIOUS
<1>3. \A x : /\ RegionOf(x).to = RegionEnd(x) /\ RegionOf(x).file = rank[x].m_SubStreamIndex
             /\ RegionOf(x)'.to = RegionEnd(x)' /\ RegionOf(x)'.file = rank'[x].m_SubStreamIndex
    BY DEF RegionOf, RegionEnd
<1>4. \A v : v \in S <=> \E x \in Rank : Ended(x) /\ rank[x].m_SubStreamIndex = f /\ RegionEnd(x) = v
    BY <1>2, <1>3 DEF RegionsOf
<1>5. \A v : v \in T <=> \E x \in Rank : Ended(x)' /\ rank'[x].m_SubStreamIndex = f /\ RegionEnd(x)' = v
    BY <1>2, <1>3 DEF RegionsOf
<1>6. \A x \in Rank : Ended(x) /\ rank[x].m_SubStreamIndex = f => RegionEnd(x)' = RegionEnd(x)
    BY <1>1 DEF RegionEnd
<1>7. S = T
    BY <1>4, <1>5, <1>6
<1>8. QED
    BY <1>1, <1>2, <1>7, Zenon DEF EndOf

(* In a rerouted step: where the one that was told to write has ended, and until *)
(* it has, where it was told to begin behind                                      *)
EndsOk ==
    rerouting => \A g \in Groups :
        /\ \A r \in Rank : Works(r) /\ rank[r].m_TargetCoordinator = SubCoord(g) /\ rank[r].m_FinishedWriting
               => EndOf(g) = RegionEnd(r)
        /\ (\A r \in Rank : ~(Works(r) /\ rank[r].m_TargetCoordinator = SubCoord(g) /\ rank[r].m_FinishedWriting))
               => EndOf(g) = sc[SubCoord(g)].currentFilePos

(* What ThreadOk says of those that have begun to write *)
LEMMA BegunWrites ==
    ASSUME TypeInv, LoopsInv, rerouting, NEW x \in Rank, ThreadOk(x)
    PROVE  /\ Ended(x) <=> rank[x].m_FinishedWriting
           /\ Begun(x) => rank[x].m_ReadyToWrite /\ rank[x].m_SubStreamIndex = rank[x].m_TargetIndex
           /\ rank[x].m_ReadyToWrite =>
                  /\ rank[x].m_TargetIndex \in Groups
                  /\ rank[x].m_TargetCoordinator = SubCoord(rank[x].m_TargetIndex)
           /\ rank[x].m_ReadyToWrite /\ ~rank[x].m_FinishedWriting => Works(x)
           /\ Ended(x) => Begun(x)
<1>1. rank[x].m_ReadyToWrite => rank[x].m_TargetIndex \in Groups
    BY ThreadsBefore DEF ThreadType
<1>2. QED
    BY <1>1 DEF LoopsInv, ThreadOk, Begun, Ended

LEMMA EndsAreOk == TypeInv /\ QueueInv /\ WriteInv => EndsOk
<1> SUFFICES ASSUME TypeInv, QueueInv, WriteInv, rerouting, NEW g \in Groups
             PROVE  /\ \A r \in Rank : Works(r) /\ rank[r].m_TargetCoordinator = SubCoord(g) /\ rank[r].m_FinishedWriting
                           => EndOf(g) = RegionEnd(r)
                    /\ (\A r \in Rank : ~(Works(r) /\ rank[r].m_TargetCoordinator = SubCoord(g) /\ rank[r].m_FinishedWriting))
                           => EndOf(g) = sc[SubCoord(g)].currentFilePos
    BY DEF EndsOk
<1>1. PlanInv /\ LoopsInv /\ (\A x \in Rank : ThreadOk(x)) /\ FileOk(g)
    BY DEF TypeInv, QueueInv, WriteInv
<1>2. PICK s \in Rank : s = SubCoord(g)
    BY <1>1, PlanInvCoords
<1>3. sc[s].currentFilePos \in Nat /\ start[g] \in Nat /\ start[g] <= sc[s].currentFilePos /\ NoRank \notin Rank
    BY <1>1, <1>2, ThreadsBefore, PlanInvCoords DEF CoordinatorType, TypeInv, CallTyped, FileOk
<1>4. ASSUME NEW x \in Rank, Ended(x), rank[x].m_SubStreamIndex = g
      PROVE  /\ rank[x].m_TargetCoordinator = s /\ rank[x].m_FinishedWriting /\ RegionEnd(x) \in Nat
             /\ ~Works(x) => RegionEnd(x) <= sc[s].currentFilePos
    <2>1. rank[x].m_TargetCoordinator = s /\ rank[x].m_FinishedWriting
        BY <1>1, <1>2, <1>4, BegunWrites
    <2>2. QED
        BY <1>1, <2>1, RegionEndNat DEF ThreadOk
<1>5. rank[s].main = "done" => sc[s].writingRank = NoRank /\ rank[s].m_DataPos = sc[s].currentFilePos
    BY <1>1, <1>2 DEF LoopsInv, FileOk
<1>6. ASSUME NEW r \in Rank, Works(r), rank[r].m_TargetCoordinator = s, rank[r].m_FinishedWriting
      PROVE  EndOf(g) = RegionEnd(r)
    <2>1. Ended(r) /\ rank[r].m_SubStreamIndex = g /\ rank[r].main # "wait"
        <3>1. Ended(r) /\ Begun(r) /\ rank[r].m_ReadyToWrite
            BY <1>1, <1>6, BegunWrites
        <3>2. rank[r].m_TargetIndex \in Groups /\ s = SubCoord(rank[r].m_TargetIndex)
              /\ rank[r].m_SubStreamIndex = rank[r].m_TargetIndex
            BY <1>1, <1>6, <3>1, BegunWrites
        <3>3. QED
            BY <1>1, <1>2, <3>1, <3>2, SubCoordsApart DEF Begun
    <2>2. rank[r].m_StartDataPos = Behind(sc[s].currentFilePos)
        BY <1>1, <1>6, <2>1 DEF ThreadOk
    <2>3. RegionEnd(r) \in Nat /\ sc[s].currentFilePos <= RegionEnd(r)
        BY <1>3, <2>2, BehindNat, RegionEndNat
    <2>4. ASSUME NEW x \in Rank, Ended(x), rank[x].m_SubStreamIndex = g PROVE RegionEnd(x) <= RegionEnd(r)
        <3>1. Works(x) => x = r
            BY <1>4, <1>6, <2>4 DEF Works
        <3>2. ~Works(x) => RegionEnd(x) <= RegionEnd(r)
            BY <1>3, <1>4, <2>3, <2>4
        <3>3. QED
            BY <2>3, <3>1, <3>2
    <2>5. rank[SubCoord(g)].main # "done"
        BY <1>2, <1>3, <1>5, <1>6 DEF Works
    <2>6. start[g] <= RegionEnd(r)
        BY <1>3, <2>3
    <2>7. QED
        BY <2>1, <2>3, <2>4, <2>5, <2>6, EndOfIs
<1>7. ASSUME \A r \in Rank : ~(Works(r) /\ rank[r].m_TargetCoordinator = s /\ rank[r].m_FinishedWriting)
      PROVE  EndOf(g) = sc[s].currentFilePos
    <2>1. PICK e \in Nat : e = sc[s].currentFilePos
        BY <1>3
    <2>2. \A x \in Rank : Ended(x) /\ rank[x].m_SubStreamIndex = g => RegionEnd(x) <= e
        BY <1>4, <1>7, <2>1
    <2>3. e = start[g] \/ \E x \in Rank : Ended(x) /\ rank[x].m_SubStreamIndex = g /\ RegionEnd(x) = e
        BY <1>1, <1>2, <2>1, BegunWrites DEF FileOk
    <2>4. start[g] <= e /\ (rank[SubCoord(g)].main = "done" => rank[SubCoord(g)].m_DataPos = e)
        BY <1>2, <1>3, <1>5, <2>1
    <2>5. EndOf(g) = e
        BY <2>2, <2>3, <2>4, EndOfIs
    <2>6. QED
        BY <2>1, <2>5
<1>8. QED
    BY <1>2, <1>6, <1>7

LEMMA NextEndsAreOk == (TypeInv /\ QueueInv /\ WriteInv)' => EndsOk'
BY EndsAreOk, PTL

(* In a chain: what it has reached *)
ChainEndsOk ==
    ~rerouting => \A g \in Groups : \A k \in 1..(Len(Partition(g)) + 1) : ChainAt(g, k) => EndOf(g) = ChainReached(g, k)

(* A rank of a chain *)
LEMMA ChainRankIn ==
    ASSUME TypeInv, ChainInv, ~rerouting, NEW x \in Rank, NEW g \in Groups, rank[x].m_SubStreamIndex = g
    PROVE  \E i \in 1..Len(Partition(g)) : x = Partition(g)[i]
<1>1. PICK h \in Groups : \E i \in 1..Len(Partition(h)) : x = Partition(h)[i]
    BY LinkExists DEF TypeInv
<1>2. PICK i \in 1..Len(Partition(h)) : x = Partition(h)[i]
    BY <1>1
<1>3. PICK k \in 1..(Len(Partition(h)) + 1) : ChainAt(h, k)
    BY DEF ChainInv
<1>4. rank[x].m_SubStreamIndex = h
    BY <1>2, <1>3 DEF ChainAt, LinkAt
<1>5. QED
    BY <1>1, <1>4

LEMMA ChainEndsAreOk == TypeInv /\ ChainInv => ChainEndsOk
<1> SUFFICES ASSUME TypeInv, ChainInv, ~rerouting, NEW g \in Groups, NEW k \in 1..(Len(Partition(g)) + 1), ChainAt(g, k)
             PROVE  EndOf(g) = ChainReached(g, k)
    BY DEF ChainEndsOk
<1>1. /\ PlanInv /\ Len(Partition(g)) \in Nat \ {0} /\ SubCoord(g) = Partition(g)[1] /\ 1 \in 1..Len(Partition(g))
      /\ \A i \in 1..Len(Partition(g)) : Partition(g)[i] \in Rank
    BY HeadIsFirst DEF TypeInv
<1>2. PICK e \in Nat : e = ChainReached(g, k)
    BY ChainReachedNat
<1>3. HeadAt(g, k) /\ \A i \in 1..Len(Partition(g)) : LinkAt(g, k, i)
    BY DEF ChainAt
<1>4. start[g] \in Nat /\ \A x \in Rank : RegionEnd(x) \in Nat
    BY RegionEndNat DEF TypeInv, CallTyped
<1>5. k = 1 => e = start[g]
    BY <1>2 DEF ChainReached
<1>6. ASSUME k # 1
      PROVE  /\ start[g] <= e
             /\ \E x \in Rank : Ended(x) /\ rank[x].m_SubStreamIndex = g /\ RegionEnd(x) = e
    <2>1. PICK i : i = k - 1
        OBVIOUS
    <2>2. i \in 1..Len(Partition(g)) /\ i < k
        BY <1>1, <1>6, <2>1
    <2>3. PICK x \in Rank : x = Partition(g)[i]
        BY <1>1, <2>2
    <2>4. e = RegionEnd(x)
        BY <1>2, <1>6, <2>1, <2>3 DEF ChainReached
    <2>5. start[g] <= e /\ rank[x].m_SubStreamIndex = g /\ Ended(x)
        BY <1>3, <2>2, <2>3, <2>4 DEF LinkAt, Ended
    <2>6. QED
        BY <2>4, <2>5
<1>7. ASSUME NEW x \in Rank, Ended(x), rank[x].m_SubStreamIndex = g PROVE RegionEnd(x) <= e
    <2>1. PICK i \in 1..Len(Partition(g)) : x = Partition(g)[i]
        BY <1>7, ChainRankIn
    <2>2. LinkAt(g, k, i) /\ rank[x].main \in {"join", "done"}
        BY <1>3, <1>7 DEF Ended
    <2>3. i \in Nat /\ k \in Nat
        BY <1>1
    <2>4. i < k
        BY <2>1, <2>2, <2>3 DEF LinkAt
    <2>5. QED
        BY <1>2, <2>1, <2>2, <2>4 DEF LinkAt
<1>8. rank[SubCoord(g)].main = "done" => rank[SubCoord(g)].m_DataPos = e
    BY <1>2, <1>3 DEF HeadAt
<1>9. start[g] <= e
    BY <1>4, <1>5, <1>6
<1>10. EndOf(g) = e
    BY <1>5, <1>6, <1>7, <1>8, <1>9, EndOfIs
<1>11. QED
    BY <1>2, <1>10

LEMMA NextChainEndsAreOk == (TypeInv /\ ChainInv)' => ChainEndsOk'
BY ChainEndsAreOk, PTL

-----------------------------------------------------------------------------
(* The steps of SubfileAppend *)

WritersOf(f) == {r \in Rank : rank[r].main = "write" /\ rank[r].m_SubStreamIndex = f}
AbsEnd       == [f \in Subfile |-> EndOf(f)]
AbsWriting   == [f \in Subfile |-> WritersOf(f)]
AbsRegions   == RegionsOf({r \in Rank : Begun(r)})
AbsRegion    == [rank : Rank, file : Subfile, from : Nat, to : Nat]

LEMMA RegionFields ==
    ASSUME NEW r
    PROVE  /\ RegionOf(r).rank = r /\ RegionOf(r).file = rank[r].m_SubStreamIndex
           /\ RegionOf(r).from = rank[r].m_StartDataPos /\ RegionOf(r).to = RegionEnd(r)
BY DEF RegionOf, RegionEnd

LEMMA BeginsRegion ==
    ASSUME NEW r \in Rank, NEW f \in Subfile, ~Begun(r), WritersOf(f) = {},
           rank'[r].main = "write", rank'[r].m_SubStreamIndex = f, size' = size, size[r] \in Nat,
           rank'[r].m_StartDataPos \in Nat, EndOf(f) <= rank'[r].m_StartDataPos,
           \A x \in Rank \ {r} : rank'[x] = rank[x],
           \A h \in Subfile : EndOf(h)' = EndOf(h)
    PROVE  Subfiles!Next
<1>1. PICK y : y = [rank |-> r, file |-> f, from |-> rank'[r].m_StartDataPos, to |-> rank'[r].m_StartDataPos + size[r]]
    OBVIOUS
<1>2. RegionOf(r)' = y /\ y.rank = r /\ y.file = f /\ y.from = rank'[r].m_StartDataPos /\ y.to = y.from + size[r]
    BY <1>1 DEF RegionOf
<1>3. \A x \in Rank \ {r} : RegionOf(x)' = RegionOf(x) /\ (Begun(x)' <=> Begun(x))
    BY DEF RegionOf, Begun
<1>4. Begun(r)' /\ rank[r].main # "write"
    BY DEF Begun
<1>5. AbsRegions' = AbsRegions \cup {y}
    <2>1. {x \in Rank : Begun(x)}' = {x \in Rank : Begun(x)} \cup {r}
        BY <1>3, <1>4
    <2>2. \A v : v \in AbsRegions <=> \E x \in Rank : Begun(x) /\ v = RegionOf(x)
        BY DEF AbsRegions, RegionsOf
    <2>3. \A v : v \in AbsRegions' <=> \E x \in Rank : Begun(x)' /\ v = RegionOf(x)'
        BY DEF AbsRegions, RegionsOf
    <2>4. QED
        BY <1>2, <1>3, <1>4, <2>2, <2>3
<1>6. \A x \in AbsRegions : x.rank # r
    BY RegionFields DEF AbsRegions, RegionsOf
<1>7. y \in AbsRegion /\ y.from <= y.to /\ EndOf(f) <= y.from
    BY <1>1, <1>2 DEF AbsRegion
<1>8. AbsWriting' = [AbsWriting EXCEPT ![f] = {r}] /\ AbsWriting[f] = {}
    <2>1. \A h : h # f => WritersOf(h)' = WritersOf(h)
        BY <1>4 DEF WritersOf
    <2>2. WritersOf(f)' = {r}
        BY DEF WritersOf
    <2>3. QED
        BY <2>1, <2>2 DEF AbsWriting
<1>9. AbsEnd' = AbsEnd /\ AbsEnd[f] = EndOf(f)
    BY DEF AbsEnd
<1>10. Subfiles!Begin(r, f)
    <2>1. /\ AbsWriting[f] = {}
          /\ \A x \in AbsRegions : x.rank # r
          /\ \E x \in AbsRegions' \cap AbsRegion :
                 /\ x.rank = r /\ x.file = f
                 /\ AbsEnd[f] <= x.from /\ x.from <= x.to
                 /\ AbsRegions' = AbsRegions \cup {x}
          /\ AbsWriting' = [AbsWriting EXCEPT ![f] = {r}]
          /\ AbsEnd' = AbsEnd
        <3>1. y \in AbsRegions' \cap AbsRegion
            BY <1>5, <1>7
        <3>2. QED
            BY <1>2, <1>5, <1>6, <1>7, <1>8, <1>9, <3>1
    <2>2. QED
        BY <2>1 DEF Subfiles!Begin, Subfiles!Region, AbsWriting, AbsRegions, AbsRegion, AbsEnd, WritersOf
<1>11. QED
    BY <1>10 DEF Subfiles!Next

LEMMA EndsRegion ==
    ASSUME NEW r \in Rank, NEW f \in Subfile, WritersOf(f) = {r}, rank'[r].main # "write", Begun(r)', size' = size,
           rank'[r].m_SubStreamIndex = f, rank'[r].m_StartDataPos = rank[r].m_StartDataPos,
           \A x \in Rank \ {r} : rank'[x] = rank[x],
           EndOf(f)' = RegionEnd(r), \A h \in Subfile \ {f} : EndOf(h)' = EndOf(h)
    PROVE  Subfiles!Next
<1>0. rank[r].main = "write" /\ rank[r].m_SubStreamIndex = f /\ Begun(r)
    BY DEF WritersOf, Begun
<1>1. PICK y : y = RegionOf(r)
    OBVIOUS
<1>2. y.rank = r /\ y.file = f /\ y.to = RegionEnd(r)
    BY <1>0, <1>1, RegionFields
<1>3. \A x \in Rank : RegionOf(x)' = RegionOf(x) /\ (Begun(x)' <=> Begun(x))
    BY <1>0 DEF RegionOf, Begun
<1>4. AbsRegions' = AbsRegions /\ y \in AbsRegions
    <2>1. \A v : v \in AbsRegions <=> \E x \in Rank : Begun(x) /\ v = RegionOf(x)
        BY DEF AbsRegions, RegionsOf
    <2>2. \A v : v \in AbsRegions' <=> \E x \in Rank : Begun(x)' /\ v = RegionOf(x)'
        BY DEF AbsRegions, RegionsOf
    <2>3. QED
        BY <1>0, <1>1, <1>3, <2>1, <2>2
<1>5. AbsWriting' = [AbsWriting EXCEPT ![f] = {}] /\ AbsWriting[f] = {r}
    <2>1. \A h : h # f => WritersOf(h)' = WritersOf(h)
        BY <1>0 DEF WritersOf
    <2>2. WritersOf(f)' = {}
        <3>1. \A x \in Rank : rank[x].main = "write" /\ rank[x].m_SubStreamIndex = f => x = r
            BY DEF WritersOf
        <3>2. QED
            BY <3>1 DEF WritersOf
    <2>3. QED
        BY <2>1, <2>2 DEF AbsWriting
<1>6. AbsEnd' = [AbsEnd EXCEPT ![f] = y.to]
    BY <1>2 DEF AbsEnd
<1>7. Subfiles!End(y)
    <2>1. /\ y.rank \in AbsWriting[y.file]
          /\ AbsWriting' = [AbsWriting EXCEPT ![y.file] = {}]
          /\ AbsEnd' = [AbsEnd EXCEPT ![y.file] = y.to]
          /\ AbsRegions' = AbsRegions
        BY <1>2, <1>4, <1>5, <1>6
    <2>2. QED
        BY <2>1 DEF Subfiles!End, AbsWriting, AbsRegions, AbsEnd, WritersOf
<1>8. QED
    BY <1>4, <1>7 DEF Subfiles!Next, AbsRegions

LEMMA StuttersRegions ==
    ASSUME size' = size, \A h \in Subfile : EndOf(h)' = EndOf(h),
           \A x \in Rank : /\ (rank[x].main = "wait" <=> rank'[x].main = "wait")
                           /\ (rank[x].main = "write" <=> rank'[x].main = "write")
                           /\ rank'[x].m_SubStreamIndex = rank[x].m_SubStreamIndex
                           /\ rank'[x].m_StartDataPos = rank[x].m_StartDataPos
    PROVE  UNCHANGED Subfiles!vars
<1>1. \A x \in Rank : RegionOf(x)' = RegionOf(x) /\ (Begun(x)' <=> Begun(x))
    BY DEF RegionOf, Begun
<1>2. AbsRegions' = AbsRegions
    <2>1. \A v : v \in AbsRegions <=> \E x \in Rank : Begun(x) /\ v = RegionOf(x)
        BY DEF AbsRegions, RegionsOf
    <2>2. \A v : v \in AbsRegions' <=> \E x \in Rank : Begun(x)' /\ v = RegionOf(x)'
        BY DEF AbsRegions, RegionsOf
    <2>3. QED
        BY <1>1, <2>1, <2>2
<1>3. AbsWriting' = AbsWriting
    <2>1. \A h : WritersOf(h)' = WritersOf(h)
        BY DEF WritersOf
    <2>2. QED
        BY <2>1 DEF AbsWriting
<1>4. AbsEnd' = AbsEnd
    BY DEF AbsEnd
<1>5. QED
    BY <1>2, <1>3, <1>4 DEF Subfiles!vars, AbsWriting, AbsRegions, AbsEnd, WritersOf

(* The next call begins where this one ended. *)
LEMMA StepsOn ==
    ASSUME AllDone, \A x \in Rank : rank'[x].main = "wait", \A h \in Subfile : EndOf(h)' = EndOf(h)
    PROVE  Subfiles!Next
<1>1. \A x \in Rank : Begun(x) /\ rank[x].main # "write" /\ ~Begun(x)' /\ rank'[x].main # "write"
    BY DEF AllDone, Begun
<1>2. AbsRegions' = {} /\ \A r \in Rank : \E x \in AbsRegions : x.rank = r
    <2>1. \A v : v \in AbsRegions <=> \E x \in Rank : Begun(x) /\ v = RegionOf(x)
        BY DEF AbsRegions, RegionsOf
    <2>2. \A v : v \in AbsRegions' <=> \E x \in Rank : Begun(x)' /\ v = RegionOf(x)'
        BY DEF AbsRegions, RegionsOf
    <2>3. \A r \in Rank : RegionOf(r) \in AbsRegions /\ RegionOf(r).rank = r
        BY <1>1, <2>1, RegionFields
    <2>4. QED
        BY <1>1, <2>2, <2>3
<1>3. AbsWriting' = AbsWriting /\ \A f \in Subfile : AbsWriting[f] = {}
    BY <1>1 DEF AbsWriting, WritersOf
<1>4. AbsEnd' = AbsEnd
    BY DEF AbsEnd
<1>5. Subfiles!NextStep
    BY <1>2, <1>3, <1>4 DEF Subfiles!NextStep, AbsWriting, AbsRegions, AbsEnd, WritersOf
<1>6. QED
    BY <1>5 DEF Subfiles!Next

-----------------------------------------------------------------------------
(* Which step of SubfileAppend each action is *)

LEMMA GroupsAreSubfiles ==
    ASSUME PlanInv
    PROVE  Groups \subseteq Subfile
<1>1. plan \in Plans /\ Groups = 1..plan.NumSubFiles
    BY PlanInvGroups DEF PlanInv
<1>2. QED
    BY <1>1 DEF Subfile

(* The ends of the subfiles stay, as far as those of the groups do. *)
LEMMA EndsStay ==
    ASSUME UNCHANGED callVars, NEW S, \A h \in Groups : h \in S => EndOf(h)' = EndOf(h)
    PROVE  \A h \in S : EndOf(h)' = EndOf(h)
<1>1. Groups' = Groups
    BY CallKept
<1>2. ASSUME NEW h, h \notin Groups PROVE EndOf(h)' = EndOf(h)
    BY <1>1, <1>2 DEF EndOf
<1>3. QED
    BY <1>2

LEMMA ReceiveFields ==
    ASSUME TypeInv, NEW r \in Rank, NEW q \in Rank, Receive(r, q)
    PROVE  /\ \A x \in Rank \ {r} : rank'[x] = rank[x]
           /\ rank'[r].main = rank[r].main /\ rank'[r].m_SubStreamIndex = rank[r].m_SubStreamIndex
           /\ rank'[r].m_StartDataPos = rank[r].m_StartDataPos
<1>0. rank \in [Rank -> ThreadType(Groups)]
    BY ThreadsBefore
<1>1. CASE DoWrite(r, q)
    <2>1. PICK m : m = First(r, q)
        OBVIOUS
    <2>2. rank' = [rank EXCEPT ![r].m_TargetIndex = m.index, ![r].m_DataPos = m.offset,
                               ![r].m_TargetCoordinator = q, ![r].m_ReadyToWrite = TRUE]
        BY <1>1, <2>1 DEF DoWrite
    <2>3. QED
        BY <1>0, <2>2 DEF ThreadType
<1>2. CASE GroupClose(r, q)
    <2>1. rank' = [rank EXCEPT ![r].receivedGroupClose = TRUE]
        BY <1>2 DEF GroupClose
    <2>2. QED
        BY <1>0, <2>1 DEF ThreadType
<1>3. ASSUME ~DoWrite(r, q), ~GroupClose(r, q) PROVE rank' = rank
    BY <1>3 DEF Receive, WriteCompletion, WriteMore, GroupCloseAck, WriterIdle, WriterCapacity, StatusInquiry,
                StatusReply, RerouteRequest, RerouteReject, RerouteAck, Misdelivered
<1>4. QED
    BY <1>1, <1>2, <1>3

(* The communication threads change no file. *)
LEMMA CommStutters ==
    ASSUME TypeInv, QueueInv, NEW r \in Rank, Comm(r)
    PROVE  UNCHANGED Subfiles!vars
<1>1. /\ \A x \in Rank \ {r} : rank'[x] = rank[x]
      /\ rank'[r].main = rank[r].main /\ rank'[r].m_SubStreamIndex = rank[r].m_SubStreamIndex
      /\ rank'[r].m_StartDataPos = rank[r].m_StartDataPos
      /\ UNCHANGED callVars /\ rank[r].looping
    <2>1. ASSUME NEW q \in Rank, Receive(r, q)
          PROVE  UNCHANGED callVars /\ rank[r].looping
        BY <2>1, ReceiveThreads
    <2>2. FinishTurn(r) \/ ProbeNothing(r) => Work(r) /\ rank[r].looping
        BY DEF FinishTurn, ProbeNothing, QueueInv, LoopsInv
    <2>3. Work(r) => UNCHANGED callVars
        BY DEF Work
    <2>4. QED
        BY <2>1, <2>2, <2>3, ReceiveFields, WorkFields DEF Comm
<1>2. rank[r].main # "done"
    BY <1>1 DEF QueueInv, LoopsInv
<1>3. \A x \in Rank : /\ rank'[x].main = rank[x].main /\ rank'[x].m_SubStreamIndex = rank[x].m_SubStreamIndex
                      /\ rank'[x].m_StartDataPos = rank[x].m_StartDataPos
                      /\ rank[x].main = "done" => rank'[x].m_DataPos = rank[x].m_DataPos
    BY <1>1, <1>2
<1>4. ASSUME NEW h \in Groups PROVE EndOf(h)' = EndOf(h)
    <2>1. PICK s \in Rank : s = SubCoord(h)
        BY PlanInvCoords DEF TypeInv
    <2>2. \A x \in Rank : Ended(x)' <=> Ended(x)
        BY <1>3 DEF Ended
    <2>3. QED
        BY <1>1, <1>3, <2>1, <2>2, EndOfKept
<1>5. \A h \in Subfile : EndOf(h)' = EndOf(h)
    BY <1>1, <1>4, EndsStay
<1>6. size' = size
    BY <1>1, CallKept
<1>7. QED
    BY <1>3, <1>5, <1>6, StuttersRegions

LEMMA WriteVBegins ==
    ASSUME TypeInv, QueueInv, WriteInv, NEW r \in Rank, WriteV(r)
    PROVE  Subfiles!Next
<1>1. /\ \A x \in Rank \ {r} : rank'[x] = rank[x]
      /\ rank[r].main = "wait" /\ rank[r].m_ReadyToWrite /\ rerouting /\ UNCHANGED callVars
      /\ rank'[r].main = "write" /\ rank'[r].m_SubStreamIndex = rank[r].m_TargetIndex
      /\ rank'[r].m_StartDataPos = Behind(rank[r].m_DataPos)
    BY MainFields
<1>2. LoopsInv /\ PlanInv /\ NoRank \notin Rank /\ \A x \in Rank : ThreadOk(x)
    BY <1>1, PlanInvCoords DEF TypeInv, QueueInv, WriteInv
<1>3. PICK f \in Groups : f = rank[r].m_TargetIndex
    BY <1>1, <1>2, BegunWrites
<1>4. PICK s : s = SubCoord(f)
    OBVIOUS
<1>5. rank[r].m_TargetCoordinator = s /\ ~rank[r].m_FinishedWriting /\ Works(r) /\ s \in SubCoords /\ s \in Rank
    <2>1. ~rank[r].m_FinishedWriting
        BY <1>1, <1>2, NotReady
    <2>2. s \in SubCoords /\ s \in Rank
        BY <1>2, <1>4, PlanInvCoords
    <2>3. QED
        BY <1>1, <1>2, <1>3, <1>4, <2>1, <2>2, BegunWrites
<1>6. rank[r].m_DataPos = sc[s].currentFilePos /\ sc[s].writingRank = r
    BY <1>1, <1>2, <1>5 DEF ThreadOk, Works
<1>7. ASSUME NEW x \in Rank, Works(x), rank[x].m_TargetCoordinator = s PROVE x = r
    BY <1>6, <1>7 DEF Works
<1>8. EndOf(f) = sc[s].currentFilePos
    <2>1. EndsOk
        BY EndsAreOk
    <2>2. QED
        BY <1>1, <1>4, <1>5, <1>7, <2>1 DEF EndsOk
<1>9. WritersOf(f) = {}
    <2>1. ASSUME NEW x \in Rank, rank[x].main = "write", rank[x].m_SubStreamIndex = f PROVE FALSE
        <3>1. Begun(x) /\ ~Ended(x)
            BY <2>1 DEF Begun, Ended
        <3>2. Works(x) /\ rank[x].m_TargetCoordinator = s
            BY <1>1, <1>2, <1>4, <2>1, <3>1, BegunWrites
        <3>3. QED
            BY <1>1, <1>7, <2>1, <3>2
    <2>2. QED
        BY <2>1 DEF WritersOf
<1>10. ~Begun(r) /\ f \in Subfile /\ size' = size /\ size[r] \in Nat
    BY <1>1, <1>2, GroupsAreSubfiles, CallKept, RegionEndNat DEF Begun
<1>11. rank'[r].m_StartDataPos \in Nat /\ EndOf(f) <= rank'[r].m_StartDataPos
    BY <1>1, <1>6, <1>8, BehindNat, RegionEndNat
<1>12. \A h \in Subfile : EndOf(h)' = EndOf(h)
    <2>1. \A x \in Rank : Ended(x)' <=> Ended(x)
        BY <1>1 DEF Ended
    <2>2. ~Ended(r)
        BY <1>1 DEF Ended
    <2>3. ASSUME NEW h \in Groups PROVE EndOf(h)' = EndOf(h)
        <3>1. PICK t \in Rank : t = SubCoord(h)
            BY <1>2, PlanInvCoords
        <3>2. \A x \in Rank : /\ (Ended(x) /\ rank[x].m_SubStreamIndex = h) <=> (Ended(x)' /\ rank'[x].m_SubStreamIndex = h)
                              /\ Ended(x) /\ rank[x].m_SubStreamIndex = h => rank'[x].m_StartDataPos = rank[x].m_StartDataPos
            BY <1>1, <2>1, <2>2
        <3>3. /\ rank[t].main = "done" <=> rank'[t].main = "done"
              /\ rank[t].main = "done" => rank'[t].m_DataPos = rank[t].m_DataPos
            BY <1>1
        <3>4. QED
            BY <1>1, <3>1, <3>2, <3>3, EndOfKept
    <2>4. QED
        BY <1>1, <2>3, EndsStay
<1>13. rank'[r].m_SubStreamIndex = f
    BY <1>1, <1>3
<1>14. QED
    BY <1>1, <1>9, <1>10, <1>11, <1>12, <1>13, BeginsRegion

LEMMA FinishWritingEnds ==
    ASSUME TypeInv, QueueInv, WriteInv, TypeInv', QueueInv', WriteInv', NEW r \in Rank, FinishWriting(r)
    PROVE  Subfiles!Next
<1>1. /\ \A x \in Rank \ {r} : rank'[x] = rank[x]
      /\ rank[r].main = "write" /\ rerouting /\ UNCHANGED callVars /\ sc' = sc
      /\ rank'[r].main = "join" /\ rank'[r].m_SubStreamIndex = rank[r].m_SubStreamIndex /\ rank'[r].m_FinishedWriting
      /\ rank'[r].m_StartDataPos = rank[r].m_StartDataPos
      /\ rank'[r].m_ReadyToWrite = rank[r].m_ReadyToWrite
      /\ rank'[r].m_TargetCoordinator = rank[r].m_TargetCoordinator
    BY MainFields
<1>2. LoopsInv /\ PlanInv /\ NoRank \notin Rank /\ \A x \in Rank : ThreadOk(x)
    BY <1>1, PlanInvCoords DEF TypeInv, QueueInv, WriteInv
<1>3. Begun(r) /\ ~Ended(r)
    BY <1>1 DEF Begun, Ended
<1>4. PICK f \in Groups : f = rank[r].m_SubStreamIndex
    BY <1>1, <1>2, <1>3, BegunWrites
<1>5. PICK s : s = SubCoord(f)
    OBVIOUS
<1>6. rank[r].m_TargetCoordinator = s /\ Works(r) /\ rank[r].m_ReadyToWrite
    BY <1>1, <1>2, <1>3, <1>4, <1>5, BegunWrites
<1>7. WritersOf(f) = {r}
    <2>1. ASSUME NEW x \in Rank, rank[x].main = "write", rank[x].m_SubStreamIndex = f PROVE x = r
        <3>1. Begun(x) /\ ~Ended(x)
            BY <2>1 DEF Begun, Ended
        <3>2. Works(x) /\ rank[x].m_TargetCoordinator = s
            BY <1>1, <1>2, <1>5, <2>1, <3>1, BegunWrites
        <3>3. QED
            BY <1>6, <3>2 DEF Works
    <2>2. QED
        BY <1>1, <1>4, <2>1 DEF WritersOf
<1>8. EndOf(f)' = RegionEnd(r)
    <2>1. EndsOk'
        BY NextEndsAreOk
    <2>2. /\ rerouting' /\ Groups' = Groups /\ SubCoord(f)' = s /\ size' = size
        BY <1>1, <1>5, CallKept
    <2>3. Works(r)'
        BY <1>1, <1>6 DEF Works
    <2>4. EndOf(f)' = RegionEnd(r)'
        BY <1>1, <1>6, <2>1, <2>2, <2>3 DEF EndsOk
    <2>5. QED
        BY <1>1, <2>2, <2>4 DEF RegionEnd
<1>9. \A h \in Subfile \ {f} : EndOf(h)' = EndOf(h)
    <2>1. ASSUME NEW h \in Groups, h # f PROVE EndOf(h)' = EndOf(h)
        <3>1. PICK t \in Rank : t = SubCoord(h)
            BY <1>2, PlanInvCoords
        <3>2. \A x \in Rank : /\ (Ended(x) /\ rank[x].m_SubStreamIndex = h) <=> (Ended(x)' /\ rank'[x].m_SubStreamIndex = h)
                              /\ Ended(x) /\ rank[x].m_SubStreamIndex = h => rank'[x].m_StartDataPos = rank[x].m_StartDataPos
            BY <1>1, <1>4, <2>1 DEF Ended
        <3>3. /\ rank[t].main = "done" <=> rank'[t].main = "done"
              /\ rank[t].main = "done" => rank'[t].m_DataPos = rank[t].m_DataPos
            BY <1>1
        <3>4. QED
            BY <1>1, <3>1, <3>2, <3>3, EndOfKept
    <2>2. QED
        BY <1>1, <2>1, EndsStay
<1>10. f \in Subfile /\ size' = size /\ rank'[r].m_SubStreamIndex = f /\ Begun(r)'
    BY <1>1, <1>2, <1>4, GroupsAreSubfiles, CallKept DEF Begun
<1>11. QED
    BY <1>1, <1>7, <1>8, <1>9, <1>10, EndsRegion

LEMMA JoinStutters ==
    ASSUME TypeInv, QueueInv, WriteInv, TypeInv', QueueInv', WriteInv', NEW r \in Rank, Join(r)
    PROVE  UNCHANGED Subfiles!vars
<1>1. /\ \A x \in Rank \ {r} : rank'[x] = rank[x]
      /\ rank[r].main = "join" /\ ~rank[r].looping /\ rerouting /\ UNCHANGED callVars /\ sc' = sc
      /\ rank'[r].main = "done" /\ rank'[r].m_SubStreamIndex = rank[r].m_SubStreamIndex
      /\ rank'[r].m_StartDataPos = rank[r].m_StartDataPos
      /\ rank'[r].m_ReadyToWrite = rank[r].m_ReadyToWrite
      /\ rank'[r].m_TargetCoordinator = rank[r].m_TargetCoordinator
    BY MainFields
<1>2. LoopsInv /\ PlanInv /\ NoRank \notin Rank /\ EndsOk /\ EndsOk'
    BY EndsAreOk, NextEndsAreOk, PlanInvCoords DEF TypeInv, QueueInv
<1>3. rerouting' /\ Groups' = Groups /\ size' = size /\ \A g : SubCoord(g)' = SubCoord(g)
    BY <1>1, CallKept
<1>4. ASSUME NEW h \in Groups PROVE EndOf(h)' = EndOf(h)
    <2>1. PICK t \in Rank : t = SubCoord(h)
        BY <1>2, PlanInvCoords
    <2>2. CASE t = r
        <3>1. sc[t].writingRank = NoRank
            <4>1. FileOk(h)
                BY <1>1 DEF WriteInv
            <4>2. QED
                BY <1>1, <2>1, <2>2, <4>1 DEF FileOk
        <3>2. \A x \in Rank : rank[x].m_TargetCoordinator = t => ~Works(x)
            BY <1>2, <3>1 DEF Works
        <3>3. \A x \in Rank : rank'[x].m_TargetCoordinator = t => ~Works(x)'
            BY <1>1, <1>2, <3>1 DEF Works
        <3>4. EndOf(h) = sc[t].currentFilePos
            BY <1>1, <1>2, <2>1, <3>2 DEF EndsOk
        <3>5. EndOf(h)' = sc'[t].currentFilePos
            BY <1>2, <1>3, <2>1, <3>3 DEF EndsOk
        <3>6. QED
            BY <1>1, <3>4, <3>5
    <2>3. CASE t # r
        <3>1. \A x \in Rank : /\ (Ended(x) /\ rank[x].m_SubStreamIndex = h) <=> (Ended(x)' /\ rank'[x].m_SubStreamIndex = h)
                              /\ Ended(x) /\ rank[x].m_SubStreamIndex = h => rank'[x].m_StartDataPos = rank[x].m_StartDataPos
            BY <1>1 DEF Ended
        <3>2. rank'[t] = rank[t]
            BY <1>1, <2>3
        <3>3. QED
            BY <1>1, <2>1, <3>1, <3>2, EndOfKept
    <2>4. QED
        BY <2>2, <2>3
<1>5. \A h \in Subfile : EndOf(h)' = EndOf(h)
    BY <1>1, <1>4, EndsStay
<1>6. QED
    BY <1>1, <1>3, <1>5, StuttersRegions

LEMMA ChainWriteVBegins ==
    ASSUME TypeInv, ChainInv, NEW r \in Rank, ChainWriteV(r)
    PROVE  Subfiles!Next
<1>1. ~rerouting /\ UNCHANGED callVars /\ PlanInv
    BY DEF ChainWriteV, OwnStep, TypeInv
<1>2. PICK f \in Groups : \E i \in 1..Len(Partition(f)) : r = Partition(f)[i]
    BY <1>1, LinkExists
<1>3. PICK i \in 1..Len(Partition(f)) : r = Partition(f)[i]
    BY <1>2
<1>4. PICK k \in 1..(Len(Partition(f)) + 1) : ChainAt(f, k)
    BY <1>1 DEF ChainInv
<1>5. /\ i = k /\ rank'[r].m_StartDataPos = Behind(ChainReached(f, k))
      /\ \A x \in Rank \ {r} : rank'[x] = rank[x]
      /\ rank'[r].main = "write" /\ rank'[r].m_SubStreamIndex = f /\ rank[r].main = "wait"
    BY <1>3, <1>4, ChainWriteVChain
<1>6. EndOf(f) = ChainReached(f, k) /\ ChainReached(f, k) \in Nat
    BY <1>1, <1>4, ChainEndsAreOk, ChainReachedNat DEF ChainEndsOk
<1>7. WritersOf(f) = {}
    <2>1. ASSUME NEW x \in Rank, rank[x].main = "write", rank[x].m_SubStreamIndex = f PROVE FALSE
        <3>1. PICK j \in 1..Len(Partition(f)) : x = Partition(f)[j]
            BY <1>1, <2>1, ChainRankIn
        <3>2. j = k
            BY <1>4, <2>1, <3>1, HasToken
        <3>3. QED
            BY <1>3, <1>5, <2>1, <3>1, <3>2
    <2>2. QED
        BY <2>1 DEF WritersOf
<1>8. ~Begun(r) /\ ~Ended(r) /\ f \in Subfile /\ size' = size /\ size[r] \in Nat
    BY <1>1, <1>5, GroupsAreSubfiles, CallKept, RegionEndNat DEF Begun, Ended
<1>9. rank'[r].m_StartDataPos \in Nat /\ EndOf(f) <= rank'[r].m_StartDataPos
    BY <1>5, <1>6, BehindNat
<1>10. \A h \in Subfile : EndOf(h)' = EndOf(h)
    <2>1. \A x \in Rank : Ended(x)' <=> Ended(x)
        BY <1>5 DEF Ended
    <2>2. ASSUME NEW h \in Groups PROVE EndOf(h)' = EndOf(h)
        <3>1. PICK t \in Rank : t = SubCoord(h)
            BY <1>1, PlanInvCoords
        <3>2. \A x \in Rank : /\ (Ended(x) /\ rank[x].m_SubStreamIndex = h) <=> (Ended(x)' /\ rank'[x].m_SubStreamIndex = h)
                              /\ Ended(x) /\ rank[x].m_SubStreamIndex = h => rank'[x].m_StartDataPos = rank[x].m_StartDataPos
            BY <1>5, <1>8, <2>1
        <3>3. /\ rank[t].main = "done" <=> rank'[t].main = "done"
              /\ rank[t].main = "done" => rank'[t].m_DataPos = rank[t].m_DataPos
            BY <1>5
        <3>4. QED
            BY <1>1, <3>1, <3>2, <3>3, EndOfKept
    <2>3. QED
        BY <1>1, <2>2, EndsStay
<1>11. QED
    BY <1>5, <1>7, <1>8, <1>9, <1>10, BeginsRegion

(* The first rank of another group is another. *)
LEMMA OtherHead ==
    ASSUME PlanInv, NEW f \in Groups, NEW h \in Groups, h # f, NEW i \in 1..Len(Partition(f))
    PROVE  SubCoord(h) # Partition(f)[i]
<1>1. \A a, b \in Groups : \A m \in 1..Len(Partition(a)), n \in 1..Len(Partition(b)) :
          Partition(a)[m] = Partition(b)[n] => a = b /\ m = n
    BY PlanInvGroups
<1>2. SubCoord(h) = Partition(h)[1] /\ 1 \in 1..Len(Partition(h))
    BY HeadIsFirst
<1>3. QED
    BY <1>1, <1>2

LEMMA ChainPassEnds ==
    ASSUME TypeInv, ChainInv, TypeInv', ChainInv', NEW r \in Rank, ChainPass(r)
    PROVE  Subfiles!Next
<1>1. ~rerouting /\ UNCHANGED callVars /\ PlanInv
    BY DEF ChainPass, OwnStep, TypeInv
<1>2. PICK f \in Groups : \E i \in 1..Len(Partition(f)) : r = Partition(f)[i]
    BY <1>1, LinkExists
<1>3. PICK i \in 1..Len(Partition(f)) : r = Partition(f)[i]
    BY <1>2
<1>4. PICK k \in 1..(Len(Partition(f)) + 1) : ChainAt(f, k)
    BY <1>1 DEF ChainInv
<1>5. /\ i = k /\ k + 1 \in 1..(Len(Partition(f)) + 1) /\ ChainAt(f, k + 1)'
      /\ \A x \in Rank \ {r} : rank'[x] = rank[x]
      /\ rank[r].main = "write" /\ rank'[r].main \in {"join", "done"} /\ rank'[r].m_SubStreamIndex = f
      /\ rank[r].m_SubStreamIndex = f /\ rank'[r].m_StartDataPos = rank[r].m_StartDataPos
    BY <1>3, <1>4, ChainPassChain
<1>6. /\ rerouting' = rerouting /\ Groups' = Groups /\ Partition(f)' = Partition(f) /\ size' = size
    BY <1>1, CallKept
<1>7. EndOf(f)' = RegionEnd(r)
    <2>1. PICK l : l = k + 1
        OBVIOUS
    <2>2. l \in 1..(Len(Partition(f)) + 1) /\ ChainAt(f, l)' /\ l # 1 /\ l - 1 = i
        BY <1>5, <2>1
    <2>3. ChainEndsOk'
        BY NextChainEndsAreOk
    <2>4. EndOf(f)' = ChainReached(f, l)'
        BY <1>1, <1>6, <2>2, <2>3 DEF ChainEndsOk
    <2>5. ChainReached(f, l)' = RegionEnd(r)'
        BY <1>3, <1>6, <2>2 DEF ChainReached
    <2>6. RegionEnd(r)' = RegionEnd(r)
        BY <1>5, <1>6 DEF RegionEnd
    <2>7. QED
        BY <2>4, <2>5, <2>6
<1>8. WritersOf(f) = {r}
    <2>1. ASSUME NEW x \in Rank, rank[x].main = "write", rank[x].m_SubStreamIndex = f PROVE x = r
        <3>1. PICK j \in 1..Len(Partition(f)) : x = Partition(f)[j]
            BY <1>1, <2>1, ChainRankIn
        <3>2. j = k
            BY <1>4, <2>1, <3>1, HasToken
        <3>3. QED
            BY <1>3, <1>5, <3>1, <3>2
    <2>2. QED
        BY <1>5, <2>1 DEF WritersOf
<1>9. \A h \in Subfile \ {f} : EndOf(h)' = EndOf(h)
    <2>1. ASSUME NEW h \in Groups, h # f PROVE EndOf(h)' = EndOf(h)
        <3>1. PICK t \in Rank : t = SubCoord(h)
            BY <1>1, PlanInvCoords
        <3>2. \A x \in Rank : /\ (Ended(x) /\ rank[x].m_SubStreamIndex = h) <=> (Ended(x)' /\ rank'[x].m_SubStreamIndex = h)
                              /\ Ended(x) /\ rank[x].m_SubStreamIndex = h => rank'[x].m_StartDataPos = rank[x].m_StartDataPos
            BY <1>5, <2>1 DEF Ended
        <3>3. t # r
            BY <1>1, <1>3, <2>1, <3>1, OtherHead
        <3>4. rank'[t] = rank[t]
            BY <1>5, <3>3
        <3>5. QED
            BY <1>1, <3>1, <3>2, <3>4, EndOfKept
    <2>2. QED
        BY <1>1, <2>1, EndsStay
<1>10. f \in Subfile /\ rank'[r].main # "write" /\ Begun(r)'
    BY <1>1, <1>5, GroupsAreSubfiles DEF Begun
<1>11. QED
    BY <1>5, <1>6, <1>7, <1>8, <1>9, <1>10, EndsRegion

LEMMA ChainReturnStutters ==
    ASSUME TypeInv, ChainInv, TypeInv', ChainInv', NEW r \in Rank, ChainReturn(r)
    PROVE  UNCHANGED Subfiles!vars
<1>1. ~rerouting /\ UNCHANGED callVars /\ PlanInv
    BY DEF ChainReturn, OwnStep, TypeInv
<1>2. PICK f \in Groups : \E i \in 1..Len(Partition(f)) : r = Partition(f)[i]
    BY <1>1, LinkExists
<1>3. PICK i \in 1..Len(Partition(f)) : r = Partition(f)[i]
    BY <1>2
<1>4. PICK k \in 1..(Len(Partition(f)) + 1) : ChainAt(f, k)
    BY <1>1 DEF ChainInv
<1>5. /\ ChainAt(f, k)' /\ \A x \in Rank \ {r} : rank'[x] = rank[x]
      /\ rank[r].main = "join" /\ rank'[r].main = "done" /\ rank'[r].m_SubStreamIndex = rank[r].m_SubStreamIndex
      /\ rank'[r].m_StartDataPos = rank[r].m_StartDataPos
    BY <1>3, <1>4, ChainReturnChain
<1>6. /\ rerouting' = rerouting /\ Groups' = Groups /\ Partition(f)' = Partition(f) /\ size' = size /\ start' = start
    BY <1>1, CallKept
<1>7. \A x \in Rank : RegionEnd(x)' = RegionEnd(x)
    BY <1>5, <1>6 DEF RegionEnd
<1>8. EndOf(f)' = EndOf(f)
    <2>1. ChainEndsOk /\ ChainEndsOk'
        BY ChainEndsAreOk, NextChainEndsAreOk
    <2>2. EndOf(f) = ChainReached(f, k) /\ EndOf(f)' = ChainReached(f, k)'
        BY <1>1, <1>4, <1>5, <1>6, <2>1 DEF ChainEndsOk
    <2>3. ChainReached(f, k)' = ChainReached(f, k)
        <3>1. CASE k = 1
            BY <1>6, <3>1 DEF ChainReached
        <3>2. CASE k # 1
            <4>1. k - 1 \in 1..Len(Partition(f))
                BY <1>1, <3>2, HeadIsFirst
            <4>2. PICK x \in Rank : x = Partition(f)[k - 1]
                BY <1>1, <4>1, HeadIsFirst
            <4>3. ChainReached(f, k)' = RegionEnd(x)' /\ ChainReached(f, k) = RegionEnd(x)
                BY <1>6, <3>2, <4>2 DEF ChainReached
            <4>4. QED
                BY <1>7, <4>3
        <3>3. QED
            BY <3>1, <3>2
    <2>4. QED
        BY <2>2, <2>3
<1>9. ASSUME NEW h \in Groups PROVE EndOf(h)' = EndOf(h)
    <2>1. CASE h = f
        BY <1>8, <2>1
    <2>2. CASE h # f
        <3>1. PICK t \in Rank : t = SubCoord(h)
            BY <1>1, PlanInvCoords
        <3>2. \A x \in Rank : /\ (Ended(x) /\ rank[x].m_SubStreamIndex = h) <=> (Ended(x)' /\ rank'[x].m_SubStreamIndex = h)
                              /\ Ended(x) /\ rank[x].m_SubStreamIndex = h => rank'[x].m_StartDataPos = rank[x].m_StartDataPos
            BY <1>5 DEF Ended
        <3>3. t # r
            BY <1>1, <1>3, <2>2, <3>1, OtherHead
        <3>4. rank'[t] = rank[t]
            BY <1>5, <3>3
        <3>5. QED
            BY <1>1, <3>1, <3>2, <3>4, EndOfKept
    <2>3. QED
        BY <2>1, <2>2
<1>10. \A h \in Subfile : EndOf(h)' = EndOf(h)
    BY <1>1, <1>9, EndsStay
<1>11. QED
    BY <1>5, <1>6, <1>10, StuttersRegions

(* Nobody has written: the subfile ends where the call began. *)
AllWait == \A x \in Rank : rank[x].main = "wait"
StartsOk == AllWait => \A g \in Groups : EndOf(g) = start[g]

LEMMA StartsAreOk == TypeInv => StartsOk
<1> SUFFICES ASSUME TypeInv, AllWait, NEW g \in Groups PROVE EndOf(g) = start[g]
    BY DEF StartsOk
<1>1. PICK e \in Nat : e = start[g]
    BY DEF TypeInv, CallTyped
<1>2. SubCoord(g) \in Rank
    BY PlanInvCoords DEF TypeInv
<1>3. (\A x \in Rank : ~Ended(x)) /\ rank[SubCoord(g)].main # "done"
    BY <1>2 DEF AllWait, Ended
<1>4. EndOf(g) = e
    BY <1>1, <1>3, EndOfIs
<1>5. QED
    BY <1>1, <1>4

LEMMA NextStartsAreOk == TypeInv' => StartsOk'
BY StartsAreOk, PTL

LEMMA NextCallSteps ==
    ASSUME TypeInv, TypeInv', NextCall
    PROVE  Subfiles!Next
<1>1. AllDone /\ start' = Reached /\ Groups' = Groups
    BY NextCallIs
<1>2. \A x \in Rank : rank'[x].main = "wait"
    BY NextCallBegins DEF Begins
<1>3. ASSUME NEW h \in Groups PROVE EndOf(h)' = EndOf(h)
    <2>1. PICK t \in Rank : t = SubCoord(h)
        BY PlanInvCoords DEF TypeInv
    <2>2. EndOf(h) = rank[t].m_DataPos
        BY <1>1, <2>1 DEF AllDone, EndOf
    <2>3. EndOf(h)' = start'[h]
        BY <1>1, <1>2, NextStartsAreOk DEF StartsOk, AllWait
    <2>4. start'[h] = rank[t].m_DataPos
        BY <1>1, <2>1 DEF Reached
    <2>5. QED
        BY <2>2, <2>3, <2>4
<1>4. \A h \in Subfile : EndOf(h)' = EndOf(h)
    <2>1. ASSUME NEW h, h \notin Groups PROVE EndOf(h)' = EndOf(h)
        BY <1>1, <2>1 DEF EndOf
    <2>2. QED
        BY <1>3, <2>1
<1>5. QED
    BY <1>1, <1>2, <1>4, StepsOn

LEMMA InitAppends == Init => Subfiles!Init
<1> SUFFICES ASSUME Init PROVE Subfiles!Init
    OBVIOUS
<1>1. TypeInv /\ AllWait
    BY InitTypeInv, InitBegins DEF Begins, AllWait
<1>2. \A g \in Groups : EndOf(g) = 0
    <2>1. StartsOk
        BY <1>1, StartsAreOk
    <2>2. \A g \in Groups : start[g] = 0
        BY DEF Init
    <2>3. QED
        BY <1>1, <2>1, <2>2 DEF StartsOk
<1>3. \A h \in Subfile : EndOf(h) = 0
    <2>1. ASSUME NEW h, h \notin Groups PROVE EndOf(h) = 0
        BY <2>1 DEF EndOf
    <2>2. QED
        BY <1>2, <2>1
<1>4. AbsEnd = [f \in Subfile |-> 0] /\ AbsWriting = [f \in Subfile |-> {}] /\ AbsRegions = {}
    BY <1>1, <1>3 DEF AbsEnd, AbsWriting, AbsRegions, AllWait, WritersOf, RegionsOf, Begun
<1>5. QED
    BY <1>4 DEF Subfiles!Init, AbsEnd, AbsWriting, AbsRegions, WritersOf

SimInv == TypeInv /\ QueueInv /\ WriteInv /\ ChainInv

LEMMA InitSimInv == Init => SimInv
BY InitTypeInv, InitQueueInv, InitWriteInv, InitChainInv DEF SimInv

LEMMA NextSimInv == SimInv /\ NoRequestLeft /\ OwnFirst /\ [Next]_vars => SimInv'
BY NextTypeInv, NextQueueInv, NextWriteInv, NextChainInv DEF SimInv

LEMMA NextAppends == SimInv /\ SimInv' /\ [Next]_vars => [Subfiles!Next]_Subfiles!vars
<1> SUFFICES ASSUME SimInv, SimInv', [Next]_vars PROVE Subfiles!Next \/ UNCHANGED Subfiles!vars
    OBVIOUS
<1>1. /\ TypeInv /\ QueueInv /\ WriteInv /\ ChainInv
      /\ TypeInv' /\ QueueInv' /\ WriteInv' /\ ChainInv'
    BY DEF SimInv
<1>2. ASSUME NEW r \in Rank, Comm(r) PROVE UNCHANGED Subfiles!vars
    BY <1>1, <1>2, CommStutters
<1>3. ASSUME NEW r \in Rank, Main(r) PROVE Subfiles!Next \/ UNCHANGED Subfiles!vars
    <2>1. CASE WriteV(r)
        BY <1>1, <2>1, WriteVBegins
    <2>2. CASE FinishWriting(r)
        BY <1>1, <2>2, FinishWritingEnds
    <2>3. CASE Join(r)
        BY <1>1, <2>3, JoinStutters
    <2>4. CASE ChainWriteV(r)
        BY <1>1, <2>4, ChainWriteVBegins
    <2>5. CASE ChainPass(r)
        BY <1>1, <2>5, ChainPassEnds
    <2>6. CASE ChainReturn(r)
        BY <1>1, <2>6, ChainReturnStutters
    <2>7. QED
        BY <1>3, <2>1, <2>2, <2>3, <2>4, <2>5, <2>6 DEF Main
<1>4. CASE NextCall
    BY <1>1, <1>4, NextCallSteps
<1>5. ASSUME UNCHANGED vars PROVE UNCHANGED Subfiles!vars
    <2>1. UNCHANGED callVars /\ rank' = rank
        BY <1>5 DEF vars
    <2>2. size' = size /\ \A h \in Groups : EndOf(h)' = EndOf(h)
        BY <2>1, CallKept, EndOfKept DEF Ended
    <2>3. \A h \in Subfile : EndOf(h)' = EndOf(h)
        BY <2>1, <2>2, EndsStay
    <2>4. QED
        BY <2>1, <2>2, <2>3, StuttersRegions
<1>6. QED
    BY <1>2, <1>3, <1>4, <1>5 DEF Next, Terminated

(* As long as each subcoordinator writes first in its group, and so is not sent to *)
(* another (OwnFirst), and no call leaves a reroute request behind for the next    *)
(* rerouted one (NoRequestLeft): whichever group a rank is sent to, WriteData      *)
(* appends to the subfiles in turn, in a chain as in a rerouted step.              *)
THEOREM WritesAppendInTurn == Spec /\ []NoRequestLeft /\ []OwnFirst => AppendsInTurn
<1>1. QED
    BY InitSimInv, NextSimInv, InitAppends, NextAppends, PTL DEF Spec, AppendsInTurn, Subfiles!Spec

-----------------------------------------------------------------------------
(* Why a subcoordinator writes first in its group: it can only be asked to give  *)
(* a writer away when it has said how many it has, and at the end of the turn in *)
(* which it says that it has told itself to write.                               *)

(* Messages to a rank that come before the subcoordinator they are about *)
(* has told itself to write, or go astray                                 *)
Early(to) ==
    {m \in Message :
        \/ m.type = "STATUS_INQUIRY" /\ to \notin SubCoords
        \/ m.type = "STATUS_REPLY" /\ ~rank[SubCoord(m.index)].m_ReadyToWrite /\ turn # SubCoord(m.index)
        \/ m.type \in {"REROUTE_REQUEST", "REROUTE_ACK"} /\ (m.src \notin SubCoords \/ ~rank[m.src].m_ReadyToWrite)
        \/ m.type = "REROUTE_REQUEST" /\ m.src # to}
EarlyOf == [to \in Rank |-> Early(to)]

(* s has not told itself to write, and is the first to be told *)
IsNext(s) == sc[s].writerQueue # <<>> /\ Head(sc[s].writerQueue) = s /\ sc[s].writingRank = NoRank

OwnInv ==
    rerouting =>
        /\ MsgsNone(EarlyOf)
        /\ \A g \in Groups : gc.groupState[g] = "WRITING" => rank[SubCoord(g)].m_ReadyToWrite
        /\ \A s \in SubCoords : ~rank[s].m_ReadyToWrite => IsNext(s)

LEMMA OwnInvOwnFirst == OwnInv => OwnFirst
BY DEF OwnInv, OwnFirst, IsNext

LEMMA EarlyIs ==
    ASSUME NEW to \in Rank, NEW m \in Message
    PROVE  m \in EarlyOf[to] <=>
              \/ m.type = "STATUS_INQUIRY" /\ to \notin SubCoords
              \/ m.type = "STATUS_REPLY" /\ ~rank[SubCoord(m.index)].m_ReadyToWrite /\ turn # SubCoord(m.index)
              \/ m.type \in {"REROUTE_REQUEST", "REROUTE_ACK"} /\ (m.src \notin SubCoords \/ ~rank[m.src].m_ReadyToWrite)
              \/ m.type = "REROUTE_REQUEST" /\ m.src # to
BY DEF EarlyOf, Early

(* The same after a step within a call *)
LEMMA EarlyThen ==
    ASSUME UNCHANGED callVars, NEW to \in Rank, NEW m
    PROVE  m \in EarlyOf'[to] <=>
           /\ m \in Message
           /\ \/ m.type = "STATUS_INQUIRY" /\ to \notin SubCoords
              \/ m.type = "STATUS_REPLY" /\ ~rank'[SubCoord(m.index)].m_ReadyToWrite /\ turn' # SubCoord(m.index)
              \/ m.type \in {"REROUTE_REQUEST", "REROUTE_ACK"} /\ (m.src \notin SubCoords \/ ~rank'[m.src].m_ReadyToWrite)
              \/ m.type = "REROUTE_REQUEST" /\ m.src # to
<1>1. Message' = Message /\ SubCoords' = SubCoords /\ \A g : SubCoord(g)' = SubCoord(g)
    BY CallKept
<1>2. EarlyOf'[to] = Early(to)'
    BY DEF EarlyOf
<1>3. Early(to)' =
          {x \in Message :
              \/ x.type = "STATUS_INQUIRY" /\ to \notin SubCoords
              \/ x.type = "STATUS_REPLY" /\ ~rank'[SubCoord(x.index)].m_ReadyToWrite /\ turn' # SubCoord(x.index)
              \/ x.type \in {"REROUTE_REQUEST", "REROUTE_ACK"} /\ (x.src \notin SubCoords \/ ~rank'[x.src].m_ReadyToWrite)
              \/ x.type = "REROUTE_REQUEST" /\ x.src # to}
    BY <1>1 DEF Early
<1>4. QED
    BY <1>2, <1>3

(* No step makes early what was not. *)
LEMMA EarlyShrinks ==
    ASSUME UNCHANGED callVars, PlanInv,
           \A s \in Rank : rank[s].m_ReadyToWrite => rank'[s].m_ReadyToWrite,
           \A s \in SubCoords : turn = s => rank'[s].m_ReadyToWrite \/ turn' = s
    PROVE  \A to \in Rank : EarlyOf'[to] \subseteq EarlyOf[to]
<1> SUFFICES ASSUME NEW to \in Rank, NEW m, m \in EarlyOf'[to] PROVE m \in EarlyOf[to]
    OBVIOUS
<1>1. m \in Message
    BY EarlyThen
<1>2. CASE m.type = "STATUS_REPLY" /\ ~rank'[SubCoord(m.index)].m_ReadyToWrite /\ turn' # SubCoord(m.index)
    <2>1. m.index \in Groups
        BY <1>1, <1>2, MessageFields
    <2>2. PICK s \in SubCoords : s = SubCoord(m.index) /\ s \in Rank
        BY <2>1, PlanInvCoords
    <2>3. ~rank[s].m_ReadyToWrite /\ turn # s
        BY <1>2, <2>2
    <2>4. QED
        BY <1>1, <1>2, <2>2, <2>3, EarlyIs
<1>3. CASE m.type \in {"REROUTE_REQUEST", "REROUTE_ACK"} /\ (m.src \notin SubCoords \/ ~rank'[m.src].m_ReadyToWrite)
    <2>1. m.src \in Rank
        BY <1>1, <1>3, MessageFields
    <2>2. QED
        BY <1>1, <1>3, <2>1, EarlyIs
<1>4. CASE \/ m.type = "STATUS_INQUIRY" /\ to \notin SubCoords
           \/ m.type = "REROUTE_REQUEST" /\ m.src # to
    BY <1>1, <1>4, EarlyIs
<1>5. QED
    BY <1>2, <1>3, <1>4, EarlyThen

LEMMA NoneOfFewer ==
    ASSUME NEW S, NEW T, \A to \in Rank : T[to] \subseteq S[to], MsgsNone(S)
    PROVE  MsgsNone(T)
<1>1. ASSUME NEW c \in Rank \X Rank PROVE NotIn(AllMsgs[c], ByReceiver(T)[c])
    <2>1. NotIn(AllMsgs[c], ByReceiver(S)[c])
        BY DEF MsgsNone, AllNot
    <2>2. ByReceiver(T)[c] = T[c[2]] /\ ByReceiver(S)[c] = S[c[2]] /\ c[2] \in Rank
        BY DEF ByReceiver
    <2>3. ByReceiver(T)[c] \subseteq ByReceiver(S)[c]
        BY <2>2
    <2>4. QED
        BY <2>1, <2>3 DEF NotIn
<1>2. QED
    BY <1>1 DEF MsgsNone, AllNot

(* An exchange that sends nothing early *)
LEMMA EarlyKept ==
    ASSUME TypeInv, OwnInv, rerouting, UNCHANGED callVars, NEW r \in Rank, NEW q, NEW out \in [Rank -> Seq(Message)],
           Exchanges(r, q, out), OutNone(out, EarlyOf'),
           \A s \in Rank : rank[s].m_ReadyToWrite => rank'[s].m_ReadyToWrite,
           \A s \in SubCoords : turn = s => rank'[s].m_ReadyToWrite \/ turn' = s
    PROVE  MsgsNone(EarlyOf)'
<1>1. PICK T : T = EarlyOf'
    OBVIOUS
<1>2. \A to \in Rank : T[to] \subseteq EarlyOf[to]
    BY <1>1, EarlyShrinks DEF TypeInv
<1>3. MsgsNone(T)
    BY <1>2, NoneOfFewer DEF OwnInv
<1>4. OutNone(out, T)
    BY <1>1
<1>5. MsgsNone(T)'
    BY <1>3, <1>4, ExchangeCounts
<1>6. QED
    BY <1>1, <1>5, Zenon DEF MsgsNone

(* What is sent and is not about a status or a request is not early. *)
LEMMA NotEarly ==
    ASSUME UNCHANGED callVars, NEW D, NEW m,
           m.type \notin {"STATUS_INQUIRY", "STATUS_REPLY", "REROUTE_REQUEST", "REROUTE_ACK"}
    PROVE  OutNone(To(D, m), EarlyOf') /\ OutNone(Nothing, EarlyOf')
<1>1. PICK T : T = EarlyOf'
    OBVIOUS
<1>2. \A to \in Rank : m \notin T[to]
    BY <1>1, EarlyThen
<1>3. OutNone(To(D, m), T) /\ OutNone(Nothing, T)
    BY <1>2, ToNone, NothingNone
<1>4. QED
    BY <1>1, <1>3

-----------------------------------------------------------------------------
(* The handlers *)

LEMMA ReceivedOwn ==
    ASSUME TypeInv, QueueInv, OwnInv, NEW r \in Rank, NEW q \in Rank, NEW type, NEW out \in [Rank -> Seq(Message)],
           Received(r, q, type, out), OutNone(out, EarlyOf'),
           \A s \in Rank : rank[s].m_ReadyToWrite => rank'[s].m_ReadyToWrite,
           \A g \in Groups : gc'.groupState[g] = "WRITING" =>
               gc.groupState[g] = "WRITING" \/ rank[SubCoord(g)].m_ReadyToWrite,
           \A s \in SubCoords : ~rank[s].m_ReadyToWrite /\ IsNext(s) => IsNext(s)'
    PROVE  OwnInv'
<1>1. /\ Exchanges(r, q, out) /\ UNCHANGED callVars /\ rank[r].looping /\ turn = NoRank
    BY ReceivedExchanges DEF Received, Arrives
<1>2. rerouting /\ PlanInv /\ NoRank \notin Rank /\ SubCoords \subseteq Rank /\ \A g \in Groups : SubCoord(g) \in Rank
    BY <1>1, PlanInvCoords DEF QueueInv, LoopsInv, TypeInv
<1>3. MsgsNone(EarlyOf)'
    BY <1>1, <1>2, EarlyKept
<1>4. SubCoords' = SubCoords /\ Groups' = Groups /\ \A g : SubCoord(g)' = SubCoord(g)
    BY <1>1, CallKept
<1>5. \A g \in Groups : gc'.groupState[g] = "WRITING" => rank'[SubCoord(g)].m_ReadyToWrite
    BY <1>2 DEF OwnInv
<1>6. \A s \in SubCoords : ~rank'[s].m_ReadyToWrite => IsNext(s)'
    BY <1>2 DEF OwnInv
<1>7. QED
    BY <1>3, <1>4, <1>5, <1>6 DEF OwnInv

LEMMA NextStays ==
    ASSUME NEW s, sc'[s].writerQueue = sc[s].writerQueue, sc'[s].writingRank = sc[s].writingRank, IsNext(s)
    PROVE  IsNext(s)'
BY DEF IsNext

(* The messages about who writes *)
LEMMA WritersOwn ==
    ASSUME TypeInv, QueueInv, OwnInv, NEW r \in Rank, NEW q \in Rank,
           DoWrite(r, q) \/ WriteCompletion(r, q) \/ WriteMore(r, q)
    PROVE  OwnInv'
<1>0. rank \in [Rank -> ThreadType(Groups)] /\ sc \in [Rank -> CoordinatorType] /\ SubCoords \subseteq Rank
    BY ThreadsBefore, PlanInvCoords DEF TypeInv
<1>1. PICK out \in [Rank -> Seq(Message)] : out = Nothing
    BY NothingType
<1>2. OutNone(out, EarlyOf')
    BY <1>1, NothingNone
<1>3. CASE DoWrite(r, q)
    <2>1. Received(r, q, "DO_WRITE", out) /\ sc' = sc /\ gc' = gc
        BY <1>1, <1>3 DEF DoWrite
    <2>2. \A s \in Rank : rank[s].m_ReadyToWrite => rank'[s].m_ReadyToWrite
        BY <1>3, ReceiveThreads DEF Receive
    <2>3. \A s \in SubCoords : ~rank[s].m_ReadyToWrite /\ IsNext(s) => IsNext(s)'
        BY <2>1, NextStays
    <2>4. QED
        BY <1>2, <2>1, <2>2, <2>3, ReceivedOwn
<1>4. CASE WriteCompletion(r, q)
    <2>1. PICK new : new = WriterDone(sc[r], First(r, q).offset)
        OBVIOUS
    <2>2. Received(r, q, "WRITE_COMPLETION", out) /\ rank' = rank /\ gc' = gc /\ sc' = [sc EXCEPT ![r] = new]
        BY <1>1, <1>4, <2>1 DEF WriteCompletion
    <2>3. new.writerQueue = sc[r].writerQueue /\ new.writingRank = NoRank
        BY <1>0, <2>1 DEF WriterDone, Completed, CoordinatorType
    <2>4. ASSUME NEW s \in SubCoords, IsNext(s) PROVE IsNext(s)'
        <3>1. sc'[s].writerQueue = sc[s].writerQueue /\ (sc'[s].writingRank = sc[s].writingRank \/ sc'[s].writingRank = NoRank)
            BY <1>0, <2>2, <2>3
        <3>2. QED
            BY <2>4, <3>1 DEF IsNext
    <2>5. QED
        BY <1>2, <2>2, <2>4, ReceivedOwn
<1>5. CASE WriteMore(r, q)
    <2>1. PICK w : w = First(r, q).rank
        OBVIOUS
    <2>2. /\ Received(r, q, "WRITE_MORE", out) /\ rank' = rank /\ gc' = gc
          /\ sc' = [sc EXCEPT ![r].writerQueue = Append(sc[r].writerQueue, w), ![r].sentIdle = FALSE,
                              ![r].writeMoreCount = sc[r].writeMoreCount + 1]
        BY <1>1, <1>5, <2>1 DEF WriteMore
    <2>3. w \in Rank
        BY <2>1, <2>2, ReceivedExchanges, MessageFields
    <2>4. ASSUME NEW s \in SubCoords, IsNext(s) PROVE IsNext(s)'
        <3>1. CASE s = r
            <4>1. PICK queue \in Seq(Rank) : queue = sc[r].writerQueue
                BY <1>0 DEF CoordinatorType
            <4>2. sc'[r].writerQueue = Append(queue, w) /\ sc'[r].writingRank = sc[r].writingRank
                BY <1>0, <2>2, <4>1 DEF CoordinatorType
            <4>3. queue # <<>> /\ Head(queue) = s
                BY <2>4, <3>1, <4>1 DEF IsNext
            <4>4. Append(queue, w) # <<>> /\ Head(Append(queue, w)) = s
                <5>1. PICK longer : longer = Append(queue, w)
                    OBVIOUS
                <5>2. PICK n \in Nat : n = Len(queue) /\ n > 0 /\ queue[1] = s
                    BY <4>3
                <5>3. longer \in Seq(Rank) /\ Len(longer) = n + 1 /\ longer[1] = queue[1]
                    BY <2>3, <5>1, <5>2, AppendProperties
                <5>4. longer # <<>> /\ Head(longer) = longer[1]
                    BY <5>2, <5>3
                <5>5. QED
                    BY <5>1, <5>2, <5>3, <5>4
            <4>5. QED
                BY <2>4, <3>1, <4>2, <4>4 DEF IsNext
        <3>2. CASE s # r
            <4>1. sc'[s] = sc[s]
                BY <1>0, <2>2, <3>2
            <4>2. QED
                BY <2>4, <4>1 DEF IsNext
        <3>3. QED
            BY <3>1, <3>2
    <2>5. QED
        BY <1>2, <2>2, <2>4, ReceivedOwn
<1>6. QED
    BY <1>3, <1>4, <1>5

(* The group that a subcoordinator leads *)
LEMMA LedGroup ==
    ASSUME PlanInv, NEW s \in SubCoords
    PROVE  GroupOf(s) \in Groups /\ scRankToIndex(s) = GroupOf(s) /\ SubCoord(GroupOf(s)) = s
<1>1. PICK g \in Groups : s = SubCoord(g)
    BY DEF SubCoords
<1>2. GroupOf(s) = g
    BY <1>1, FirstOfGroup DEF GroupOf, Partition, Groups
<1>3. QED
    BY <1>1, <1>2 DEF scRankToIndex

(* Closing and the coordinator's count *)
LEMMA ClosesOwn ==
    ASSUME TypeInv, QueueInv, OwnInv, NEW r \in Rank, NEW q \in Rank,
           GroupClose(r, q) \/ GroupCloseAck(r, q) \/ WriterIdle(r, q) \/ WriterCapacity(r, q)
    PROVE  OwnInv'
<1>0. rank \in [Rank -> ThreadType(Groups)] /\ gc \in GlobalType(Groups, SubCoords) /\ PlanInv /\ SubCoords \subseteq Rank
    BY ThreadsBefore, PlanInvCoords DEF TypeInv
<1>1. PICK none \in [Rank -> Seq(Message)] : none = Nothing
    BY NothingType
<1>2. OutNone(none, EarlyOf')
    BY <1>1, NothingNone
<1>3. CASE GroupClose(r, q)
    <2>1. PICK m : m = [type |-> "GROUP_CLOSE_ACK", index |-> rank[r].m_SubStreamIndex]
        OBVIOUS
    <2>2. Received(r, q, "GROUP_CLOSE", To({GlobalCoord}, m)) /\ sc' = sc /\ gc' = gc
          /\ rank' = [rank EXCEPT ![r].receivedGroupClose = TRUE]
        BY <1>3, <2>1 DEF GroupClose
    <2>3. m \in Message
        BY <1>0, <2>1 DEF Message, ThreadType
    <2>4. PICK out \in [Rank -> Seq(Message)] : out = To({GlobalCoord}, m)
        BY <2>3, ToType
    <2>5. UNCHANGED callVars
        BY <2>2 DEF Received
    <2>6. OutNone(out, EarlyOf')
        BY <2>1, <2>4, <2>5, NotEarly
    <2>7. \A s \in Rank : rank'[s].m_ReadyToWrite = rank[s].m_ReadyToWrite
        BY <1>0, <2>2 DEF ThreadType
    <2>8. \A s \in SubCoords : IsNext(s) => IsNext(s)'
        BY <2>2, NextStays
    <2>9. Received(r, q, "GROUP_CLOSE", out)
        BY <2>2, <2>4
    <2>10. QED
        BY <2>2, <2>6, <2>7, <2>8, <2>9, ReceivedOwn
<1>4. ASSUME GroupCloseAck(r, q) \/ WriterIdle(r, q) \/ WriterCapacity(r, q)
      PROVE  OwnInv'
    <2>1. PICK i : i = First(r, q).index
        OBVIOUS
    <2>2. PICK status \in {"CLOSED", "IDLE", "CAPACITY"} :
              \A g \in Groups : gc'.groupState[g] = IF g = i THEN status ELSE gc.groupState[g]
        <3>1. CASE GroupCloseAck(r, q)
            BY <1>0, <2>1, <3>1 DEF GroupCloseAck, GlobalType
        <3>2. CASE WriterIdle(r, q)
            BY <1>0, <2>1, <3>2 DEF WriterIdle, GlobalType
        <3>3. CASE WriterCapacity(r, q)
            BY <1>0, <2>1, <3>3 DEF WriterCapacity, GlobalType
        <3>4. QED
            BY <1>4, <3>1, <3>2, <3>3
    <2>3. PICK m : m = [type |-> "STATUS_INQUIRY"]
        OBVIOUS
    <2>4. m \in Message
        BY <2>3 DEF Message
    <2>5. PICK asks \in [Rank -> Seq(Message)] : asks = Inquiries(q)
        BY <2>3, <2>4, ToType DEF Inquiries
    <2>6. PICK type, out : out \in {none, asks} /\ Received(r, q, type, out) /\ rank' = rank /\ sc' = sc
        BY <1>1, <1>4, <2>5 DEF GroupCloseAck, WriterIdle, WriterCapacity, CoordinatorReceived
    <2>7. UNCHANGED callVars
        BY <2>6 DEF Received
    <2>8. OutNone(asks, EarlyOf')
        <3>1. PICK T : T = EarlyOf'
            OBVIOUS
        <3>2. ASSUME NEW to \in Rank, to \in SubCoords PROVE m \notin T[to]
            <4>1. m.type = "STATUS_INQUIRY"
                BY <2>3
            <4>2. QED
                BY <2>7, <3>1, <3>2, <4>1, EarlyThen
        <3>3. OutNone(To(SubCoords \ {q}, m), T)
            BY <3>2, ToNone
        <3>4. QED
            BY <2>3, <2>5, <3>1, <3>3 DEF Inquiries
    <2>9. OutNone(out, EarlyOf') /\ out \in [Rank -> Seq(Message)]
        BY <1>2, <2>6, <2>8
    <2>10. \A s \in SubCoords : IsNext(s) => IsNext(s)'
        BY <2>6, NextStays
    <2>11. \A g \in Groups : gc'.groupState[g] = "WRITING" => gc.groupState[g] = "WRITING"
        BY <2>2
    <2>12. QED
        BY <2>6, <2>9, <2>10, <2>11, ReceivedOwn
<1>5. QED
    BY <1>3, <1>4

(* The answers about the status of a group *)
LEMMA StatusOwn ==
    ASSUME TypeInv, QueueInv, WriteInv, OwnInv, NEW r \in Rank, NEW q \in Rank,
           StatusInquiry(r, q) \/ StatusReply(r, q)
    PROVE  OwnInv'
<1>0. /\ rank \in [Rank -> ThreadType(Groups)] /\ sc \in [Rank -> CoordinatorType] /\ gc \in GlobalType(Groups, SubCoords)
      /\ PlanInv /\ SubCoords \subseteq Rank /\ NoRank \notin Rank /\ \A g \in Groups : SubCoord(g) \in Rank
    BY ThreadsBefore, PlanInvCoords DEF TypeInv
<1>1. PICK in : in = First(r, q)
    OBVIOUS
<1>2. PICK type, sent : Received(r, q, type, sent) /\ rank' = rank /\ sc' = sc
    BY DEF StatusInquiry, StatusReply, CoordinatorReceived
<1>3. /\ in \in Message /\ in.type = type /\ channel[<<q, r>>] # <<>> /\ rank[r].looping /\ UNCHANGED callVars
      /\ turn = NoRank /\ turn' = r
    BY <1>1, <1>2, FirstType DEF Received, Arrives
<1>4. rerouting
    BY <1>3 DEF QueueInv, LoopsInv
<1>5. in \notin EarlyOf[r]
    <2>1. MsgsNone(EarlyOf)
        BY <1>4 DEF OwnInv
    <2>2. PICK T : T = EarlyOf
        OBVIOUS
    <2>3. First(r, q) \notin T[r]
        BY <1>3, <2>1, <2>2, FirstNot
    <2>4. QED
        BY <1>1, <2>2, <2>3
<1>6. \A s \in SubCoords : IsNext(s) => IsNext(s)'
    BY <1>2, NextStays
<1>7. CASE StatusInquiry(r, q)
    <2>1. PICK m : m = [type |-> "STATUS_REPLY", index |-> rank[r].m_SubStreamIndex, size |-> Len(sc[r].writerQueue)]
        OBVIOUS
    <2>2. Received(r, q, "STATUS_INQUIRY", To({GlobalCoord}, m)) /\ gc' = gc
        BY <1>7, <2>1 DEF StatusInquiry
    <2>3. m \in Message
        <3>1. Len(sc[r].writerQueue) \in Nat
            BY <1>0, LenProperties DEF CoordinatorType
        <3>2. rank[r].m_SubStreamIndex \in Groups
            BY <1>0 DEF ThreadType
        <3>3. QED
            BY <2>1, <3>1, <3>2 DEF Message
    <2>4. PICK out \in [Rank -> Seq(Message)] : out = To({GlobalCoord}, m)
        BY <2>3, ToType
    <2>5. r \in SubCoords
        <3>1. in.type = "STATUS_INQUIRY"
            BY <1>1, <2>2 DEF Received
        <3>2. QED
            BY <1>3, <1>5, <3>1, EarlyIs
    <2>6. SubCoord(m.index) = r
        <3>1. SubCoord(rank[r].m_SubStreamIndex) = r
            BY <1>4, <2>5 DEF WriteInv, ThreadOk
        <3>2. QED
            BY <2>1, <3>1
    <2>7. OutNone(out, EarlyOf')
        <3>1. PICK T : T = EarlyOf'
            OBVIOUS
        <3>2. m.type = "STATUS_REPLY"
            BY <2>1
        <3>3. \A to \in Rank : m \notin T[to]
            BY <1>3, <2>6, <3>1, <3>2, EarlyThen
        <3>4. OutNone(To({GlobalCoord}, m), T)
            BY <3>3, ToNone
        <3>5. QED
            BY <2>4, <3>1, <3>4
    <2>8. Received(r, q, "STATUS_INQUIRY", out)
        BY <2>2, <2>4
    <2>9. QED
        BY <1>2, <1>6, <2>2, <2>7, <2>8, ReceivedOwn
<1>8. CASE StatusReply(r, q)
    <2>1. PICK out \in [Rank -> Seq(Message)] : out = Nothing
        BY NothingType
    <2>2. Received(r, q, "STATUS_REPLY", out)
        BY <1>8, <2>1 DEF StatusReply, CoordinatorReceived
    <2>3. in.type = "STATUS_REPLY"
        BY <1>1, <2>2 DEF Received
    <2>4. in.index \in Groups /\ rank[SubCoord(in.index)].m_ReadyToWrite
        <3>1. in.index \in Groups
            BY <1>3, <2>3, MessageFields
        <3>2. turn # SubCoord(in.index)
            BY <1>0, <1>3, <3>1
        <3>3. QED
            BY <1>3, <1>5, <2>3, <3>1, <3>2, EarlyIs
    <2>5. \A g \in Groups : g # in.index => gc'.groupState[g] = gc.groupState[g]
        BY <1>0, <1>1, <1>8 DEF StatusReply, GlobalType
    <2>6. \A g \in Groups : gc'.groupState[g] = "WRITING" => gc.groupState[g] = "WRITING" \/ rank[SubCoord(g)].m_ReadyToWrite
        BY <2>4, <2>5
    <2>7. OutNone(out, EarlyOf')
        BY <2>1, NothingNone
    <2>8. QED
        BY <1>2, <1>6, <2>2, <2>6, <2>7, ReceivedOwn
<1>9. QED
    BY <1>7, <1>8

(* The messages of a reroute *)
LEMMA ReroutesOwn ==
    ASSUME TypeInv, QueueInv, OwnInv, NEW r \in Rank, NEW q \in Rank,
           RerouteRequest(r, q) \/ RerouteReject(r, q) \/ RerouteAck(r, q)
    PROVE  OwnInv'
<1>0. /\ rank \in [Rank -> ThreadType(Groups)] /\ sc \in [Rank -> CoordinatorType] /\ gc \in GlobalType(Groups, SubCoords)
      /\ PlanInv /\ SubCoords \subseteq Rank
    BY ThreadsBefore, PlanInvCoords DEF TypeInv
<1>1. PICK m : m = First(r, q)
    OBVIOUS
<1>2. PICK type, sent : Received(r, q, type, sent) /\ rank' = rank /\ type \in {"REROUTE_REQUEST", "REROUTE_REJECT", "REROUTE_ACK"}
    BY DEF RerouteRequest, RerouteReject, RerouteAck, CoordinatorReceived
<1>3. m \in Message /\ m.type = type /\ channel[<<q, r>>] # <<>> /\ rank[r].looping /\ UNCHANGED callVars
    BY <1>1, <1>2, FirstType DEF Received, Arrives
<1>4. rerouting
    BY <1>3 DEF QueueInv, LoopsInv
<1>5. m \notin EarlyOf[r]
    <2>1. MsgsNone(EarlyOf)
        BY <1>4 DEF OwnInv
    <2>2. PICK T : T = EarlyOf
        OBVIOUS
    <2>3. First(r, q) \notin T[r]
        BY <1>3, <2>1, <2>2, FirstNot
    <2>4. QED
        BY <1>1, <2>2, <2>3
<1>6. m.type \in {"REROUTE_REQUEST", "REROUTE_ACK"} => m.src \in SubCoords /\ rank[m.src].m_ReadyToWrite
    BY <1>3, <1>5, EarlyIs
<1>7. m.src \in Rank /\ m.dest \in Rank
    BY <1>2, <1>3, MessageFields
<1>8. CASE RerouteRequest(r, q)
    <2>1. PICK answer : answer = IF sc[r].writerQueue = <<>> THEN [m EXCEPT !.type = "REROUTE_REJECT"]
                                 ELSE [m EXCEPT !.type = "REROUTE_ACK", !.rank = Head(sc[r].writerQueue)]
        OBVIOUS
    <2>2. /\ Received(r, q, "REROUTE_REQUEST", To({GlobalCoord}, answer)) /\ gc' = gc
          /\ sc' = [sc EXCEPT ![r].writerQueue = TakeRerouted(r)]
        BY <1>1, <1>8, <2>1, Zenon DEF RerouteRequest
    <2>3. m.type = "REROUTE_REQUEST"
        BY <1>1, <2>2 DEF Received
    <2>4. m.src = r
        BY <1>3, <1>5, <2>3, EarlyIs
    <2>5. answer \in Message /\ answer.type \in {"REROUTE_REJECT", "REROUTE_ACK"} /\ answer.src = m.src
        <3>1. sc[r].writerQueue # <<>> => Head(sc[r].writerQueue) \in Rank
            BY <1>0, HeadTailProperties DEF CoordinatorType
        <3>2. answer \in Message
            BY <1>3, <2>1, <2>3, <3>1, AnswerTypes
        <3>3. \A w \in Rank : /\ [m EXCEPT !.type = "REROUTE_REJECT"].type = "REROUTE_REJECT"
                              /\ [m EXCEPT !.type = "REROUTE_REJECT"].src = m.src
                              /\ [m EXCEPT !.type = "REROUTE_ACK", !.rank = w].type = "REROUTE_ACK"
                              /\ [m EXCEPT !.type = "REROUTE_ACK", !.rank = w].src = m.src
            BY <1>3, <2>3 DEF Message
        <3>4. QED
            BY <2>1, <3>1, <3>2, <3>3
    <2>6. PICK out \in [Rank -> Seq(Message)] : out = To({GlobalCoord}, answer)
        BY <2>5, ToType
    <2>7. OutNone(out, EarlyOf')
        <3>1. PICK T : T = EarlyOf'
            OBVIOUS
        <3>2. answer.src \in SubCoords /\ rank'[answer.src].m_ReadyToWrite
            BY <1>2, <1>6, <2>3, <2>5
        <3>3. \A to \in Rank : answer \notin T[to]
            BY <1>3, <2>5, <3>1, <3>2, EarlyThen
        <3>4. OutNone(To({GlobalCoord}, answer), T)
            BY <3>3, ToNone
        <3>5. QED
            BY <2>6, <3>1, <3>4
    <2>8. ASSUME NEW s \in SubCoords, ~rank[s].m_ReadyToWrite, IsNext(s) PROVE IsNext(s)'
        <3>1. s # r
            BY <1>6, <2>3, <2>4, <2>8
        <3>2. sc'[s] = sc[s]
            BY <1>0, <2>2, <3>1
        <3>3. QED
            BY <2>8, <3>2, NextStays
    <2>9. Received(r, q, "REROUTE_REQUEST", out)
        BY <2>2, <2>6
    <2>10. QED
        BY <1>2, <2>2, <2>7, <2>8, <2>9, ReceivedOwn
<1>9. ASSUME RerouteReject(r, q) \/ RerouteAck(r, q)
      PROVE  OwnInv'
    <2>1. PICK src \in Groups, dest \in Groups : src = scRankToIndex(m.src) /\ dest = scRankToIndex(m.dest)
        BY <1>0, <1>7, PlanInvCoords
    <2>2. sc' = sc
        BY <1>9 DEF RerouteReject, RerouteAck
    <2>3. \A s \in SubCoords : IsNext(s) => IsNext(s)'
        BY <2>2, NextStays
    <2>4. CASE RerouteReject(r, q)
        <3>1. PICK out \in [Rank -> Seq(Message)] : out = Nothing
            BY NothingType
        <3>2. /\ Received(r, q, "REROUTE_REJECT", out)
              /\ gc' = [gc EXCEPT !.groupState[src] = IfPending(src, "REROUTE_REJECTED"),
                                  !.groupState[dest] = IfPending(dest, "IDLE")]
            BY <1>1, <2>1, <2>4, <3>1 DEF RerouteReject, CoordinatorReceived
        <3>3. \A g \in Groups : gc'.groupState[g] = "WRITING" => gc.groupState[g] = "WRITING"
            BY <1>0, <3>2 DEF IfPending, GlobalType
        <3>4. OutNone(out, EarlyOf')
            BY <3>1, NothingNone
        <3>5. QED
            BY <1>2, <2>3, <3>2, <3>3, <3>4, ReceivedOwn
    <2>5. CASE RerouteAck(r, q)
        <3>1. PICK more : more = [type |-> "WRITE_MORE", rank |-> m.rank]
            OBVIOUS
        <3>2. /\ Received(r, q, "REROUTE_ACK", To({m.dest}, more))
              /\ gc' = [gc EXCEPT !.groupIdlesNeeded = gc.groupIdlesNeeded \cup {m.dest},
                                  !.groupState[src] = IfPending(src, "WRITING"),
                                  !.groupState[dest] = "WRITING_MORE"]
            BY <1>1, <2>1, <2>5, <3>1 DEF RerouteAck, CoordinatorReceived
        <3>3. m.type = "REROUTE_ACK"
            BY <1>1, <3>2 DEF Received
        <3>4. more \in Message /\ more.type = "WRITE_MORE"
            BY <1>3, <3>1, <3>3, MessageFields DEF Message
        <3>5. PICK out \in [Rank -> Seq(Message)] : out = To({m.dest}, more)
            BY <3>4, ToType
        <3>6. OutNone(out, EarlyOf')
            BY <1>3, <3>4, <3>5, NotEarly
        <3>7. rank[SubCoord(src)].m_ReadyToWrite
            BY <1>0, <1>6, <2>1, <3>3, LedGroup
        <3>8. \A g \in Groups : g # src /\ gc'.groupState[g] = "WRITING" => gc.groupState[g] = "WRITING"
            BY <1>0, <3>2 DEF GlobalType
        <3>9. \A g \in Groups : gc'.groupState[g] = "WRITING" => gc.groupState[g] = "WRITING" \/ rank[SubCoord(g)].m_ReadyToWrite
            BY <3>7, <3>8
        <3>10. Received(r, q, "REROUTE_ACK", out)
            BY <3>2, <3>5
        <3>11. QED
            BY <1>2, <2>3, <3>6, <3>9, <3>10, ReceivedOwn
    <2>6. QED
        BY <1>9, <2>4, <2>5
<1>10. QED
    BY <1>8, <1>9

(* Nothing of it changes. *)
LEMMA OwnStays ==
    ASSUME OwnInv, PlanInv, rerouting => UNCHANGED <<channel, callVars, gc>> /\ sc' = sc /\ (turn' = turn \/ turn = NoRank),
           rerouting' = rerouting,
           \A s \in Rank : rank'[s].m_ReadyToWrite = rank[s].m_ReadyToWrite
    PROVE  OwnInv'
<1> SUFFICES ASSUME rerouting PROVE OwnInv'
    BY DEF OwnInv
<1>0. UNCHANGED callVars /\ SubCoords \subseteq Rank /\ NoRank \notin Rank /\ \A g \in Groups : SubCoord(g) \in Rank
    BY PlanInvCoords
<1>1. SubCoords' = SubCoords /\ Groups' = Groups /\ \A g : SubCoord(g)' = SubCoord(g)
    BY <1>0, CallKept
<1>2. PICK T : T = EarlyOf'
    OBVIOUS
<1>3. \A to \in Rank : T[to] \subseteq EarlyOf[to]
    BY <1>0, <1>2, EarlyShrinks
<1>4. MsgsNone(T)
    BY <1>3, NoneOfFewer DEF OwnInv
<1>5. AllMsgs' = AllMsgs
    BY Zenon DEF AllMsgs, Msgs
<1>6. MsgsNone(EarlyOf)'
    BY <1>2, <1>4, <1>5, Zenon DEF MsgsNone, ByReceiver
<1>7. \A s \in SubCoords : ~rank'[s].m_ReadyToWrite => IsNext(s)'
    BY <1>0, NextStays DEF OwnInv
<1>8. \A g \in Groups : gc'.groupState[g] = "WRITING" => rank'[SubCoord(g)].m_ReadyToWrite
    BY <1>0 DEF OwnInv
<1>9. QED
    BY <1>1, <1>6, <1>7, <1>8 DEF OwnInv

(* The rest of a turn: who has not told itself to write does so. *)
LEMMA WorkOwn ==
    ASSUME TypeInv, QueueInv, OwnInv, NEW r \in Rank, rank[r].looping, turn \in {r, NoRank}, Work(r)
    PROVE  OwnInv'
<1>1. PICK idle \in Groups, writing \in Groups :
          /\ IF Reroutes(r) THEN <<idle, writing>> \in FindNextPair ELSE idle = 1 /\ writing = 1
          /\ channel' = Exchanged(r, NoRank, Output(r, idle, writing))
          /\ Coordinate(r, idle, writing) /\ UNCHANGED callVars
    BY WorkParts
<1>2. PICK out \in [Rank -> Seq(Message)] : out = Output(r, idle, writing)
    BY OutputType
<1>3. /\ channel \in [Rank \X Rank -> Seq(Entry)] /\ NoRank \notin Rank /\ rerouting /\ PlanInv
      /\ SubCoords \subseteq Rank /\ gc \in GlobalType(Groups, SubCoords)
      /\ \A g \in Groups : SubCoord(g) \in Rank /\ SubCoord(g) \in SubCoords
    BY ThreadsBefore, PlanInvCoords DEF TypeInv, QueueInv, LoopsInv
<1>4. Exchanges(r, NoRank, out)
    BY <1>1, <1>2, <1>3 DEF Exchanges
<1>5. /\ \A s \in Rank \ {r} : rank'[s] = rank[s] /\ sc'[s] = sc[s]
      /\ rank[r].m_ReadyToWrite => rank'[r].m_ReadyToWrite
      /\ turn' = NoRank
    BY WorkFields, WorkThreads
<1>6. r \in SubCoords => rank'[r].m_ReadyToWrite
    <2>1. SUFFICES ASSUME r \in SubCoords, ~rank[r].m_ReadyToWrite PROVE rank'[r].m_ReadyToWrite
        BY <1>5
    <2>2. IsNext(r)
        BY <1>3, <2>1 DEF OwnInv
    <2>3. ToldItself(r)
        BY <2>1, <2>2 DEF IsNext, ToldItself, Dispatches, NobodyWrites, NextWriter
    <2>4. QED
        BY <2>3, WorkFields
<1>7. \A s \in Rank : rank[s].m_ReadyToWrite => rank'[s].m_ReadyToWrite
    BY <1>5
<1>8. \A s \in SubCoords : turn = s => rank'[s].m_ReadyToWrite \/ turn' = s
    BY <1>3, <1>6
<1>9. PICK T : T = EarlyOf'
    OBVIOUS
<1>10. OutNone(Completion(r), T)
    <2>1. PICK m : m = [type |-> "WRITE_COMPLETION", offset |-> rank[r].m_DataPos]
        OBVIOUS
    <2>2. m.type = "WRITE_COMPLETION"
        BY <2>1
    <2>3. PICK D : D = IF Notifies(r) THEN {rank[r].m_TargetCoordinator} ELSE {}
        OBVIOUS
    <2>4. Completion(r) = To(D, m)
        BY <2>1, <2>3 DEF Completion
    <2>5. QED
        BY <1>1, <1>9, <2>2, <2>4, NotEarly
<1>11. OutNone(Orders(r), T)
    <2>1. PICK m, n : /\ m = [type |-> "DO_WRITE", index |-> rank[r].m_SubStreamIndex, offset |-> sc[r].currentFilePos]
                      /\ n = [type |-> Reports(r), index |-> rank[r].m_SubStreamIndex]
        OBVIOUS
    <2>2. m.type = "DO_WRITE" /\ n.type \in {"WRITER_CAPACITY", "WRITER_IDLE"}
        BY <2>1 DEF Reports
    <2>3. PICK D, E : D = {NextWriter(r)} \ {r} /\ E = {GlobalCoord}
        OBVIOUS
    <2>4. Orders(r) \in {To(D, m), To(E, n), Nothing}
        BY <2>1, <2>3 DEF Orders
    <2>5. OutNone(To(D, m), T) /\ OutNone(To(E, n), T) /\ OutNone(Nothing, T)
        BY <1>1, <1>9, <2>2, NotEarly
    <2>6. QED
        BY <2>4, <2>5
<1>12. OutNone(Coordination(r, idle, writing), T)
    <2>1. CASE Reroutes(r)
        <3>1. PICK m : m = [type |-> "REROUTE_REQUEST", src |-> SubCoord(writing), dest |-> SubCoord(idle), rank |-> NoRank]
            OBVIOUS
        <3>2. m.type = "REROUTE_REQUEST" /\ m.src = SubCoord(writing)
            BY <3>1
        <3>3. gc.groupState[writing] = "WRITING"
            BY <1>1, <2>1 DEF FindNextPair, InState
        <3>4. rank'[m.src].m_ReadyToWrite /\ m.src \in SubCoords
            BY <1>3, <1>7, <3>2, <3>3 DEF OwnInv
        <3>5. ASSUME NEW to \in Rank, to \in {SubCoord(writing)} PROVE m \notin T[to]
            BY <1>1, <1>9, <3>2, <3>4, <3>5, EarlyThen
        <3>6. OutNone(To({SubCoord(writing)}, m), T)
            BY <3>5, ToNone
        <3>7. QED
            BY <2>1, <3>1, <3>6 DEF Coordination
    <2>2. CASE ~Reroutes(r)
        <3>1. PICK m, D : m = [type |-> "GROUP_CLOSE"] /\ D = SubCoords \ {r}
            OBVIOUS
        <3>2. m.type = "GROUP_CLOSE"
            BY <3>1
        <3>3. Coordination(r, idle, writing) \in {To(D, m), Nothing}
            BY <2>2, <3>1 DEF Coordination
        <3>4. OutNone(To(D, m), T) /\ OutNone(Nothing, T)
            BY <1>1, <1>9, <3>2, NotEarly
        <3>5. QED
            BY <3>3, <3>4
    <2>3. QED
        BY <2>1, <2>2
<1>13. OutNone(out, EarlyOf')
    <2>1. PICK a \in [Rank -> Seq(Message)], b \in [Rank -> Seq(Message)], c \in [Rank -> Seq(Message)] :
              a = Completion(r) /\ b = Orders(r) /\ c = Coordination(r, idle, writing)
        BY CompletionType, OrdersType, CoordinationType
    <2>2. \A to \in Rank : out[to] = a[to] \o b[to] \o c[to]
        BY <1>2, <2>1 DEF Output
    <2>3. OutNone(a, T) /\ OutNone(b, T) /\ OutNone(c, T)
        BY <1>10, <1>11, <1>12, <2>1
    <2>4. OutNone(out, T)
        BY <2>2, <2>3, PartsNone
    <2>5. QED
        BY <1>9, <2>4
<1>14. MsgsNone(EarlyOf)'
    BY <1>1, <1>3, <1>4, <1>7, <1>8, <1>13, EarlyKept
<1>15. SubCoords' = SubCoords /\ Groups' = Groups /\ \A g : SubCoord(g)' = SubCoord(g)
    BY <1>1, CallKept
<1>16. ASSUME NEW g \in Groups, gc'.groupState[g] = "WRITING" PROVE rank'[SubCoord(g)].m_ReadyToWrite
    <2>1. PICK states, needed, waiting :
              /\ states = IF Reroutes(r) THEN [gc.groupState EXCEPT ![idle] = "PENDING", ![writing] = "PENDING"]
                          ELSE gc.groupState
              /\ gc' = IF r # GlobalCoord THEN gc
                       ELSE [gc EXCEPT !.groupState = states, !.closeAcksNeeded = needed, !.waitingForCloseAcks = waiting]
        BY <1>1 DEF Coordinate
    <2>2. gc'.groupState \in {gc.groupState, states}
        BY <1>3, <2>1 DEF GlobalType
    <2>3. states[g] \in {gc.groupState[g], "PENDING"}
        BY <1>3, <2>1 DEF GlobalType
    <2>4. gc.groupState[g] = "WRITING"
        BY <1>16, <2>2, <2>3
    <2>5. QED
        BY <1>3, <1>7, <2>4 DEF OwnInv
<1>17. ASSUME NEW s \in SubCoords, ~rank'[s].m_ReadyToWrite PROVE IsNext(s)'
    <2>1. s # r /\ s \in Rank /\ IsNext(s)
        BY <1>3, <1>6, <1>7, <1>17 DEF OwnInv
    <2>2. QED
        BY <1>5, <2>1, NextStays
<1>18. QED
    BY <1>14, <1>15, <1>16, <1>17 DEF OwnInv

-----------------------------------------------------------------------------
(* The beginning of a call *)

NothingYet ==
    rerouting => /\ \A c \in Rank \X Rank : channel[c] = <<>>
                 /\ \A g \in Groups : gc.groupState[g] = "UNKNOWN"

LEMMA BeginsOwn == PlanInv /\ Begins /\ NothingYet => OwnInv
<1> SUFFICES ASSUME PlanInv, Begins, NothingYet, rerouting PROVE OwnInv
    BY DEF OwnInv
<1>1. ASSUME NEW c \in Rank \X Rank, NEW S PROVE NotIn(Msgs(c), S)
    <2>1. PICK e \in Seq(Entry) : e = <<>>
        BY EmptySeq
    <2>2. channel[c] = e
        BY <2>1 DEF NothingYet
    <2>3. Len(Stripped(e)) = 0
        BY <2>1, StrippedType, EmptySeq
    <2>4. QED
        BY <2>2, <2>3 DEF NotIn, Msgs
<1>2. MsgsNone(EarlyOf)
    BY <1>1 DEF MsgsNone, AllNot, AllMsgs
<1>3. ASSUME NEW s \in SubCoords PROVE IsNext(s)
    <2>1. PICK g \in Groups : s = SubCoord(g)
        BY DEF SubCoords
    <2>2. PICK pos : sc = SubCoordinators(m_Partitioning, TRUE, pos) /\ \A h \in Groups : pos[h] = start[h]
        BY DEF Begins
    <2>3. PICK queue, n : queue = Partition(g) /\ n = pos[g]
        OBVIOUS
    <2>4. sc[s] = Coordinator(queue, n)
        BY <2>1, <2>2, <2>3, SubCoordIs
    <2>5. sc[s].writerQueue = queue /\ sc[s].writingRank = NoRank
        BY <2>4 DEF Coordinator
    <2>6. queue \in Seq(Rank) /\ Len(queue) > 0
        BY <2>3, PlanInvGroups DEF Partition
    <2>7. queue # <<>> /\ Head(queue) = s
        BY <2>1, <2>3, <2>6 DEF SubCoord
    <2>8. QED
        BY <2>5, <2>7 DEF IsNext
<1>4. \A g \in Groups : gc.groupState[g] # "WRITING"
    BY DEF NothingYet
<1>5. QED
    BY <1>2, <1>3, <1>4 DEF OwnInv

LEMMA NextBeginsOwn == (PlanInv /\ Begins /\ NothingYet)' => OwnInv'
BY BeginsOwn, PTL

LEMMA InitOwnInv == Init => OwnInv
<1> SUFFICES ASSUME Init PROVE OwnInv
    OBVIOUS
<1>1. PlanInv /\ Begins
    BY InitTypeInv, InitBegins DEF TypeInv
<1>2. NothingYet
    <2>1. gc = GlobalCoordinator(m_Partitioning, rerouting) /\ channel = [c \in Rank \X Rank |-> <<>>]
        BY DEF Init
    <2>2. gc.groupState = [g \in DOMAIN m_Partitioning.m_Partitions |-> "UNKNOWN"]
        BY <2>1 DEF GlobalCoordinator
    <2>3. QED
        BY <2>1, <2>2 DEF NothingYet, Groups
<1>3. QED
    BY <1>1, <1>2, BeginsOwn

LEMMA NextCallOwn ==
    ASSUME ReroutesOnce, TypeInv, NothingSentInv, NextCall
    PROVE  OwnInv'
<1>1. PlanInv' /\ Begins'
    BY NextCallBegins, NextTypeInv DEF TypeInv, Next
<1>2. NothingYet'
    <2>1. SUFFICES ASSUME rerouting'
                   PROVE  /\ \A c \in Rank \X Rank : channel'[c] = <<>>
                          /\ \A g \in Groups' : gc'.groupState[g] = "UNKNOWN"
        BY DEF NothingYet
    <2>2. channel' = channel /\ plan' = plan /\ Reroutable(step') /\ step' = step + 1
        BY <2>1, NextCallIs DEF NextCall
    <2>3. /\ plan \in Plans /\ plan.steps \in Seq(Seq([Rank -> Nat])) /\ step \in 1..Len(plan.steps)
          /\ Len(plan.steps) \in Nat /\ step' \in 1..Len(plan.steps)
        <3>1. plan \in Plans /\ plan.steps \in Seq(Seq([Rank -> Nat])) /\ step \in 1..Len(plan.steps)
            BY PlansAssumption DEF TypeInv, PlanInv
        <3>2. plan' = plan /\ step' \in DOMAIN plan'.steps
            BY <1>1, <2>2 DEF PlanInv
        <3>3. QED
            BY <3>1, <3>2
    <2>4. ASSUME NEW t \in 1..step, Reroutable(t) PROVE FALSE
        <3>1. t # step' /\ t \in DOMAIN plan.steps /\ step' \in DOMAIN plan.steps
            BY <2>2, <2>3
        <3>2. QED
            BY <2>2, <2>3, <2>4, <3>1 DEF Reroutable, ReroutesOnce
    <2>5. \A c \in Rank \X Rank : channel[c] = <<>>
        BY <2>4 DEF NothingSentInv
    <2>6. gc'.groupState = [g \in DOMAIN m_Partitioning'.m_Partitions |-> "UNKNOWN"]
        <3>1. gc' = GlobalCoordinator(m_Partitioning', Reroutable(step'))
            BY DEF NextCall
        <3>2. QED
            BY <3>1 DEF GlobalCoordinator
    <2>7. QED
        BY <2>2, <2>5, <2>6 DEF Groups
<1>3. QED
    BY <1>1, <1>2, NextBeginsOwn

LEMMA NextOwnInv ==
    ASSUME ReroutesOnce, TypeInv, QueueInv, WriteInv, NothingSentInv, OwnInv, [Next]_vars
    PROVE  OwnInv'
<1>0. PlanInv
    BY DEF TypeInv
<1>1. ASSUME NEW r \in Rank, Comm(r) PROVE OwnInv'
    <2>1. ASSUME NEW q \in Rank, Receive(r, q) PROVE OwnInv'
        <3>1. CASE Misdelivered(r, q)
            <4>1. UNCHANGED <<channel, callVars, gc>> /\ sc' = sc /\ rank' = rank /\ turn = NoRank
                BY <3>1 DEF Misdelivered, Arrives
            <4>2. rerouting' = rerouting
                BY <4>1, CallKept
            <4>3. QED
                BY <1>0, <4>1, <4>2, OwnStays
        <3>2. QED
            BY <2>1, <3>1, WritersOwn, ClosesOwn, StatusOwn, ReroutesOwn DEF Receive
    <2>2. CASE FinishTurn(r)
        BY <2>2, WorkOwn DEF FinishTurn, QueueInv, LoopsInv
    <2>3. CASE ProbeNothing(r)
        BY <2>3, WorkOwn DEF ProbeNothing
    <2>4. QED
        BY <1>1, <2>1, <2>2, <2>3 DEF Comm
<1>2. ASSUME NEW r \in Rank, Main(r) PROVE OwnInv'
    <2>1. UNCHANGED <<channel, turn, callVars, sc, gc>>
        BY <1>2 DEF Main, WriteV, FinishWriting, Join, ChainWriteV, ChainPass, ChainReturn, OwnStep
    <2>2. \A s \in Rank : rank'[s].m_ReadyToWrite = rank[s].m_ReadyToWrite
        BY <1>2, MainThreads
    <2>3. rerouting' = rerouting
        BY <2>1, CallKept
    <2>4. QED
        BY <1>0, <2>1, <2>2, <2>3, OwnStays
<1>3. CASE NextCall
    BY <1>3, NextCallOwn
<1>4. CASE UNCHANGED vars
    <2>1. UNCHANGED <<channel, turn, callVars, sc, gc>> /\ rank' = rank
        BY <1>4 DEF vars
    <2>2. rerouting' = rerouting
        BY <2>1, CallKept
    <2>3. QED
        BY <1>0, <2>1, <2>2, OwnStays
<1>5. QED
    BY <1>1, <1>2, <1>3, <1>4 DEF Next, Terminated

(* The same, without an assumption about behaviours, of all runs that reroute one *)
(* step at most: nothing of an earlier step is left when it begins, and then each *)
(* subcoordinator writes first in its group.                                       *)
THEOREM WritesAppendInTurnInOneStep == ReroutesOnce /\ Spec => AppendsInTurn
<1> DEFINE AllInv == SimInv /\ NothingSentInv /\ OwnInv
<1>1. Init => AllInv
    BY InitSimInv, InitOwnInv DEF Init, NothingSentInv
<1>2. ReroutesOnce /\ AllInv /\ [Next]_vars => AllInv'
    <2>1. ASSUME ReroutesOnce, AllInv, [Next]_vars PROVE AllInv'
        <3>1. TypeInv /\ QueueInv /\ WriteInv /\ NoRequestLeft /\ OwnFirst
            BY <2>1, NothingSentNoRequest, OwnInvOwnFirst DEF SimInv
        <3>2. SimInv'
            BY <2>1, <3>1, NextSimInv
        <3>3. NothingSentInv'
            BY <2>1, <3>1, NextNothingSent
        <3>4. OwnInv'
            BY <2>1, <3>1, NextOwnInv
        <3>5. QED
            BY <3>2, <3>3, <3>4
    <2>2. QED
        BY <2>1
<1>3. SUFFICES ASSUME ReroutesOnce PROVE Spec => AppendsInTurn
    OBVIOUS
<1>4. AllInv /\ [Next]_vars => AllInv'
    BY <1>2, <1>3
<1>5. AllInv => SimInv
    OBVIOUS
<1> HIDE DEF AllInv
<1>6. QED
    BY <1>1, <1>4, <1>5, InitAppends, NextAppends, PTL DEF Spec, AppendsInTurn, Subfiles!Spec

(* The abstract specification of the subfiles on the state of the data write, with   *)
(* its theorem: the same substitution as Subfiles (BP5WriteDataProps).               *)
Appended == INSTANCE SubfileAppendProofs WITH
    end     <- [f \in Subfile |-> EndOf(f)],
    writing <- [f \in Subfile |->
                   {r \in Rank : rank[r].main = "write" /\ rank[r].m_SubStreamIndex = f}],
    regions <- RegionsOf({r \in Rank : Begun(r)})

(* WriteData never lays the data of two ranks over each other in a subfile,          *)
(* whoever is rerouted where, in plans that reroute in one step at most: what         *)
(* SubfileAppend promises of its regions holds of what the ranks have written.        *)
THEOREM WritesDoNotOverlap == ReroutesOnce /\ Spec => []Subfiles!RegionsDisjoint
<1>1. AppendsInTurn => Appended!Spec
    BY DEF AppendsInTurn, Subfiles!Spec, Appended!Spec, Subfiles!Init, Appended!Init,
           Subfiles!Next, Appended!Next, Subfiles!vars, Appended!vars, Subfiles!Begin,
           Appended!Begin, Subfiles!End, Appended!End, Subfiles!NextStep,
           Appended!NextStep, Subfiles!Region, Appended!Region
<1>2. Appended!Spec => []Appended!RegionsDisjoint
    BY Appended!NothingOverwritten
<1>3. Appended!RegionsDisjoint <=> Subfiles!RegionsDisjoint
    BY DEF Appended!RegionsDisjoint, Subfiles!RegionsDisjoint
<1>4. QED
    BY <1>1, <1>2, <1>3, WritesAppendInTurnInOneStep, PTL
=============================================================================
