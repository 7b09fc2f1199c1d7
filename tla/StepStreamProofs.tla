-------------------------- MODULE StepStreamProofs --------------------------
(* What StepStream promises an application, for streams of any length.      *)
EXTENDS StepStream, TLAPS

Types ==
    /\ skips \in BOOLEAN /\ closed \in BOOLEAN /\ broken \in BOOLEAN
    /\ written \in Seq(Nat) /\ read \in Seq(Nat)
    /\ outcome \in {"open", "ended", "failed"}

(* An ended stream is closed, and nothing of it is ahead of the reader. *)
EndedClosed == outcome = "ended" => closed /\ \A j \in 1..Len(written) : written[j] < After(read)

NonePassed == ~skips => \A j \in 1..Len(written) : written[j] < After(read) => WasRead(j)

StreamInv == Types /\ Increasing(written) /\ ReadInOrder /\ EndedClosed /\ NonePassed

(* What can follow a sequence of increasing steps comes after each of them. *)
LEMMA AfterAll ==
  ASSUME NEW s \in Seq(Nat), Increasing(s)
  PROVE  /\ After(s) \in Nat
         /\ \A i \in 1..Len(s) : s[i] < After(s)
  BY DEF Increasing, After

LEMMA AppendIncreasing ==
  ASSUME NEW s \in Seq(Nat), Increasing(s), NEW t \in Nat, t >= After(s)
  PROVE  /\ Append(s, t) \in Seq(Nat) /\ Increasing(Append(s, t))
         /\ Len(Append(s, t)) = Len(s) + 1
         /\ \A i \in 1..Len(s) : Append(s, t)[i] = s[i]
         /\ Append(s, t)[Len(s) + 1] = t
         /\ After(Append(s, t)) = t + 1
<1>1. \A i \in 1..Len(s) : s[i] < t
  BY AfterAll
<1>2. /\ Append(s, t) \in Seq(Nat)
      /\ Len(Append(s, t)) = Len(s) + 1
      /\ \A i \in 1..Len(s) : Append(s, t)[i] = s[i]
      /\ Append(s, t)[Len(s) + 1] = t
  OBVIOUS
<1>3. Increasing(Append(s, t))
  BY <1>1, <1>2 DEF Increasing
<1>4. After(Append(s, t)) = t + 1
  BY <1>2 DEF After
<1> QED
  BY <1>2, <1>3, <1>4

(* The reader is never ahead of the writer. *)
LEMMA ReaderBehind ==
  ASSUME StreamInv
  PROVE  After(read) <= After(written)
<1>1. CASE read = <<>>
  BY <1>1, AfterAll DEF StreamInv, Types, After
<1>2. CASE read # <<>>
  <2>1. PICK j \in 1..Len(written) : read[Len(read)] = written[j]
    BY <1>2 DEF StreamInv, Types, ReadInOrder
  <2>2. After(read) = written[j] + 1
    BY <1>2, <2>1 DEF After
  <2> QED
    BY <2>2, AfterAll DEF StreamInv, Types
<1> QED
  BY <1>1, <1>2

LEMMA WriteStreamInv ==
  ASSUME StreamInv, Write
  PROVE  StreamInv'
<1>1. PICK t \in Nat : t >= After(written) /\ written' = Append(written, t)
  BY DEF Write
<1>2. /\ ~closed /\ UNCHANGED <<skips, closed, broken, read, outcome>>
  BY DEF Write
<1>3. /\ written' \in Seq(Nat) /\ Increasing(written')
      /\ Len(written') = Len(written) + 1
      /\ \A i \in 1..Len(written) : written'[i] = written[i]
      /\ written'[Len(written) + 1] = t
  BY <1>1, AppendIncreasing DEF StreamInv, Types
<1>4. Types' /\ Increasing(written)'
  BY <1>2, <1>3 DEF StreamInv, Types, Increasing
<1>5. ReadInOrder'
  <2>1. Increasing(read)'
    BY <1>2 DEF StreamInv, ReadInOrder, Increasing
  <2>2. ASSUME NEW i \in 1..Len(read)
        PROVE  \E j \in 1..Len(written') : read[i] = written'[j]
    <3>1. PICK j \in 1..Len(written) : read[i] = written[j]
      BY <2>2 DEF StreamInv, ReadInOrder
    <3>2. j \in 1..Len(written') /\ read[i] = written'[j]
      BY <3>1, <1>3 DEF StreamInv, Types
    <3> QED
      BY <3>2
  <2> QED
    BY <2>1, <2>2, <1>2 DEF ReadInOrder
<1>6. EndedClosed'
  BY <1>2 DEF StreamInv, EndedClosed
<1>7. NonePassed'
  <2> SUFFICES ASSUME ~skips, NEW j \in 1..Len(written'), written'[j] < After(read)
               PROVE  \E i \in 1..Len(read) : read[i] = written'[j]
    BY <1>2 DEF NonePassed, WasRead, After
  <2>1. j # Len(written) + 1
    BY <1>1, <1>3, ReaderBehind, AfterAll DEF StreamInv, Types, ReadInOrder
  <2>2. j \in 1..Len(written) /\ written'[j] = written[j]
    BY <2>1, <1>3 DEF StreamInv, Types
  <2> QED
    BY <2>2 DEF StreamInv, NonePassed, WasRead
<1> QED
  BY <1>4, <1>5, <1>6, <1>7 DEF StreamInv

LEMMA ReadStreamInv ==
  ASSUME StreamInv, Read
  PROVE  StreamInv'
<1>1. PICK i \in Unread : /\ skips \/ \A j \in Unread : i <= j
                          /\ read' = Append(read, written[i])
  BY DEF Read
<1>2. outcome = "open" /\ UNCHANGED <<skips, written, closed, broken, outcome>>
  BY DEF Read
<1>3. i \in 1..Len(written) /\ written[i] \in Nat /\ written[i] >= After(read)
  BY <1>1 DEF Unread, StreamInv, Types
<1>4. /\ read' \in Seq(Nat) /\ Increasing(read')
      /\ Len(read') = Len(read) + 1
      /\ \A k \in 1..Len(read) : read'[k] = read[k]
      /\ read'[Len(read) + 1] = written[i]
      /\ After(read') = written[i] + 1
  BY <1>1, <1>3, AppendIncreasing DEF StreamInv, Types, ReadInOrder
<1>5. Types' /\ Increasing(written)' /\ EndedClosed'
  BY <1>2, <1>4 DEF StreamInv, Types, Increasing, EndedClosed
<1>6. ReadInOrder'
  <2>1. ASSUME NEW k \in 1..Len(read')
        PROVE  \E j \in 1..Len(written) : read'[k] = written[j]
    <3>1. CASE k = Len(read) + 1
      BY <3>1, <1>3, <1>4
    <3>2. CASE k \in 1..Len(read)
      BY <3>2, <1>4 DEF StreamInv, ReadInOrder
    <3> QED
      BY <3>1, <3>2, <1>4 DEF StreamInv, Types
  <2> QED
    BY <2>1, <1>2, <1>4 DEF ReadInOrder, Increasing
<1>7. NonePassed'
  <2> SUFFICES ASSUME ~skips, NEW j \in 1..Len(written), written[j] < written[i] + 1
               PROVE  \E k \in 1..Len(read') : read'[k] = written[j]
    BY <1>2, <1>4 DEF NonePassed, WasRead, After
  <2>1. CASE written[j] < After(read)
    <3>1. PICK k \in 1..Len(read) : read[k] = written[j]
      BY <2>1 DEF StreamInv, NonePassed, WasRead
    <3>2. k \in 1..Len(read') /\ read'[k] = written[j]
      BY <3>1, <1>4 DEF StreamInv, Types
    <3> QED
      BY <3>2
  <2>2. CASE written[j] >= After(read)
    <3>1. j \in Unread
      BY <2>2 DEF Unread, StreamInv, Types
    <3>2. i <= j
      BY <1>1, <3>1
    <3>3. j = i
      BY <3>2, <1>3 DEF StreamInv, Types, Increasing
    <3>4. Len(read) + 1 \in 1..Len(read')
      BY <1>4 DEF StreamInv, Types
    <3> QED
      BY <3>3, <3>4, <1>4
  <2>3. written[j] \in Nat /\ After(read) \in Nat
    BY AfterAll DEF StreamInv, Types, ReadInOrder
  <2> QED
    BY <2>1, <2>2, <2>3
<1> QED
  BY <1>5, <1>6, <1>7 DEF StreamInv

(* The inductive invariant: an ended stream stays closed and unread steps are *)
(* all behind what was read.                                                  *)
THEOREM StreamInvariance == Spec => []StreamInv
<1>1. Init => StreamInv
  <2> SUFFICES ASSUME Init
               PROVE  StreamInv
    OBVIOUS
  <2>1. /\ written \in Seq(Nat) /\ read \in Seq(Nat)
        /\ 1..Len(written) = {} /\ 1..Len(read) = {}
    BY DEF Init
  <2>2. Types
    BY <2>1 DEF Init, Types
  <2> QED
    BY <2>1, <2>2 DEF Init, StreamInv, Increasing, ReadInOrder, EndedClosed, NonePassed
<1>2. StreamInv /\ [Next]_vars => StreamInv'
  <2> SUFFICES ASSUME StreamInv, [Next]_vars
               PROVE  StreamInv'
    OBVIOUS
  <2>1. CASE Write
    BY <2>1, WriteStreamInv
  <2>2. CASE Read
    BY <2>2, ReadStreamInv
  <2>3. CASE Close \/ Break \/ Fail \/ UNCHANGED vars
    BY <2>3 DEF Close, Break, Fail, vars, StreamInv, Types, Increasing, ReadInOrder, EndedClosed,
                NonePassed, WasRead, After
  <2>4. CASE End
    <3>1. /\ closed /\ Unread = {} /\ outcome' = "ended"
          /\ UNCHANGED <<skips, written, closed, broken, read>>
      BY <2>4 DEF End
    <3>2. \A j \in 1..Len(written) : written[j] < After(read)
      BY <3>1, AfterAll DEF Unread, StreamInv, Types, ReadInOrder
    <3> QED
      BY <3>1, <3>2 DEF StreamInv, Types, Increasing, ReadInOrder, EndedClosed, NonePassed, WasRead,
                        After
  <2> QED
    BY <2>1, <2>2, <2>3, <2>4 DEF Next
<1> QED
  BY <1>1, <1>2, PTL DEF Spec

(* An application that reads a StepStream gets what was written, in order. *)
THEOREM StepsInOrder == Spec => []ReadInOrder
<1>1. StreamInv => ReadInOrder
  BY DEF StreamInv
<1> QED
  BY StreamInvariance, <1>1, PTL

(* Unless it asked for the newest step, it gets all of it before the end. *)
THEOREM NothingIsPassedOver == Spec => []NothingPassedOver
<1>1. StreamInv => NothingPassedOver
  BY DEF StreamInv, NothingPassedOver, EndedClosed, NonePassed
<1> QED
  BY StreamInvariance, <1>1, PTL
=============================================================================
