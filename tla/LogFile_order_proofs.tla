------------------------- MODULE LogFile_order_proofs -------------------------
(***************************************************************************)
(* In which order a reader meets the entries, what stays where it is in    *)
(* the file, what the queue still owes, how many bytes it holds and how    *)
(* many entries it has evicted, and that LogFile implements EntryStore:    *)
(* for every queue, file and number of entries, under the mild faults of   *)
(* LogFile_proofs; and, at the end, what late effects may do.              *)
(***************************************************************************)
EXTENDS LogFile_proofs, Sums_proofs

(* The queue is in the order of acceptance. *)
QueueInOrder ==
  /\ \A i, j \in DOMAIN logs : i < j => logs[i].id < logs[j].id
  /\ \A i \in DOMAIN logs : logs[i].id <= accepted

(* So is the file, and with the queue behind it, but for what a timed-out
   attempt may have landed. *)
IdsOf(i) == Ids(file.blocks[i].frame.logs)

FileBeforeQueue ==
  \A i \in Whole(file) : \A a \in IdsOf(i) :
    /\ a <= accepted
    /\ \A e \in Ids(logs) : a < e \/ e \in doubtful

(* Only the frame for a new file has the header. *)
AppendedHasNoHeader ==
  op \in {"prefix", "payload"} /\ appending => ~frame.header

OrderInv ==
  /\ QueueInOrder
  /\ FileBeforeQueue
  /\ InOrderOnceUnlessTimedOut
  /\ HeaderAtMostOnce
  /\ AppendedHasNoHeader

----------------------------------------------------------------------------
(* The queue *)

LEMMA IdsAt ==
  ASSUME NEW q \in Seq(Entry), NEW a \in Ids(q)
  PROVE  \E i \in 1..Len(q) : a = q[i].id
BY LenProperties DEF Ids

(* In a queue in order, what is taken from the front is older than the rest. *)
LEMMA FrontIsOlder ==
  ASSUME NEW q \in Seq(Entry), NEW k \in 0..Len(q),
         \A i, j \in 1..Len(q) : i < j => q[i].id < q[j].id,
         NEW a \in Ids(SubSeq(q, 1, k)), NEW e \in Ids(SubSeq(q, k + 1, Len(q)))
  PROVE  a < e
<1> DEFINE front == SubSeq(q, 1, k)
           rest  == SubSeq(q, k + 1, Len(q))
<1>1. /\ front \in Seq(Entry) /\ rest \in Seq(Entry)
      /\ Len(front) = k /\ Len(rest) = Len(q) - k
      /\ \A i \in 1..k : front[i] = q[i]
      /\ \A i \in 1..(Len(q) - k) : rest[i] = q[k + i]
  BY QueueRest
<1>0. a \in Ids(front) /\ e \in Ids(rest)
  OBVIOUS
<1> HIDE DEF front, rest
<1>2. PICK i \in 1..k : a = q[i].id
  <2>1. PICK i \in 1..Len(front) : a = front[i].id
    BY <1>0, <1>1, IdsAt
  <2>2. QED
    BY <1>1, <2>1
<1>3. PICK j \in 1..(Len(q) - k) : e = q[k + j].id
  <2>1. PICK j \in 1..Len(rest) : e = rest[j].id
    BY <1>0, <1>1, IdsAt
  <2>2. QED
    BY <1>1, <2>1
<1>4. i \in 1..Len(q) /\ k + j \in 1..Len(q) /\ i < k + j
  BY <1>2, <1>3, LenProperties
<1>5. QED
  BY <1>2, <1>3, <1>4

(* Taking entries from the front leaves the rest in order. *)
LEMMA RestInOrder ==
  ASSUME NEW q \in Seq(Entry), NEW k \in 0..Len(q), NEW bound,
         \A i, j \in 1..Len(q) : i < j => q[i].id < q[j].id,
         \A i \in 1..Len(q) : q[i].id <= bound,
         NEW rest, rest = SubSeq(q, k + 1, Len(q))
  PROVE  /\ \A i, j \in DOMAIN rest : i < j => rest[i].id < rest[j].id
         /\ \A i \in DOMAIN rest : rest[i].id <= bound
<1>1. /\ rest \in Seq(Entry) /\ Len(rest) = Len(q) - k
      /\ \A i \in 1..(Len(q) - k) : rest[i] = q[k + i]
  BY QueueRest
<1>2. DOMAIN rest = 1..(Len(q) - k) /\ Len(q) \in Nat
  BY <1>1, LenProperties
<1>3. \A i \in 1..(Len(q) - k) : k + i \in 1..Len(q)
  BY <1>2
<1>4. \A i, j \in 1..(Len(q) - k) : i < j => k + i < k + j
  BY <1>2
<1>5. ASSUME NEW i \in DOMAIN rest, NEW j \in DOMAIN rest, i < j
      PROVE  rest[i].id < rest[j].id
  BY <1>1, <1>2, <1>3, <1>4, <1>5
<1>6. ASSUME NEW i \in DOMAIN rest PROVE rest[i].id <= bound
  BY <1>1, <1>2, <1>3
<1>7. QED
  BY <1>5, <1>6

(* What an attempt has framed is the front of the queue. *)
LEMMA FramedFront ==
  ASSUME Sound, op = "payload"
  PROVE  /\ Len(frame.logs) \in 1..Len(logs)
         /\ frame.logs = SubSeq(logs, 1, Len(frame.logs))
         /\ Ids(frame.logs) \subseteq Ids(logs)
<1>1. /\ logs \in Seq(Entry) /\ frame.logs \in Seq(Entry) /\ frame.logs # <<>>
      /\ Len(frame.logs) <= Len(logs)
      /\ frame.logs = SubSeq(logs, 1, Len(frame.logs))
  BY DEF Sound, TypeOK, FrameIsOldest, Frame
<1>2. Len(frame.logs) \in 1..Len(logs) /\ Len(frame.logs) \in 0..Len(logs)
  BY <1>1, LenProperties, EmptySeq
<1>3. Ids(SubSeq(logs, 1, Len(frame.logs))) \subseteq Ids(logs)
  BY <1>1, <1>2, QueueRest
<1>4. QED
  BY <1>1, <1>2, <1>3

----------------------------------------------------------------------------
(* The file *)

(* A step that keeps the whole blocks, and the queue or less of it, keeps the
   order. *)
LEMMA SameWholeKeeps ==
  ASSUME OrderInv, SameWhole(file, file'), accepted' = accepted,
         doubtful \subseteq doubtful', Ids(logs') \subseteq Ids(logs)
  PROVE  FileBeforeQueue' /\ InOrderOnceUnlessTimedOut' /\ HeaderAtMostOnce'
<1>1. Whole(file') = Whole(file) /\ \A i \in Whole(file) : file'.blocks[i] = file.blocks[i]
  BY DEF SameWhole
<1>2. FileBeforeQueue'
  BY <1>1 DEF OrderInv, FileBeforeQueue, IdsOf
<1>3. InOrderOnceUnlessTimedOut'
  BY <1>1 DEF OrderInv, InOrderOnceUnlessTimedOut
<1>4. HeaderAtMostOnce'
  BY <1>1 DEF OrderInv, HeaderAtMostOnce
<1>5. QED
  BY <1>2, <1>3, <1>4

(* A frame that is completed behind the others holds younger entries than
   they, but for doubtful ones. *)
LEMMA FrameBehindKeeps ==
  ASSUME file.blocks \in Seq(Block), OrderInv,
         NEW f, LastBecomesWhole(file, file', f),
         accepted' = accepted, doubtful \subseteq doubtful',
         f.header => Len(file.blocks) = 1,
         \A b \in Ids(f.logs) :
           b <= accepted /\ \A i \in Whole(file) : \A a \in IdsOf(i) : a < b \/ b \in doubtful,
         \A e \in Ids(logs') : /\ e \in Ids(logs)
                               /\ \A a \in Ids(f.logs) : a < e \/ e \in doubtful'
  PROVE  FileBeforeQueue' /\ InOrderOnceUnlessTimedOut' /\ HeaderAtMostOnce'
<1> DEFINE n == Len(file.blocks)
<1>1. /\ Whole(file') = Whole(file) \cup {n} /\ file'.blocks[n].frame = f
      /\ \A i \in Whole(file) : i < n /\ file'.blocks[i] = file.blocks[i]
  BY DEF LastBecomesWhole
<1>2. n \in Nat /\ Whole(file) \subseteq Nat
  BY LenProperties DEF Whole
<1>3. FileBeforeQueue'
  <2> SUFFICES ASSUME NEW i \in Whole(file'), NEW a \in Ids(file'.blocks[i].frame.logs)
               PROVE  /\ a <= accepted'
                      /\ \A e \in Ids(logs') : a < e \/ e \in doubtful'
    BY DEF FileBeforeQueue, IdsOf
  <2>1. CASE i \in Whole(file)
    BY <1>1, <2>1 DEF OrderInv, FileBeforeQueue, IdsOf
  <2>2. CASE i = n
    BY <1>1, <2>2
  <2>3. QED
    BY <1>1, <2>1, <2>2
<1>4. InOrderOnceUnlessTimedOut'
  <2> SUFFICES ASSUME NEW i \in Whole(file'), NEW j \in Whole(file'), i < j,
                      NEW a \in Ids(file'.blocks[i].frame.logs),
                      NEW b \in Ids(file'.blocks[j].frame.logs)
               PROVE  a < b \/ b \in doubtful'
    BY DEF InOrderOnceUnlessTimedOut
  <2>1. i \in Whole(file)
    BY <1>1, <1>2
  <2>2. CASE j \in Whole(file)
    BY <1>1, <2>1, <2>2 DEF OrderInv, InOrderOnceUnlessTimedOut
  <2>3. CASE j = n
    BY <1>1, <2>1, <2>3 DEF IdsOf
  <2>4. QED
    BY <1>1, <2>2, <2>3
<1>5. HeaderAtMostOnce'
  BY <1>1 DEF OrderInv, HeaderAtMostOnce
<1>6. QED
  BY <1>3, <1>4, <1>5

(* So for the frame of the attempt under way. *)
LEMMA CompletedFrameKeeps ==
  ASSUME Sound, OrderInv, op = "payload", ~removed, LastBecomesWhole(file, file', frame),
         accepted' = accepted, doubtful \subseteq doubtful',
         \A e \in Ids(logs') : /\ e \in Ids(logs)
                               /\ \A a \in Ids(frame.logs) : a < e \/ e \in doubtful'
  PROVE  FileBeforeQueue' /\ InOrderOnceUnlessTimedOut' /\ HeaderAtMostOnce'
<1>1. file.blocks \in Seq(Block)
  BY DEF Sound, TypeOK, File
<1>2. frame.header => Len(file.blocks) = 1
  BY DEF Sound, FileFitsAttempt, EndsInPrefix, OrderInv, AppendedHasNoHeader
<1>3. ASSUME NEW b \in Ids(frame.logs)
      PROVE  b <= accepted /\ \A i \in Whole(file) : \A a \in IdsOf(i) : a < b \/ b \in doubtful
  <2>1. b \in Ids(logs)
    BY FramedFront
  <2>2. b <= accepted
    BY <2>1 DEF OrderInv, QueueInOrder, Ids
  <2>3. QED
    BY <2>1, <2>2 DEF OrderInv, FileBeforeQueue
<1>4. QED
  BY <1>1, <1>2, <1>3, FrameBehindKeeps

----------------------------------------------------------------------------
(* The invariant *)

LEMMA InitOrder == Init => OrderInv
<1> SUFFICES ASSUME Init PROVE OrderInv
  OBVIOUS
<1>1. logs = <<>> /\ DOMAIN logs = {} /\ op = "idle"
  BY DEF Init
<1>2. Whole(file) = {}
  BY EmptyFileType DEF Init, Whole
<1>3. QED
  BY <1>1, <1>2 DEF OrderInv, QueueInOrder, FileBeforeQueue, InOrderOnceUnlessTimedOut,
                    HeaderAtMostOnce, AppendedHasNoHeader

(* A new entry is younger than all there are. *)
LEMMA AddedIsYoungest ==
  ASSUME Sound, OrderInv, NEW len \in Sizes, AddToLog(len)
  PROVE  /\ QueueInOrder' /\ FileBeforeQueue'
         /\ Ids(logs') \subseteq Ids(logs) \cup {accepted + 1}
         /\ \E k \in 0..Len(logs) :
              LET q == Append(logs, [id |-> accepted + 1, len |-> len])
              IN  logs' = SubSeq(q, k + 1, Len(q))
<1> DEFINE e == [id |-> accepted + 1, len |-> len]
           q == Append(logs, e)
<1>1. logs \in Seq(Entry) /\ accepted \in Nat /\ e \in Entry
  BY LogFileAssumption DEF Sound, TypeOK, LogFileAssumption, Entry
<1>2. /\ q \in Seq(Entry) /\ Len(q) = Len(logs) + 1 /\ Len(logs) \in Nat
      /\ \A i \in 1..Len(logs) : q[i] = logs[i]
      /\ q[Len(logs) + 1] = e
      /\ DOMAIN logs = 1..Len(logs)
  BY <1>1, AppendProperties, LenProperties
<1>3. PICK k \in 0..(Len(q) - 1) : logs' = SubSeq(q, k + 1, Len(q))
  BY DEF AddToLog
<1>4. accepted' = accepted + 1 /\ UNCHANGED <<file, doubtful>>
  BY DEF AddToLog
<1>5. e.id = accepted + 1
  OBVIOUS
<1> HIDE DEF q, e
<1>6. \A i \in 1..Len(logs) : logs[i].id \in Nat /\ logs[i].id <= accepted
  <2>1. \A i \in 1..Len(logs) : logs[i] \in Entry
    BY <1>1, ElementOfSeq
  <2>2. QED
    BY <1>2, <2>1 DEF OrderInv, QueueInOrder, Entry
<1>7. \A i \in 1..Len(q) : i \in 1..Len(logs) \/ i = Len(logs) + 1
  BY <1>2
<1>8. ASSUME NEW i \in 1..Len(q), NEW j \in 1..Len(q), i < j
      PROVE  q[i].id < q[j].id
  <2>1. i \in 1..Len(logs)
    BY <1>2, <1>8
  <2>2. CASE j \in 1..Len(logs)
    BY <1>2, <1>8, <2>1, <2>2 DEF OrderInv, QueueInOrder
  <2>3. CASE j = Len(logs) + 1
    BY <1>1, <1>2, <1>5, <1>6, <2>1, <2>3
  <2>4. QED
    BY <1>7, <2>2, <2>3
<1>9. ASSUME NEW i \in 1..Len(q) PROVE q[i].id <= accepted + 1
  BY <1>1, <1>2, <1>5, <1>6, <1>7
<1>10. k \in 0..Len(q) /\ k \in 0..Len(logs)
  BY <1>2
<1>11. QueueInOrder'
  <2>1. /\ \A i, j \in DOMAIN logs' : i < j => logs'[i].id < logs'[j].id
        /\ \A i \in DOMAIN logs' : logs'[i].id <= accepted + 1
    BY <1>2, <1>3, <1>8, <1>9, <1>10, RestInOrder
  <2>2. QED
    BY <1>4, <2>1 DEF QueueInOrder
<1>12. Ids(logs') \subseteq Ids(logs) \cup {accepted + 1}
  <2>1. Ids(logs') \subseteq Ids(q)
    BY <1>2, <1>3, <1>10, QueueRest
  <2>2. Ids(q) \subseteq Ids(logs) \cup {accepted + 1}
    <3>1. ASSUME NEW a \in Ids(q) PROVE a \in Ids(logs) \cup {accepted + 1}
      <4>1. PICK i \in 1..Len(q) : a = q[i].id
        BY <1>2, IdsAt
      <4>2. QED
        BY <1>2, <1>5, <1>7, <4>1 DEF Ids
    <3>2. QED
      BY <3>1
  <2>3. QED
    BY <2>1, <2>2
<1>13. FileBeforeQueue'
  <2> SUFFICES ASSUME NEW i \in Whole(file), NEW a \in Ids(file.blocks[i].frame.logs)
               PROVE  /\ a <= accepted + 1
                      /\ \A d \in Ids(logs') : a < d \/ d \in doubtful
    BY <1>4 DEF FileBeforeQueue, IdsOf
  <2>1. a \in Nat
    <3>1. file.blocks[i] \in Block
      BY LenProperties, ElementOfSeq DEF Sound, TypeOK, File, Whole
    <3>2. file.blocks[i].frame.logs \in Seq(Entry)
      BY <3>1 DEF Block, Frame
    <3>3. QED
      BY <3>2, IdsType
  <2>2. a <= accepted /\ \A d \in Ids(logs) : a < d \/ d \in doubtful
    BY DEF OrderInv, FileBeforeQueue, IdsOf
  <2>3. QED
    BY <1>1, <1>12, <2>1, <2>2
<1>14. QED
  BY <1>3, <1>10, <1>11, <1>12, <1>13 DEF q, e

(* What an attempt has framed is older than the rest of the queue. *)
LEMMA FramedAreOlder ==
  ASSUME Sound, OrderInv, op = "payload", NEW a \in Ids(frame.logs), NEW e \in Ids(logs)
  PROVE  a < e \/ e \in Ids(frame.logs)
<1> DEFINE k == Len(frame.logs)
<1>1. /\ logs \in Seq(Entry) /\ k \in 0..Len(logs)
      /\ frame.logs = SubSeq(logs, 1, k)
      /\ \A i, j \in 1..Len(logs) : i < j => logs[i].id < logs[j].id
  <2>1. logs \in Seq(Entry) /\ DOMAIN logs = 1..Len(logs)
    BY LenProperties DEF Sound, TypeOK
  <2>2. QED
    BY <2>1, FramedFront DEF OrderInv, QueueInOrder
<1> HIDE DEF k
<1>2. Ids(logs) = Ids(frame.logs) \cup Ids(SubSeq(logs, k + 1, Len(logs)))
  BY <1>1, QueueRest
<1>3. ASSUME e \in Ids(SubSeq(logs, k + 1, Len(logs))) PROVE a < e
  <2>1. a \in Ids(SubSeq(logs, 1, k))
    BY <1>1
  <2>2. QED
    BY <1>1, <1>3, <2>1, FrontIsOlder
<1>4. QED
  BY <1>2, <1>3

LEMMA StepOrder ==
  ASSUME Calm, Sound, OrderInv, [Next]_vars, ~LateEffect
  PROVE  OrderInv'
<1> USE DEF vars, queue, flags, attempt, ledger, history
<1>1. ASSUME NEW len \in Sizes, AddToLog(len) PROVE OrderInv'
  <2>1. UNCHANGED <<file, doubtful, op, frame, appending>>
    BY <1>1 DEF AddToLog
  <2>2. QueueInOrder' /\ FileBeforeQueue'
    BY <1>1, AddedIsYoungest
  <2>3. QED
    BY <2>1, <2>2 DEF OrderInv, InOrderOnceUnlessTimedOut, HeaderAtMostOnce, AppendedHasNoHeader
<1>2. ASSUME UNCHANGED <<logs, accepted>>, doubtful \subseteq doubtful',
             SameWhole(file, file'), AppendedHasNoHeader'
      PROVE  OrderInv'
  <2>1. FileBeforeQueue' /\ InOrderOnceUnlessTimedOut' /\ HeaderAtMostOnce'
    BY <1>2, SameWholeKeeps
  <2>2. QueueInOrder'
    BY <1>2 DEF OrderInv, QueueInOrder
  <2>3. QED
    BY <1>2, <2>1, <2>2 DEF OrderInv
<1>3. SameWhole(file, file)
  BY DEF SameWhole
<1>4. CASE FlushIntervalElapses \/ WriteReturnsEarly \/ UNCHANGED vars
  <2>1. UNCHANGED <<logs, accepted, doubtful, file, op, frame, appending>>
    BY <1>4 DEF FlushIntervalElapses, WriteReturnsEarly
  <2>2. AppendedHasNoHeader'
    BY <2>1 DEF OrderInv, AppendedHasNoHeader
  <2>3. QED
    BY <1>2, <1>3, <2>1, <2>2
<1>5. CASE (\E forced \in BOOLEAN : BeginWrite(forced)) \/ Stat
  <2>1. UNCHANGED <<logs, accepted, doubtful, file>> /\ op' \in {"stat", "create", "open", "cut"}
    BY <1>5 DEF BeginWrite, Stat
  <2>2. QED
    BY <1>2, <1>3, <2>1 DEF AppendedHasNoHeader
<1>6. CASE CutInterruptedTail \/ CreateFile
  <2>1. /\ op \in {"cut", "create"} /\ op' \in {"open", "magic"}
        /\ UNCHANGED <<logs, accepted, doubtful>>
        /\ file' \in Completed(op, frame, appending, file)
        /\ ~removed
    BY <1>6 DEF CutInterruptedTail, CreateFile, Sound, FileFitsAttempt
  <2>2. SameWhole(file, file')
    BY <2>1, AttemptKeepsFile
  <2>3. QED
    BY <1>2, <2>1, <2>2 DEF AppendedHasNoHeader
<1>7. CASE OpenAppend
  <2>1. UNCHANGED <<logs, accepted, doubtful, file>> /\ ~frame'.header
    BY <1>7 DEF OpenAppend, EncodeFrame
  <2>2. QED
    BY <1>2, <1>3, <2>1 DEF AppendedHasNoHeader
<1>8. CASE WriteMagic
  <2>1. /\ op = "magic" /\ UNCHANGED <<logs, accepted, doubtful, appending>>
        /\ Lands(Completed(op, frame, appending, file))
    BY <1>8 DEF WriteMagic
  <2>2. SameWhole(file, file')
    BY <2>1, LandingKeepsFile
  <2>3. ~appending
    BY <2>1 DEF Sound, FileFitsAttempt
  <2>4. QED
    BY <1>2, <2>1, <2>2, <2>3 DEF AppendedHasNoHeader
<1>9. CASE WritePrefix
  <2>1. /\ op = "prefix" /\ UNCHANGED <<logs, accepted, doubtful, frame, appending>>
        /\ Lands(Completed(op, frame, appending, file))
    BY <1>9 DEF WritePrefix
  <2>2. SameWhole(file, file')
    BY <2>1, LandingKeepsFile
  <2>3. QED
    BY <1>2, <2>1, <2>2 DEF OrderInv, AppendedHasNoHeader
<1>10. CASE WritePayload
  <2>1. /\ op = "payload" /\ op' = "idle" /\ UNCHANGED <<accepted, doubtful>>
        /\ logs' = SubSeq(logs, Len(frame.logs) + 1, Len(logs))
        /\ Lands(Completed(op, frame, appending, file))
    BY <1>10 DEF WritePayload, Confirm, ConfirmDraining, Leave
  <2>2. logs \in Seq(Entry)
    BY DEF Sound, TypeOK
  <2>3. SameWhole(file, file') \/ (~removed /\ LastBecomesWhole(file, file', frame))
    BY <2>1, LandingKeepsFile
  <2>4. /\ Len(frame.logs) \in 0..Len(logs)
        /\ frame.logs = SubSeq(logs, 1, Len(frame.logs))
    BY <2>1, FramedFront
  <2>5. DOMAIN logs = 1..Len(logs)
    BY <2>2, LenProperties
  <2>6. Ids(logs') \subseteq Ids(logs)
    BY <2>1, <2>2, <2>4, QueueRest
  <2>7. \A a \in Ids(frame.logs), e \in Ids(logs') : a < e
    <3> DEFINE k == Len(frame.logs)
    <3>1. /\ Ids(frame.logs) = Ids(SubSeq(logs, 1, k))
          /\ Ids(logs') = Ids(SubSeq(logs, k + 1, Len(logs)))
          /\ k \in 0..Len(logs)
          /\ \A i, j \in 1..Len(logs) : i < j => logs[i].id < logs[j].id
      BY <2>1, <2>4, <2>5 DEF OrderInv, QueueInOrder
    <3> HIDE DEF k
    <3>2. QED
      BY <2>2, <3>1, FrontIsOlder
  <2>8. FileBeforeQueue' /\ InOrderOnceUnlessTimedOut' /\ HeaderAtMostOnce'
    <3>1. CASE SameWhole(file, file')
      BY <2>1, <2>6, <3>1, SameWholeKeeps
    <3>2. CASE ~removed /\ LastBecomesWhole(file, file', frame)
      BY <2>1, <2>6, <2>7, <3>2, CompletedFrameKeeps
    <3>3. QED
      BY <2>3, <3>1, <3>2
  <2>9. QueueInOrder'
    BY <2>1, <2>2, <2>4, <2>5, RestInOrder DEF OrderInv, QueueInOrder
  <2>10. QED
    BY <2>1, <2>8, <2>9 DEF OrderInv, AppendedHasNoHeader
<1>11. CASE WriteFails \/ WriteTimesOut
  <2>1. /\ op' = "idle" /\ UNCHANGED <<logs, accepted>>
        /\ doubtful \subseteq doubtful'
        /\ Lands(Interrupted(op, frame, appending, file)
                   \cup Completed(op, frame, appending, file))
    BY <1>11, NothingMayLand DEF WriteFails, WriteTimesOut, NoteFailure, Leave, Lands
  <2>2. CASE SameWhole(file, file')
    BY <1>2, <2>1, <2>2 DEF AppendedHasNoHeader
  <2>3. CASE /\ op = "payload" /\ file' = PutPayload(file, frame, appending, "whole")
             /\ LastBecomesWhole(file, file', frame) /\ ~removed
    <3>1. CASE WriteTimesOut
      <4>1. doubtful' = doubtful \cup Ids(frame.logs)
        BY <2>3, <3>1 DEF WriteTimesOut
      <4>2. ASSUME NEW e \in Ids(logs), NEW a \in Ids(frame.logs)
            PROVE  a < e \/ e \in doubtful'
        BY <2>3, <4>1, FramedAreOlder
      <4>3. FileBeforeQueue' /\ InOrderOnceUnlessTimedOut' /\ HeaderAtMostOnce'
        BY <2>1, <2>3, <4>2, CompletedFrameKeeps
      <4>4. QueueInOrder'
        BY <2>1 DEF OrderInv, QueueInOrder
      <4>5. QED
        BY <2>1, <4>3, <4>4 DEF OrderInv, AppendedHasNoHeader
    <3>2. CASE WriteFails
      <4>1. file' \in Interrupted("payload", frame, appending, file)
        BY <2>3, <3>2 DEF WriteFails, Lands
      <4>2. file' = file \/ file' = PutPayload(file, frame, appending, "part")
        BY <4>1 DEF Interrupted
      <4>3. /\ EndsInPrefix(file, frame, appending) /\ frame \in Frame
            /\ appending \in BOOLEAN /\ file \in File
        BY <2>3 DEF Sound, TypeOK, FileFitsAttempt
      <4>4. SameWhole(file, file')
        BY <1>3, <4>2, <4>3, PayloadLands
      <4>5. QED
        BY <2>2, <4>4
    <3>3. QED
      BY <1>11, <3>1, <3>2
  <2>4. QED
    BY <2>1, <2>2, <2>3, LandingKeepsFile
<1>12. CASE Crash
  <2>1. /\ op' = "idle" /\ logs' = <<>> /\ UNCHANGED <<accepted, doubtful>>
        /\ Lands(Interrupted(op, frame, appending, file)
                   \cup Completed(op, frame, appending, file))
    BY <1>12 DEF Crash, Leave
  <2>2. Ids(logs') = {} /\ DOMAIN logs' = {}
    BY <2>1 DEF Ids
  <2>3. FileBeforeQueue' /\ InOrderOnceUnlessTimedOut' /\ HeaderAtMostOnce'
    <3>1. CASE SameWhole(file, file')
      BY <2>1, <2>2, <3>1, SameWholeKeeps
    <3>2. CASE op = "payload" /\ ~removed /\ LastBecomesWhole(file, file', frame)
      BY <2>1, <2>2, <3>2, CompletedFrameKeeps
    <3>3. QED
      BY <2>1, <3>1, <3>2, LandingKeepsFile
  <2>4. QED
    BY <2>1, <2>2, <2>3 DEF OrderInv, QueueInOrder, AppendedHasNoHeader
<1>13. CASE DeleteFile
  <2>1. UNCHANGED <<logs, accepted, doubtful, op, frame, appending>> /\ file' = EmptyFile
    BY <1>13 DEF DeleteFile
  <2>2. Whole(file') = {}
    BY <2>1, EmptyFileType DEF Whole
  <2>3. QED
    BY <2>1, <2>2 DEF OrderInv, QueueInOrder, FileBeforeQueue, InOrderOnceUnlessTimedOut,
                      HeaderAtMostOnce, AppendedHasNoHeader
<1>14. CASE LateEffect
  BY <1>14
<1>15. QED
  BY <1>1, <1>4, <1>5, <1>6, <1>7, <1>8, <1>9, <1>10, <1>11, <1>12, <1>13, <1>14 DEF Next

THEOREM OrderInvariance == ASSUME Mild PROVE Spec => [](IInv /\ OrderInv)
<1>1. Init => OrderInv
  BY InitOrder
<1>2. IInv /\ OrderInv /\ [Next]_vars => OrderInv'
  BY MildIsCalm, StepOrder
<1>3. QED
  BY <1>1, <1>2, Invariance, PTL DEF Spec

(* A reader meets the entries in the order in which they were queued and each
   one once, but for those a timed-out write had landed: no order of failures,
   retries, crashes and deletions brings another one back. *)
THEOREM EntriesInOrderOnce == ASSUME Mild PROVE Spec => []InOrderOnceUnlessTimedOut
<1>1. OrderInv => InOrderOnceUnlessTimedOut
  BY DEF OrderInv
<1>2. QED
  BY <1>1, OrderInvariance, PTL

(* Whatever write is cut short, only the first block of a file has a header. *)
THEOREM HeaderNeverRepeated == ASSUME Mild PROVE Spec => []HeaderAtMostOnce
<1>1. OrderInv => HeaderAtMostOnce
  BY DEF OrderInv
<1>2. QED
  BY <1>1, OrderInvariance, PTL

----------------------------------------------------------------------------
(* What stays in the file *)

(* A step other than DeleteFile does to the file what an operation of the
   attempt may do. *)
LEMMA StepFile ==
  ASSUME Calm, Sound, [Next]_vars, ~LateEffect
  PROVE  \/ DeleteFile
         \/ SameWhole(file, file')
         \/ op = "payload" /\ LastBecomesWhole(file, file', frame)
<1> USE DEF vars, queue, flags, attempt, ledger, history
<1>1. SameWhole(file, file)
  BY DEF SameWhole
<1>2. ASSUME file' = file PROVE SameWhole(file, file')
  BY <1>1, <1>2
<1>3. ASSUME NEW files, Lands(files),
             files \subseteq Interrupted(op, frame, appending, file)
                               \cup Completed(op, frame, appending, file)
      PROVE  \/ SameWhole(file, file')
             \/ op = "payload" /\ LastBecomesWhole(file, file', frame)
  BY <1>3, LandingKeepsFile
<1>4. CASE \/ \E len \in Sizes : AddToLog(len)
           \/ FlushIntervalElapses \/ WriteReturnsEarly \/ Stat \/ OpenAppend
           \/ (\E forced \in BOOLEAN : BeginWrite(forced)) \/ UNCHANGED vars
  BY <1>2, <1>4 DEF AddToLog, FlushIntervalElapses, WriteReturnsEarly, BeginWrite, Stat,
                    OpenAppend
<1>5. CASE CutInterruptedTail \/ CreateFile \/ WriteMagic \/ WritePrefix \/ WritePayload
  <2>1. Lands(Completed(op, frame, appending, file))
    BY <1>5 DEF CutInterruptedTail, CreateFile, WriteMagic, WritePrefix, WritePayload, Lands,
                Sound, FileFitsAttempt
  <2>2. QED
    BY <1>3, <2>1
<1>6. CASE WriteFails \/ WriteTimesOut \/ Crash
  <2>1. Lands(Interrupted(op, frame, appending, file) \cup Completed(op, frame, appending, file))
    BY <1>6, NothingMayLand DEF WriteFails, WriteTimesOut, Crash, Lands
  <2>2. QED
    BY <1>3, <2>1
<1>7. CASE LateEffect
  BY <1>7
<1>8. QED
  BY <1>4, <1>5, <1>6, <1>7 DEF Next

(* What a reader could read stays where it is: no cut, retry or crash takes
   an intact frame away, only deleting the file does. *)
THEOREM IntactBlocksEverStay == ASSUME Mild PROVE Spec => IntactBlocksStay
<1>1. IInv /\ [Next]_vars
        => [\/ DeleteFile
            \/ \A i \in Whole(file) : i \in Whole(file') /\ file'.blocks[i] = file.blocks[i]]_vars
  BY MildIsCalm, StepFile DEF SameWhole, LastBecomesWhole
<1>2. QED
  BY <1>1, Invariance, PTL DEF Spec, IntactBlocksStay

----------------------------------------------------------------------------
(* LogFile implements EntryStore *)

LEMMA StoredSame ==
  ASSUME NEW fl, NEW fl2, Readable(fl), Readable(fl2), SameWhole(fl, fl2)
  PROVE  Stored(fl2) = Stored(fl)
BY DEF Stored, SameWhole

LEMMA StoredWithFrame ==
  ASSUME NEW fl, NEW fl2, NEW f, Readable(fl), Readable(fl2), LastBecomesWhole(fl, fl2, f)
  PROVE  Stored(fl2) = Stored(fl) \cup Ids(f.logs)
BY DEF Stored, LastBecomesWhole

Pending(q) == [i \in DOMAIN q |-> q[i].id]

LEMMA PendingType ==
  ASSUME NEW q \in Seq(Entry)
  PROVE  /\ Pending(q) \in Seq(Nat)
         /\ Len(Pending(q)) = Len(q)
         /\ DOMAIN Pending(q) = 1..Len(q)
         /\ \A i \in 1..Len(q) : Pending(q)[i] = q[i].id
<1>1. Len(q) \in Nat /\ DOMAIN q = 1..Len(q) /\ \A i \in 1..Len(q) : q[i] \in Entry
  BY LenProperties, ElementOfSeq
<1>2. Pending(q) \in [1..Len(q) -> Nat]
  BY <1>1 DEF Pending, Entry
<1>3. Pending(q) \in Seq(Nat)
  BY <1>1, <1>2, SeqDef
<1>4. QED
  BY <1>1, <1>2, <1>3, LenProperties DEF Pending

(* The ids of the rest of the queue are the rest of its ids, and those of its
   front are EntryStore's oldest. *)
LEMMA PendingRest ==
  ASSUME NEW q \in Seq(Entry), NEW k \in 0..Len(q)
  PROVE  /\ Pending(SubSeq(q, k + 1, Len(q))) = SubSeq(Pending(q), k + 1, Len(Pending(q)))
         /\ Ids(SubSeq(q, 1, k)) = {Pending(q)[i] : i \in 1..k}
<1> DEFINE p     == Pending(q)
           front == SubSeq(q, 1, k)
           rest  == SubSeq(q, k + 1, Len(q))
           tail  == SubSeq(p, k + 1, Len(p))
<1>1. /\ p \in Seq(Nat) /\ Len(p) = Len(q) /\ \A i \in 1..Len(q) : p[i] = q[i].id
      /\ Len(q) \in Nat /\ k \in Nat /\ k <= Len(q)
  BY PendingType, LenProperties
<1>2. /\ rest \in Seq(Entry) /\ Len(rest) = Len(q) - k
      /\ \A i \in 1..(Len(q) - k) : rest[i] = q[k + i]
      /\ front \in Seq(Entry) /\ Len(front) = k
      /\ \A i \in 1..k : front[i] = q[i]
  BY QueueRest
<1>3. /\ Pending(rest) \in Seq(Nat) /\ Len(Pending(rest)) = Len(q) - k
      /\ \A i \in 1..(Len(q) - k) : Pending(rest)[i] = q[k + i].id
  <2> HIDE DEF p, front, rest
  <2>1. /\ Pending(rest) \in Seq(Nat) /\ Len(Pending(rest)) = Len(rest)
        /\ \A i \in 1..Len(rest) : Pending(rest)[i] = rest[i].id
    BY <1>2, PendingType
  <2>2. QED
    BY <1>2, <2>1
<1> HIDE DEF p, front, rest
<1>4. /\ tail \in Seq(Nat) /\ Len(tail) = Len(q) - k
      /\ \A i \in 1..(Len(q) - k) : tail[i] = p[k + i]
  <2> DEFINE m == k + 1
  <2>1. m \in Int /\ Len(p) \in Int /\ \A i \in m..Len(p) : p[i] \in Nat
    BY <1>1, ElementOfSeq
  <2>2. /\ tail \in Seq(Nat)
        /\ Len(tail) = IF m <= Len(p) THEN Len(p) - m + 1 ELSE 0
        /\ \A i \in 1..(Len(p) - m + 1) : tail[i] = p[m + i - 1]
    BY <2>1, SubSeqProperties
  <2> HIDE DEF tail
  <2>3. Len(p) - m + 1 = Len(q) - k /\ \A i \in 1..(Len(q) - k) : m + i - 1 = k + i
    BY <1>1
  <2>4. Len(tail) = Len(q) - k
    BY <1>1, <2>2, <2>3
  <2>5. QED
    BY <2>2, <2>3, <2>4
<1> HIDE DEF tail
<1>5. \A i \in 1..(Len(q) - k) : k + i \in 1..Len(q)
  BY <1>1
<1>6. \A i \in 1..(Len(q) - k) : Pending(rest)[i] = tail[i]
  BY <1>1, <1>3, <1>4, <1>5
<1>7. Pending(rest) = tail
  BY <1>3, <1>4, <1>6, SeqEqual
<1>8. Ids(front) = {p[i] : i \in 1..k}
  <2>1. DOMAIN front = 1..k
    BY <1>2, LenProperties
  <2>2. \A i \in 1..k : i \in 1..Len(q) /\ front[i].id = p[i]
    BY <1>1, <1>2
  <2>3. QED
    BY <2>1, <2>2 DEF Ids
<1>9. QED
  BY <1>7, <1>8 DEF p, front, rest, tail

LEMMA InitPromise == Init => Promise!Init
<1> SUFFICES ASSUME Init PROVE Promise!Init
  OBVIOUS
<1>1. logs = <<>> /\ DOMAIN logs = {} /\ file = EmptyFile
  BY DEF Init
<1>2. Pending(logs) = <<>>
  <2>1. logs \in Seq(Entry) /\ Len(logs) = 0
    BY <1>1, EmptySeq
  <2>2. Pending(logs) \in Seq(Nat) /\ Len(Pending(logs)) = 0
    BY <2>1, PendingType
  <2>3. QED
    BY <2>2, EmptySeq
<1>3. Whole(file) = {}
  BY <1>1, EmptyFileType DEF Whole
<1>4. Stored(file) = {}
  BY <1>3 DEF Stored
<1>5. QED
  BY <1>2, <1>4 DEF Init, Promise!Init, Pending

(* add_to_log: the new entry is the youngest, the evicted ones the oldest. *)
LEMMA AddAccepts ==
  ASSUME Sound, OrderInv, NEW len \in Sizes, AddToLog(len)
  PROVE  Promise!Accept
<1> DEFINE e  == [id |-> accepted + 1, len |-> len]
           q  == Append(logs, e)
           p  == Pending(logs)
           p2 == Pending(logs')
<1>1. logs \in Seq(Entry) /\ accepted \in Nat /\ e \in Entry /\ e.id = accepted + 1
  BY LogFileAssumption DEF Sound, TypeOK, LogFileAssumption, Entry
<1>2. /\ q \in Seq(Entry) /\ Len(q) = Len(logs) + 1 /\ Len(logs) \in Nat
      /\ \A i \in 1..Len(logs) : q[i] = logs[i]
      /\ q[Len(logs) + 1] = e
      /\ DOMAIN logs = 1..Len(logs)
  BY <1>1, AppendProperties, LenProperties
<1>3. PICK k \in 0..Len(logs) : logs' = SubSeq(q, k + 1, Len(q))
  BY AddedIsYoungest
<1> DEFINE kept == Len(logs) - k
<1>4. k \in Nat /\ kept \in Nat /\ kept = Len(logs) - k /\ k \in 0..Len(q)
  BY <1>2
<1> HIDE DEF e, q, kept
<1>5. /\ logs' \in Seq(Entry) /\ Len(logs') = kept + 1
      /\ \A i \in 1..(kept + 1) : logs'[i] = q[k + i]
  <2>1. /\ logs' \in Seq(Entry) /\ Len(logs') = Len(q) - k
        /\ \A i \in 1..(Len(q) - k) : logs'[i] = q[k + i]
    BY <1>2, <1>3, <1>4, QueueRest
  <2>2. Len(q) - k = kept + 1
    BY <1>2, <1>4
  <2>3. QED
    BY <2>1, <2>2
<1>6. /\ p \in Seq(Nat) /\ Len(p) = Len(logs) /\ \A i \in 1..Len(logs) : p[i] = logs[i].id
      /\ DOMAIN p = 1..Len(logs)
  BY <1>1, PendingType
<1>7. /\ p2 \in Seq(Nat) /\ Len(p2) = kept + 1
      /\ \A i \in 1..(kept + 1) : p2[i] = logs'[i].id
  BY <1>5, PendingType
<1> HIDE DEF p, p2
<1>8. \A i \in 1..kept : p2[i] = p[k + i]
  <2> SUFFICES ASSUME NEW i \in 1..kept PROVE p2[i] = p[k + i]
    OBVIOUS
  <2>1. i \in 1..(kept + 1) /\ k + i \in 1..Len(logs)
    BY <1>2, <1>4
  <2>2. p2[i] = logs'[i].id /\ logs'[i] = q[k + i]
    BY <1>5, <1>7, <2>1
  <2>3. q[k + i] = logs[k + i] /\ p[k + i] = logs[k + i].id
    BY <1>2, <1>6, <2>1
  <2>4. QED
    BY <2>2, <2>3
<1>9. p2[kept + 1] = accepted + 1
  <2>1. kept + 1 \in 1..(kept + 1) /\ k + (kept + 1) = Len(logs) + 1
    BY <1>2, <1>4
  <2>2. logs'[kept + 1] = q[Len(logs) + 1]
    BY <1>5, <2>1
  <2>3. QED
    BY <1>1, <1>2, <1>7, <2>1, <2>2
<1>10. \A i \in DOMAIN p : p[i] < p2[kept + 1]
  <2>1. \A i \in 1..Len(logs) : logs[i].id <= accepted
    BY <1>2 DEF OrderInv, QueueInOrder
  <2>2. \A i \in 1..Len(logs) : p[i] \in Nat
    BY <1>6, ElementOfSeq
  <2>3. QED
    BY <1>1, <1>6, <1>9, <2>1, <2>2
<1>11. SubSeq(p2, 1, kept) = SubSeq(p, k + 1, Len(p))
  <2> DEFINE front == SubSeq(p2, 1, kept)
             rest  == SubSeq(p, k + 1, Len(p))
             m     == k + 1
  <2>1. /\ front \in Seq(Nat) /\ Len(front) = kept
        /\ \A i \in 1..kept : front[i] = p2[i]
    <3>1. 1 \in Int /\ kept \in Int /\ \A i \in 1..kept : p2[i] \in Nat
      BY <1>4, <1>7, ElementOfSeq
    <3>2. /\ front \in Seq(Nat)
          /\ Len(front) = IF 1 <= kept THEN kept - 1 + 1 ELSE 0
          /\ \A i \in 1..(kept - 1 + 1) : front[i] = p2[1 + i - 1]
      BY <3>1, SubSeqProperties
    <3> HIDE DEF front
    <3>3. QED
      BY <1>4, <3>2
  <2>2. /\ rest \in Seq(Nat) /\ Len(rest) = kept
        /\ \A i \in 1..kept : rest[i] = p[k + i]
    <3>1. m \in Int /\ Len(p) \in Int /\ \A i \in m..Len(p) : p[i] \in Nat
      BY <1>2, <1>4, <1>6, ElementOfSeq
    <3>2. /\ rest \in Seq(Nat)
          /\ Len(rest) = IF m <= Len(p) THEN Len(p) - m + 1 ELSE 0
          /\ \A i \in 1..(Len(p) - m + 1) : rest[i] = p[m + i - 1]
      BY <3>1, SubSeqProperties
    <3> HIDE DEF rest
    <3>3. Len(p) - m + 1 = kept /\ \A i \in 1..kept : m + i - 1 = k + i
      BY <1>2, <1>4, <1>6
    <3>4. Len(rest) = kept
      <4>1. \A n \in Nat, j \in Nat :
              j <= n => (IF j + 1 <= n THEN n - (j + 1) + 1 ELSE 0) = n - j
        OBVIOUS
      <4>2. Len(p) \in Nat /\ k \in Nat /\ k <= Len(p) /\ Len(p) - k = kept
        BY <1>2, <1>4, <1>6
      <4>3. Len(rest) = IF k + 1 <= Len(p) THEN Len(p) - (k + 1) + 1 ELSE 0
        BY <3>2
      <4>4. QED
        BY <4>1, <4>2, <4>3
    <3>5. QED
      BY <3>2, <3>3, <3>4
  <2> HIDE DEF front, rest
  <2>3. front = rest
    BY <1>8, <2>1, <2>2, SeqEqual
  <2>4. QED
    BY <2>3 DEF front, rest
<1>12. UNCHANGED <<Stored(file), removed>>
  BY DEF AddToLog, attempt
<1>13. /\ k \in 0..Len(p) /\ Len(p) - k = kept
  BY <1>4, <1>6
<1>14. QED
  BY <1>7, <1>10, <1>11, <1>12, <1>13 DEF Promise!Accept, Pending, p, p2

(* Whatever an attempt's operation did, the file holds what it held, or the
   oldest entries too. *)
LEMMA StepStores ==
  ASSUME Calm, Sound, NEW files, Lands(files),
         files \subseteq Interrupted(op, frame, appending, file)
                           \cup Completed(op, frame, appending, file)
  PROVE  \/ Stored(file') = Stored(file)
         \/ /\ ~removed /\ op = "payload"
            /\ Len(frame.logs) \in 1..Len(Pending(logs))
            /\ Stored(file') = Stored(file) \cup {Pending(logs)[i] : i \in 1..Len(frame.logs)}
<1>1. Readable(file) /\ Readable(file')
  BY LandingKeepsFile
<1>2. CASE SameWhole(file, file')
  BY <1>1, <1>2, StoredSame
<1>3. CASE op = "payload" /\ LastBecomesWhole(file, file', frame) /\ ~removed
  <2>1. Stored(file') = Stored(file) \cup Ids(frame.logs)
    BY <1>1, <1>3, StoredWithFrame
  <2>2. logs \in Seq(Entry) /\ Len(frame.logs) \in 1..Len(logs)
        /\ frame.logs = SubSeq(logs, 1, Len(frame.logs))
    BY <1>3, FramedFront DEF Sound, TypeOK
  <2> DEFINE n == Len(frame.logs)
  <2>3. n \in 1..Len(logs) /\ n \in 0..Len(logs) /\ Ids(frame.logs) = Ids(SubSeq(logs, 1, n))
    <3>1. frame.logs = SubSeq(logs, 1, n) /\ n \in 1..Len(logs)
      BY <2>2
    <3> HIDE DEF n
    <3>2. n \in 0..Len(logs)
      BY <2>2, <3>1, LenProperties
    <3>3. QED
      BY <3>1, <3>2
  <2> HIDE DEF n
  <2>4. Ids(SubSeq(logs, 1, n)) = {Pending(logs)[i] : i \in 1..n}
    BY <2>2, <2>3, PendingRest
  <2>5. n \in 1..Len(Pending(logs))
    BY <2>2, <2>3, PendingType
  <2>6. QED
    BY <1>3, <2>1, <2>3, <2>4, <2>5 DEF n
<1>4. QED
  BY <1>2, <1>3, LandingKeepsFile

(* An operation that completes or stops short stores the n oldest entries, or
   none, in the file or astray. *)
LEMMA LandingStores ==
  ASSUME Calm, Sound, NEW files, Lands(files),
         files \subseteq Interrupted(op, frame, appending, file)
                           \cup Completed(op, frame, appending, file),
         removed' = FALSE
  PROVE  \E n \in 0..Len(Pending(logs)) : Promise!Stores(n)
<1>1. Len(Pending(logs)) \in Nat
  <2>1. logs \in Seq(Entry)
    BY DEF Sound, TypeOK
  <2>2. QED
    BY <2>1, PendingType, LenProperties
<1>2. CASE Stored(file') = Stored(file)
  <2>1. 0 \in 0..Len(Pending(logs)) /\ {Pending(logs)[i] : i \in 1..0} = {}
    BY <1>1
  <2>2. Promise!Stores(0)
    BY <1>2, <2>1 DEF Promise!Stores, Promise!Oldest, Pending
  <2>3. QED
    BY <2>1, <2>2
<1>3. CASE /\ ~removed /\ Len(frame.logs) \in 1..Len(Pending(logs))
           /\ Stored(file') = Stored(file) \cup {Pending(logs)[i] : i \in 1..Len(frame.logs)}
  <2>1. Len(frame.logs) \in 0..Len(Pending(logs))
    BY <1>1, <1>3
  <2>2. Promise!Stores(Len(frame.logs))
    BY <1>3 DEF Promise!Stores, Promise!Oldest, Pending
  <2>3. QED
    BY <2>1, <2>2
<1>4. QED
  BY <1>2, <1>3, StepStores

LEMMA StepPromise ==
  ASSUME Calm, Sound, OrderInv, [Next]_vars, ~LateEffect
  PROVE  Promise!Next \/ UNCHANGED <<Pending(logs), Stored(file), removed>>
<1> USE DEF vars, queue, flags, attempt, ledger, history
<1>1. logs \in Seq(Entry)
  BY DEF Sound, TypeOK
<1>2. CASE \E len \in Sizes : AddToLog(len)
  BY <1>2, AddAccepts DEF Promise!Next
<1>3. CASE FlushIntervalElapses \/ WriteReturnsEarly \/ Stat \/ OpenAppend
           \/ (\E forced \in BOOLEAN : BeginWrite(forced)) \/ UNCHANGED vars
  BY <1>3 DEF FlushIntervalElapses, WriteReturnsEarly, BeginWrite, Stat, OpenAppend
<1>4. CASE CutInterruptedTail \/ CreateFile \/ WriteMagic \/ WritePrefix
  <2>1. /\ UNCHANGED <<logs, removed>> /\ op # "payload"
        /\ Lands(Completed(op, frame, appending, file))
    BY <1>4 DEF CutInterruptedTail, CreateFile, WriteMagic, WritePrefix, Lands, Sound,
                FileFitsAttempt
  <2>2. Stored(file') = Stored(file)
    BY <2>1, StepStores
  <2>3. QED
    BY <2>1, <2>2
<1>5. CASE WriteFails \/ WriteTimesOut
  <2>1. /\ UNCHANGED logs /\ removed' = FALSE
        /\ Lands(Interrupted(op, frame, appending, file)
                   \cup Completed(op, frame, appending, file))
    BY <1>5, NothingMayLand DEF WriteFails, WriteTimesOut, NoteFailure, Leave, Lands
  <2>2. \E n \in 0..Len(Pending(logs)) : Promise!Stores(n)
    BY <2>1, LandingStores
  <2>3. Promise!StoreUnconfirmed
    BY <2>1, <2>2 DEF Promise!StoreUnconfirmed, Pending
  <2>4. QED
    BY <2>3 DEF Promise!Next
<1>6. CASE WritePayload
  <2>1. /\ op = "payload" /\ removed' = FALSE
        /\ file' = IF removed THEN file ELSE PutPayload(file, frame, appending, "whole")
        /\ logs' = SubSeq(logs, Len(frame.logs) + 1, Len(logs))
    BY <1>6 DEF WritePayload, Completed, Confirm, ConfirmDraining, Leave, Lands
  <2> DEFINE n == Len(frame.logs)
  <2>2. n \in 1..Len(logs) /\ frame.logs = SubSeq(logs, 1, n)
        /\ logs' = SubSeq(logs, n + 1, Len(logs))
    BY <2>1, FramedFront
  <2>3. Ids(frame.logs) = Ids(SubSeq(logs, 1, n))
    BY <2>2
  <2> HIDE DEF n
  <2>4. n \in 0..Len(logs) /\ Len(Pending(logs)) = Len(logs)
    BY <1>1, <2>2, LenProperties, PendingType
  <2>5. /\ Pending(logs') = SubSeq(Pending(logs), n + 1, Len(Pending(logs)))
        /\ Ids(SubSeq(logs, 1, n)) = {Pending(logs)[i] : i \in 1..n}
    BY <1>1, <2>2, <2>4, PendingRest
  <2>6. Stored(file') = IF removed THEN Stored(file)
                                   ELSE Stored(file) \cup {Pending(logs)[i] : i \in 1..n}
    <3>1. CASE removed
      BY <2>1, <3>1
    <3>2. CASE ~removed
      <4>1. /\ EndsInPrefix(file, frame, appending) /\ frame \in Frame
            /\ appending \in BOOLEAN /\ file \in File
        BY <2>1, <3>2 DEF Sound, TypeOK, FileFitsAttempt
      <4>2. file' = PutPayload(file, frame, appending, "whole")
        BY <2>1, <3>2
      <4>3. Readable(file') /\ LastBecomesWhole(file, file', frame)
        BY <4>1, <4>2, PayloadLands
      <4>4. Stored(file') = Stored(file) \cup Ids(frame.logs)
        BY <4>3, SoundIsReadable, StoredWithFrame
      <4>5. QED
        BY <2>3, <2>5, <3>2, <4>4
    <3>3. QED
      BY <3>1, <3>2
  <2>7. Promise!Stores(n)
    BY <2>1, <2>6 DEF Promise!Stores, Promise!Oldest, Pending
  <2>8. n \in 1..Len(Pending(logs))
    BY <2>2, <2>4
  <2>9. Promise!Store
    BY <2>5, <2>7, <2>8 DEF Promise!Store, Pending
  <2>10. QED
    BY <2>9 DEF Promise!Next
<1>7. CASE Crash
  <2>1. /\ logs' = <<>> /\ removed' = FALSE
        /\ Lands(Interrupted(op, frame, appending, file)
                   \cup Completed(op, frame, appending, file))
    BY <1>7 DEF Crash, Leave
  <2>2. Pending(logs') = <<>>
    <3>1. logs' \in Seq(Entry) /\ Len(logs') = 0
      BY <2>1, EmptySeq
    <3>2. Pending(logs') \in Seq(Nat) /\ Len(Pending(logs')) = 0
      BY <3>1, PendingType
    <3>3. QED
      BY <3>2, EmptySeq
  <2>3. \E n \in 0..Len(Pending(logs)) : Promise!Stores(n)
    BY <2>1, LandingStores
  <2>4. Promise!Crash
    BY <2>2, <2>3 DEF Promise!Crash, Pending
  <2>5. QED
    BY <2>4 DEF Promise!Next
<1>8. CASE DeleteFile
  <2>1. UNCHANGED logs /\ file' = EmptyFile /\ removed' \in BOOLEAN
    BY <1>8 DEF DeleteFile
  <2>2. Stored(file') = {}
    <3>1. Whole(file') = {}
      BY <2>1, EmptyFileType DEF Whole
    <3>2. QED
      BY <3>1 DEF Stored
  <2>3. Promise!Delete
    BY <2>1, <2>2 DEF Promise!Delete
  <2>4. QED
    BY <2>3 DEF Promise!Next
<1>9. CASE LateEffect
  BY <1>9
<1>10. QED
  BY <1>2, <1>3, <1>4, <1>5, <1>6, <1>7, <1>8, <1>9 DEF Next

(* Every behaviour of the queue, the attempts and the file is one EntryStore
   allows: entries are accepted, stored oldest first, stored again after a
   doubtful attempt, lost with the process, deleted with the file or stored in
   one that has been deleted meanwhile, and nothing else ever happens to them. *)
THEOREM ImplementsStore == ASSUME Mild PROVE Spec => ImplementsEntryStore
<1>1. Init => Promise!Init
  BY InitPromise
<1>2. IInv /\ OrderInv /\ [Next]_vars => [Promise!Next]_(Promise!vars)
  BY MildIsCalm, StepPromise DEF Promise!vars, Pending
<1>3. QED
  BY <1>1, <1>2, OrderInvariance, PTL DEF Spec, ImplementsEntryStore, Promise!Spec

----------------------------------------------------------------------------
(* What the queue owes *)

(* An attempt begins and ends with entries in the queue, and only the write
   that takes the last one, or the death of the process, empties it: then the
   count goes too. *)
QueueOwes ==
  /\ op # "idle" => logs # <<>>
  /\ logs = <<>> => dropped_logs = 0

LEMMA StepOwes ==
  ASSUME Calm, Sound, OrderInv, QueueOwes, [Next]_vars, ~LateEffect
  PROVE  QueueOwes'
<1> USE DEF vars, queue, flags, attempt, ledger, history, QueueOwes
<1>1. ASSUME NEW len \in Sizes, AddToLog(len) PROVE QueueOwes'
  <2> DEFINE e == [id |-> accepted + 1, len |-> len]
             q == Append(logs, e)
  <2>1. logs \in Seq(Entry) /\ e \in Entry
    BY LogFileAssumption DEF Sound, TypeOK, LogFileAssumption, Entry
  <2>2. q \in Seq(Entry) /\ Len(q) = Len(logs) + 1 /\ Len(logs) \in Nat
    BY <2>1, AppendProperties, LenProperties
  <2>3. PICK k \in 0..Len(logs) : logs' = SubSeq(q, k + 1, Len(q))
    BY <1>1, AddedIsYoungest
  <2> HIDE DEF q
  <2>4. k \in 0..Len(q) /\ Len(q) - k > 0
    BY <2>2
  <2>5. Len(logs') = Len(q) - k
    BY <2>2, <2>3, <2>4, QueueRest
  <2>6. logs' # <<>>
    BY <2>4, <2>5, EmptySeq
  <2>7. QED
    BY <2>6
<1>2. CASE FlushIntervalElapses \/ WriteReturnsEarly \/ DeleteFile \/ UNCHANGED vars
  BY <1>2 DEF FlushIntervalElapses, WriteReturnsEarly, DeleteFile
<1>3. CASE \E forced \in BOOLEAN : BeginWrite(forced)
  BY <1>3 DEF BeginWrite
<1>4. CASE Stat \/ CutInterruptedTail \/ OpenAppend \/ CreateFile \/ WriteMagic \/ WritePrefix
  BY <1>4 DEF Stat, CutInterruptedTail, OpenAppend, CreateFile, WriteMagic, WritePrefix
<1>5. CASE WritePayload
  BY <1>5 DEF WritePayload, Confirm, ConfirmDraining, Leave
<1>6. CASE WriteFails \/ WriteTimesOut
  BY <1>6 DEF WriteFails, WriteTimesOut, NoteFailure, Leave
<1>7. CASE Crash
  BY <1>7 DEF Crash, Leave
<1>8. CASE LateEffect
  BY <1>8
<1>9. QED
  BY <1>1, <1>2, <1>3, <1>4, <1>5, <1>6, <1>7, <1>8 DEF Next

(* When clean_up finds the queue empty and forgets the LogFile, no count of
   dropped entries goes with it. *)
THEOREM EmptyQueueNeverOwes == ASSUME Mild PROVE Spec => []EmptyQueueOwesNothing
<1>1. Init => QueueOwes
  BY DEF Init, QueueOwes
<1>2. IInv /\ OrderInv /\ QueueOwes /\ [Next]_vars => QueueOwes'
  BY MildIsCalm, StepOwes
<1>3. QueueOwes => EmptyQueueOwesNothing
  BY DEF QueueOwes, EmptyQueueOwesNothing
<1>4. QED
  BY <1>1, <1>2, <1>3, OrderInvariance, PTL DEF Spec
----------------------------------------------------------------------------
(* The byte count *)

Lengths(q) == [i \in DOMAIN q |-> q[i].len]

LEMMA LengthsType ==
  ASSUME NEW q \in Seq(Entry)
  PROVE  Lengths(q) \in Seq(Nat) /\ Len(Lengths(q)) = Len(q)
<1>1. DOMAIN q = 1..Len(q) /\ Len(q) \in Nat /\ \A i \in 1..Len(q) : q[i] \in Entry
  BY LenProperties, ElementOfSeq
<1>2. Lengths(q) \in [1..Len(q) -> Nat]
  BY <1>1 DEF Lengths, Entry
<1>3. QED
  BY <1>1, <1>2 DEF Lengths

LEMMA BytesNat ==
  ASSUME NEW q \in Seq(Entry)
  PROVE  Bytes(q) \in Nat
BY LengthsType, SeqSumNat DEF Bytes, Lengths

LEMMA BytesAppend ==
  ASSUME NEW q \in Seq(Entry), NEW e \in Entry
  PROVE  Bytes(Append(q, e)) = Bytes(q) + e.len
<1>1. Lengths(q) \in Seq(Nat) /\ Len(Lengths(q)) = Len(q) /\ e.len \in Nat
  BY LengthsType DEF Entry
<1>2. SumFunction(Append(Lengths(q), e.len)) = SumFunction(Lengths(q)) + e.len
  BY <1>1, SeqSumAppend
<1>3. Lengths(Append(q, e)) = Append(Lengths(q), e.len)
  <2>1. /\ Append(q, e) \in Seq(Entry) /\ Len(Append(q, e)) = Len(q) + 1 /\ Len(q) \in Nat
        /\ \A i \in 1..Len(q) : Append(q, e)[i] = q[i]
        /\ Append(q, e)[Len(q) + 1] = e
    BY AppendProperties, LenProperties
  <2>2. Lengths(Append(q, e)) \in Seq(Nat) /\ Len(Lengths(Append(q, e))) = Len(q) + 1
    BY <2>1, LengthsType
  <2>3. /\ Append(Lengths(q), e.len) \in Seq(Nat)
        /\ Len(Append(Lengths(q), e.len)) = Len(q) + 1
        /\ \A i \in 1..Len(q) : Append(Lengths(q), e.len)[i] = Lengths(q)[i]
        /\ Append(Lengths(q), e.len)[Len(q) + 1] = e.len
    BY <1>1, AppendProperties
  <2>4. DOMAIN q = 1..Len(q) /\ DOMAIN Append(q, e) = 1..(Len(q) + 1)
    BY <2>1, LenProperties
  <2>5. \A i \in 1..(Len(q) + 1) : Lengths(Append(q, e))[i] = Append(Lengths(q), e.len)[i]
    <3>1. \A i \in 1..(Len(q) + 1) : Lengths(Append(q, e))[i] = Append(q, e)[i].len
      BY <2>4 DEF Lengths
    <3>2. \A i \in 1..Len(q) : Lengths(q)[i] = q[i].len
      BY <2>4 DEF Lengths
    <3>3. \A i \in 1..(Len(q) + 1) : i \in 1..Len(q) \/ i = Len(q) + 1
      BY <2>1
    <3>4. QED
      BY <2>1, <2>3, <3>1, <3>2, <3>3
  <2>6. QED
    BY <2>2, <2>3, <2>5, SeqEqual
<1>4. QED
  BY <1>2, <1>3 DEF Bytes, Lengths

LEMMA BytesSplit ==
  ASSUME NEW q \in Seq(Entry), NEW k \in 0..Len(q)
  PROVE  /\ Bytes(SubSeq(q, 1, k)) \in Nat /\ Bytes(SubSeq(q, k + 1, Len(q))) \in Nat
         /\ Bytes(q) = Bytes(SubSeq(q, 1, k)) + Bytes(SubSeq(q, k + 1, Len(q)))
<1> DEFINE w == Lengths(q)
<1>1. w \in Seq(Nat) /\ Len(w) = Len(q) /\ k \in 0..Len(w) /\ Len(q) \in Nat
  BY LengthsType, LenProperties
<1>2. SumFunction(w) = SumFunction(SubSeq(w, 1, k)) + SumFunction(SubSeq(w, k + 1, Len(w)))
  BY <1>1, SeqSumSplit
<1>3. /\ SubSeq(q, 1, k) \in Seq(Entry) /\ SubSeq(q, k + 1, Len(q)) \in Seq(Entry)
      /\ Len(SubSeq(q, 1, k)) = k /\ Len(SubSeq(q, k + 1, Len(q))) = Len(q) - k
      /\ \A i \in 1..k : SubSeq(q, 1, k)[i] = q[i]
      /\ \A i \in 1..(Len(q) - k) : SubSeq(q, k + 1, Len(q))[i] = q[k + i]
  BY QueueRest
<1>4. DOMAIN q = 1..Len(q) /\ \A i \in 1..Len(q) : w[i] = q[i].len /\ w[i] \in Nat
  BY <1>1, LenProperties DEF Lengths, Entry
<1> HIDE DEF w
<1>5. Lengths(SubSeq(q, 1, k)) = SubSeq(w, 1, k)
  <2>1. DOMAIN SubSeq(q, 1, k) = 1..k
    BY <1>1, <1>3, LenProperties
  <2>2. /\ SubSeq(w, 1, k) \in Seq(Nat) /\ Len(SubSeq(w, 1, k)) = k
        /\ \A i \in 1..k : SubSeq(w, 1, k)[i] = w[i]
    BY <1>1, <1>4
  <2>3. \A i \in 1..k : Lengths(SubSeq(q, 1, k))[i] = SubSeq(w, 1, k)[i]
    BY <1>1, <1>3, <1>4, <2>1, <2>2 DEF Lengths
  <2>4. Lengths(SubSeq(q, 1, k)) \in Seq(Nat) /\ Len(Lengths(SubSeq(q, 1, k))) = k
    BY <1>3, LengthsType
  <2>5. QED
    BY <2>2, <2>3, <2>4, SeqEqual
<1>6. Lengths(SubSeq(q, k + 1, Len(q))) = SubSeq(w, k + 1, Len(w))
  <2>1. DOMAIN SubSeq(q, k + 1, Len(q)) = 1..(Len(q) - k)
    BY <1>1, <1>3, LenProperties
  <2>2. /\ SubSeq(w, k + 1, Len(w)) \in Seq(Nat) /\ Len(SubSeq(w, k + 1, Len(w))) = Len(q) - k
        /\ \A i \in 1..(Len(q) - k) : SubSeq(w, k + 1, Len(w))[i] = w[k + i]
    BY <1>1, <1>4
  <2>3. \A i \in 1..(Len(q) - k) : Lengths(SubSeq(q, k + 1, Len(q)))[i] = SubSeq(w, k + 1, Len(w))[i]
    <3>1. \A i \in 1..(Len(q) - k) : k + i \in 1..Len(q)
      BY <1>1
    <3>2. QED
      BY <1>3, <1>4, <2>1, <2>2, <3>1 DEF Lengths
  <2>4. Lengths(SubSeq(q, k + 1, Len(q))) \in Seq(Nat) /\ Len(Lengths(SubSeq(q, k + 1, Len(q)))) = Len(q) - k
    BY <1>3, LengthsType
  <2>5. QED
    BY <2>2, <2>3, <2>4, SeqEqual
<1>7. /\ Bytes(q) = SumFunction(w) /\ Bytes(SubSeq(q, 1, k)) = SumFunction(Lengths(SubSeq(q, 1, k)))
      /\ Bytes(SubSeq(q, k + 1, Len(q))) = SumFunction(Lengths(SubSeq(q, k + 1, Len(q))))
  BY DEF Bytes, Lengths, w
<1>8. Bytes(SubSeq(q, 1, k)) \in Nat /\ Bytes(SubSeq(q, k + 1, Len(q))) \in Nat
  BY <1>3, BytesNat
<1>9. QED
  BY <1>2, <1>5, <1>6, <1>7, <1>8

(* What the queue holds beyond its front fits if the whole did, unless one
   entry alone is above the cap; and then taking it empties the queue. *)
LEMMA AddWithinCap ==
  ASSUME NEW len \in Sizes, TypeOK, QueueWithinCap, AddToLog(len)
  PROVE  QueueWithinCap'
<1> DEFINE e == [id |-> accepted + 1, len |-> len]
           q == Append(logs, e)
           bytes == queued_bytes + len
<1>1. /\ logs \in Seq(Entry) /\ e \in Entry /\ accepted \in Nat /\ len \in Nat
      /\ QueueMaxBytes \in Nat
  BY LogFileAssumption DEF TypeOK, LogFileAssumption, Entry
<1>2. /\ q \in Seq(Entry) /\ Len(q) = Len(logs) + 1 /\ Len(logs) \in Nat
      /\ q[Len(q)] = e
  BY <1>1, AppendProperties, LenProperties
<1>3. bytes = Bytes(q) /\ Bytes(q) \in Nat
  <2>1. Bytes(q) = Bytes(logs) + e.len
    BY <1>1, BytesAppend
  <2>2. QED
    BY <1>2, <2>1, BytesNat DEF QueueWithinCap
<1>4. PICK k \in 0..(Len(q) - 1) :
        /\ Evicts(q, bytes, k)
        /\ logs' = SubSeq(q, k + 1, Len(q))
        /\ queued_bytes' = bytes - Bytes(SubSeq(q, 1, k))
  BY DEF AddToLog
<1>5. accepted' = accepted + 1
  BY DEF AddToLog
<1>6. e.id = accepted + 1
  OBVIOUS
<1> HIDE DEF q, bytes, e
<1>7. k \in 0..Len(q) /\ Len(q) - k > 0 /\ Len(q) \in Nat /\ k \in Nat
  BY <1>2
<1>8. /\ Bytes(SubSeq(q, 1, k)) \in Nat /\ Bytes(logs') \in Nat
      /\ Bytes(q) = Bytes(SubSeq(q, 1, k)) + Bytes(logs')
  BY <1>2, <1>4, <1>7, BytesSplit
<1>9. queued_bytes' = Bytes(logs')
  BY <1>3, <1>4, <1>8
<1>10. /\ logs' \in Seq(Entry) /\ Len(logs') = Len(q) - k
       /\ \A i \in 1..(Len(q) - k) : logs'[i] = q[k + i]
  BY <1>2, <1>4, <1>7, QueueRest
<1>11. queued_bytes' <= QueueMaxBytes \/ Len(logs') = 1
  <2>1. queued_bytes' <= QueueMaxBytes \/ k = Len(q) - 1
    BY <1>4 DEF Evicts, Fits
  <2>2. QED
    BY <1>7, <1>10, <2>1
<1>12. logs'[Len(logs')] = e
  <2>1. Len(q) - k \in 1..(Len(q) - k) /\ k + (Len(q) - k) = Len(q)
    BY <1>7
  <2>2. QED
    BY <1>2, <1>10, <2>1
<1>13. (Bytes(logs))' = Bytes(logs')
  BY DEF Bytes
<1>14. QED
  BY <1>5, <1>6, <1>9, <1>11, <1>12, <1>13 DEF QueueWithinCap

LEMMA DrainWithinCap ==
  ASSUME TypeOK, QueueWithinCap, NEW n \in 1..Len(logs), ConfirmDraining(n),
         accepted' = accepted
  PROVE  QueueWithinCap'
<1>1. /\ logs \in Seq(Entry) /\ Len(logs) \in Nat /\ n \in 0..Len(logs)
      /\ QueueMaxBytes \in Nat
  BY LogFileAssumption, LenProperties DEF TypeOK, LogFileAssumption
<1>2. logs' = SubSeq(logs, n + 1, Len(logs)) /\ queued_bytes' = queued_bytes - Bytes(SubSeq(logs, 1, n))
  BY DEF ConfirmDraining
<1>3. /\ Bytes(SubSeq(logs, 1, n)) \in Nat /\ Bytes(logs') \in Nat
      /\ Bytes(logs) = Bytes(SubSeq(logs, 1, n)) + Bytes(logs')
  BY <1>1, <1>2, BytesSplit
<1>4. queued_bytes' = Bytes(logs')
  BY <1>1, <1>2, <1>3, BytesNat DEF QueueWithinCap
<1>5. /\ logs' \in Seq(Entry) /\ Len(logs') = Len(logs) - n
      /\ \A i \in 1..(Len(logs) - n) : logs'[i] = logs[n + i]
  BY <1>1, <1>2, QueueRest
<1>6. queued_bytes' <= QueueMaxBytes \/ Len(logs') = 1
  <2>1. CASE queued_bytes <= QueueMaxBytes
    BY <1>1, <1>3, <1>4, <2>1, BytesNat DEF QueueWithinCap
  <2>2. CASE Len(logs) = 1
    <3>1. Len(logs') = 0
      BY <1>1, <1>5, <2>2
    <3>2. logs' = <<>>
      BY <1>5, <3>1, EmptySeq
    <3>3. Bytes(logs') = 0
      <4>1. [i \in DOMAIN logs' |-> logs'[i].len] = <<>>
        BY <3>2
      <4>2. QED
        BY <4>1, SeqSumEmpty DEF Bytes
    <3>4. QED
      BY <1>1, <1>4, <3>3
  <2>3. QED
    BY <2>1, <2>2 DEF QueueWithinCap
<1>7. logs' # <<>> => logs'[Len(logs')] = logs[Len(logs)]
  <2> SUFFICES ASSUME logs' # <<>> PROVE logs'[Len(logs')] = logs[Len(logs)]
    OBVIOUS
  <2>1. Len(logs') # 0
    BY <1>5, EmptySeq
  <2>2. Len(logs) - n \in 1..(Len(logs) - n) /\ n + (Len(logs) - n) = Len(logs)
    BY <1>1, <1>5, <2>1
  <2>3. QED
    BY <1>5, <2>2
<1>8. logs # <<>>
  BY <1>1, EmptySeq
<1>9. (Bytes(logs))' = Bytes(logs')
  BY DEF Bytes
<1>10. QED
  BY <1>4, <1>6, <1>7, <1>8, <1>9 DEF QueueWithinCap

LEMMA StepWithinCap ==
  ASSUME Calm, Sound, QueueWithinCap, [Next]_vars, ~LateEffect
  PROVE  QueueWithinCap'
<1> USE DEF vars, queue, flags, attempt, ledger, history
<1>1. CASE \E len \in Sizes : AddToLog(len)
  BY <1>1, AddWithinCap DEF Sound
<1>2. CASE WritePayload
  <2>1. Len(frame.logs) \in 1..Len(logs)
    BY <1>2, FramedFront DEF WritePayload
  <2>2. ConfirmDraining(Len(frame.logs)) /\ accepted' = accepted
    BY <1>2 DEF WritePayload, Confirm
  <2>3. QED
    BY <2>1, <2>2, DrainWithinCap DEF Sound
<1>3. CASE Crash
  <2>1. logs' = <<>> /\ queued_bytes' = 0
    BY <1>3 DEF Crash
  <2>2. [i \in DOMAIN logs' |-> logs'[i].len] = <<>>
    BY <2>1
  <2>3. (Bytes(logs))' = 0
    BY <2>2, SeqSumEmpty DEF Bytes
  <2>4. QED
    BY <2>1, <2>3, LogFileAssumption DEF QueueWithinCap, LogFileAssumption
<1>4. ASSUME UNCHANGED <<logs, queued_bytes, accepted>> PROVE QueueWithinCap'
  BY <1>4 DEF QueueWithinCap, Bytes
<1>5. CASE FlushIntervalElapses \/ WriteReturnsEarly \/ DeleteFile \/ LateEffect \/ UNCHANGED vars
  BY <1>4, <1>5 DEF FlushIntervalElapses, WriteReturnsEarly, DeleteFile, LateEffect
<1>6. CASE \E forced \in BOOLEAN : BeginWrite(forced)
  BY <1>4, <1>6 DEF BeginWrite
<1>7. CASE Stat \/ CutInterruptedTail \/ OpenAppend \/ CreateFile \/ WriteMagic \/ WritePrefix
  BY <1>4, <1>7 DEF Stat, CutInterruptedTail, OpenAppend, CreateFile, WriteMagic, WritePrefix
<1>8. CASE WriteFails \/ WriteTimesOut
  BY <1>4, <1>8 DEF WriteFails, WriteTimesOut, NoteFailure, Leave
<1>9. QED
  BY <1>1, <1>2, <1>3, <1>5, <1>6, <1>7, <1>8 DEF Next

(* The byte count is the sum over the queue, whatever was added, evicted,
   drained and kept for a retry: so it never underflows, and only a single
   entry exceeds the cap.  The invariant is inductive given that a frame is
   the front of the queue. *)
THEOREM QueueStaysWithinCap == ASSUME Mild PROVE Spec => []QueueWithinCap
<1>1. Init => QueueWithinCap
  <2> SUFFICES ASSUME Init PROVE QueueWithinCap
    OBVIOUS
  <2>1. logs = <<>> /\ queued_bytes = 0
    BY DEF Init
  <2>2. [i \in DOMAIN logs |-> logs[i].len] = <<>>
    BY <2>1
  <2>3. QED
    BY <2>1, <2>2, SeqSumEmpty, LogFileAssumption DEF QueueWithinCap, Bytes, LogFileAssumption
<1>2. IInv /\ QueueWithinCap /\ [Next]_vars => QueueWithinCap'
  BY MildIsCalm, StepWithinCap
<1>3. QED
  BY <1>1, <1>2, Invariance, PTL DEF Spec

----------------------------------------------------------------------------
(* The count of evicted entries *)

Notices(fl) == [i \in DOMAIN fl.blocks |-> fl.blocks[i].frame.notice]
Reported(fl) == SumFunctionOnSet(Notices(fl), Whole(fl))

LEMMA NoticesType ==
  ASSUME NEW fl \in File
  PROVE  IsFiniteSet(Whole(fl)) /\ \A i \in Whole(fl) : Notices(fl)[i] \in Nat
<1>1. DOMAIN fl.blocks = 1..Len(fl.blocks) /\ Len(fl.blocks) \in Int
  BY LenProperties DEF File
<1>2. \A i \in DOMAIN fl.blocks : fl.blocks[i] \in Block
  BY <1>1, ElementOfSeq DEF File
<1>3. IsFiniteSet(DOMAIN fl.blocks)
  BY <1>1, FS_Interval
<1>4. Whole(fl) \in SUBSET DOMAIN fl.blocks
  BY DEF Whole
<1>5. IsFiniteSet(Whole(fl))
  BY <1>3, <1>4, FS_Subset
<1>6. QED
  BY <1>2, <1>4, <1>5 DEF Notices, Block, Frame

LEMMA ReportedNat ==
  ASSUME NEW fl \in File
  PROVE  Reported(fl) \in Nat
BY NoticesType, SumNat DEF Reported

LEMMA ReportedSame ==
  ASSUME NEW fl \in File, NEW fl2 \in File, SameWhole(fl, fl2)
  PROVE  Reported(fl2) = Reported(fl)
<1>1. Whole(fl2) = Whole(fl) /\ \A i \in Whole(fl) : fl2.blocks[i] = fl.blocks[i]
  BY DEF SameWhole
<1>2. \A i \in Whole(fl) : i \in DOMAIN fl.blocks /\ i \in DOMAIN fl2.blocks
  BY <1>1 DEF Whole
<1>3. \A i \in Whole(fl) : Notices(fl)[i] \in Nat /\ Notices(fl2)[i] = Notices(fl)[i]
  BY <1>1, <1>2, NoticesType DEF Notices
<1>4. IsFiniteSet(Whole(fl))
  BY NoticesType
<1>5. SumFunctionOnSet(Notices(fl2), Whole(fl)) = SumFunctionOnSet(Notices(fl), Whole(fl))
  BY <1>3, <1>4, SumSame
<1>6. QED
  BY <1>1, <1>5 DEF Reported

LEMMA ReportedWithFrame ==
  ASSUME NEW fl \in File, NEW fl2 \in File, NEW f \in Frame, LastBecomesWhole(fl, fl2, f)
  PROVE  Reported(fl2) = Reported(fl) + f.notice
<1> DEFINE n == Len(fl.blocks)
<1>1. /\ Whole(fl2) = Whole(fl) \cup {n} /\ fl2.blocks[n].frame = f
      /\ \A i \in Whole(fl) : i < n /\ fl2.blocks[i] = fl.blocks[i]
  BY DEF LastBecomesWhole
<1>2. n \in Nat
  BY LenProperties DEF File
<1> HIDE DEF n
<1>3. n \notin Whole(fl)
  BY <1>1, <1>2
<1>4. /\ \A i \in Whole(fl) : i \in DOMAIN fl.blocks
      /\ \A i \in Whole(fl2) : i \in DOMAIN fl2.blocks
  BY DEF Whole
<1>5. /\ IsFiniteSet(Whole(fl)) /\ \A i \in Whole(fl) : Notices(fl)[i] \in Nat
      /\ IsFiniteSet(Whole(fl2)) /\ \A i \in Whole(fl2) : Notices(fl2)[i] \in Nat
  BY NoticesType
<1>6. Notices(fl2)[n] = f.notice /\ n \in Whole(fl2) /\ f.notice \in Nat
  BY <1>1, <1>4 DEF Notices, Frame
<1>7. /\ SumFunctionOnSet(Notices(fl2), Whole(fl2) \ {n}) \in Nat
      /\ SumFunctionOnSet(Notices(fl2), Whole(fl2))
           = Notices(fl2)[n] + SumFunctionOnSet(Notices(fl2), Whole(fl2) \ {n})
  BY <1>5, <1>6, SumPick
<1>8. Whole(fl2) \ {n} = Whole(fl)
  BY <1>1, <1>3
<1>9. \A i \in Whole(fl) : Notices(fl)[i] \in Nat /\ Notices(fl2)[i] = Notices(fl)[i]
  BY <1>1, <1>4, <1>5 DEF Notices
<1>10. SumFunctionOnSet(Notices(fl2), Whole(fl)) = SumFunctionOnSet(Notices(fl), Whole(fl))
  BY <1>5, <1>9, SumSame
<1>11. SumFunctionOnSet(Notices(fl2), Whole(fl2) \ {n}) = SumFunctionOnSet(Notices(fl2), Whole(fl))
  BY <1>8
<1>12. SumFunctionOnSet(Notices(fl2), Whole(fl2)) = SumFunctionOnSet(Notices(fl), Whole(fl)) + f.notice
  BY <1>6, <1>7, <1>10, <1>11
<1>13. QED
  BY <1>12 DEF Reported

(* The notice in hand is the count that is owed: nothing is added while an
   attempt is under way. *)
NoticeIsTheCount == op \in {"prefix", "payload"} => frame.notice = dropped_logs

EvictionsInv == EvictionsReported /\ NoticeIsTheCount

LEMMA NoFewerReported ==
  ASSUME NEW fl \in File, NEW fl2 \in File, NEW f,
         SameWhole(fl, fl2) \/ (f \in Frame /\ LastBecomesWhole(fl, fl2, f))
  PROVE  Reported(fl2) \in Nat /\ Reported(fl) \in Nat /\ Reported(fl) <= Reported(fl2)
<1>1. Reported(fl2) \in Nat /\ Reported(fl) \in Nat
  BY ReportedNat
<1>2. CASE SameWhole(fl, fl2)
  BY <1>1, <1>2, ReportedSame
<1>3. CASE f \in Frame /\ LastBecomesWhole(fl, fl2, f)
  <2>1. f.notice \in Nat
    BY <1>3 DEF Frame
  <2>2. Reported(fl2) = Reported(fl) + f.notice
    BY <1>3, ReportedWithFrame
  <2>3. QED
    BY <1>1, <2>1, <2>2
<1>4. QED
  BY <1>2, <1>3

(* Whatever an operation of the attempt leaves, complete or not, a reader
   finds no fewer reported than before. *)
LEMMA AttemptReports ==
  ASSUME Calm, Sound, NEW files, Lands(files),
         files \subseteq Interrupted(op, frame, appending, file)
                           \cup Completed(op, frame, appending, file)
  PROVE  /\ Reported(file') \in Nat /\ Reported(file) \in Nat
         /\ Reported(file) <= Reported(file')
<1>1. /\ file' \in File /\ file \in File
      /\ SameWhole(file, file') \/ (op = "payload" /\ LastBecomesWhole(file, file', frame))
  BY LandingKeepsFile DEF Sound, TypeOK
<1>2. op = "payload" => frame \in Frame
  BY DEF Sound, TypeOK
<1>3. QED
  BY <1>1, <1>2, NoFewerReported

LEMMA StepReported ==
  ASSUME Calm, Sound, EvictionsInv, [Next]_vars, ~LateEffect
  PROVE  EvictionsInv'
<1> USE DEF vars, queue, flags, attempt, ledger, history
<1>0. /\ dropped_logs \in Nat /\ evictions \in Int /\ Reported(file) \in Nat
      /\ evictions <= dropped_logs + Reported(file)
  BY ReportedNat DEF Sound, TypeOK, EvictionsInv, EvictionsReported, Reported, Notices
<1>1. ASSUME evictions' <= dropped_logs' + Reported(file') PROVE EvictionsReported'
  BY <1>1 DEF EvictionsReported, Reported, Notices
<1>2. ASSUME UNCHANGED <<dropped_logs, evictions, file>> PROVE EvictionsReported'
  BY <1>0, <1>1, <1>2
<1>3. ASSUME UNCHANGED <<dropped_logs, evictions>>, NEW files, Lands(files),
             files \subseteq Interrupted(op, frame, appending, file)
                               \cup Completed(op, frame, appending, file)
      PROVE  EvictionsReported'
  <2>1. Reported(file') \in Nat /\ Reported(file) <= Reported(file')
    BY <1>3, AttemptReports
  <2>2. QED
    BY <1>0, <1>1, <1>3, <2>1
<1>4. CASE \E len \in Sizes : AddToLog(len)
  <2>1. PICK len \in Sizes : AddToLog(len)
    BY <1>4
  <2>2. PICK k \in Nat : dropped_logs' = dropped_logs + k /\ evictions' = evictions + k
    BY <2>1 DEF AddToLog
  <2>3. UNCHANGED <<op, frame, file>> /\ op = "idle"
    BY <2>1 DEF AddToLog
  <2>4. EvictionsReported'
    BY <1>0, <1>1, <2>2, <2>3
  <2>5. QED
    BY <2>3, <2>4 DEF EvictionsInv, NoticeIsTheCount
<1>5. CASE FlushIntervalElapses \/ WriteReturnsEarly \/ UNCHANGED vars
  BY <1>2, <1>5 DEF FlushIntervalElapses, WriteReturnsEarly, EvictionsInv, NoticeIsTheCount
<1>6. CASE \E forced \in BOOLEAN : BeginWrite(forced)
  BY <1>2, <1>6 DEF BeginWrite, EvictionsInv, NoticeIsTheCount
<1>7. CASE Stat
  BY <1>2, <1>7 DEF Stat, EvictionsInv, NoticeIsTheCount
<1>8. CASE OpenAppend
  BY <1>2, <1>8 DEF OpenAppend, EncodeFrame, EvictionsInv, NoticeIsTheCount
<1>9. CASE CutInterruptedTail \/ CreateFile
  <2>1. op' \in {"open", "magic"} /\ UNCHANGED <<dropped_logs, evictions>>
    BY <1>9 DEF CutInterruptedTail, CreateFile
  <2>2. Lands(Completed(op, frame, appending, file))
    BY <1>9 DEF CutInterruptedTail, CreateFile, Lands, Sound, FileFitsAttempt
  <2>3. QED
    BY <1>3, <2>1, <2>2 DEF EvictionsInv, NoticeIsTheCount
<1>10. CASE WriteMagic
  <2>1. UNCHANGED <<dropped_logs, evictions>> /\ frame'.notice = dropped_logs
    BY <1>10 DEF WriteMagic, EncodeFrame
  <2>2. Lands(Completed(op, frame, appending, file))
    BY <1>10 DEF WriteMagic
  <2>3. QED
    BY <1>3, <2>1, <2>2 DEF EvictionsInv, NoticeIsTheCount
<1>11. CASE WritePrefix
  <2>1. UNCHANGED <<dropped_logs, evictions, frame>> /\ op = "prefix"
    BY <1>11 DEF WritePrefix
  <2>2. Lands(Completed(op, frame, appending, file))
    BY <1>11 DEF WritePrefix
  <2>3. QED
    BY <1>3, <2>1, <2>2 DEF EvictionsInv, NoticeIsTheCount
<1>12. CASE WritePayload
  <2>1. op = "payload" /\ op' = "idle" /\ dropped_logs' = 0
    BY <1>12 DEF WritePayload, Confirm, ConfirmDraining, Leave
  <2>2. EvictionsReported'
    <3>1. CASE removed
      <4>1. evictions' = evictions - dropped_logs /\ file' = file
        BY <1>12, <3>1 DEF WritePayload, GoneIfRemoved, Lands
      <4>2. QED
        BY <1>0, <1>1, <2>1, <4>1
    <3>2. CASE ~removed
      <4>1. evictions' = evictions /\ file' = PutPayload(file, frame, appending, "whole")
        BY <1>12, <3>2 DEF WritePayload, GoneIfRemoved, Lands, Completed
      <4>2. /\ EndsInPrefix(file, frame, appending) /\ frame \in Frame
            /\ appending \in BOOLEAN /\ file \in File
        BY <2>1, <3>2 DEF Sound, TypeOK, FileFitsAttempt
      <4>3. LastBecomesWhole(file, file', frame) /\ file' \in File
        BY <4>1, <4>2, PayloadLands
      <4>4. Reported(file') = Reported(file) + frame.notice
        BY <4>2, <4>3, ReportedWithFrame
      <4>5. frame.notice = dropped_logs
        BY <2>1 DEF EvictionsInv, NoticeIsTheCount
      <4>6. QED
        BY <1>0, <1>1, <2>1, <4>1, <4>4, <4>5
    <3>3. QED
      BY <3>1, <3>2
  <2>3. QED
    BY <2>1, <2>2 DEF EvictionsInv, NoticeIsTheCount
<1>13. CASE WriteFails
  <2>1. op' = "idle" /\ UNCHANGED <<dropped_logs, evictions>>
    BY <1>13 DEF WriteFails, NoteFailure, Leave
  <2>2. Lands(Interrupted(op, frame, appending, file))
    BY <1>13 DEF WriteFails
  <2>3. QED
    BY <1>3, <2>1, <2>2 DEF EvictionsInv, NoticeIsTheCount
<1>14. CASE WriteTimesOut
  <2>1. op' = "idle" /\ UNCHANGED <<dropped_logs, evictions>>
    BY <1>14 DEF WriteTimesOut, NoteFailure, Leave
  <2>2. Lands(Interrupted(op, frame, appending, file) \cup Completed(op, frame, appending, file))
    BY <1>14, NothingMayLand DEF WriteTimesOut, Lands
  <2>3. QED
    BY <1>3, <2>1, <2>2 DEF EvictionsInv, NoticeIsTheCount
<1>15. CASE LateEffect
  BY <1>15
<1>16. CASE Crash
  <2>1. op' = "idle" /\ dropped_logs' = 0 /\ evictions' = evictions - dropped_logs
    BY <1>16 DEF Crash, Leave
  <2>2. Lands(Interrupted(op, frame, appending, file) \cup Completed(op, frame, appending, file))
    BY <1>16 DEF Crash
  <2>3. Reported(file') \in Nat /\ Reported(file) <= Reported(file')
    BY <2>2, AttemptReports
  <2>4. EvictionsReported'
    BY <1>0, <1>1, <2>1, <2>3
  <2>5. QED
    BY <2>1, <2>4 DEF EvictionsInv, NoticeIsTheCount
<1>17. CASE DeleteFile
  <2>1. /\ UNCHANGED <<op, frame, dropped_logs>> /\ evictions' = dropped_logs
        /\ file' = EmptyFile
    BY <1>17 DEF DeleteFile
  <2>2. Reported(file') \in Nat
    BY <2>1, EmptyFileType, ReportedNat
  <2>3. EvictionsReported'
    BY <1>0, <1>1, <2>1, <2>2
  <2>4. QED
    BY <2>1, <2>3 DEF EvictionsInv, NoticeIsTheCount
<1>18. QED
  BY <1>4, <1>5, <1>6, <1>7, <1>8, <1>9, <1>10, <1>11, <1>12, <1>13, <1>14, <1>15, <1>16, <1>17
     DEF Next

(* Every eviction is in the count a queue still owes or in a notice of a
   whole frame, through any order of failed, timed out and repeated writes:
   the count is cleared only by the write that landed it. *)
THEOREM EvictionsEverReported == ASSUME Mild PROVE Spec => []EvictionsReported
<1>1. Init => EvictionsInv
  <2> SUFFICES ASSUME Init PROVE EvictionsInv
    OBVIOUS
  <2>1. Reported(file) \in Nat
    BY EmptyFileType, ReportedNat DEF Init
  <2>2. QED
    BY <2>1 DEF Init, EvictionsInv, EvictionsReported, NoticeIsTheCount, Reported, Notices
<1>2. IInv /\ EvictionsInv /\ [Next]_vars => EvictionsInv'
  BY MildIsCalm, StepReported
<1>3. EvictionsInv => EvictionsReported
  BY DEF EvictionsInv
<1>4. QED
  BY <1>1, <1>2, <1>3, Invariance, PTL DEF Spec

(***************************************************************************)
(* What WRITE_TIMEOUT's comment claims: an operation of a timed-out        *)
(* attempt that takes effect later hurts only by interleaving with a       *)
(* subsequent attempt.  Proved for every queue, file and number of         *)
(* entries; MCLogFile_settled checks it on a small instance.               *)
(***************************************************************************)

(* What holds of an operation left behind for as long as no attempt has
   begun: it finds the file as its attempt left it, the offset its tail check
   found is still the broken frame's, unless the file is gone, and the entries
   of its payload are among the doubtful ones. *)
StillFits(w) ==
  /\ w = [op |-> w.op, frame |-> w.frame, appending |-> w.appending, cut |-> w.cut]
  /\ w.op \in {"cut", "create", "magic", "prefix", "payload"}
  /\ w.appending \in BOOLEAN
  /\ \/ /\ FitsOperation(w.op, w.frame, w.appending, file)
        /\ w.op = "cut" => w.cut = FirstBroken(file.blocks)
     \/ w.op = "cut" /\ w.cut = {} /\ file = EmptyFile
  /\ w.op = "payload" =>
       /\ Ids(w.frame.logs) \subseteq doubtful
       /\ w.appending => ~w.frame.header
       /\ \A a \in Ids(w.frame.logs) :
            a <= accepted /\ \A e \in Ids(logs) : a < e \/ e \in doubtful

(* At most one operation is left behind, and then no attempt is under way
   and the next one will check the tail. *)
LeftBehind ==
  stuck # {} =>
    /\ op = "idle" /\ ~tail_verified
    /\ \E w : stuck = {w} /\ StillFits(w)

Settled == Sound /\ OrderInv /\ NoEntryVanishes /\ LeftBehind

LateInv == overlap \/ Settled

----------------------------------------------------------------------------
(* A step other than a late effect *)

LEMMA OverlapStays ==
  ASSUME [Next]_vars, overlap
  PROVE  overlap'
<1> USE DEF vars, queue, flags, attempt, ledger, history
<1>1. CASE \/ \E len \in Sizes : AddToLog(len)
           \/ FlushIntervalElapses \/ WriteReturnsEarly
           \/ (\E forced \in BOOLEAN : BeginWrite(forced)) \/ UNCHANGED vars
  BY <1>1 DEF AddToLog, FlushIntervalElapses, WriteReturnsEarly, BeginWrite
<1>2. CASE Stat \/ CutInterruptedTail \/ OpenAppend \/ CreateFile \/ WriteMagic \/ WritePrefix
  BY <1>2 DEF Stat, CutInterruptedTail, OpenAppend, CreateFile, WriteMagic, WritePrefix
<1>3. CASE \/ WritePayload \/ WriteFails \/ WriteTimesOut
           \/ LateEffect \/ Crash \/ DeleteFile
  BY <1>3 DEF WritePayload, WriteFails, WriteTimesOut, LateEffect, Crash, DeleteFile
<1>4. QED
  BY <1>1, <1>2, <1>3 DEF Next

(* An operation left behind still fits while entries are added and attempts
   return early. *)
LEMMA AddKeepsFitting ==
  ASSUME Sound, OrderInv, NEW w, StillFits(w), NEW len \in Sizes, AddToLog(len)
  PROVE  StillFits(w)'
<1>1. Ids(logs') \subseteq Ids(logs) \cup {accepted + 1}
  BY AddedIsYoungest
<1>2. accepted' = accepted + 1 /\ accepted \in Nat /\ UNCHANGED <<file, doubtful>>
  BY DEF AddToLog, Sound, TypeOK
<1>3. ASSUME w.op = "payload", NEW a \in Ids(w.frame.logs)
      PROVE  a <= accepted' /\ \A e \in Ids(logs') : a < e \/ e \in doubtful'
  <2>1. a \in Nat
    <3>1. w.frame.logs \in Seq(Entry)
      BY <1>3 DEF StillFits, FitsOperation, Frame
    <3>2. QED
      BY <3>1, IdsType
  <2>2. a <= accepted /\ \A e \in Ids(logs) : a < e \/ e \in doubtful
    BY <1>3 DEF StillFits
  <2>3. QED
    BY <1>1, <1>2, <2>1, <2>2
<1>4. QED
  BY <1>2, <1>3 DEF StillFits

(* A timeout leaves the operation behind as it found the file. *)
LEMMA TimedOutFits ==
  ASSUME Sound, OrderInv, op \notin {"idle", "stat", "open"}, ~removed,
         UNCHANGED <<logs, accepted, file>>,
         doubtful' = IF op = "payload" THEN doubtful \cup Ids(frame.logs) ELSE doubtful,
         NEW w, w = [op |-> op, frame |-> frame, appending |-> appending,
                     cut |-> IF op = "cut" THEN FirstBroken(file.blocks) ELSE {}]
  PROVE  StillFits(w)'
<1>1. /\ w.op = op /\ w.frame = frame /\ w.appending = appending
      /\ op = "cut" => w.cut = FirstBroken(file.blocks)
  OBVIOUS
<1>2. /\ op \in {"cut", "create", "magic", "prefix", "payload"} /\ appending \in BOOLEAN
      /\ FitsOperation(op, frame, appending, file)
  BY DEF Sound, TypeOK, FileFitsAttempt, FitsOperation
<1>3. ASSUME op = "payload"
      PROVE  /\ Ids(frame.logs) \subseteq doubtful'
             /\ appending => ~frame.header
             /\ \A a \in Ids(frame.logs) :
                  a <= accepted' /\ \A e \in Ids(logs') : a < e \/ e \in doubtful'
  <2>1. Ids(frame.logs) \subseteq doubtful'
    BY <1>3
  <2>2. appending => ~frame.header
    BY <1>3 DEF OrderInv, AppendedHasNoHeader
  <2>3. ASSUME NEW a \in Ids(frame.logs)
        PROVE  a <= accepted /\ \A e \in Ids(logs) : a < e \/ e \in doubtful'
    <3>1. a \in Ids(logs)
      BY <1>3, FramedFront
    <3>2. a <= accepted
      BY <3>1 DEF OrderInv, QueueInOrder, Ids
    <3>3. QED
      BY <1>3, <2>1, <3>2, FramedAreOlder
  <2>4. QED
    BY <2>1, <2>2, <2>3
<1>4. QED
  BY <1>1, <1>2, <1>3 DEF StillFits

LEMMA StepLeftBehind ==
  ASSUME Settled, [Next]_vars, ~LateEffect
  PROVE  overlap' \/ LeftBehind'
<1> USE DEF vars, queue, flags, attempt, ledger, history
<1>0. Sound /\ OrderInv /\ LeftBehind
  BY DEF Settled
<1>1. CASE stuck' = {}
  BY <1>1 DEF LeftBehind
<1>2. ASSUME stuck' = stuck, stuck # {}, op' = op, tail_verified' = tail_verified,
             \A w \in stuck : StillFits(w)'
      PROVE  LeftBehind'
  <2>1. PICK w : stuck = {w} /\ StillFits(w)
    BY <1>0, <1>2 DEF LeftBehind
  <2>2. op = "idle" /\ ~tail_verified
    BY <1>0, <1>2 DEF LeftBehind
  <2>3. stuck' = {w} /\ StillFits(w)'
    BY <1>2, <2>1
  <2>4. QED
    BY <1>2, <2>2, <2>3 DEF LeftBehind
<1>3. CASE stuck # {} /\ \E len \in Sizes : AddToLog(len)
  <2>1. PICK len \in Sizes : AddToLog(len)
    BY <1>3
  <2>2. UNCHANGED <<stuck, op, tail_verified>>
    BY <2>1 DEF AddToLog
  <2>3. PICK w : stuck = {w} /\ StillFits(w)
    BY <1>0, <1>3 DEF LeftBehind
  <2>4. StillFits(w)'
    BY <1>0, <2>1, <2>3, AddKeepsFitting
  <2>5. QED
    BY <1>2, <1>3, <2>2, <2>3, <2>4
<1>4. CASE stuck # {} /\ (FlushIntervalElapses \/ WriteReturnsEarly \/ UNCHANGED vars)
  <2>1. UNCHANGED <<stuck, op, tail_verified, logs, file, accepted, doubtful>>
    BY <1>4 DEF FlushIntervalElapses, WriteReturnsEarly
  <2>2. PICK w : stuck = {w} /\ StillFits(w)
    BY <1>0, <1>4 DEF LeftBehind
  <2>3. StillFits(w)'
    BY <2>1, <2>2 DEF StillFits
  <2>4. QED
    BY <1>2, <1>4, <2>1, <2>2, <2>3
<1>5. CASE \E forced \in BOOLEAN : BeginWrite(forced)
  BY <1>1, <1>5 DEF BeginWrite
<1>6. ASSUME op # "idle", stuck' = stuck PROVE LeftBehind'
  BY <1>0, <1>1, <1>6 DEF LeftBehind
<1>7. CASE Stat \/ CutInterruptedTail \/ OpenAppend \/ CreateFile \/ WriteMagic
           \/ WritePrefix \/ WritePayload \/ WriteFails
  <2>1. op # "idle" /\ stuck' = stuck
    BY <1>7 DEF Stat, CutInterruptedTail, OpenAppend, CreateFile, WriteMagic, WritePrefix,
                WritePayload, WriteFails
  <2>2. QED
    BY <1>6, <2>1
<1>8. CASE WriteTimesOut
  <2>1. CASE stuck' = stuck
    BY <1>6, <1>8, <2>1 DEF WriteTimesOut
  <2>2. CASE stuck' # stuck
    <3> DEFINE w == [op |-> op, frame |-> frame, appending |-> appending,
                     cut |-> IF op = "cut" THEN FirstBroken(file.blocks) ELSE {}]
    <3>1. /\ op \notin {"idle", "stat", "open"} /\ ~removed /\ stuck' = {w}
          /\ UNCHANGED <<logs, accepted, file>> /\ op' = "idle" /\ ~tail_verified'
          /\ doubtful' = IF op = "payload" THEN doubtful \cup Ids(frame.logs) ELSE doubtful
      BY <1>8, <2>2 DEF WriteTimesOut, NoteFailure, Leave
    <3>2. \E v : v = w /\ StillFits(v)'
      <4>1. PICK v : v = w
        OBVIOUS
      <4> HIDE DEF w
      <4>2. StillFits(v)'
        BY <1>0, <3>1, <4>1, TimedOutFits DEF w
      <4>3. QED
        BY <4>1, <4>2
    <3> HIDE DEF w
    <3>3. QED
      BY <3>1, <3>2 DEF LeftBehind
  <2>3. QED
    BY <2>1, <2>2
<1>9. CASE Crash
  BY <1>1, <1>9 DEF Crash
<1>10. CASE DeleteFile
  <2>1. /\ stuck' = {[w EXCEPT !.cut = {}] : w \in {v \in stuck : v.op \in {"cut", "create"}}}
        /\ UNCHANGED <<op, tail_verified>> /\ file' = EmptyFile
        /\ file # EmptyFile \/ op = "magic"
    BY <1>10 DEF DeleteFile
  <2>2. CASE stuck = {}
    BY <1>1, <2>1, <2>2
  <2>3. CASE stuck # {}
    <3>1. PICK w : stuck = {w} /\ StillFits(w)
      BY <1>0, <2>3 DEF LeftBehind
    <3>2. op = "idle" /\ ~tail_verified /\ file # EmptyFile
      BY <1>0, <2>1, <2>3 DEF LeftBehind
    <3>3. w.op # "create"
      BY <3>1, <3>2 DEF StillFits, FitsOperation
    <3>4. CASE w.op # "cut"
      BY <1>1, <2>1, <3>1, <3>3, <3>4
    <3>5. CASE w.op = "cut"
      <4> DEFINE v == [w EXCEPT !.cut = {}]
      <4>1. stuck' = {v}
        BY <2>1, <3>1, <3>5
      <4>2. /\ v.op = "cut" /\ v.cut = {} /\ v.appending = w.appending
            /\ v = [op |-> v.op, frame |-> v.frame, appending |-> v.appending, cut |-> v.cut]
        BY <3>1, <3>5 DEF StillFits
      <4>3. w.appending \in BOOLEAN
        BY <3>1 DEF StillFits
      <4> HIDE DEF v
      <4>4. StillFits(v)'
        BY <2>1, <4>2, <4>3 DEF StillFits
      <4>5. QED
        BY <2>1, <3>2, <4>1, <4>4 DEF LeftBehind
    <3>6. QED
      BY <3>4, <3>5
  <2>4. QED
    BY <2>2, <2>3
<1>11. CASE stuck = {} /\ ((\E len \in Sizes : AddToLog(len)) \/ FlushIntervalElapses
                           \/ WriteReturnsEarly \/ UNCHANGED vars)
  BY <1>1, <1>11 DEF AddToLog, FlushIntervalElapses, WriteReturnsEarly
<1>12. QED
  BY <1>3, <1>4, <1>5, <1>7, <1>8, <1>9, <1>10, <1>11 DEF Next
----------------------------------------------------------------------------
(* The late effect *)

(* The offset an earlier walk had found is where the tail check would cut
   now: on a readable file it is that of the broken frame at the end. *)
LEMMA EarlierWalkAgrees ==
  ASSUME NEW fl, Readable(fl), NEW i \in FirstBroken(fl.blocks), fl.magic = "whole"
  PROVE  CutBefore(fl, i) \in AfterTailCheck(fl)
<1>1. fl # EmptyFile
  BY EmptyFileType
<1>2. EndsInside(fl, i)
  BY <1>1 DEF Readable, FirstBroken, EndsInside
<1>3. QED
  BY <1>2 DEF AfterTailCheck

(* So what takes effect late is what the attempt itself could have left, or
   nothing. *)
LEMMA LateIsAsIfInTime ==
  ASSUME Sound, NEW w, StillFits(w), stuck = {w}, LateEffect
  PROVE  \/ file' = file
         \/ /\ FitsOperation(w.op, w.frame, w.appending, file)
            /\ file' \in Interrupted(w.op, w.frame, w.appending, file)
                           \cup Completed(w.op, w.frame, w.appending, file)
<1>1. CASE w.op = "cut"
  <2>1. file' \in AfterTailCheck(file) \cup {file}
                   \cup {CutBefore(file, i) : i \in w.cut \cap DOMAIN file.blocks}
    BY <1>1 DEF LateEffect
  <2>2. CASE w.cut = {} /\ file = EmptyFile
    BY <2>1, <2>2, EmptyFileType DEF AfterTailCheck
  <2>3. CASE /\ FitsOperation(w.op, w.frame, w.appending, file)
             /\ w.cut = FirstBroken(file.blocks)
    <3>1. Readable(file) /\ file.magic = "whole"
      BY <1>1, <2>3 DEF FitsOperation
    <3>2. \A i \in w.cut : CutBefore(file, i) \in AfterTailCheck(file)
      BY <2>3, <3>1, EarlierWalkAgrees
    <3>3. file' \in AfterTailCheck(file) \cup {file}
      BY <2>1, <3>2
    <3>4. QED
      BY <1>1, <2>3, <3>3 DEF Completed, Interrupted
  <2>4. QED
    BY <1>1, <2>2, <2>3 DEF StillFits
<1>2. CASE w.op # "cut"
  BY <1>2 DEF LateEffect, StillFits
<1>3. QED
  BY <1>1, <1>2

LEMMA LateFrameKeeps ==
  ASSUME Sound, OrderInv, NEW w, StillFits(w), w.op = "payload",
         LastBecomesWhole(file, file', w.frame),
         UNCHANGED <<logs, accepted, doubtful>>
  PROVE  FileBeforeQueue' /\ InOrderOnceUnlessTimedOut' /\ HeaderAtMostOnce'
<1> DEFINE f == w.frame
<1>1. file.blocks \in Seq(Block)
  BY DEF Sound, TypeOK, File
<1>2. f.header => Len(file.blocks) = 1
  BY DEF StillFits, FitsOperation, EndsInPrefix
<1>3. ASSUME NEW b \in Ids(f.logs)
      PROVE  b <= accepted /\ \A i \in Whole(file) : \A a \in IdsOf(i) : a < b \/ b \in doubtful
  BY DEF StillFits
<1>4. \A e \in Ids(logs') : e \in Ids(logs) /\ \A a \in Ids(f.logs) : a < e \/ e \in doubtful'
  BY DEF StillFits
<1> HIDE DEF f
<1>5. LastBecomesWhole(file, file', f)
  BY DEF f
<1>6. QED
  BY <1>1, <1>2, <1>3, <1>4, <1>5, FrameBehindKeeps

LEMMA LateEffectSettles ==
  ASSUME Calm, Settled, LateEffect
  PROVE  Settled'
<1> USE DEF queue, flags, attempt, ledger, history
<1>1. Sound /\ OrderInv /\ NoEntryVanishes /\ LeftBehind
  BY DEF Settled
<1>0. stuck # {} /\ stuck' = {} /\ op = "idle" /\ ~tail_verified /\ ~removed
  BY <1>1 DEF LateEffect, LeftBehind, Sound, FileFitsAttempt
<1>2. /\ stuck # {} /\ stuck' = {}
      /\ UNCHANGED <<queue, flags, attempt, history>>
  BY <1>0, <1>1 DEF LateEffect, Sound, TypeOK
<1>3. PICK w : stuck = {w} /\ StillFits(w)
  BY <1>1, <1>2 DEF LeftBehind
<1>4. op = "idle" /\ ~tail_verified /\ ~removed
  BY <1>0
<1>5. \/ file' = file
      \/ /\ FitsOperation(w.op, w.frame, w.appending, file)
         /\ file' \in Interrupted(w.op, w.frame, w.appending, file)
                        \cup Completed(w.op, w.frame, w.appending, file)
  BY <1>1, <1>3, LateIsAsIfInTime
<1>6. /\ w.op \in {"idle", "stat", "cut", "open", "create", "magic", "prefix", "payload"}
      /\ w.appending \in BOOLEAN /\ file \in File /\ Readable(file)
  BY <1>1, <1>3, SoundIsReadable DEF StillFits, Sound, TypeOK
<1>7. /\ file' \in File /\ Readable(file') /\ Stored(file) \subseteq Stored(file')
      /\ \/ SameWhole(file, file')
         \/ w.op = "payload" /\ LastBecomesWhole(file, file', w.frame)
  <2>1. CASE file' = file
    BY <1>6, <2>1 DEF SameWhole
  <2>2. CASE /\ FitsOperation(w.op, w.frame, w.appending, file)
             /\ file' \in Interrupted(w.op, w.frame, w.appending, file)
                            \cup Completed(w.op, w.frame, w.appending, file)
    BY ONLY Calm, <1>6, <2>2, OperationKeepsFile
  <2>3. QED
    BY <1>5, <2>1, <2>2
<1>8. Sound'
  <2>1. TypeOK'
    BY <1>1, <1>2, <1>7 DEF Sound, TypeOK
  <2>2. ~appending
    BY <1>1, <1>4 DEF Sound, FileFitsAttempt
  <2>3. FrameIsOldest' /\ FileFitsAttempt'
    BY <1>2, <1>4, <1>7, <2>2, Ended
  <2>4. QED
    BY <2>1, <2>3 DEF Sound
<1>9. OrderInv'
  <2>1. FileBeforeQueue' /\ InOrderOnceUnlessTimedOut' /\ HeaderAtMostOnce'
    <3>1. CASE SameWhole(file, file')
      BY <1>1, <1>2, <3>1, SameWholeKeeps
    <3>2. CASE w.op = "payload" /\ LastBecomesWhole(file, file', w.frame)
      BY <1>1, <1>2, <1>3, <3>2, LateFrameKeeps
    <3>3. QED
      BY <1>7, <3>1, <3>2
  <2>2. QueueInOrder' /\ AppendedHasNoHeader'
    BY <1>1, <1>2 DEF OrderInv, QueueInOrder, AppendedHasNoHeader
  <2>3. QED
    BY <2>1, <2>2 DEF OrderInv
<1>10. NoEntryVanishes'
  <2>1. accepted \in Nat /\ accepted' = accepted
    BY <1>1, <1>2 DEF Sound, TypeOK
  <2>2. Held \subseteq Held'
    BY <1>2, <1>7 DEF Held
  <2>3. QED
    BY <1>1, <2>1, <2>2, NoneVanishes
<1>11. LeftBehind'
  BY <1>2 DEF LeftBehind
<1>12. QED
  BY <1>8, <1>9, <1>10, <1>11 DEF Settled

----------------------------------------------------------------------------
(* The invariant *)

LEMMA StepLate ==
  ASSUME Calm, LateInv, [Next]_vars
  PROVE  LateInv'
<1>1. CASE overlap
  BY <1>1, OverlapStays DEF LateInv
<1>2. CASE Settled /\ LateEffect
  BY <1>2, LateEffectSettles DEF LateInv
<1>3. CASE Settled /\ ~LateEffect
  <2>1. Sound /\ OrderInv /\ NoEntryVanishes /\ accepted \in Nat
    BY <1>3 DEF Settled, Sound, TypeOK
  <2>2. Sound' /\ OrderInv'
    BY <1>3, <2>1, StepSound, StepOrder
  <2>3. NoEntryVanishes'
    BY <1>3, <2>1, StepHeld, NoneVanishes
  <2>4. overlap' \/ LeftBehind'
    BY <1>3, StepLeftBehind
  <2>5. QED
    BY <2>2, <2>3, <2>4 DEF LateInv, Settled
<1>4. QED
  BY <1>1, <1>2, <1>3 DEF LateInv

LEMMA InitLate == Init => LateInv
<1> SUFFICES ASSUME Init PROVE LateInv
  OBVIOUS
<1>1. Sound /\ OrderInv /\ stuck = {}
  BY InitIInv, InitOrder DEF IInv
<1>2. NoEntryVanishes
  BY DEF Init, NoEntryVanishes
<1>3. QED
  BY <1>1, <1>2 DEF LateInv, Settled, LeftBehind

(* Short of a torn magic, a failing stat and a file above the tail check's
   limit: as long as no attempt begins before the operation an earlier one
   left in the background is over, no entry is lost, the file reads and the
   order holds, whenever that operation takes effect. *)
THEOREM LateHurtsOnlyByOverlap == ASSUME Calm PROVE Spec => []LateEffectsHurtOnlyByOverlap
<1>1. Init => LateInv
  BY InitLate
<1>2. LateInv /\ [Next]_vars => LateInv'
  BY StepLate
<1>3. LateInv => LateEffectsHurtOnlyByOverlap
  BY SoundIsReadable DEF LateInv, Settled, OrderInv, LateEffectsHurtOnlyByOverlap, FileReadable
<1>4. QED
  BY <1>1, <1>2, <1>3, PTL DEF Spec

=============================================================================
