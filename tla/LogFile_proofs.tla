--------------------------- MODULE LogFile_proofs ---------------------------
(***************************************************************************)
(* Proofs about LogFile, for every queue, file and number of entries.      *)
(***************************************************************************)
EXTENDS LogFile, SequenceTheorems, TLAPS

(* The faults the theorems admit: operations fail, attempts time out, the
   process dies, files are deleted.  The others break the properties below,
   as the violation runs show. *)
Mild == Faults \cap {"late", "torn_magic", "stat_error", "oversize"} = {}

(* With late effects of timed-out operations as well: what a step other than
   a late effect does is no different. *)
Calm == Faults \cap {"torn_magic", "stat_error", "oversize"} = {}

LEMMA MildIsCalm ==
  ASSUME Mild, IInv
  PROVE  Calm /\ Sound /\ ~LateEffect
BY DEF Mild, Calm, IInv, LateEffect

----------------------------------------------------------------------------
(* The file *)

(* A block whose bytes are a reader's concern survives: as long as the whole
   blocks of one file are blocks of a readable other, its entries are found
   there too. *)
LEMMA StoredMonotone ==
  ASSUME NEW fl, NEW fl2, Readable(fl2),
         \A i \in Whole(fl) : i \in DOMAIN fl2.blocks /\ fl2.blocks[i] = fl.blocks[i]
  PROVE  Stored(fl) \subseteq Stored(fl2)
BY DEF Stored, Whole

(* What an operation of an attempt does to the blocks a reader accepts:
   nothing, or it completes the last block, the only new one, with f. *)
SameWhole(fl, fl2) ==
  Whole(fl2) = Whole(fl) /\ \A i \in Whole(fl) : fl2.blocks[i] = fl.blocks[i]

LastBecomesWhole(fl, fl2, f) ==
  LET n == Len(fl.blocks)
  IN  /\ Whole(fl2) = Whole(fl) \cup {n} /\ fl2.blocks[n].frame = f
      /\ \A i \in Whole(fl) : i < n /\ fl2.blocks[i] = fl.blocks[i]

LEMMA BoundaryIsReadable ==
  ASSUME NEW fl, OnBoundary(fl)
  PROVE  Readable(fl)
BY DEF OnBoundary, AllWhole, Readable

LEMMA EmptyFileType == EmptyFile \in File /\ EmptyFile.blocks = <<>> /\ EmptyFile.magic = "absent"
BY EmptySeq DEF EmptyFile, File

(* A part of a frame's prefix, or all of it, reaches a file that ends on a
   boundary. *)
LEMMA PrefixLands ==
  ASSUME NEW fl \in File, fl.magic = "whole", AllWhole(fl.blocks),
         NEW f \in Frame, NEW app \in BOOLEAN, app \/ fl.blocks = <<>>,
         NEW got \in {"marker", "prefix"},
         NEW fl2, fl2 = PutPrefix(fl, f, app, got)
  PROVE  /\ fl2 \in File /\ Readable(fl2)
         /\ Stored(fl) \subseteq Stored(fl2)
         /\ SameWhole(fl, fl2)
         /\ got = "prefix" => EndsInPrefix(fl2, f, app)
<1> DEFINE b  == [frame |-> f, got |-> got]
           bs == Append(fl.blocks, b)
<1>1. fl.blocks \in Seq(Block) /\ b \in Block
  BY DEF File, Block, Torn
<1>2. /\ bs \in Seq(Block) /\ Len(bs) = Len(fl.blocks) + 1
      /\ Len(fl.blocks) \in Nat
      /\ DOMAIN bs = 1..Len(bs) /\ DOMAIN fl.blocks = 1..Len(fl.blocks)
      /\ bs[Len(bs)] = b
      /\ \A i \in 1..Len(fl.blocks) : bs[i] = fl.blocks[i]
  BY <1>1, AppendProperties, LenProperties
<1>3. fl2 \in File /\ fl2.magic = "whole" /\ fl2.blocks = bs
  BY <1>2 DEF File, PutPrefix
<1>4. \A i \in 1..(Len(bs) - 1) : bs[i].got = "whole"
  BY <1>2 DEF AllWhole
<1>5. Readable(fl2)
  BY <1>2, <1>3, <1>4 DEF Readable, Torn
<1>6. Stored(fl) \subseteq Stored(fl2)
  <2>1. \A i \in Whole(fl) : i \in DOMAIN fl2.blocks /\ fl2.blocks[i] = fl.blocks[i]
    BY <1>2, <1>3 DEF Whole
  <2>2. QED
    BY <1>5, <2>1, StoredMonotone
<1>7. ASSUME got = "prefix" PROVE EndsInPrefix(fl2, f, app)
  <2>1. app \/ Len(bs) = 1
    BY <1>2
  <2>2. QED
    BY <1>2, <1>3, <1>4, <1>7, <2>1 DEF EndsInPrefix
<1>8. SameWhole(fl, fl2)
  <2>1. \A i \in DOMAIN bs : i \in DOMAIN fl.blocks \/ (i = Len(bs) /\ bs[i].got # "whole")
    BY <1>2
  <2>2. QED
    BY <1>2, <1>3, <2>1 DEF SameWhole, Whole
<1>9. QED
  BY <1>3, <1>5, <1>6, <1>7, <1>8

(* A part of the payload, or all of it, reaches a file that ends in the
   frame's prefix: with all of it the frame's entries can be read. *)
LEMMA PayloadLands ==
  ASSUME NEW fl \in File, NEW f \in Frame, NEW app \in BOOLEAN,
         EndsInPrefix(fl, f, app),
         NEW got \in {"part", "whole"},
         NEW fl2, fl2 = PutPayload(fl, f, app, got)
  PROVE  /\ fl2 \in File /\ fl2.magic = "whole" /\ Readable(fl2)
         /\ Stored(fl) \subseteq Stored(fl2)
         /\ got = "part" => SameWhole(fl, fl2)
         /\ got = "whole" => /\ AllWhole(fl2.blocks) /\ Ids(f.logs) \subseteq Stored(fl2)
                            /\ LastBecomesWhole(fl, fl2, f)
<1> DEFINE bs == fl2.blocks
           n  == Len(fl.blocks)
<1>1. /\ fl.blocks \in Seq(Block) /\ n \in Nat /\ n \in 1..n
      /\ DOMAIN fl.blocks = 1..n
      /\ \A i \in 1..(n - 1) : fl.blocks[i].got = "whole"
  BY LenProperties DEF File, EndsInPrefix
<1>2. fl2 = [fl EXCEPT !.blocks[n] = [frame |-> f, got |-> got]]
  BY DEF PutPayload, EndsInPrefix
<1>3. /\ bs = [fl.blocks EXCEPT ![n] = [frame |-> f, got |-> got]]
      /\ fl2 = [fl EXCEPT !.blocks = bs] /\ fl2.magic = "whole"
  BY <1>2 DEF File, EndsInPrefix
<1>4. [frame |-> f, got |-> got] \in Block
  BY DEF Block, Torn
<1>5. /\ bs \in Seq(Block) /\ Len(bs) = n /\ bs[n] = [frame |-> f, got |-> got]
      /\ \A i \in 1..(n - 1) : bs[i] = fl.blocks[i]
      /\ DOMAIN bs = 1..n
  BY <1>1, <1>3, <1>4, ExceptSeq, LenProperties
<1>6. fl2 \in File
  BY <1>3, <1>5 DEF File
<1>7. Readable(fl2)
  BY <1>1, <1>3, <1>5 DEF Readable, Torn
<1>8. Stored(fl) \subseteq Stored(fl2)
  <2>1. \A i \in Whole(fl) : i \in DOMAIN fl2.blocks /\ fl2.blocks[i] = fl.blocks[i]
    BY <1>1, <1>5 DEF Whole, EndsInPrefix
  <2>2. QED
    BY <1>7, <2>1, StoredMonotone
<1>9. ASSUME got = "whole" PROVE AllWhole(bs) /\ Ids(f.logs) \subseteq Stored(fl2)
  <2>1. \A i \in 1..n : bs[i].got = "whole"
    <3>1. bs[n].got = "whole"
      BY <1>5, <1>9
    <3>2. \A i \in 1..n : i = n \/ i \in 1..(n - 1)
      BY <1>1
    <3>3. QED
      BY <1>1, <1>5, <3>1, <3>2
  <2>2. n \in Whole(fl2) /\ bs[n].frame = f
    BY <1>1, <1>5, <1>9 DEF Whole
  <2>3. QED
    BY <1>5, <1>7, <2>1, <2>2 DEF Stored, AllWhole
<1>10. \A i \in 1..n : i = n \/ i \in 1..(n - 1)
  BY <1>1
<1>11. Whole(fl) = 1..(n - 1)
  BY <1>1, <1>10 DEF Whole, EndsInPrefix
<1>12. ASSUME got = "part" PROVE SameWhole(fl, fl2)
  <2>1. Whole(fl2) = 1..(n - 1)
    BY <1>1, <1>5, <1>10, <1>12 DEF Whole
  <2>2. QED
    BY <1>5, <1>11, <2>1 DEF SameWhole
<1>13. ASSUME got = "whole" PROVE LastBecomesWhole(fl, fl2, f)
  <2>1. Whole(fl2) = 1..n
    BY <1>1, <1>5, <1>10, <1>13 DEF Whole
  <2>2. 1..n = 1..(n - 1) \cup {n}
    BY <1>1
  <2>3. QED
    BY <1>1, <1>5, <1>11, <2>1, <2>2 DEF LastBecomesWhole
<1>14. QED
  BY <1>3, <1>6, <1>7, <1>8, <1>9, <1>12, <1>13

(* The tail check leaves a readable file on a frame boundary, with every
   entry it held. *)
LEMMA TailCheckRepairs ==
  ASSUME NEW fl \in File, fl.magic = "whole", Readable(fl),
         NEW fl2 \in AfterTailCheck(fl)
  PROVE  /\ fl2 \in File /\ fl2.magic = "whole" /\ AllWhole(fl2.blocks)
         /\ Stored(fl) \subseteq Stored(fl2) /\ SameWhole(fl, fl2)
<1> DEFINE bs == fl.blocks
           n  == Len(bs)
<1>1. bs \in Seq(Block) /\ n \in Nat /\ DOMAIN bs = 1..n
  BY LenProperties DEF File
<1>2. fl # EmptyFile
  BY EmptyFileType
<1>3. \A i \in 1..(n - 1) : bs[i].got = "whole"
  BY <1>1, <1>2 DEF Readable
<1>4. \A i \in 1..n : bs[i].got = "whole" \/ (i = n /\ bs[i].got \in Torn)
  BY <1>1, <1>2 DEF Readable
<1>5. CASE AllWhole(bs)
  <2>1. FirstBroken(bs) = {}
    BY <1>5 DEF FirstBroken, AllWhole
  <2>2. fl2 = fl
    <3>1. ~\E i \in FirstBroken(fl.blocks) : EndsInside(fl, i)
      BY <2>1
    <3>2. {k \in DOMAIN fl.blocks : \E i \in FirstBroken(fl.blocks) : i <= k} = {}
      BY <2>1
    <3>3. UNION {{CutBefore(fl, j), CutInside(fl, j)} :
                 j \in {k \in DOMAIN fl.blocks : \E i \in FirstBroken(fl.blocks) : i <= k}} = {}
      BY <3>2
    <3>4. QED
      BY <3>1, <3>3 DEF AfterTailCheck
  <2>3. QED
    BY <1>5, <2>2 DEF SameWhole
<1>6. CASE ~AllWhole(bs)
  <2>1. n \in 1..n /\ bs[n].got # "whole" /\ bs[n].got \in Torn
    BY <1>1, <1>4, <1>6 DEF AllWhole
  <2>2. FirstBroken(bs) = {n}
    BY <1>1, <1>3, <2>1 DEF FirstBroken
  <2>3. EndsInside(fl, n)
    BY <2>1 DEF EndsInside
  <2>4. fl2 = CutBefore(fl, n)
    <3>1. \E i \in FirstBroken(fl.blocks) : EndsInside(fl, i)
      BY <2>2, <2>3
    <3>2. fl2 \in {CutBefore(fl, i) : i \in FirstBroken(fl.blocks)}
      BY <3>1 DEF AfterTailCheck
    <3>3. QED
      BY <2>2, <3>2
  <2>5. fl2.blocks = SubSeq(bs, 1, n - 1) /\ fl2.magic = "whole"
    BY <2>4 DEF CutBefore, File
  <2>6. /\ fl2.blocks \in Seq(Block) /\ Len(fl2.blocks) = n - 1
        /\ DOMAIN fl2.blocks = 1..(n - 1)
        /\ \A i \in 1..(n - 1) : fl2.blocks[i] = bs[i]
    <3>1. \A i \in 1..(n - 1) : bs[i] \in Block
      BY <1>1, ElementOfSeq
    <3>2. QED
      BY <1>1, <2>1, <2>5, <3>1, SubSeqProperties, LenProperties
  <2>7. fl2 \in File
    BY <2>4, <2>6 DEF CutBefore, File
  <2>8. AllWhole(fl2.blocks)
    BY <1>3, <2>6 DEF AllWhole
  <2>9. Readable(fl2)
    BY <2>5, <2>8, BoundaryIsReadable DEF OnBoundary
  <2>10. \A i \in Whole(fl) : i \in DOMAIN fl2.blocks /\ fl2.blocks[i] = bs[i]
    BY <1>1, <2>1, <2>6 DEF Whole
  <2>11. SameWhole(fl, fl2)
    <3>1. Whole(fl) = 1..(n - 1)
      BY <1>1, <1>3, <2>1 DEF Whole
    <3>2. Whole(fl2) = 1..(n - 1)
      BY <2>6, <2>8 DEF Whole, AllWhole
    <3>3. QED
      BY <2>10, <3>1, <3>2 DEF SameWhole
  <2>12. QED
    BY <2>5, <2>7, <2>8, <2>9, <2>10, <2>11, StoredMonotone
<1>7. QED
  BY <1>5, <1>6

(* What operation o of an attempt relies on, of the file it finds. *)
FitsOperation(o, f, app, fl) ==
  /\ o \in {"idle", "stat", "cut"} => Readable(fl)
  /\ o \in {"cut", "open"} => fl.magic = "whole"
  /\ o = "open" => AllWhole(fl.blocks)
  /\ o \in {"create", "magic"} => fl = EmptyFile
  /\ o = "prefix" => /\ f \in Frame /\ fl.magic = "whole" /\ AllWhole(fl.blocks)
                     /\ app \/ fl.blocks = <<>>
  /\ o = "payload" => f \in Frame /\ EndsInPrefix(fl, f, app)

(* Wherever an attempt is, its operation may stop short or complete: the file
   stays readable and keeps its entries. *)
LEMMA OperationKeepsFile ==
  ASSUME Calm,
         NEW o \in {"idle", "stat", "cut", "open", "create", "magic", "prefix", "payload"},
         NEW f, NEW app \in BOOLEAN, NEW fl0 \in File,
         FitsOperation(o, f, app, fl0),
         NEW fl \in Interrupted(o, f, app, fl0)
                      \cup Completed(o, f, app, fl0)
  PROVE  /\ fl \in File /\ Readable(fl0) /\ Readable(fl)
         /\ Stored(fl0) \subseteq Stored(fl)
         /\ \/ SameWhole(fl0, fl)
            \/ /\ o = "payload" /\ fl = PutPayload(fl0, f, app, "whole")
               /\ LastBecomesWhole(fl0, fl, f)
<1>1. fl0 \in File /\ o \in {"idle", "stat", "cut", "open", "create", "magic", "prefix", "payload"}
  OBVIOUS
<1>2. Readable(fl0)
  <2>1. CASE o \in {"idle", "stat", "cut"}
    BY <2>1 DEF FitsOperation
  <2>2. CASE o \in {"open", "create", "magic", "prefix"}
    BY <2>2, BoundaryIsReadable DEF FitsOperation, OnBoundary
  <2>3. CASE o = "payload"
    <3>1. DOMAIN fl0.blocks = 1..Len(fl0.blocks) /\ Len(fl0.blocks) \in Nat
      BY <1>1, LenProperties DEF File
    <3>2. QED
      BY <2>3, <3>1 DEF FitsOperation, EndsInPrefix, Readable, Torn
  <2>4. QED
    BY <1>1, <2>1, <2>2, <2>3
<1>3. CASE fl = fl0
  BY <1>1, <1>2, <1>3 DEF SameWhole
<1>4. CASE o = "cut"
  <2>1. fl \in AfterTailCheck(fl0) \/ fl = fl0
    BY <1>4 DEF Calm, Completed, Interrupted
  <2>2. ASSUME fl \in AfterTailCheck(fl0)
        PROVE  /\ fl \in File /\ Readable(fl) /\ Stored(fl0) \subseteq Stored(fl)
               /\ SameWhole(fl0, fl)
    <3>1. fl0.magic = "whole"
      BY <1>4 DEF FitsOperation
    <3>2. /\ fl \in File /\ fl.magic = "whole" /\ AllWhole(fl.blocks)
          /\ Stored(fl0) \subseteq Stored(fl) /\ SameWhole(fl0, fl)
      BY <1>1, <1>2, <2>2, <3>1, TailCheckRepairs
    <3>3. QED
      BY <3>2, BoundaryIsReadable DEF OnBoundary
  <2>3. QED
    BY <1>2, <1>3, <2>1, <2>2
<1>5. CASE o \in {"create", "magic"}
  <2>1. fl0 = EmptyFile
    BY <1>5 DEF FitsOperation
  <2>2. fl = fl0 \/ fl = [fl0 EXCEPT !.magic = "whole"]
    BY <1>5, <2>1 DEF Calm, Completed, Interrupted
  <2>3. ASSUME fl = [fl0 EXCEPT !.magic = "whole"]
        PROVE  fl \in File /\ fl.magic = "whole" /\ fl.blocks = <<>>
    BY <2>1, <2>3, EmptyFileType, EmptySeq DEF File
  <2>4. Stored(fl0) = {}
    BY <2>1, EmptyFileType DEF Stored, Whole
  <2>5. ASSUME fl = [fl0 EXCEPT !.magic = "whole"] PROVE SameWhole(fl0, fl)
    BY <2>1, <2>3, <2>5, EmptyFileType DEF SameWhole, Whole
  <2>6. QED
    BY <1>2, <1>3, <2>2, <2>3, <2>4, <2>5 DEF Readable
<1>6. CASE o = "prefix"
  <2>1. \/ fl = fl0
        \/ fl = PutPrefix(fl0, f, app, "marker")
        \/ fl = PutPrefix(fl0, f, app, "prefix")
    BY <1>6 DEF Completed, Interrupted
  <2>2. /\ fl0.magic = "whole" /\ AllWhole(fl0.blocks) /\ f \in Frame
        /\ app \in BOOLEAN
        /\ app \/ fl0.blocks = <<>>
    BY <1>6 DEF FitsOperation
  <2>3. ASSUME NEW got \in {"marker", "prefix"},
               fl = PutPrefix(fl0, f, app, got)
        PROVE  /\ fl \in File /\ Readable(fl) /\ Stored(fl0) \subseteq Stored(fl)
               /\ SameWhole(fl0, fl)
    BY <1>1, <2>2, <2>3, PrefixLands
  <2>4. QED
    BY <1>2, <1>3, <2>1, <2>3
<1>7. CASE o = "payload"
  <2>1. \/ fl = fl0
        \/ fl = PutPayload(fl0, f, app, "part")
        \/ fl = PutPayload(fl0, f, app, "whole")
    BY <1>7 DEF Completed, Interrupted
  <2>2. EndsInPrefix(fl0, f, app) /\ f \in Frame /\ app \in BOOLEAN
    BY <1>7 DEF FitsOperation
  <2>3. CASE fl = PutPayload(fl0, f, app, "part")
    BY <1>1, <1>2, <2>2, <2>3, PayloadLands
  <2>4. CASE fl = PutPayload(fl0, f, app, "whole")
    BY <1>1, <1>2, <1>7, <2>2, <2>4, PayloadLands
  <2>5. QED
    BY <1>3, <2>1, <2>3, <2>4
<1>8. CASE o \in {"idle", "stat", "open"}
  BY <1>3, <1>8 DEF Completed, Interrupted
<1>9. QED
  BY <1>1, <1>4, <1>5, <1>6, <1>7, <1>8

(* So for the attempt that is under way, while its file is in its place. *)
LEMMA AttemptKeepsFile ==
  ASSUME Calm, Sound, ~removed,
         NEW fl \in Interrupted(op, frame, appending, file)
                      \cup Completed(op, frame, appending, file)
  PROVE  /\ fl \in File /\ Readable(file) /\ Readable(fl)
         /\ Stored(file) \subseteq Stored(fl)
         /\ \/ SameWhole(file, fl)
            \/ /\ op = "payload" /\ fl = PutPayload(file, frame, appending, "whole")
               /\ LastBecomesWhole(file, fl, frame)
<1>1. FitsOperation(op, frame, appending, file)
  BY DEF Sound, TypeOK, FileFitsAttempt, FitsOperation
<1>2. /\ op \in {"idle", "stat", "cut", "open", "create", "magic", "prefix", "payload"}
      /\ appending \in BOOLEAN /\ file \in File
  BY DEF Sound, TypeOK
<1>3. fl \in Interrupted(op, frame, appending, file)
              \cup Completed(op, frame, appending, file)
  OBVIOUS
<1>4. QED
  BY ONLY Calm, <1>1, <1>2, <1>3, OperationKeepsFile

LEMMA NothingMayLand == file \in Interrupted(op, frame, appending, file)
BY DEF Interrupted

LEMMA SoundIsReadable == ASSUME Calm, Sound PROVE Readable(file)
<1>1. CASE removed
  BY <1>1 DEF Sound, FileFitsAttempt, Readable
<1>2. CASE ~removed
  BY <1>2, NothingMayLand, AttemptKeepsFile
<1>3. QED
  BY <1>1, <1>2

(* What a step of the attempt makes of the file, removed or not. *)
LEMMA LandingKeepsFile ==
  ASSUME Calm, Sound, NEW files, Lands(files),
         files \subseteq Interrupted(op, frame, appending, file)
                           \cup Completed(op, frame, appending, file)
  PROVE  /\ file' \in File /\ Readable(file) /\ Readable(file')
         /\ Stored(file) \subseteq Stored(file')
         /\ \/ SameWhole(file, file')
            \/ /\ op = "payload" /\ file' = PutPayload(file, frame, appending, "whole")
               /\ LastBecomesWhole(file, file', frame) /\ ~removed
         /\ removed => file' = file /\ file = EmptyFile
<1>1. CASE removed
  <2>1. file' = file /\ file = EmptyFile /\ file \in File
    BY <1>1 DEF Lands, Sound, TypeOK, FileFitsAttempt
  <2>2. QED
    BY <1>1, <2>1, SoundIsReadable DEF SameWhole
<1>2. CASE ~removed
  <2>1. file' \in Interrupted(op, frame, appending, file)
                   \cup Completed(op, frame, appending, file)
    BY <1>2 DEF Lands
  <2>2. QED
    BY <1>2, <2>1, AttemptKeepsFile
<1>3. QED
  BY <1>1, <1>2

----------------------------------------------------------------------------
(* The queue *)

(* Taking the k oldest entries away leaves a queue of entries. *)
LEMMA QueueRest ==
  ASSUME NEW q \in Seq(Entry), NEW k \in 0..Len(q)
  PROVE  /\ SubSeq(q, k + 1, Len(q)) \in Seq(Entry)
         /\ SubSeq(q, 1, k) \in Seq(Entry)
         /\ Len(SubSeq(q, 1, k)) = k /\ Len(SubSeq(q, k + 1, Len(q))) = Len(q) - k
         /\ \A i \in 1..k : SubSeq(q, 1, k)[i] = q[i]
         /\ \A i \in 1..(Len(q) - k) : SubSeq(q, k + 1, Len(q))[i] = q[k + i]
         /\ Ids(q) = Ids(SubSeq(q, 1, k)) \cup Ids(SubSeq(q, k + 1, Len(q)))
<1> DEFINE front == SubSeq(q, 1, k)
           rest  == SubSeq(q, k + 1, Len(q))
<1>1. Len(q) \in Nat /\ DOMAIN q = 1..Len(q) /\ k \in Nat /\ k <= Len(q)
  BY LenProperties
<1>2. \A i \in 1..Len(q) : q[i] \in Entry
  BY ElementOfSeq
<1>3. front \in Seq(Entry) /\ Len(front) = k /\ \A i \in 1..k : front[i] = q[i]
  BY <1>1, <1>2, SubSeqProperties
<1>4. /\ rest \in Seq(Entry) /\ Len(rest) = Len(q) - k
      /\ \A i \in 1..(Len(q) - k) : rest[i] = q[k + i]
  <2>1. k + 1 \in Int /\ Len(q) \in Int /\ \A i \in (k + 1)..Len(q) : q[i] \in Entry
    BY <1>1, <1>2
  <2>2. /\ rest \in Seq(Entry)
        /\ Len(rest) = IF k + 1 <= Len(q) THEN Len(q) - (k + 1) + 1 ELSE 0
        /\ \A i \in 1..(Len(q) - (k + 1) + 1) : rest[i] = q[(k + 1) + i - 1]
    BY <2>1, SubSeqProperties
  <2> HIDE DEF rest
  <2>3. \A i \in 1..(Len(q) - k) : (k + 1) + i - 1 = k + i
    BY <1>1
  <2>4. Len(q) - (k + 1) + 1 = Len(q) - k
    BY <1>1
  <2>5. \A i \in 1..(Len(q) - k) : rest[i] = q[k + i]
    BY <2>2, <2>3, <2>4
  <2>6. Len(rest) = Len(q) - k
    <3>1. \A n \in Nat, j \in Nat :
            j <= n => (IF j + 1 <= n THEN n - (j + 1) + 1 ELSE 0) = n - j
      OBVIOUS
    <3>2. QED
      BY <1>1, <2>2, <3>1
  <2>7. QED
    BY <2>2, <2>5, <2>6
<1>5. DOMAIN front = 1..k /\ DOMAIN rest = 1..(Len(q) - k)
  BY <1>3, <1>4, LenProperties
<1> HIDE DEF front, rest
<1>6. Ids(q) \subseteq Ids(front) \cup Ids(rest)
  <2> SUFFICES ASSUME NEW i \in 1..Len(q) PROVE q[i].id \in Ids(front) \cup Ids(rest)
    BY <1>1 DEF Ids
  <2>1. CASE i <= k
    <3>1. i \in DOMAIN front /\ front[i] = q[i]
      BY <1>1, <1>3, <1>5, <2>1
    <3>2. QED
      BY <3>1 DEF Ids
  <2>2. CASE i > k
    <3>1. i - k \in 1..(Len(q) - k) /\ k + (i - k) = i
      BY <1>1, <2>2
    <3>2. i - k \in DOMAIN rest /\ rest[i - k] = q[i]
      BY <1>4, <1>5, <3>1
    <3>3. QED
      BY <3>2 DEF Ids
  <2>3. QED
    BY <1>1, <2>1, <2>2
<1>7. Ids(front) \cup Ids(rest) \subseteq Ids(q)
  <2>1. \A i \in 1..k : i \in DOMAIN q /\ front[i].id = q[i].id
    BY <1>1, <1>3
  <2>2. \A i \in 1..(Len(q) - k) : k + i \in DOMAIN q /\ rest[i].id = q[k + i].id
    BY <1>1, <1>4
  <2>3. Ids(front) \subseteq Ids(q)
    BY <1>5, <2>1 DEF Ids
  <2>4. Ids(rest) \subseteq Ids(q)
    BY <1>5, <2>2 DEF Ids
  <2>5. QED
    BY <2>3, <2>4
<1>8. QED
  BY <1>3, <1>4, <1>6, <1>7 DEF front, rest

(* encode_frame takes the front of the queue, one entry at least. *)
LEMMA EncodedFrame ==
  ASSUME logs \in Seq(Entry), dropped_logs \in Nat, NEW header \in BOOLEAN,
         EncodeFrame(header)
  PROVE  /\ frame' \in Frame
         /\ Len(frame'.logs) <= Len(logs)
         /\ frame'.logs = SubSeq(logs, 1, Len(frame'.logs))
<1>1. PICK n \in 1..Len(logs), rnd \in Rnds :
        frame' = [rnd |-> rnd, header |-> header, notice |-> dropped_logs,
                  logs |-> SubSeq(logs, 1, n)]
  BY DEF EncodeFrame
<1>2. n \in 0..Len(logs) /\ n > 0
  BY <1>1, LenProperties
<1>3. SubSeq(logs, 1, n) \in Seq(Entry) /\ Len(SubSeq(logs, 1, n)) = n
  BY <1>2, QueueRest
<1>4. SubSeq(logs, 1, n) # <<>>
  BY <1>2, <1>3, EmptySeq
<1>5. QED
  BY <1>1, <1>2, <1>3, <1>4, LogFileAssumption DEF Frame, LogFileAssumption

----------------------------------------------------------------------------
(* The invariant *)

LEMMA IdsType ==
  ASSUME NEW q \in Seq(Entry)
  PROVE  Ids(q) \subseteq Nat
<1>1. \A i \in DOMAIN q : q[i] \in Entry
  BY LenProperties, ElementOfSeq
<1>2. QED
  BY <1>1 DEF Ids, Entry

LEMMA StoredType ==
  ASSUME NEW fl \in File
  PROVE  Stored(fl) \subseteq Nat
<1>1. \A i \in Whole(fl) : fl.blocks[i] \in Block
  BY LenProperties, ElementOfSeq DEF File, Whole
<1>2. \A i \in Whole(fl) : fl.blocks[i].frame.logs \in Seq(Entry)
  BY <1>1 DEF Block, Frame
<1>3. \A i \in Whole(fl) : Ids(fl.blocks[i].frame.logs) \subseteq Nat
  BY <1>2, IdsType
<1>4. QED
  BY <1>3 DEF Stored

LEMMA InitIInv == Init => IInv
<1> SUFFICES ASSUME Init PROVE IInv
  OBVIOUS
<1> USE DEF Init
<1>1. logs \in Seq(Entry) /\ file \in File /\ op = "idle" /\ frame = NoFrame
  BY EmptyFileType, EmptySeq
<1>2. gone \subseteq Nat /\ doubtful \subseteq Nat /\ evictions \in Int
  OBVIOUS
<1>3. TypeOK
  BY <1>1, <1>2 DEF TypeOK
<1>4. QED
  BY <1>1, <1>3 DEF IInv, Sound, FrameIsOldest, FileFitsAttempt, Readable

(* What an attempt that ends without success, or a crash, leaves: the next
   one finds a readable file, and checks its tail. *)
LEMMA Ended ==
  ASSUME op' = "idle", ~appending', ~removed', Readable(file)', ~tail_verified'
  PROVE  FrameIsOldest' /\ FileFitsAttempt'
BY DEF FrameIsOldest, FileFitsAttempt

LEMMA StepSound ==
  ASSUME Calm, Sound, [Next]_vars, ~LateEffect
  PROVE  Sound'
<1> USE DEF vars, queue, flags, attempt, ledger, history, Sound
<1>1. ASSUME NEW len \in Sizes, AddToLog(len)
      PROVE  Sound'
  <2> DEFINE q == Append(logs, [id |-> accepted + 1, len |-> len])
  <2>1. /\ q \in Seq(Entry) /\ Len(q) = Len(logs) + 1
    BY LogFileAssumption, AppendProperties DEF LogFileAssumption, TypeOK, Entry
  <2>2. PICK k \in 0..(Len(q) - 1) :
          /\ logs' = SubSeq(q, k + 1, Len(q))
          /\ dropped_logs' = dropped_logs + k
          /\ evictions' = evictions + k
          /\ gone' = gone \cup Ids(SubSeq(q, 1, k))
    BY <1>1 DEF AddToLog
  <2>3. k \in 0..Len(q) /\ k \in Nat
    BY <2>1, LenProperties
  <2>4. logs' \in Seq(Entry) /\ SubSeq(q, 1, k) \in Seq(Entry)
    BY <2>1, <2>2, <2>3, QueueRest
  <2>5. gone' \subseteq Nat
    BY <2>2, <2>4, IdsType DEF TypeOK
  <2> HIDE DEF q
  <2>6. dropped_logs' \in Nat /\ evictions' \in Int
    BY <2>2, <2>3 DEF TypeOK
  <2>7. op = "idle" /\ UNCHANGED <<flags, attempt, file, stuck, doubtful, overlap>>
        /\ timer' \in {timer, "running"} /\ accepted' = accepted + 1
    BY <1>1 DEF AddToLog
  <2>8. TypeOK'
    BY <2>4, <2>5, <2>6, <2>7 DEF TypeOK
  <2>9. FrameIsOldest' /\ FileFitsAttempt'
    BY <2>7 DEF FrameIsOldest, FileFitsAttempt
  <2>10. QED
    BY <2>7, <2>8, <2>9
<1>2. CASE FlushIntervalElapses
  BY <1>2 DEF FlushIntervalElapses, TypeOK, FrameIsOldest, FileFitsAttempt
<1>3. CASE WriteReturnsEarly
  BY <1>3 DEF WriteReturnsEarly, TypeOK, FrameIsOldest, FileFitsAttempt
<1>4. ASSUME NEW forced \in BOOLEAN, BeginWrite(forced)
      PROVE  Sound'
  BY <1>4 DEF BeginWrite, TypeOK, FrameIsOldest, FileFitsAttempt
<1>5. CASE Stat
  <2>1. /\ op = "stat" /\ UNCHANGED <<queue, flags, frame, appending, removed, file, stuck, history>>
        /\ op' = IF file = EmptyFile THEN "create"
                 ELSE IF tail_verified THEN "open" ELSE "cut"
    BY <1>5 DEF Stat, HasContent, Calm
  <2>2. TypeOK'
    BY <2>1 DEF TypeOK
  <2>3. Readable(file) /\ (tail_verified => OnBoundary(file))
    BY <2>1 DEF FileFitsAttempt
  <2>4. appending = FALSE /\ removed = FALSE
    BY <2>1 DEF TypeOK, FileFitsAttempt
  <2>5. FrameIsOldest' /\ FileFitsAttempt'
    BY <2>1, <2>3, <2>4 DEF FrameIsOldest, FileFitsAttempt, Readable, OnBoundary
  <2>6. QED
    BY <2>1, <2>2, <2>5
<1>6. CASE CutInterruptedTail
  <2>1. /\ op = "cut" /\ op' = "open" /\ ~removed
        /\ UNCHANGED <<queue, flags, frame, appending, removed, stuck, history>>
        /\ file' \in AfterTailCheck(file)
    BY <1>6 DEF CutInterruptedTail, Completed, Calm
  <2>2. file \in File /\ file.magic = "whole" /\ Readable(file)
    BY <2>1 DEF TypeOK, FileFitsAttempt
  <2>3. file' \in File /\ file'.magic = "whole" /\ AllWhole(file'.blocks)
    BY <2>1, <2>2, TailCheckRepairs
  <2>4. QED
    BY <2>1, <2>3 DEF TypeOK, FrameIsOldest, FileFitsAttempt
<1>7. CASE OpenAppend
  <2>1. /\ op = "open" /\ op' = "prefix" /\ appending' = TRUE /\ EncodeFrame(FALSE)
        /\ ~removed /\ UNCHANGED <<queue, flags, removed, file, stuck, history>>
    BY <1>7 DEF OpenAppend
  <2>2. /\ frame' \in Frame
        /\ Len(frame'.logs) <= Len(logs)
        /\ frame'.logs = SubSeq(logs, 1, Len(frame'.logs))
    BY <2>1, EncodedFrame DEF TypeOK
  <2>3. QED
    BY <2>1, <2>2 DEF TypeOK, FrameIsOldest, FileFitsAttempt
<1>8. CASE CreateFile
  <2>1. /\ op = "create" /\ op' = "magic" /\ file' = EmptyFile
        /\ UNCHANGED <<queue, flags, frame, appending, removed, stuck, history>>
    BY <1>8 DEF CreateFile, Completed
  <2>2. QED
    BY <2>1, EmptyFileType DEF TypeOK, FrameIsOldest, FileFitsAttempt
<1>9. CASE WriteMagic
  <2>1. /\ op = "magic" /\ op' = "prefix" /\ EncodeFrame(HasHeader)
        /\ file' = IF removed THEN file ELSE [file EXCEPT !.magic = "whole"]
        /\ UNCHANGED <<queue, flags, appending, removed, stuck, history>>
    BY <1>9 DEF WriteMagic, Lands, Completed
  <2>2. file = EmptyFile
    BY <2>1 DEF FileFitsAttempt
  <2>3. /\ file' \in File /\ file'.blocks = <<>>
        /\ removed => file' = EmptyFile
        /\ ~removed => file'.magic = "whole"
    BY <2>1, <2>2, EmptyFileType, EmptySeq DEF File
  <2>4. /\ frame' \in Frame
        /\ Len(frame'.logs) <= Len(logs)
        /\ frame'.logs = SubSeq(logs, 1, Len(frame'.logs))
    BY <2>1, LogFileAssumption, EncodedFrame DEF TypeOK, LogFileAssumption
  <2>5. QED
    BY <2>1, <2>3, <2>4 DEF TypeOK, FrameIsOldest, FileFitsAttempt, AllWhole
<1>10. CASE WritePrefix
  <2>1. /\ op = "prefix" /\ op' = "payload"
        /\ file' = IF removed THEN file ELSE PutPrefix(file, frame, appending, "prefix")
        /\ UNCHANGED <<queue, flags, frame, appending, removed, stuck, history>>
    BY <1>10 DEF WritePrefix, Lands, Completed
  <2>2. /\ file \in File /\ frame \in Frame /\ appending \in BOOLEAN
        /\ removed => file = EmptyFile
        /\ ~removed => /\ file.magic = "whole" /\ AllWhole(file.blocks)
                       /\ appending \/ file.blocks = <<>>
    BY <2>1 DEF TypeOK, FileFitsAttempt
  <2>3. /\ file' \in File
        /\ removed => file' = EmptyFile
        /\ ~removed => EndsInPrefix(file', frame, appending)
    BY <2>1, <2>2, PrefixLands
  <2>4. TypeOK'
    BY <2>1, <2>3 DEF TypeOK
  <2>5. QED
    BY <2>1, <2>3, <2>4 DEF FrameIsOldest, FileFitsAttempt
<1>11. CASE WritePayload
  <2>1. /\ op = "payload" /\ op' = "idle" /\ frame' = NoFrame /\ appending' = FALSE
        /\ removed' = FALSE
        /\ file' = IF removed THEN file ELSE PutPayload(file, frame, appending, "whole")
        /\ logs' = SubSeq(logs, Len(frame.logs) + 1, Len(logs))
        /\ dropped_logs' = 0 /\ timer' \in {"none", timer}
        /\ tail_verified' = TRUE /\ write_error_logged' = FALSE
        /\ gone' = IF removed THEN gone \cup Ids(frame.logs) ELSE gone
        /\ evictions' = IF removed THEN evictions - dropped_logs ELSE evictions
        /\ UNCHANGED <<stuck, accepted, doubtful, overlap>>
    BY <1>11 DEF WritePayload, Lands, Completed, Confirm, ConfirmDraining, Leave, GoneIfRemoved
  <2>2. /\ removed => file = EmptyFile
        /\ ~removed => EndsInPrefix(file, frame, appending)
        /\ frame \in Frame /\ appending \in BOOLEAN /\ file \in File
    BY <2>1 DEF TypeOK, FileFitsAttempt
  <2>3. file' \in File /\ Readable(file') /\ OnBoundary(file')
    <3>1. CASE removed
      BY <2>1, <2>2, <3>1 DEF Readable, OnBoundary
    <3>2. CASE ~removed
      BY <2>1, <2>2, <3>2, PayloadLands DEF OnBoundary
    <3>3. QED
      BY <3>1, <3>2
  <2>7. gone' \subseteq Nat /\ evictions' \in Int
    <3>1. Ids(frame.logs) \subseteq Nat
      BY <2>2, IdsType DEF Frame
    <3>2. gone \subseteq Nat /\ evictions \in Int /\ dropped_logs \in Nat
      BY DEF TypeOK
    <3>3. gone' \subseteq Nat
      BY <2>1, <3>1, <3>2
    <3>4. evictions' \in Int
      BY <2>1, <3>2
    <3>5. QED
      BY <3>3, <3>4
  <2>4. logs' \in Seq(Entry)
    <3>1. Len(frame.logs) \in 0..Len(logs)
      BY <2>1, <2>2, LenProperties DEF FrameIsOldest, Frame, TypeOK
    <3>2. QED
      BY <2>1, <3>1, QueueRest DEF TypeOK
  <2>5. TypeOK'
    BY <2>1, <2>3, <2>4, <2>7 DEF TypeOK
  <2>6. QED
    BY <2>1, <2>3, <2>5 DEF FrameIsOldest, FileFitsAttempt
<1>12. CASE WriteFails
  <2>1. /\ op' = "idle" /\ frame' = NoFrame /\ appending' = FALSE /\ removed' = FALSE
        /\ Lands(Interrupted(op, frame, appending, file))
        /\ tail_verified' = FALSE /\ write_error_logged' = TRUE
        /\ UNCHANGED <<queue, stuck, ledger, overlap>>
    BY <1>12 DEF WriteFails, NoteFailure, Leave
  <2>2. file' \in File /\ Readable(file')
    BY <2>1, LandingKeepsFile
  <2>3. TypeOK'
    BY <2>1, <2>2 DEF TypeOK
  <2>4. QED
    BY <2>1, <2>2, <2>3, Ended
<1>13. CASE WriteTimesOut
  <2>1. /\ op' = "idle" /\ frame' = NoFrame /\ appending' = FALSE /\ removed' = FALSE
        /\ Lands(Interrupted(op, frame, appending, file)
                   \cup Completed(op, frame, appending, file))
        /\ tail_verified' = FALSE /\ write_error_logged' = TRUE
        /\ doubtful' = IF op = "payload" THEN doubtful \cup Ids(frame.logs) ELSE doubtful
        /\ UNCHANGED <<queue, accepted, gone, evictions, overlap>>
    BY <1>13, NothingMayLand DEF WriteTimesOut, NoteFailure, Leave, Lands
  <2>2. file' \in File /\ Readable(file')
    BY <2>1, LandingKeepsFile
  <2>3. doubtful' \subseteq Nat
    <3>1. ASSUME op = "payload" PROVE Ids(frame.logs) \subseteq Nat
      BY <3>1, IdsType DEF TypeOK, Frame
    <3>2. QED
      BY <2>1, <3>1 DEF TypeOK
  <2>4. TypeOK'
    BY <2>1, <2>2, <2>3 DEF TypeOK
  <2>5. QED
    BY <2>1, <2>2, <2>4, Ended
<1>14. CASE LateEffect
  BY <1>14
<1>15. CASE Crash
  <2>1. /\ op' = "idle" /\ frame' = NoFrame /\ appending' = FALSE /\ removed' = FALSE
        /\ Lands(Interrupted(op, frame, appending, file)
                   \cup Completed(op, frame, appending, file))
        /\ logs' = <<>> /\ dropped_logs' = 0 /\ timer' = "none" /\ stuck' = {}
        /\ tail_verified' = FALSE /\ write_error_logged' = FALSE
        /\ gone' = gone \cup Ids(logs) /\ evictions' = evictions - dropped_logs
        /\ UNCHANGED <<accepted, doubtful, overlap>>
    BY <1>15 DEF Crash, Leave
  <2>2. file' \in File /\ Readable(file')
    BY <2>1, LandingKeepsFile
  <2>3. gone' \subseteq Nat /\ evictions' \in Int /\ logs' \in Seq(Entry)
    <3>1. logs \in Seq(Entry) /\ gone \subseteq Nat /\ evictions \in Int /\ dropped_logs \in Nat
      BY DEF TypeOK
    <3>2. Ids(logs) \subseteq Nat
      BY <3>1, IdsType
    <3>3. gone' \subseteq Nat
      BY <2>1, <3>1, <3>2
    <3>4. QED
      BY <2>1, <3>1, <3>3, EmptySeq
  <2>4. TypeOK'
    BY <2>1, <2>2, <2>3 DEF TypeOK
  <2>5. QED
    BY <2>1, <2>2, <2>4, Ended
<1>16. CASE DeleteFile
  <2>1. /\ file' = EmptyFile /\ evictions' = dropped_logs
        /\ removed' = (op \in {"cut", "open", "magic", "prefix", "payload"})
        /\ gone' = gone \cup Stored(file)
        /\ UNCHANGED <<queue, flags, op, frame, appending, accepted, doubtful, overlap>>
    BY <1>16 DEF DeleteFile
  <2>2. gone' \subseteq Nat /\ evictions' \in Int
    <3>1. file \in File /\ gone \subseteq Nat /\ dropped_logs \in Nat
      BY DEF TypeOK
    <3>2. Stored(file) \subseteq Nat
      BY <3>1, StoredType
    <3>3. gone' \subseteq Nat
      BY <2>1, <3>1, <3>2
    <3>4. evictions' \in Int
      BY <2>1, <3>1
    <3>5. QED
      BY <3>3, <3>4
  <2>3. TypeOK'
    BY <2>1, <2>2, EmptyFileType DEF TypeOK
  <2>4. QED
    BY <2>1, <2>3 DEF FrameIsOldest, FileFitsAttempt, Readable, OnBoundary
<1>17. CASE UNCHANGED vars
  BY <1>17 DEF TypeOK, FrameIsOldest, FileFitsAttempt, EndsInPrefix
<1>18. QED
  BY <1>1, <1>2, <1>3, <1>4, <1>5, <1>6, <1>7, <1>8, <1>9, <1>10, <1>11, <1>12,
     <1>13, <1>14, <1>15, <1>16, <1>17 DEF Next

LEMMA StepIInv ==
  ASSUME Mild, IInv, [Next]_vars
  PROVE  IInv'
<1> USE DEF vars, queue, flags, attempt, ledger, history
<1>1. Calm /\ Sound /\ ~LateEffect /\ stuck = {}
  BY MildIsCalm DEF IInv
<1>2. Sound'
  BY <1>1, StepSound
<1>3. CASE \/ \E len \in Sizes : AddToLog(len)
           \/ FlushIntervalElapses \/ WriteReturnsEarly
           \/ (\E forced \in BOOLEAN : BeginWrite(forced)) \/ UNCHANGED vars
  BY <1>1, <1>2, <1>3 DEF AddToLog, FlushIntervalElapses, WriteReturnsEarly, BeginWrite, IInv
<1>4. CASE Stat \/ CutInterruptedTail \/ OpenAppend \/ CreateFile \/ WriteMagic \/ WritePrefix
  BY <1>1, <1>2, <1>4 DEF Stat, CutInterruptedTail, OpenAppend, CreateFile, WriteMagic,
                          WritePrefix, IInv
<1>5. CASE WritePayload \/ WriteFails \/ WriteTimesOut \/ Crash \/ DeleteFile
  BY <1>1, <1>2, <1>5 DEF WritePayload, WriteFails, WriteTimesOut, Crash, DeleteFile, Mild, IInv
<1>6. QED
  BY <1>1, <1>3, <1>4, <1>5 DEF Next

(* The invariant holds in every reachable state, for every queue length,
   file and number of entries. *)
THEOREM Invariance == ASSUME Mild PROVE Spec => []IInv
<1>1. Init => IInv
  BY InitIInv
<1>2. IInv /\ [Next]_vars => IInv'
  BY StepIInv
<1>3. QED
  BY <1>1, <1>2, PTL DEF Spec

(* Every variable keeps its type, and no frame is ever empty. *)
THEOREM TypeCorrect == ASSUME Mild PROVE Spec => []TypeOK
<1>1. IInv => TypeOK
  BY DEF IInv, Sound
<1>2. QED
  BY <1>1, Invariance, PTL

(* After any sequence of failed, timed out and repeated attempts, crashes and
   deletions, a reader accepts the file. *)
THEOREM FileStaysReadable == ASSUME Mild PROVE Spec => []FileReadable
<1>1. ASSUME IInv PROVE FileReadable
  BY <1>1, MildIsCalm, SoundIsReadable DEF FileReadable
<1>2. QED
  BY <1>1, Invariance, PTL

(* tail_verified is never set on a file that ends inside a frame. *)
THEOREM TailStaysVerified == ASSUME Mild PROVE Spec => []TailVerified
<1>1. IInv => TailVerified
  BY DEF IInv, Sound, FileFitsAttempt, TailVerified
<1>2. QED
  BY <1>1, Invariance, PTL

----------------------------------------------------------------------------
(* Accepted entries *)

LEMMA AppendedIds ==
  ASSUME NEW q \in Seq(Entry), NEW e \in Entry
  PROVE  Ids(q) \cup {e.id} \subseteq Ids(Append(q, e))
<1>1. /\ DOMAIN q = 1..Len(q) /\ DOMAIN Append(q, e) = 1..(Len(q) + 1)
      /\ Len(q) \in Nat
      /\ \A i \in 1..Len(q) : Append(q, e)[i] = q[i]
      /\ Append(q, e)[Len(q) + 1] = e
  BY AppendProperties, LenProperties
<1> DEFINE r == Append(q, e)
<1>2. \A i \in DOMAIN q : i \in DOMAIN r /\ r[i].id = q[i].id
  BY <1>1
<1>3. Len(q) + 1 \in DOMAIN r /\ r[Len(q) + 1].id = e.id
  BY <1>1
<1> HIDE DEF r
<1>4. Ids(q) \subseteq Ids(r)
  BY <1>2 DEF Ids
<1>5. e.id \in Ids(r)
  BY <1>3 DEF Ids
<1>6. QED
  BY <1>4, <1>5 DEF r

(* Where the accepted entries are. *)
Held == Ids(logs) \cup gone \cup Stored(file)

(* Except for the entry add_to_log brings, no step changes what is accepted,
   and no step lets go of an entry. *)
LEMMA StepHeld ==
  ASSUME Calm, Sound, [Next]_vars, ~LateEffect
  PROVE  /\ Held \subseteq Held'
         /\ \/ accepted' = accepted
            \/ accepted' = accepted + 1 /\ accepted + 1 \in Held'
<1> USE DEF vars, queue, flags, attempt, ledger, history
<1>1. logs \in Seq(Entry) /\ file \in File /\ accepted \in Nat
  BY DEF Sound, TypeOK
<1>2. ASSUME NEW len \in Sizes, AddToLog(len)
      PROVE  Held \subseteq Held' /\ accepted' = accepted + 1 /\ accepted + 1 \in Held'
  <2> DEFINE e == [id |-> accepted + 1, len |-> len]
             q == Append(logs, e)
  <2>1. e \in Entry /\ e.id = accepted + 1
    BY <1>1, LogFileAssumption DEF LogFileAssumption, Entry
  <2>2. q \in Seq(Entry) /\ Ids(logs) \cup {accepted + 1} \subseteq Ids(q)
    BY <1>1, <2>1, AppendProperties, AppendedIds
  <2>3. PICK k \in 0..(Len(q) - 1) :
          /\ logs' = SubSeq(q, k + 1, Len(q))
          /\ gone' = gone \cup Ids(SubSeq(q, 1, k))
    BY <1>2 DEF AddToLog
  <2>4. k \in 0..Len(q)
    BY <2>2, LenProperties
  <2>5. Ids(q) = Ids(SubSeq(q, 1, k)) \cup Ids(logs')
    BY <2>2, <2>3, <2>4, QueueRest
  <2>6. file' = file /\ accepted' = accepted + 1
    BY <1>2 DEF AddToLog
  <2> HIDE DEF q
  <2>7. QED
    BY <2>2, <2>3, <2>5, <2>6 DEF Held
<1>3. ASSUME logs' = logs, gone' = gone, accepted' = accepted,
             Stored(file) \subseteq Stored(file')
      PROVE  Held \subseteq Held' /\ accepted' = accepted
  BY <1>3 DEF Held
<1>4. ASSUME NEW files, Lands(files),
             files \subseteq Interrupted(op, frame, appending, file)
                               \cup Completed(op, frame, appending, file)
      PROVE  Stored(file) \subseteq Stored(file')
  BY <1>4, LandingKeepsFile
<1>5. CASE WritePayload
  <2>1. /\ op = "payload"
        /\ file' = IF removed THEN file ELSE PutPayload(file, frame, appending, "whole")
        /\ logs' = SubSeq(logs, Len(frame.logs) + 1, Len(logs))
        /\ gone' = IF removed THEN gone \cup Ids(frame.logs) ELSE gone
        /\ accepted' = accepted
    BY <1>5 DEF WritePayload, Lands, Completed, Confirm, ConfirmDraining, GoneIfRemoved
  <2>2. /\ ~removed => EndsInPrefix(file, frame, appending)
        /\ frame \in Frame
        /\ appending \in BOOLEAN
        /\ Len(frame.logs) <= Len(logs)
        /\ frame.logs = SubSeq(logs, 1, Len(frame.logs))
    BY <2>1 DEF Sound, TypeOK, FileFitsAttempt, FrameIsOldest
  <2>3. /\ Stored(file) \subseteq Stored(file') /\ gone \subseteq gone'
        /\ Ids(frame.logs) \subseteq Stored(file') \cup gone'
    <3>1. CASE removed
      BY <2>1, <3>1
    <3>2. CASE ~removed
      BY <1>1, <2>1, <2>2, <3>2, PayloadLands
    <3>3. QED
      BY <3>1, <3>2
  <2>4. Len(frame.logs) \in 0..Len(logs)
    BY <1>1, <2>2, LenProperties DEF Frame
  <2>5. Ids(logs) = Ids(SubSeq(logs, 1, Len(frame.logs))) \cup Ids(logs')
    BY <1>1, <2>1, <2>4, QueueRest
  <2>6. Ids(logs) = Ids(frame.logs) \cup Ids(logs')
    BY <2>2, <2>5
  <2>7. QED
    BY <2>1, <2>3, <2>6 DEF Held
<1>6. CASE Crash
  BY <1>4, <1>6 DEF Crash, Held
<1>7. CASE DeleteFile
  BY <1>7 DEF DeleteFile, Held
<1>8. CASE FlushIntervalElapses \/ WriteReturnsEarly \/ Stat \/ OpenAppend
           \/ (\E forced \in BOOLEAN : BeginWrite(forced)) \/ UNCHANGED vars
  BY <1>3, <1>8 DEF FlushIntervalElapses, WriteReturnsEarly, BeginWrite, Stat, OpenAppend
<1>9. CASE CutInterruptedTail \/ CreateFile \/ WriteMagic \/ WritePrefix
  <2>1. CASE CutInterruptedTail \/ CreateFile
    <3>1. op \in {"cut", "create"} /\ ~removed /\ file' \in Completed(op, frame, appending, file)
      BY <2>1 DEF CutInterruptedTail, CreateFile, Sound, FileFitsAttempt
    <3>2. Lands(Completed(op, frame, appending, file))
      BY <3>1 DEF Lands
    <3>3. QED
      BY <1>3, <1>4, <2>1, <3>2 DEF CutInterruptedTail, CreateFile
  <2>2. CASE WriteMagic \/ WritePrefix
    BY <1>3, <1>4, <2>2 DEF WriteMagic, WritePrefix
  <2>3. QED
    BY <1>9, <2>1, <2>2
<1>10. CASE WriteFails \/ WriteTimesOut
  <2>1. CASE WriteFails
    BY <1>3, <1>4, <2>1 DEF WriteFails, NoteFailure
  <2>2. CASE WriteTimesOut
    <3>1. \/ Lands(Interrupted(op, frame, appending, file)
                    \cup Completed(op, frame, appending, file))
          \/ file' = file
      BY <2>2 DEF WriteTimesOut
    <3>2. Stored(file) \subseteq Stored(file')
      BY <1>4, <3>1
    <3>3. QED
      BY <1>3, <2>2, <3>2 DEF WriteTimesOut, NoteFailure
  <2>3. QED
    BY <1>10, <2>1, <2>2
<1>11. CASE LateEffect
  BY <1>11
<1>12. QED
  BY <1>2, <1>5, <1>6, <1>7, <1>8, <1>9, <1>10, <1>11 DEF Next

LEMMA NoneVanishes ==
  ASSUME accepted \in Nat, NoEntryVanishes, Held \subseteq Held',
         accepted' = accepted \/ (accepted' = accepted + 1 /\ accepted + 1 \in Held')
  PROVE  NoEntryVanishes'
<1>1. 1..accepted \subseteq Held
  BY DEF NoEntryVanishes, Held
<1>2. 1..(accepted + 1) = 1..accepted \cup {accepted + 1}
  OBVIOUS
<1>3. 1..accepted' \subseteq Held'
  BY <1>1, <1>2
<1>4. QED
  BY <1>3 DEF NoEntryVanishes, Held

(* No entry is lost between the queue and the file: whatever fails, and
   however often it is retried. *)
THEOREM NoEntryEverVanishes == ASSUME Mild PROVE Spec => []NoEntryVanishes
<1>1. Init => NoEntryVanishes
  BY DEF Init, NoEntryVanishes
<1>2. ASSUME IInv, NoEntryVanishes, [Next]_vars PROVE NoEntryVanishes'
  <2>1. accepted \in Nat
    BY <1>2 DEF IInv, Sound, TypeOK
  <2>2. QED
    BY <1>2, <2>1, MildIsCalm, StepHeld, NoneVanishes
<1>3. QED
  BY <1>1, <1>2, Invariance, PTL DEF Spec
=============================================================================
