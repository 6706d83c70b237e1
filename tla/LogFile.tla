------------------------------ MODULE LogFile ------------------------------
(***************************************************************************)
(* One LogFile of the worker (lib.rs, add_to_log.rs, write_to_file.rs):    *)
(* the queue of pending entries, the write attempt that moves them to the  *)
(* file, and the file itself.  The worker is one task, so an attempt and   *)
(* the other operations on the queue never overlap; but an attempt is a    *)
(* chain of awaits, and at each of them the disk may fail, WRITE_TIMEOUT   *)
(* may drop the attempt, or the process may die.                           *)
(***************************************************************************)
EXTENDS Integers, Sequences, FiniteSets, SequencesExt

CONSTANTS
  Sizes,          \* lengths of a formatted entry, in units of the cap
  QueueMaxBytes,  \* QUEUE_MAX_BYTES
  HasHeader,      \* whether the definition has a non-empty header
  Rnds,           \* values of a frame's random byte
  Faults,         \* what the environment may do, a subset of FaultKinds
  MaxEntries,     \* bound: entries ever accepted
  MaxBlocks       \* bound: no attempt begins on a file with this many blocks

(***************************************************************************)
(* "error"       an operation fails, after landing a part of its bytes     *)
(* "timeout"     WRITE_TIMEOUT drops the attempt                           *)
(* "crash"       the process dies and a new worker starts                  *)
(* "delete"      the file is removed, an attempt or not                    *)
(* "late"        an operation of a timed-out attempt takes effect later    *)
(* "torn_magic"  a short write may land a part of the magic                *)
(* "stat_error"  fs::metadata may fail on a file that exists               *)
(* "oversize"    the file may be above TAIL_CHECK_MAX_LEN                  *)
(***************************************************************************)
FaultKinds == {"error", "timeout", "crash", "delete",
               "late", "torn_magic", "stat_error", "oversize"}

ASSUME LogFileAssumption ==
  /\ Sizes \subseteq Nat
  /\ QueueMaxBytes \in Nat
  /\ HasHeader \in BOOLEAN
  /\ Rnds \subseteq 0..255
  /\ Faults \subseteq FaultKinds
  /\ MaxEntries \in Nat
  /\ MaxBlocks \in Nat

VARIABLES
  logs,               \* LogFile.logs: the queued entries, oldest first
  queued_bytes,       \* LogFile.queued_bytes
  dropped_logs,       \* LogFile.dropped_logs
  timer,              \* LogFile.time_of_first_addition_of_log_after_write
  tail_verified,      \* LogFile.tail_verified
  write_error_logged, \* LogFile.write_error_logged
  op,                 \* the operation the attempt is waiting for
  frame,              \* the frame the attempt has encoded
  appending,          \* the attempt's File was opened with append(true)
  removed,            \* the file the attempt is about is no longer at its path
  file,               \* what is on the disk
  stuck,              \* operations a timed-out attempt left in the blocking pool
  accepted,           \* history: number of entries ever queued
  gone,               \* history: entries evicted, or lost to a crash or deletion
  evictions,          \* history: evictions a notice is owed for or reported
  doubtful,           \* history: entries a timed-out attempt may have landed
  overlap             \* history: an attempt began while an operation was stuck

queue   == <<logs, queued_bytes, dropped_logs, timer>>
flags   == <<tail_verified, write_error_logged>>
attempt == <<op, frame, appending, removed>>
ledger  == <<accepted, gone, evictions, doubtful>>
history == <<ledger, overlap>>
vars    == <<queue, flags, attempt, file, stuck, history>>

----------------------------------------------------------------------------
(* Data *)

Entry == [id : Nat, len : Nat]
Frame == [rnd : 0..255, header : BOOLEAN, notice : Nat, logs : Seq(Entry) \ {<<>>}]

NoFrame == [rnd |-> 0, header |-> FALSE, notice |-> 0, logs |-> <<>>]

(* How much of a frame a block of the file holds: a part of its prefix, the
   prefix alone, a part of the payload, all of it.  Late writes also leave
   payload with no prefix before it ("stray") and overwrite a block
   ("clobbered"). *)
Torn  == {"marker", "prefix", "part"}
Block == [frame : Frame, got : Torn \cup {"whole", "stray", "clobbered"}]
File  == [magic : {"absent", "torn", "whole"}, blocks : Seq(Block)]

(* A missing file and one of length zero are the same to the code. *)
EmptyFile == [magic |-> "absent", blocks |-> <<>>]

Ids(q)   == {q[i].id : i \in DOMAIN q}
Bytes(q) == SumFunction([i \in DOMAIN q |-> q[i].len])

----------------------------------------------------------------------------
(* What a reader makes of the file *)

(* A truncated last block is recovered; anything else makes the reader
   reject the whole file. *)
Readable(fl) ==
  \/ fl = EmptyFile
  \/ /\ fl.magic = "whole"
     /\ \A i \in DOMAIN fl.blocks :
          \/ fl.blocks[i].got = "whole"
          \/ i = Len(fl.blocks) /\ fl.blocks[i].got \in Torn

Whole(fl) == {i \in DOMAIN fl.blocks : fl.blocks[i].got = "whole"}

(* The ids of the entries a reader gets out of the file. *)
Stored(fl) ==
  IF Readable(fl) THEN UNION {Ids(fl.blocks[i].frame.logs) : i \in Whole(fl)}
                  ELSE {}

AllWhole(bs) == \A i \in DOMAIN bs : bs[i].got = "whole"

(* The file ends exactly on a frame boundary. *)
OnBoundary(fl) == fl = EmptyFile \/ (fl.magic = "whole" /\ AllWhole(fl.blocks))

----------------------------------------------------------------------------
(* Effects of the file operations *)

HasContent(fl) == fl # EmptyFile

(* Bytes of f's prefix reach the file: at the end through an append handle,
   at the handle's own offset, right after the magic, through the handle
   File::create returned. *)
PutPrefix(fl, f, app, got) ==
  [fl EXCEPT !.blocks = IF app \/ @ = <<>> THEN Append(@, [frame |-> f, got |-> got])
                                           ELSE [@ EXCEPT ![1].got = "clobbered"]]

PutPayload(fl, f, app, got) ==
  LET n == Len(fl.blocks)
  IN IF n > 0 /\ (app \/ n = 1) /\ fl.blocks[n] = [frame |-> f, got |-> "prefix"]
     THEN [fl EXCEPT !.blocks[n] = [frame |-> f, got |-> got]]
     ELSE [fl EXCEPT !.blocks = IF app \/ n = 0 THEN Append(@, [frame |-> f, got |-> "stray"])
                                                ELSE [@ EXCEPT ![1].got = "clobbered"]]

(* Where truncated_frame_start stops: the first block that is not whole. *)
FirstBroken(bs) ==
  {i \in DOMAIN bs : /\ bs[i].got # "whole"
                     /\ \A j \in 1..(i - 1) : bs[j].got = "whole"}

CutBeforeThePrevious(fl, i) == [fl EXCEPT !.blocks = SubSeq(@, 1, i - 2)]
CutBefore(fl, i) == [fl EXCEPT !.blocks = SubSeq(@, 1, i - 1)]

EndsInside(fl, i) == i = Len(fl.blocks) /\ fl.blocks[i].got \in Torn

(* A cut between the first byte and the last of block i leaves a part of it. *)
CutInside(fl, i) ==
  LET part == CASE fl.blocks[i].got = "whole"  -> "part"
                [] fl.blocks[i].got = "prefix" -> "marker"
                [] OTHER                       -> fl.blocks[i].got
  IN [fl EXCEPT !.blocks = Append(SubSeq(@, 1, i - 1), [@[i] EXCEPT !.got = part])]

(* cut_interrupted_tail.  A file without the whole magic is left alone.  When
   blocks follow the broken one, its declared size, or what is read as one,
   spans bytes that are not its own: the walk stops at a byte that starts no
   frame (no cut), or takes for a torn frame whatever bytes it landed on, in
   the broken block or anywhere after it. *)
AfterTailCheck(fl) ==
  IF fl.magic # "whole" THEN {fl}
  ELSE LET broken == FirstBroken(fl.blocks)
       IN IF \E i \in broken : EndsInside(fl, i)
          THEN {CutBefore(fl, i) : i \in broken}
          ELSE {fl} \cup UNION {{CutBefore(fl, j), CutInside(fl, j)} :
                                 j \in {k \in DOMAIN fl.blocks : \E i \in broken : i <= k}}

(* The file once operation o of an attempt has completed. *)
Completed(o, f, app, fl) ==
  CASE o = "cut"     -> AfterTailCheck(fl) \cup (IF "oversize" \in Faults THEN {fl} ELSE {})
    [] o = "create"  -> {EmptyFile}
    [] o = "magic"   -> {[fl EXCEPT !.magic = "whole"]}
    [] o = "prefix"  -> {PutPrefix(fl, f, app, "prefix")}
    [] o = "payload" -> {PutPayload(fl, f, app, "whole")}
    [] OTHER         -> {fl}

(* The file if the operation stops short: nothing landed, or a part. *)
Interrupted(o, f, app, fl) ==
  {fl} \cup
  CASE o = "magic" /\ "torn_magic" \in Faults -> {[fl EXCEPT !.magic = "torn"]}
    [] o = "prefix"  -> {PutPrefix(fl, f, app, "marker")}
    [] o = "payload" -> {PutPayload(fl, f, app, "part")}
    [] OTHER         -> {}

(* The file at the path once one of these is what the attempt has made of its
   own: they are the same unless that one has been removed. *)
Lands(files) == file' \in IF removed THEN {file} ELSE files

----------------------------------------------------------------------------
(* Queueing: LogDefinition::add_to_log *)

Init ==
  /\ logs = <<>> /\ queued_bytes = 0 /\ dropped_logs = 0 /\ timer = "none"
  /\ tail_verified = FALSE /\ write_error_logged = FALSE
  /\ op = "idle" /\ frame = NoFrame /\ appending = FALSE /\ removed = FALSE
  /\ file = EmptyFile /\ stuck = {}
  /\ accepted = 0 /\ gone = {} /\ evictions = 0 /\ doubtful = {}
  /\ overlap = FALSE

(* Dropping the k oldest entries of q brings the count under the cap, or
   leaves one entry. *)
Fits(q, bytes, k) ==
  bytes - Bytes(SubSeq(q, 1, k)) <= QueueMaxBytes \/ k = Len(q) - 1

EvictsOneAtMost(q, bytes, k) == k = (IF Fits(q, bytes, 0) THEN 0 ELSE 1)

(* k is the number of entries the eviction loop pops. *)
Evicts(q, bytes, k) ==
  Fits(q, bytes, k) /\ \A j \in 0..(k - 1) : ~Fits(q, bytes, j)

AddToLog(len) ==
  /\ op = "idle"
  /\ accepted < MaxEntries
  /\ LET q     == Append(logs, [id |-> accepted + 1, len |-> len])
         bytes == queued_bytes + len
     IN \E k \in 0..(Len(q) - 1) :
          /\ Evicts(q, bytes, k)
          /\ logs' = SubSeq(q, k + 1, Len(q))
          /\ queued_bytes' = bytes - Bytes(SubSeq(q, 1, k))
          /\ dropped_logs' = dropped_logs + k
          /\ evictions' = evictions + k
          /\ gone' = gone \cup Ids(SubSeq(q, 1, k))
  /\ timer' = IF timer = "none" THEN "running" ELSE timer
  /\ accepted' = accepted + 1
  /\ UNCHANGED <<flags, attempt, file, stuck, doubtful, overlap>>

(* The oldest entry has been waiting for the definition's flush_interval. *)
FlushIntervalElapses ==
  /\ op = "idle" /\ timer = "running"
  /\ timer' = "due"
  /\ UNCHANGED <<logs, queued_bytes, dropped_logs, flags, attempt, file, stuck, history>>

----------------------------------------------------------------------------
(* The write attempt: LogFile::write_to_file under LogDefinition::write_to_file *)

(* Nothing queued, or (a writer tick) the interval has not elapsed. *)
WriteReturnsEarly ==
  /\ op = "idle"
  /\ logs = <<>> \/ timer = "running"
  /\ timer' = IF logs = <<>> THEN "none" ELSE timer
  /\ write_error_logged' = FALSE
  /\ UNCHANGED <<logs, queued_bytes, dropped_logs, tail_verified, attempt, file, stuck, history>>

(* A writer tick past the interval, or a flush, which passes interval 0:
   the attempt creates the directory and asks for the file's metadata. *)
BeginWrite(forced) ==
  /\ op = "idle" /\ logs # <<>>
  /\ forced \/ timer # "running"
  /\ Len(file.blocks) < MaxBlocks
  /\ op' = "stat"
  /\ overlap' = (overlap \/ stuck # {})
  /\ UNCHANGED <<queue, flags, frame, appending, removed, file, stuck, ledger>>

Stat ==
  /\ op = "stat"
  /\ \E has_content \in {HasContent(file)} \cup (IF "stat_error" \in Faults THEN {FALSE} ELSE {}) :
       op' = IF ~has_content THEN "create"
             ELSE IF tail_verified THEN "open" ELSE "cut"
  /\ UNCHANGED <<queue, flags, frame, appending, removed, file, stuck, history>>

CutInterruptedTail ==
  /\ op = "cut" /\ ~removed
  /\ file' \in Completed("cut", frame, appending, file)
  /\ op' = "open"
  /\ UNCHANGED <<queue, flags, frame, appending, removed, stuck, history>>

(* encode_frame: a header for a new file only, a notice if entries were
   dropped, and as many of the oldest entries as the 2 MB of compressed
   output take, at least one. *)
EncodeNothingAtTheLimit(header) ==
  \E n \in 0..Len(logs), rnd \in Rnds :
    frame' = [rnd |-> rnd, header |-> header, notice |-> dropped_logs, logs |-> SubSeq(logs, 1, n)]

EncodeAlwaysWithHeader(header) ==
  \E n \in 1..Len(logs), rnd \in Rnds :
    frame' = [rnd |-> rnd, header |-> TRUE, notice |-> dropped_logs, logs |-> SubSeq(logs, 1, n)]

EncodeFrame(header) ==
  \E n \in 1..Len(logs), rnd \in Rnds :
    frame' = [rnd    |-> rnd,
              header |-> header,
              notice |-> dropped_logs,
              logs   |-> SubSeq(logs, 1, n)]

OpenAppend ==
  /\ op = "open" /\ ~removed
  /\ appending' = TRUE
  /\ EncodeFrame(FALSE)
  /\ op' = "prefix"
  /\ UNCHANGED <<queue, flags, removed, file, stuck, history>>

CreateFile ==
  /\ op = "create"
  /\ file' \in Completed("create", frame, appending, file)
  /\ op' = "magic"
  /\ UNCHANGED <<queue, flags, frame, appending, removed, stuck, history>>

WriteMagic ==
  /\ op = "magic"
  /\ Lands(Completed("magic", frame, appending, file))
  /\ EncodeFrame(HasHeader)
  /\ op' = "prefix"
  /\ UNCHANGED <<queue, flags, appending, removed, stuck, history>>

WritePrefix ==
  /\ op = "prefix"
  /\ Lands(Completed("prefix", frame, appending, file))
  /\ op' = "payload"
  /\ UNCHANGED <<queue, flags, frame, appending, removed, stuck, history>>

Leave == op' = "idle" /\ frame' = NoFrame /\ appending' = FALSE /\ removed' = FALSE

(* Drain what the frame consumed; the notice has carried the count. *)
ConfirmDraining(n) ==
  /\ logs' = SubSeq(logs, n + 1, Len(logs))
  /\ queued_bytes' = queued_bytes - Bytes(SubSeq(logs, 1, n))
  /\ dropped_logs' = 0
  /\ tail_verified' = TRUE
  /\ write_error_logged' = FALSE
  /\ timer' = IF logs' = <<>> THEN "none" ELSE timer

ConfirmKeepingTheCount(consumed) ==
  /\ logs' = SubSeq(logs, consumed + 1, Len(logs))
  /\ queued_bytes' = queued_bytes - Bytes(SubSeq(logs, 1, consumed))
  /\ dropped_logs' = dropped_logs
  /\ tail_verified' = TRUE
  /\ write_error_logged' = FALSE
  /\ timer' = IF logs' = <<>> THEN "none" ELSE timer

ConfirmAll(consumed)        == ConfirmDraining(Len(logs))
ConfirmOneTooFew(consumed)  == ConfirmDraining(consumed - 1)
Confirm(consumed)           == ConfirmDraining(consumed)

(* What goes to a removed file goes with it. *)
GoneIfRemoved ==
  /\ gone' = IF removed THEN gone \cup Ids(frame.logs) ELSE gone
  /\ evictions' = IF removed THEN evictions - dropped_logs ELSE evictions

(* The payload and the flush complete, and only now the queue is drained. *)
WritePayload ==
  /\ op = "payload"
  /\ Lands(Completed("payload", frame, appending, file))
  /\ Confirm(Len(frame.logs))
  /\ Leave
  /\ GoneIfRemoved
  /\ UNCHANGED <<stuck, accepted, doubtful, overlap>>

(* The attempt did not succeed: the queue and the count stay as they are. *)
NoteFailureTrustingTheTail ==
  /\ write_error_logged' = TRUE
  /\ Leave
  /\ UNCHANGED <<queue, tail_verified>>

NoteFailureForgettingTheCount ==
  /\ tail_verified' = FALSE /\ write_error_logged' = TRUE
  /\ Leave
  /\ dropped_logs' = 0
  /\ UNCHANGED <<logs, queued_bytes, timer>>

NoteFailure ==
  /\ tail_verified' = FALSE /\ write_error_logged' = TRUE
  /\ Leave
  /\ UNCHANGED queue

(* A disk error; or there is no file to check or to open any more. *)
WriteFails ==
  /\ op \notin {"idle", "stat"}
  /\ "error" \in Faults \/ (removed /\ op \in {"cut", "open"})
  /\ Lands(Interrupted(op, frame, appending, file))
  /\ NoteFailure
  /\ UNCHANGED <<stuck, ledger, overlap>>

(* The timeout stops the wait, not the operation: it has had its effect, or
   a part of it, or none; or it is still to come. *)
WriteTimesOut ==
  /\ "timeout" \in Faults
  /\ op # "idle"
  /\ NoteFailure
  /\ doubtful' = IF op = "payload" THEN doubtful \cup Ids(frame.logs) ELSE doubtful
  /\ \/ /\ Lands(Interrupted(op, frame, appending, file)
                   \cup Completed(op, frame, appending, file))
        /\ UNCHANGED stuck
     \/ /\ "late" \in Faults
        /\ stuck = {} /\ op \notin {"stat", "open"} /\ ~removed
        /\ stuck' = {[op |-> op, frame |-> frame, appending |-> appending,
                      cut |-> IF op = "cut" THEN FirstBroken(file.blocks) ELSE {}]}
        /\ UNCHANGED file
  /\ UNCHANGED <<accepted, gone, evictions, overlap>>

----------------------------------------------------------------------------
(* The environment *)

(* An operation of a timed-out attempt completes in the background.  A tail
   check walks the file as it is then, or its set_len lands at the offset an
   earlier walk had found; FrameFormat takes the check step by step.  A late
   create leaves a file that can be opened. *)
LateEffect ==
  /\ \E w \in stuck :
       file' \in IF w.op = "cut"
                 THEN AfterTailCheck(file) \cup {file}
                        \cup {CutBefore(file, i) : i \in w.cut \cap DOMAIN file.blocks}
                 ELSE Completed(w.op, w.frame, w.appending, file)
  /\ removed' = (removed /\ ~(op \in {"cut", "open"} /\ \E w \in stuck : w.op = "create"))
  /\ stuck' = {}
  /\ UNCHANGED <<queue, flags, op, frame, appending, history>>

(* The process dies, or its runtime is dropped; the definition is
   registered again with the next worker. *)
Crash ==
  /\ "crash" \in Faults
  /\ Lands(Interrupted(op, frame, appending, file) \cup Completed(op, frame, appending, file))
  /\ logs' = <<>> /\ queued_bytes' = 0 /\ dropped_logs' = 0 /\ timer' = "none"
  /\ tail_verified' = FALSE /\ write_error_logged' = FALSE
  /\ Leave
  /\ stuck' = {}
  /\ gone' = gone \cup Ids(logs)
  /\ evictions' = evictions - dropped_logs
  /\ UNCHANGED <<accepted, doubtful, overlap>>

(* The cleanup pass, a removal that a cut-off pass left in the blocking pool,
   or an operator removes the file, in the middle of an attempt or not.  What is
   still to be written through an open handle goes to the removed file; an
   operation that has yet to open the path does it later. *)
DeleteFile ==
  /\ "delete" \in Faults
  /\ file # EmptyFile \/ (op = "magic" /\ ~removed)
  /\ file' = EmptyFile
  /\ removed' = (op \in {"cut", "open", "magic", "prefix", "payload"})
  /\ gone' = gone \cup Stored(file)
  /\ evictions' = dropped_logs
  /\ stuck' = {[w EXCEPT !.cut = {}] : w \in {v \in stuck : v.op \in {"cut", "create"}}}
  /\ UNCHANGED <<queue, flags, op, frame, appending, accepted, doubtful, overlap>>

Next ==
  \/ \E len \in Sizes : AddToLog(len)
  \/ FlushIntervalElapses
  \/ WriteReturnsEarly
  \/ \E forced \in BOOLEAN : BeginWrite(forced)
  \/ Stat
  \/ CutInterruptedTail
  \/ OpenAppend
  \/ CreateFile
  \/ WriteMagic
  \/ WritePrefix
  \/ WritePayload
  \/ WriteFails
  \/ WriteTimesOut
  \/ LateEffect
  \/ Crash
  \/ DeleteFile

Spec == Init /\ [][Next]_vars

----------------------------------------------------------------------------
(* Properties *)

(* Every variable holds a value of its type; an attempt holds a frame only
   between encode_frame and the drain, and that frame carries an entry.
   queued_bytes is covered by QueueWithinCap. *)
TypeOK ==
  /\ logs \in Seq(Entry)
  /\ dropped_logs \in Nat
  /\ timer \in {"none", "running", "due"}
  /\ tail_verified \in BOOLEAN /\ write_error_logged \in BOOLEAN
  /\ op \in {"idle", "stat", "cut", "open", "create", "magic", "prefix", "payload"}
  /\ frame \in IF op \in {"prefix", "payload"} THEN Frame ELSE {NoFrame}
  /\ appending \in BOOLEAN /\ removed \in BOOLEAN
  /\ file \in File
  /\ accepted \in Nat /\ evictions \in Int
  /\ gone \subseteq Nat /\ doubtful \subseteq Nat
  /\ overlap \in BOOLEAN

(* add_to_log, drain: the byte count always is the sum over the queue, so
   it never underflows, and only a single entry may exceed the cap; the
   entry added last is never the one evicted. *)
QueueWithinCap ==
  /\ queued_bytes = Bytes(logs)
  /\ queued_bytes <= QueueMaxBytes \/ Len(logs) = 1
  /\ logs # <<>> => logs[Len(logs)].id = accepted

(* At every instant, whatever write was interrupted, a reader accepts the
   file: a broken frame is only ever the last one. *)
FileReadable == Readable(file)

(* tail_verified, which lets an attempt append without the tail check,
   is never stale between two attempts. *)
TailVerified == tail_verified /\ op = "idle" => OnBoundary(file)

(* An entry that was queued is still queued, or a reader finds it, or it was
   evicted, or it went with a crash or a deletion: no order of failed, timed
   out and repeated writes loses one. *)
NoEntryVanishes ==
  \A e \in 1..accepted : e \in Ids(logs) \cup gone \cup Stored(file)

(* A reader meets the entries in the order they were queued and each one
   once; an entry may come back only when a timed-out write had landed it. *)
InOrderOnceUnlessTimedOut ==
  \A i, j \in Whole(file) : i < j =>
    \A a \in Ids(file.blocks[i].frame.logs), b \in Ids(file.blocks[j].frame.logs) :
      a < b \/ b \in doubtful

(* No eviction goes unreported: each is in the count still owed or in a
   notice a reader finds. *)
EvictionsReported ==
  evictions <= dropped_logs
    + SumFunctionOnSet([i \in DOMAIN file.blocks |-> file.blocks[i].frame.notice], Whole(file))

(* clean_up forgets a LogFile whose queue is empty, and its count with it:
   then no report is owed.  Evictions leave an entry behind, and only the
   write that takes the last one clears the queue. *)
EmptyQueueOwesNothing == op = "idle" /\ logs = <<>> => dropped_logs = 0

(* Only the frame a file was created for carries the header. *)
HeaderAtMostOnce ==
  \A i \in Whole(file) : file.blocks[i].frame.header => i = 1

(* What a reader could read, no later step takes away or moves: a cut, a
   retry, a crash only touch what follows the intact frames.  Only deleting
   the file does. *)
IntactBlocksStay ==
  [][\/ DeleteFile
     \/ \A i \in Whole(file) : i \in Whole(file') /\ file'.blocks[i] = file.blocks[i]]_vars

(* What the file promises its callers, entries as a whole. *)
Promise == INSTANCE EntryStore WITH
  pending <- [i \in DOMAIN logs |-> logs[i].id],
  stored  <- Stored(file),
  astray  <- removed

(* Every step of the code accepts, stores, retries, loses or deletes entries
   as EntryStore allows. *)
ImplementsEntryStore == Promise!Spec

(* write_to_file.rs, WRITE_TIMEOUT: what a timed-out operation does in the
   background can only hurt by interleaving with a subsequent attempt: as long
   as none began before it was over, no entry is lost and the file reads. *)
LateEffectsHurtOnlyByOverlap ==
  overlap \/ (FileReadable /\ NoEntryVanishes /\ InOrderOnceUnlessTimedOut)

(* README.md: "File header written once when a new log file is created". *)
HeaderLeads ==
  HasHeader => \A i \in Whole(file) : file.blocks[1].frame.header

----------------------------------------------------------------------------
(* The inductive invariant, under the faults of MCLogFile.cfg. *)

(* What is framed is the front of the queue, unchanged since. *)
FrameIsOldest ==
  op \in {"prefix", "payload"} =>
    /\ Len(frame.logs) <= Len(logs)
    /\ frame.logs = SubSeq(logs, 1, Len(frame.logs))

(* The file ends in frame f with its prefix complete, and a handle opened as
   app says is at its end. *)
EndsInPrefix(fl, f, app) ==
  LET n == Len(fl.blocks)
  IN /\ fl.magic = "whole" /\ n > 0
     /\ fl.blocks[n] = [frame |-> f, got |-> "prefix"]
     /\ \A i \in 1..(n - 1) : fl.blocks[i].got = "whole"
     /\ app \/ n = 1

(* What each await of an attempt may rely on: nothing is at the path any more,
   or the file is as the attempt has left it. *)
FileFitsAttempt ==
  /\ op \in {"idle", "stat", "cut"} => Readable(file)
  /\ op \in {"idle", "stat"} /\ tail_verified => OnBoundary(file)
  /\ op \in {"create", "magic"} => file = EmptyFile
  /\ op \notin {"prefix", "payload"} => ~appending
  /\ removed => file = EmptyFile /\ op \in {"cut", "open", "magic", "prefix", "payload"}
  /\ ~removed =>
       /\ op \in {"cut", "open"} => file.magic = "whole"
       /\ op = "open" => AllWhole(file.blocks)
       /\ op = "prefix" => /\ file.magic = "whole" /\ AllWhole(file.blocks)
                           /\ appending \/ file.blocks = <<>>
       /\ op = "payload" => EndsInPrefix(file, frame, appending)

Sound == TypeOK /\ FrameIsOldest /\ FileFitsAttempt

IInv == Sound /\ stuck = {}
=============================================================================
