# Verification of op-log

TLA+ modules, TLC configurations and TLAPS proofs about `op-log`, an
asynchronous file logging library in Rust on Tokio. Line numbers refer to the
files of `src/src/`; `PROJECT.json` maps each definition to its lines.

## The system

A process holds clones of one handle, `OpLog`. Every call posts a message into a
bounded channel (1024 slots); one Tokio task, the worker, takes messages out,
keeps definitions and queues of entries, and writes the queues to files.

| Component | State | Operations |
|---|---|---|
| Handles and channel (`lib.rs`, `messages.rs`) | the channel, the count of refused entries (`dropped_logs`), the worker's `JoinHandle` | `log`, `log_bundle`, `def`, `flush`, `get_info`, `shutdown`, three calls about cleanup rules, the last drop |
| Worker task (`service.rs`, flush in `write_to_file.rs`) | where it is in its loop, two interval timers | a biased select over the writer tick, the clean-up tick and the channel; passes over the definitions; the flush loop with its 5 second deadline; the last flush |
| Definitions and queues (`add_to_log.rs`, `clean_up.rs`) | definitions by name, `LogFile`s by path, their queues, counts and times | `def`, `log` (format, choose the file, enqueue, evict over 8 MB), `clean_up` of idle files and definitions |
| Log file writer (`write_to_file.rs`) | `logs`, `queued_bytes`, `dropped_logs`, `tail_verified`, `write_error_logged` and the file | the write attempt under a 15 second timeout: directory, metadata, tail check, open or create, magic, frame, drain |
| Frame format (`write_to_file.rs`) | none | `encode_frame`, `truncated_frame_start`, the tail check: marker, random byte, checksum, variable-length size, compressed and obfuscated text |
| Formatting and periods (`add_to_log.rs`) | none | which file an entry goes to and which stamp it gets, by the definition's period and options |
| Old-file cleanup (`clean_up_delete_files.rs`) | the rules, `cleanup_timed_out` | replace, add, clear rules; a pass that deletes old files and empty directories, cut off after 60 seconds |
| `log` crate integration (`lib.rs`) | the process's global logger | `def_system_log` installs a logger that calls `send_log` and `try_send(Flush)` |
| Benchmarks (`bench.rs`) | none | ignored tests that measure; a synthetic log file and a frame counter |

They interact by messages (handles to worker), by calls inside the one task
(worker to definitions to writer), and through the file system, which outlives
a process and keeps running operations whose caller has stopped waiting.

### What is hard about it

* **Awaits that end early.** A write attempt is a chain of awaits. Each may
  fail after landing a part of its bytes, be dropped by the timeout, or be the
  last thing the process does; and the next attempt, or the next process, has to
  append to whatever is there.
* **Timed-out operations go on.** The timeout drops the future, not the system
  call in the blocking pool: it may take effect later, during another attempt.
* **Lock-free counting.** `send_log` swaps a shared counter out, tries to send,
  and adds back, while other threads do the same.
* **Everything full.** A full channel, a queue at its cap, a compressed frame at
  its limit; and `shutdown`, which must be delivered through a full channel.
* **One task for all files.** A slow or failing file delays every other one,
  the channel and the shutdown.
* **A pass over a tree that others change.** The cleanup dates a file and removes
  it in two awaits, and may be cut off with a removal under way.
* **Deadlines.** A flush repeats its rounds until everything is written or 5
  seconds have passed; callers wait for its end.

The `hazards` of `PROJECT.json` list them one by one, with the properties that
watch each.

### What makes each component correct

* Handles: no refused entry goes uncounted; every call comes back.
* Worker: entries that precede a flush, `get_info` or `shutdown` are covered by
  it; errors of one file hurt only that file; the task ends with its handles.
* Queues: bounded bytes, oldest first to go, counted, reported.
* Writer: readers accept the file at every instant; what a reader could read
  stays; nothing is lost before it is confirmed; order is kept; repeated
  entries only after a timeout.
* Definitions: no entry of a live name is discarded, no queue is forgotten with
  entries in it, a file's name and an entry's stamp together tell its time.
* Frame format: the walker recognises exactly what the encoder produced, cut at
  any byte, and a reader gets back what was written.
* Cleanup: the last rule for a path holds; only files old enough go, and those go.

## Modules

| Module | Contents |
|---|---|
| `EntryStore` | What one log file promises, entries only: they wait in order, the oldest are stored first, and they leave by being stored, by eviction, with the process or with the file. |
| `LogFile`, `MCLogFile` | One `LogFile` and its file on disk. One action per await of `write_to_file`. Implements `EntryStore`. |
| `Sums_proofs` | Lemmas about sums over finite sets and over sequences, which the proofs about counts cite. |
| `LogFile_proofs` | Theorems about `LogFile`: the file stays readable, no entry vanishes. |
| `LogFile_order_proofs` | More theorems about `LogFile`: the order of entries, what stays in the file, the byte count, the evictions' notices, the refinement of `EntryStore`, and the operations of timed-out attempts that take effect later. |
| `FrameFormat`, `MCFrameFormat` | The bytes: encoder, walker, reader, and the tail check step by step, among late writes and abandoned checks. Says why `LogFile` may treat a frame as a block. |
| `FrameFormat_proofs` | Theorems about `FrameFormat`: types, the walk and the readers on every file, and what the tail check keeps. |
| `OpLog`, `MCOpLog` | The handles, the channel, the worker's loop, the global logger, and definitions with one file each. A write attempt is one step here. |
| `OpLog_proofs` | Theorems about `OpLog`: types, the slots of the channel, the limits of the queues, the count of refused entries. |
| `OpLog_order_proofs` | More theorems about `OpLog`: no accepted entry is lost or overtaken, and a shutdown and a `get_info` come after what preceded them. |
| `Definitions`, `MCDefinitions` | `def`, `log`, bundles, `clean_up` with idle times; several files per name; which file and which stamp. |
| `Definitions_proofs` | Theorems about `Definitions`. |
| `FileCleanup`, `MCFileCleanup` | The cleanup rules and the pass over a directory tree, one step per await. |
| `FileCleanup_proofs` | Theorems about `FileCleanup`. |

The modules meet at the worker's calls: `OpLog` has the order of everything the
one task does; its `WriteFile`, `WriteFileFails` and `WriteFileTimesOut` stand for the attempt that
`LogFile` takes apart, its queue per name for the map of `Definitions`, and its
`rules` message and the end of its `CleanUpTick` for `FileCleanup`.

### LogFile

`logs`, `queued_bytes`, `dropped_logs`, `tail_verified` and
`write_error_logged` are the fields of the Rust struct; `timer` is
`time_of_first_addition_of_log_after_write` (`none`, or an interval that is
`running` or `due`). `op` is the operation the attempt awaits, `frame` what
`encode_frame` returned, `appending` whether the handle was opened with
`append(true)` or came from `File::create`.

`file` is the magic (absent, torn, whole) and a sequence of blocks. A block is a
frame and how much of it is there: its marker, its whole prefix, a part of its
payload, or everything. Two more states arise only from late effects: `stray`
payload without a prefix, and `clobbered` (overwritten through a handle without
append). A frame records whether it carries the header, the count in its notice,
and its entries.

`Readable` is what a reader of the format accepts: the magic, whole blocks, at
most the last one cut short. The tail check is `AfterTailCheck`: it walks to the
first block that is not whole; if the file ends inside that block it cuts there,
otherwise the walk leaves the frame boundaries, and may stop or cut anywhere from
the broken block on (`CutInside`).

The actions follow the awaits in order: `BeginWrite` (early returns passed,
directory created), `Stat`, `CutInterruptedTail`, then `OpenAppend` or
`CreateFile` and `WriteMagic` (encoding follows without an await),
`WritePrefix`, `WritePayload` (with the flush and the drain, which need no
further await once the payload is confirmed). `WriteFails` and `WriteTimesOut`
end an attempt at any of them. `LateEffect` lets an operation of a timed-out
attempt - the tail check's cut included - take effect later. `AddToLog` evicts
as its loop does. `Crash` loses the memory and keeps the file, with the current
operation done in part. `DeleteFile` is the cleanup pass or an operator; the pass
runs in the worker's task, so never during an attempt.

`Faults` says what the environment may do. `late`, `torn_magic`, `stat_error`
and `oversize` are kept apart because the code gives up a guarantee under each;
the theorems assume they are absent (`Mild`), but for the one about late effects
(`Calm`), and the runs show what happens when they are not. `oversize` (files above 64 MB are appended to unchecked) is
documented in `README.md` of the repository and gets no run of its own;
`FrameFormat` has the limit (`CheckMaxLen`).

### FrameFormat

A byte is a number below `2 * Base`; one half of its values spells seven bits of
the size, the other says that more follow. The masks, the keystream's width, the
word in which the seed's product wraps, the magic, the number of groups and the
limit of the tail check are parameters, so that sizes of one and of three groups,
products that wrap, and files longer than the limit exist among files of a
dozen bytes. Exclusive or is a parameter too (`ByteXor`): the runs give it the
bitwise one, the proofs only that it maps bytes to a byte and undoes itself.
`truncated_frame_start` and `encode_frame` are those of the code;
`decode_oplog_file` and `count_frames` are the readers the repository's tests and
benchmarks contain; `synth_file` is the file `bench.rs` makes, laid out as frames
but never encoded.

The tail check is `Walk`, `Recheck` (the second `metadata`) and `SetLen`, and there
may be two at a time: that of the attempt, and one an earlier attempt timed out in,
which goes on in the blocking pool. `TearFrame` cuts a write at any byte; `TimeOut`
leaves a buffer that `LateWrite` lands wherever the file ends by then. `blocks` is
the history of what was written, against which the properties compare the bytes;
`overtaken` notes that an abandoned check has cut the file since the last walk.

### OpLog

A call of `log` is several steps: `TakeCount` (the swap), `SendNotice`,
`RestoreCount`, `SendEntry`, `CountDrop`; other threads act between any two.
The other calls are a single `try_send`. `shutdown` is `SendStop` (it may wait
for a slot; Tokio hands a freed slot to a waiting sender, and `try_send` does
not get it), `TakeHandle` and `Join`. `DropHandles` ends the life of the last
clone.

`DefSystemLog` is the `def` of `def_system_log`, which a full channel may refuse,
and `InstallLogger` the race for the global logger. Once it is this `OpLog`'s,
anybody may log by a macro, without a handle; the logger keeps a sender of its
own, so the channel never closes; and the worker's own `info!` at the start of
a flush, or after a cleanup that deleted something, is a `log` by the caller
`Worker` (`Report`), which must not wait for room only the worker can make.

`worker` says where in `run` the worker is: at the `select`, about to `report`, in
a `pass` (with its reason, the names still to visit and whether its deadline is
over), or `ended`. `writer_due` and `cleanup_due` are the two ticks; both are ready at the
start, as Tokio's intervals are. Each message has an action. A pass takes one step
per name, in any order (the map is a `HashMap`): `SkipFile`, `WriteFile` (a frame
takes some of the oldest entries), `WriteFileFails`, `WriteFileTimesOut`.
`FlushAgain` and `EndPass` are the loop of `flush`; `EndTask` drops the receiver,
with what is left in it.

Time is abstract. `WriterTickFires` is allowed at the select and during a
flush, not during a tick's own pass: that pass ends within the 500 ms period
unless a write times out, and then `writer_due` is set by
`WriteFileTimesOut`, because 15 seconds exceed the period and the deadline.
This is the one assumption about speed.

A name has one file, an entry has size one, a bundle defines its name and logs one
entry (`Definitions` has the rest). `disk` says per name whether operations
succeed, fail or hang.

### Definitions

Every handler is an operator on the map of definitions, because a bundle runs
several of them in one step: `def`, `get_log_file`, `add_to_log`, `log`, `clean_up`,
`process_bundle`. `FileName` is the key of the inner map, `format_date_in_path` and
`format_date_in_log` what the period puts into the name and the stamp, as tuples of
the calendar fields the formats spell. `New`, `path`, `header`, `log_type`,
`options` and `auto_remove_definition` are the builders of `messages.rs`.
Times are counted in cleanup ticks (`Idle` is ten minutes).

`known` and `undue` are history: who may count on an entry being kept. They
follow the code where it is lenient: registering an existing definition again does not refresh
`last_time_use` (`add_to_log.rs:135`), so that an auto-remove
definition which expired may be registered again and removed at the next tick.

### FileCleanup

`clean_up_definitions` and `cleanup_timed_out` are the worker's fields; `age` is
the tree: each name's age in ticks of the clock, or `Absent`. `pass` is
where `clean_up_delete_files` is: between rules, at a directory's next entry, at
a file's metadata, at a removal; `pass.stack` holds the recursion's open
directories with the entries `read_dir` found and the loop has not seen. A file in
`broken` fails whatever is asked of it, now and then or always.

The tree is given by `Parent` and `Above`, of any depth. `Write` is everybody
else: it makes a file and the directories above it, at any instant. `CutOff` is
`CLEANUP_TIMEOUT`; it may leave the removal that was awaited in the blocking
pool (`left`), to happen at any later time (`LateRemoval`). `overtaken` are the
files written between their dating and their removal.

## Runs

| Run | Checks | Shows | States, time |
|---|---|---|---|
| `log_file` | 10 invariants, `IntactBlocksStay`, `ImplementsEntryStore` | failures, timeouts, crashes and deletions | 231,000, 30 s |
| `log_file_settled` | `LateEffectsHurtOnlyByOverlap` | a late effect is harmless if no attempt begins before it | 291,000, 15 s |
| `log_file_header`, `log_file_torn_magic`, `log_file_stat_error` | one property each, violated | findings 1 to 3 | seconds |
| `frame_format` | 6 properties | the bytes, cut anywhere | 1.4 million, 155 s |
| `op_log` | type, accounting, conservation, order | two threads race in `send_log`, with a shutdown, clean-ups and rule changes | 1.84 million, 150 s |
| `op_log_calls` | `ShutdownFlushes`, `InfoFollowsFlush`, `InfoAnswered`, `ShutdownReturns` | every call comes back, after the flush it promises, whatever is before it in the channel | 82,000, 77 s |
| `op_log_isolation` | `EntriesReachDisk`, `ChannelDrainsDespiteErrors`, `WorkerEnds` | errors of one file stay with it; the worker logging to itself does no harm | 166,000, 150 s |
| `op_log_wedged` | `ChannelDrains`, violated | finding 4 | seconds |
| `definitions` | 5 properties | registrations, bundles and idle times | 75,000, 90 s |
| `file_cleanup` | 5 properties | a pass among failures, cut-offs and writers | 411,000, 125 s |

`log_file`: the file is always readable (`FileReadable`); `tail_verified` is
never stale (`TailVerified`); no entry vanishes and no eviction goes unreported
(`NoEntryVanishes`, `EvictionsReported`, and `EmptyQueueOwesNothing`, on which
`clean_up` relies); entries appear in order and once unless a write timed out
(`InOrderOnceUnlessTimedOut`); the byte count is exact and capped
(`QueueWithinCap`); a header only leads (`HeaderAtMostOnce`); intact blocks
never move (`IntactBlocksStay`); every step is one of `EntryStore`
(`ImplementsEntryStore`). `IInv` is the inductive invariant of the proofs.

`frame_format`: `TailFound` - the walk finds the torn frame at the end and never an
offset inside whole frames; `WrittenIsRead` - the readers get back what was
encoded; `TornOnlyLast` - nothing but stale work is ever appended behind a torn
frame; `LiveFrameIsLeft` - a running attempt's check goes on to cut only what no
reader could use, unless an abandoned check has cut the file since it walked;
`CutLosesNothing` - only a check that was given up after its second look at the
length can cut frames confirmed since. The last is a limit of the code, not a
promise: such a check acts on a length it saw before a later attempt cut and
wrote, and if the lengths happen to agree, or it has no look left, it cuts
confirmed frames, or lengthens the file with zeros. The comment on `WRITE_TIMEOUT`
accepts such late effects. The exception in `LiveFrameIsLeft` is the same limit seen
from the other check: it looks at the length again and not at the bytes, and a file
that an abandoned check has cut may come back to that length by a late write whose
payload, obfuscated, reads as a frame. One payload of the run does; without the
exception TLC finds such a cut.

`op_log`: `DropsAccounted` - each refused entry is in the shared count, in a
call's hands or in an accepted notice; `EntriesConserved` - an accepted entry
is in the channel, a queue or a file, or was evicted or discarded, except what
the channel still holds when the task ends; `ProducerOrder`.

`op_log_calls`: `ShutdownFlushes` - what was waiting, in the channel or a queue,
when the first stop message went in is on the disk or was evicted or discarded when
the worker ends; only a final flush out of time leaves it in a queue;
`InfoFollowsFlush`, `InfoAnswered`, `ShutdownReturns` (also through a full
channel, and for two callers at a time).

`op_log_isolation`: also shows that, with the global logger installed, the worker's
`info!` neither blocks nor feeds itself, and that dropping every handle ends
the task (`WorkerEnds`) unless the logger is this `OpLog`'s - then nothing but a
`shutdown` ends it, and the last line the worker logs, at its final flush,
is lost with the channel and not counted.

`definitions`: `InTimeIsKept` - an entry is discarded only for a name never
registered or left to expire; `EntriesKept` - registrations, entries and clean-ups
lose no queued entry but by a counted eviction; `StampsTellTime` - file name and
stamp never let two times look the same, whatever settings the definition had in
between (but for the repeated hour when daylight saving ends, which a local time
cannot tell apart); `OneQueuePerFile` - two queues write one file only if its path
is spelled in two ways.

`file_cleanup`: `LastRuleHolds`; `OnlyOldFilesGo` and `RulePathsStay` - what may be
removed at all; `OldFilesGo` - a file old enough for a rule does go, is written
again, or the rule changes, whatever else fails for ever. Empty directories
below a rule's go at any age; the repository's README (line 123) can be read as
if the limit held for them too.

Every property of a passing run has a mutant of the code in the modules
(`PROJECT.json`, `mutants`) that breaks it.

### Bounds, and why they are enough

* `log_file`: `MaxEntries = 3`, sizes 1 and 4 against a cap of 3: one large entry evicts
  several small ones, an entry above the cap stays alone. Three entries give
  a frame that is confirmed, one that is torn and one that is queued.
  `MaxBlocks = 3`: no attempt begins on a file with three blocks, so a file
  reaches four: intact, intact, broken, appended. `log_file_settled` uses two entries
  and two blocks: a late effect and a later attempt are all it takes.
* `frame_format`: two bits a byte, payloads of one and of six bytes (one and three
  size groups; 3 * 6 wraps in a word of 16), the longer one lying in the file as a frame
  and a byte more, one random byte, a payload that looks like a marker, files that are not ours, files above and below `CheckMaxLen`.
  `MaxBlocks = 3`: whole, torn, appended. `MaxTimeouts = 2`: a stuck buffer and an
  abandoned check at a time.
* `OpLog`: `ChannelCapacity = 1`: it is full after any message; two slots in
  `op_log_calls`, for a stop message or a `get_info` to come behind an entry; `QueueMax = 2`: a third
  entry evicts. `MaxSends = 3` over two threads is the least for a thread to
  hold a count while another adds to it; it also bounds the worker's reports after clean-ups.
  `MaxBreaks = 1`: one disk breaks once, and recovers or not. At most one `def` per
  name, one `flush` and one change of the rules wait in the channel. What the runs
  combine is chosen by `Calls` and `Breakdowns`: each call is in a run with a
  property it could break.
* `definitions`: one name, whose files differ by path, period and directory
  (names do not meet but in `bundle`, which with one name may register and log the
  same one); six settings that differ in each field; three dates; `MaxBacklog = 3`
  against `QueueCap = 2`: evictions; two queues at a time; `Idle = 1`.
* `file_cleanup`: a directory with a file, a link and a subdirectory that holds
  another file; two rules, one below the other; `DayLen = 1` and `MaxAge = 2`:
  below, at and above the limit; one removal left behind at a time. Files
  whose time the system cannot tell (`Dating[f] = "none"`) are in the module and
  the proofs and not in this instance: they never grow old. The proofs of
  `OnlyOldFilesGo` and `RulePathsStay` hold for every tree and every bound.

The systems stop when their bounds are used up, so deadlock is not checked in
`LogFile` and `OpLog`; liveness is checked instead. The others never stop.

### Fairness

The worker takes each step it can (`WF`): Tokio polls the task, and every
operation ends or times out. Ticks, intervals and deadlines elapse. Messages and
the clean-up tick are ready only now and then, because the writer tick goes
first and comes again: `SF` on them says that a worker which is back at the select
infinitely often with no tick due and a message waiting takes one, which is
what the code does each time. A call that has begun goes on; nobody has to begin
one, to drop the handles, or to mend a disk. That no disk hangs for ever, or
that a name's disk works in the end, is a premise of each property that needs it
(`NeverWedgedForGood`), never of the specification: `op_log_wedged` drops the
premise.

`FileCleanup` assumes `WF` of the pass: the tick comes every five minutes and every operation
ends or is cut off. That passes are not cut off for ever is a premise of
`OldFilesGo`. The comment on `CLEANUP_TIMEOUT` argues that partial passes
converge; that needs the cut-offs to stop: where going over the files that stay
takes longer than the timeout, every pass ends in the same front part of the tree.

## Findings

1. **The header may never be written** (`log_file_header`). The header belongs to
   the attempt that creates the file. If it lands the magic and no whole frame,
   the next attempt finds content and appends without a header.
2. **A torn magic spoils the file** (`log_file_torn_magic`). One to nine bytes
   of magic count as content; the tail check leaves a file without its magic
   alone, and frames are appended to it.
3. **A failing `metadata` truncates** (`log_file_stat_error`). Any error counts
   as a missing file, and `File::create` truncates.
4. **A hanging write starves the channel** (`op_log_wedged`). Each pass
   outlasts the tick's period, and the biased select never reaches the
   messages: the queue does not fill, the channel does, and a `shutdown`
   waits as long as the disk hangs.

Remarks that no document of the repository contradicts, and so no findings: an
attempt that returns early counts as a success and clears `write_error_logged`,
so that one episode may be reported twice on stderr; a bundle the full channel
refuses is lost uncounted; a `def_system_log` whose definition is refused installs
its logger all the same, and what is logged then meets no definition.

## Proofs

TLAPS checks every module of theorems to the last leaf. The steps that preserve an
invariant have one lemma or step per action.

`LogFile_proofs`, for every cap, set of sizes, bound and mild set of faults
(`error`, `timeout`, `crash`, `delete` in any combination):

* `Invariance`: `Spec => []IInv`,
* `TypeCorrect`, `FileStaysReadable`, `TailStaysVerified`,
* `NoEntryEverVanishes`.

`FileReadable` is not inductive: a step from a readable file may make it
unreadable if the handle is not at the end or the tail was not cut. `IInv` adds
what each await relies on (`FileFitsAttempt`): before the tail check the file is
readable; after it, and in the operation that writes the prefix, it ends on a
boundary; at the payload it ends in exactly this frame's prefix; through a created
handle it has no block. `FrameIsOldest` says that the frame holds the front of the
queue, which no step changes during an attempt; it makes the drain remove
exactly what was stored. `stuck = {}` holds because late effects are excluded.
`NoEntryEverVanishes` adds that what a reader finds only grows
(`StoredMonotone`).

`LogFile_order_proofs`, under the same faults:

* `EntriesInOrderOnce`, `HeaderNeverRepeated`, from `OrderInvariance`:
  `Spec => [](IInv /\ OrderInv)`;
* `IntactBlocksEverStay`: no step but a deletion takes an intact frame away;
* `EmptyQueueNeverOwes`;
* `QueueStaysWithinCap` and `EvictionsEverReported`;
* `ImplementsStore`: `Spec => ImplementsEntryStore`, the refinement.

All rest on one fact about an attempt's operation, wherever it stops
(`AttemptKeepsFile`): it leaves the whole blocks as they are (`SameWhole`), or
makes the last block whole, which holds the front of the queue
(`LastBecomesWhole`). The order of entries is not inductive, because a new block
comes from the queue: `OrderInv` adds that the queue is in the order of acceptance
and that what the file holds comes before it, but for the entries a timed-out
attempt may have landed. `HeaderAtMostOnce` needs that the frame of an appending
attempt has no header. In the refinement a completed payload is `Store`, or
`StoreUnconfirmed` if the attempt timed out; every other step of an attempt is a
stutter (`StepStores`, `AddAccepts`, `StepPromise`).

`QueueWithinCap` is inductive beside `IInv`: a drain subtracts the sizes of exactly
the queue's front, by `FrameIsOldest`, and the loop that evicts takes off the
front what it subtracts. `EvictionsReported` is not inductive: a whole frame clears
the count, so the notice in it must be that count (`NoticeIsTheCount`: nothing is
evicted while an attempt is under way). What a reader finds reported never
shrinks (`AttemptReports`), because whole blocks stay.

The last part of `LogFile_order_proofs`, with `late` admitted beside the mild faults:
`LateHurtsOnlyByOverlap`. `LateInv` says that until an attempt has begun over an
operation left behind, everything above holds (`Settled`) and at most one
operation is left (`LeftBehind`): no attempt is under way, the next one will check
the tail, and the operation still finds the file as its attempt left it
(`StillFits`) - it cuts at the block that is still the first broken one, or writes a
frame whose entries are all among the doubtful. Hence when it takes effect it does
what its attempt might have done. The invariants of `LogFile_proofs` are split for
this (`Sound` is `IInv` without `stuck = {}`).

`FrameFormat_proofs`, for every base, mask, magic, exclusive or, number of groups, width of
the keystream and of the seed's word, payload, stranger's content, limit and bound:

* `TypeCorrect`: `Spec => []TypeOK`;
* `TailIsFound`: `Spec => []TailFound`;
* `WrittenIsReadBack`: `Spec => []WrittenIsRead`;
* `TornIsCut`: `Spec => []TornOnlyLast`;
* `FramesAreKept`: `Spec => CutLosesNothing`;
* `LiveFramesAreLeft`: `Spec => LiveFrameIsLeft`;
* `CutTakesNothingReadable`: for every sequence of bytes, the writer's or not, cutting it
  where `truncated_frame_start` says does not change what `decode_oplog_file` returns.

The assumptions are those of the code's numbers: exclusive or with the same byte
undoes itself, the word of the seed's product is a multiple of the keystream's
modulus (2^32 and 2^12), the magic is not empty, and a payload is not empty and
fits the walker's five groups.

Keystream, size field, walk, reader and count are recursive functions. A function
so defined is the one its equation describes only if some function satisfies it:
`Recursion` proves that for any recursion over a finite range by a measure that
falls, and each of them gets its equation from it (`KeysType`, `GroupsStep`,
`SizesStep`, `WalkEquation`, `ReadEquation`, `CountEquation`). Then `SizeFieldRead`: a size
field reads as the size it was written for, wherever it lies and whatever
follows it; `ObfuscateTwice`: the keystream undoes itself; `SeedsAgree`: masking the
wrapped product is masking the product; `WalkOver` and `WalkTorn`: the walk steps over
a frame, and stops at one of which only a part is there, cut at any byte;
`EncodedRead`: a reader gets the payload.

`SafeInv` relates the bytes to the history. `Recorded` says that the blocks lie one
behind the other from the magic to the end of the file and that the bytes of each
are what its kind says: those of a frame of the writer, of a frame nobody encoded,
or the front of one (`Holds`). `TailFound` and `WrittenIsRead` follow by going
from block to block. That it is inductive is a lemma per operation on
the file: appending, tearing, a late write, cutting and lengthening
(`AppendRecorded`, `TornRecorded`, `MergeRecorded`, `CutRecorded`). `CutLosesNothing` needs what the
checks know: one that has found a cut found it behind the magic and inside the
length it saw (`CutsInRange`), and the running attempt's lies behind the frames
there are now (`CutBehindFrames`), because none is confirmed while it runs - only a
check given up before can be overtaken by a confirmed frame.

`TornOnlyLast` is not inductive: that a frame is not appended behind a torn one
depends on what the check in front of the append saw. `TornInv` adds that an
attempt lets nothing through behind a torn frame in a short file
(`AppendsBehindNone`), that a check which looks again sees the length change when what
it found torn is no longer the last (`SeesTheTorn`), that it cuts the torn frame
off or had walked past it (`CutsTheTorn`), and that a check given up never cuts right
behind a torn frame which something follows (`AbandonedCutsElsewhere`).

`LiveFrameIsLeft` joins the two kinds of result. `FileGrowsOnly` says that what the running
check has walked is still what the file starts with: late writes add to it, attempts
wait, and an abandoned check that cuts is excepted. So the same length means the
same bytes, and for those `CutTakesNothingReadable` holds.

`FileCleanup_proofs`, for every tree, every set of rules and bundles (that name no
path twice), every clock and every number of removals left behind:

* `LastRuleAlwaysHolds`: by `RulesInv`, that no path has two rules and each says what was last
  asked for;
* `Invariance`: `Spec => []IInv`, and `TypeCorrect`;
* `OnlyOldFilesEverGo` and `RulePathsAlwaysStay`.

What may go depends on what the pass remembers. `IInv` says why it may rely on it:
each directory on the stack is the rule's own or below it, and what is left to
look at in it is its child (`FrameBelow`), so every name the pass comes to lies below the
rule's path (`TopBelow`) and the rule's path itself is never removed; a file at
its removal was old enough when it was dated, and either still is, since only a
write makes a file younger, or is in `overtaken` (`MayBeRemoved`); the same is
kept for a removal that was left behind (`LeftInv`), under the days its rule had
then. The rules themselves stay put while a pass is under way.

`OpLog_proofs` and `OpLog_order_proofs`, for any number of threads, askers, shutdowns
and names, every capacity and limit, every breakdown and every set of calls that does
not have both the handle's `flush` and the system logger (see Not modelled):

* `Invariance`: `Spec => []IInv`, and `TypeCorrect`;
* `RefusedAreCounted`: `Spec => []DropsAccounted`;
* `EntriesStayInOrder`: `Spec => []ProducerOrder`;
* `Conservation`: `Spec => EntriesConserved`;
* `ShutdownWritesWhatWaited`: `Spec => []ShutdownFlushes`;
* `InfoComesAfterFlush`: `Spec => InfoFollowsFlush`.

The assumptions beside the bounds' types: threads and shutdowns are finitely
many, since counts in calls' hands are summed and the slots granted to shutdowns
counted; and the worker, which may log too, is not one of the threads. `IInv` says that messages and
granted slots together fit the channel (`SlotsInv`), which is why a granted
shutdown always has room; that a call past its start has a name and a notice a
count (`CallInv`); and that only defined names have queues, and that the worker is at the
select only when it has nothing left to visit (`QueueInv`).

`DropsAccounted` is a sum over all callers, of which a step changes one term
(`OneCallMoves`). `CountInv` makes it inductive: a call holds a count only between
its swap and its notice or `fetch_add` (`HeldInv`), or the next swap would
overwrite it; and the worker logs only at the start of a pass (`WorkerLogs`), so
that its call is over when a message or a tick comes.

`ProducerOrder` is about the line `written[l] \o queue[l] \o channel` of each name. A
step appends a new entry to the line, moves entries within it, takes out some of
them or empties the channel, and each keeps the order of what is left; what is
appended comes after everything of its thread because its number is new
(`IssuedInv`; `LineInv` adds that what is stored was issued).

`StepCases` sorts every step by what it does to entries: something is sent, a
message is taken, entries move from queues to files, a pass or the task
ends. The order then comes from the channel. `AllBefore(A, c, j)` says that no
entry of `A` is at place `j` of the channel or behind. `StopInv` says it of what waited
at the first stop message and of every stop message's place, `InfoInv` of each
`get_info` and what it follows. Taking from the front keeps both; sending
keeps them because an entry that is sent now has an id that nobody has seen
(`IssuedInv`, with a call's number spent before its entry is sent). When the
message is at the front, what it follows has left the channel; when the flush it
starts ends in time, the queues of the defined names are empty, and by
`QueueInv` there are no others.

`Definitions_proofs`, for any names, settings, dates, calendar, spellings of paths and cap
(the calendar's fields are natural numbers; `Idle` and the cap are positive):

* `TypesHold`: `Spec => []TypeOK`, which includes the cap;
* `KeptInTime`: `Spec => []InTimeIsKept`;
* `FileAndStampTellTime`: `Spec => []StampsTellTime`;
* `FilesHaveOneQueue`: `Spec => []OneQueuePerFile`;
* `EntriesStay`: `Spec => EntriesKept`.

Each handler has a lemma about any good map of definitions (`Registered`, `Logged`,
`WrittenIsGood`, `CleanedUp`, `AgedIsGood`), so that a bundle is two lemmas after each
other. `StampsTellTime` compares two queued entries with each other, which no step can
preserve by itself: the definition that gave the first its file and stamp may
have other settings when the second comes. The invariant says of each entry alone
that some period explains both its stamp and its file (`Dated`); that two such
entries with the same stamp and file have the same time is a fact about the formats
(`PeriodAndStampTellTime`). `EntriesKept` needs that an empty queue owes no report
(`GoodQueue`): only then does `clean_up` forget nothing. `InTimeIsKept` needs that
the history agrees with the definitions (`Booked`): `last_time_use` is the time of the
last entry, and a name that is not due to expire has a definition. Two queues of one
file would have equal keys, since a key carries the name of its definition.

### Sums

`Bytes`, the reported evictions and the counts in calls' hands are sums of the
community modules, which are folds. That such a sum grows by one term at a time
is an induction over finite sets, which the library states with an operator as
its parameter. `Sums_proofs` goes around that: `SetInduction` is about a set of sets
instead of a predicate, from the well-foundedness of proper inclusion, and
`SumIsCount` says that a sum of natural numbers is the cardinality of a set with so
many tokens for each term; the rest follows from what the library has about
cardinalities. It needs that the terms are finitely many natural numbers.

### Only model-checked

* Liveness and whatever involves `ENABLED`, which TLAPS does not support:
  `InfoAnswered`, `ShutdownReturns`, `EntriesReachDisk`, `ChannelDrainsDespiteErrors`,
  `WorkerEnds`, `OldFilesGo`.

## Not modelled

* zlib: a payload is any sequence of bytes; that `flate2` inverts itself is taken
  for granted. Which entries fit a frame is any non-empty front of the queue.
* The digits and separators of dates and the time zone database: fields of a
  calendar stand for them.
* The log level filter, and the logger's `flush` together with the system logger
  (the handle's own `flush` is modelled).
* `write_error_logged` is kept, and what it does to stderr has no property.
* Which name a notice of dropped entries goes to; what becomes of entries accepted
  during the final flush (they are lost, and `EntriesConserved` exempts them).
* The measurements in `bench.rs`: ignored tests without behaviour of their own.
