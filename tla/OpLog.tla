------------------------------- MODULE OpLog -------------------------------
(***************************************************************************)
(* The handles of OpLog (lib.rs) and the worker task (service.rs, flush in *)
(* write_to_file.rs) at the two ends of the channel.  Callers run on any   *)
(* thread: each of their atomic operations is a step.  The worker is one   *)
(* task: while it awaits a write, nothing else of it moves.  What a write  *)
(* does to one file is LogFile; here an attempt succeeds, fails or times   *)
(* out.                                                                    *)
(***************************************************************************)
EXTENDS Integers, Sequences, FiniteSets, SequencesExt

CONSTANTS
  Producers,        \* threads that log
  Askers,           \* callers of get_info
  Stoppers,         \* callers of shutdown
  Logs,             \* log names
  AutoRemove,       \* the names whose definitions set auto_remove_definition
  ChannelCapacity,  \* CHANNEL_CAPACITY
  QueueMax,         \* QUEUE_MAX_BYTES, in entries
  MaxSends,         \* bound: entries sent, by all producers together
  MaxBreaks,        \* bound: how often the disk stops working
  Calls,            \* what producers call besides log, a subset of CallKinds
  Breakdowns        \* what may befall a disk, a subset of BreakdownKinds

CallKinds == {"def", "bundle", "flush", "rules", "system"}

(* Every operation returns an error; or none returns at all. *)
BreakdownKinds == {"failing", "wedged"}

(* The worker logs too, about what it does, once the macros of the log crate
   come here.  It is no thread of the program's. *)
Worker == "worker"

ASSUME OpLogAssumption ==
  /\ AutoRemove \subseteq Logs
  /\ IsFiniteSet(Producers) /\ Worker \notin Producers
  /\ IsFiniteSet(Stoppers)
  /\ ChannelCapacity \in Nat \ {0}
  /\ QueueMax \in Nat \ {0}
  /\ MaxSends \in Nat
  /\ MaxBreaks \in Nat
  /\ Calls \subseteq CallKinds /\ ~({"flush", "system"} \subseteq Calls)
  /\ Breakdowns \subseteq BreakdownKinds

VARIABLES
  channel,       \* the messages in the channel
  dropped_logs,  \* OpLogInner.dropped_logs
  handle,        \* OpLogInner.handle: "some" or "none"
  logger,        \* whose name the global logger logs to: "none" if there is
                 \* none, "another" if it is not of this OpLog
  loggers,       \* the names of the system loggers in memory; each holds a sender
  call,          \* per caller of send_log: where in it it is
  sends,         \* per caller of send_log: entries it has sent
  asker,         \* per caller of get_info
  stopper,       \* per caller of shutdown
  dropped,       \* every handle has been dropped
  worker,        \* where in run the worker is
  writer_due,    \* writer_tick is ready
  cleanup_due,   \* cleanup_tick is ready
  defined,       \* the names in OpLogWorker.definitions
  queue,         \* per name: the entries waiting for a write
  timer,         \* per name: the wait for flush_interval
  written,       \* per name: the entries confirmed on disk
  disk,          \* per name: "ok", "failing" or "wedged"
  breaks,        \* how often a disk stopped working
  lost,          \* history: entries evicted, or for a name not defined
  untold,        \* history: rejected entries of log() no accepted notice counts
  stopping,      \* history: a StopService is in the channel or was
  before_stop,   \* history: the entries waiting when the first one went in
  ahead          \* history, per asker: the entries waiting when it asked

handles == <<handle, logger, loggers>>
callers == <<call, sends>>
ticks   == <<writer_due, cleanup_due>>
storage == <<defined, queue, timer, written>>
device  == <<disk, breaks>>
marks   == <<stopping, before_stop, ahead>>
vars    == <<channel, dropped_logs, handles, callers, asker, stopper, dropped,
             worker, ticks, storage, device, lost, untold, marks>>

----------------------------------------------------------------------------
(* The channel *)

(* The entries a message carries: a bundle here defines its name and logs
   one entry. *)
EntryOf(m) == IF m.kind \in {"log", "bundle"} THEN {m.id} ELSE {}
Entries(s) == UNION {EntryOf(s[i]) : i \in DOMAIN s}

Waiting == UNION {Entries(queue[l]) : l \in Logs}
Pending == Entries(channel) \cup Waiting
Stored  == UNION {Entries(written[l]) : l \in Logs}

Closed == worker.at = "ended"

(* A slot freed while a shutdown waits for room is its own; try_send does not
   see it. *)
HasRoom ==
  /\ ~Closed
  /\ Len(channel) + Cardinality({s \in Stoppers : stopper[s] = "granted"}) < ChannelCapacity

Post(m) == channel' = Append(channel, m)

----------------------------------------------------------------------------
(* OpLog::log: send_log takes the count of what was dropped, tries to send a
   notice of it, and tries to send the entry. *)

Callers == Producers \cup {Worker}

(* The global logger is this OpLog's. *)
Ours == logger \in Logs

Working(p, at) == call[p].at = at

Calling(p) == ~dropped /\ Working(p, "idle")

Goto(p, at) == call' = [call EXCEPT ![p].at = at]

MayLog(p) ==
  Working(p, "idle") /\ FoldSet(LAMBDA q, sum : sends[q] + sum, 0, Producers) < MaxSends

TakeCount(p, l) ==
  /\ call' = [call EXCEPT ![p] = [at      |-> IF dropped_logs > 0 THEN "notice" ELSE "entry",
                                  pending |-> dropped_logs,
                                  log     |-> l]]
  /\ dropped_logs' = 0
  /\ sends' = [sends EXCEPT ![p] = @ + 1]
  /\ UNCHANGED <<channel, handles, asker, stopper, dropped, ticks, storage, device,
                 lost, untold, marks>>

(* A macro of the log crate needs no handle: it logs under the logger's name. *)
ByMacro(l) == l = logger

Log(p, l) ==
  /\ MayLog(p)
  /\ ~dropped \/ ByMacro(l)
  /\ TakeCount(p, l)
  /\ UNCHANGED worker

SendNotice(p) ==
  /\ Working(p, "notice")
  /\ IF HasRoom
     THEN /\ Post([kind |-> "notice", log |-> call[p].log, count |-> call[p].pending])
          /\ untold' = untold - call[p].pending
          /\ call' = [call EXCEPT ![p].at = "entry", ![p].pending = 0]
     ELSE Goto(p, "restore") /\ UNCHANGED <<channel, untold>>
  /\ UNCHANGED <<dropped_logs, handles, sends, asker, stopper, dropped, worker, ticks,
                 storage, device, lost, marks>>

(* fetch_add(pending): other producers may have counted since the swap. *)
RestoreCountByStoring(p) ==
  /\ Working(p, "restore")
  /\ dropped_logs' = call[p].pending
  /\ call' = [call EXCEPT ![p].at = "entry", ![p].pending = 0]
  /\ UNCHANGED <<channel, handles, sends, asker, stopper, dropped, worker, ticks,
                 storage, device, lost, untold, marks>>

RestoreCount(p) ==
  /\ Working(p, "restore")
  /\ dropped_logs' = dropped_logs + call[p].pending
  /\ call' = [call EXCEPT ![p].at = "entry", ![p].pending = 0]
  /\ UNCHANGED <<channel, handles, sends, asker, stopper, dropped, worker, ticks,
                 storage, device, lost, untold, marks>>

SendEntry(p) ==
  /\ Working(p, "entry")
  /\ IF HasRoom
     THEN /\ Post([kind |-> "log", log |-> call[p].log, id |-> <<p, sends[p]>>])
          /\ Goto(p, "idle")
          /\ UNCHANGED untold
     ELSE Goto(p, "count") /\ untold' = untold + 1 /\ UNCHANGED channel
  /\ UNCHANGED <<dropped_logs, handles, sends, asker, stopper, dropped, worker, ticks,
                 storage, device, lost, marks>>

CountDrop(p) ==
  /\ Working(p, "count")
  /\ dropped_logs' = dropped_logs + 1
  /\ Goto(p, "idle")
  /\ UNCHANGED <<channel, handles, sends, asker, stopper, dropped, worker, ticks,
                 storage, device, lost, untold, marks>>

(* The calls that are a single try_send whose result is ignored. *)
TrySend(m) == IF HasRoom THEN Post(m) ELSE UNCHANGED channel

Absent(m) == \A i \in DOMAIN channel : channel[i] # m

(* Bounds: no second registration while one is waiting or in force, no second
   Flush while one is waiting. *)
Def(p, l) ==
  LET m == [kind |-> "def", log |-> l]
  IN /\ "def" \in Calls
     /\ Calling(p) /\ l \notin defined /\ Absent(m)
     /\ HasRoom /\ TrySend(m)
     /\ UNCHANGED <<dropped_logs, handles, callers, asker, stopper, dropped, worker,
                    ticks, storage, device, lost, untold, marks>>

Flush(p) ==
  LET m == [kind |-> "flush"]
  IN /\ "flush" \in Calls
     /\ Calling(p) /\ Absent(m)
     /\ HasRoom /\ TrySend(m)
     /\ UNCHANGED <<dropped_logs, handles, callers, asker, stopper, dropped, worker,
                    ticks, storage, device, lost, untold, marks>>

(* def_system_log: def, which may be refused; and then the global logger, if
   the process has none. *)
DefSystemLog(p, l) ==
  /\ "system" \in Calls
  /\ Calling(p) /\ l # logger
  /\ TrySend([kind |-> "def", log |-> l])
  /\ call' = [call EXCEPT ![p].at = "install", ![p].log = l]
  /\ UNCHANGED <<dropped_logs, handles, sends, asker, stopper, dropped, worker, ticks,
                 storage, device, lost, untold, marks>>

InstallLoggerLeakingIt(p) ==
  /\ Working(p, "install")
  /\ logger' = IF logger = "none" THEN call[p].log ELSE logger
  /\ loggers' = loggers \cup {call[p].log}
  /\ Goto(p, "idle")
  /\ UNCHANGED <<channel, dropped_logs, handle, sends, asker, stopper, dropped, worker,
                 ticks, storage, device, lost, untold, marks>>

(* set_boxed_logger: the logger that wins stays for good, one that comes too
   late is freed again. *)
InstallLogger(p) ==
  /\ Working(p, "install")
  /\ IF logger = "none"
     THEN logger' = call[p].log /\ loggers' = loggers \cup {call[p].log}
     ELSE UNCHANGED <<logger, loggers>>
  /\ Goto(p, "idle")
  /\ UNCHANGED <<channel, dropped_logs, handle, sends, asker, stopper, dropped, worker,
                 ticks, storage, device, lost, untold, marks>>

(* clean_up_definition, clean_up_bundle, clean_up_remove_all_definitions: what
   they do to the rules is FileCleanup; here each is a message that takes room.
   Bound: no second one while one is waiting. *)
SetRules(p) ==
  LET m == [kind |-> "rules"]
  IN /\ "rules" \in Calls
     /\ Calling(p) /\ Absent(m)
     /\ HasRoom /\ TrySend(m)
     /\ UNCHANGED <<dropped_logs, handles, callers, asker, stopper, dropped, worker,
                    ticks, storage, device, lost, untold, marks>>

LogBundle(p, l) ==
  /\ "bundle" \in Calls
  /\ Calling(p) /\ MayLog(p)
  /\ sends' = [sends EXCEPT ![p] = @ + 1]
  /\ TrySend([kind |-> "bundle", log |-> l, id |-> <<p, sends[p] + 1>>])
  /\ UNCHANGED <<dropped_logs, handles, call, asker, stopper, dropped, worker, ticks,
                 storage, device, lost, untold, marks>>

----------------------------------------------------------------------------
(* OpLog::get_info and OpLog::shutdown *)

(* A refused message drops the oneshot sender: the caller gets None. *)
GetInfo(a) ==
  /\ ~dropped /\ asker[a] = "idle"
  /\ TrySend([kind |-> "info", asker |-> a])
  /\ asker' = [asker EXCEPT ![a] = IF HasRoom THEN "waiting" ELSE "none"]
  /\ ahead' = [ahead EXCEPT ![a] = Pending]
  /\ UNCHANGED <<dropped_logs, handles, callers, stopper, dropped, worker, ticks,
                 storage, device, lost, untold, stopping, before_stop>>

PostStop ==
  /\ Post([kind |-> "stop"])
  /\ stopping' = TRUE
  /\ before_stop' = IF stopping THEN before_stop ELSE Pending
  /\ UNCHANGED ahead

SendStopByTrying(s) ==
  /\ ~dropped
  /\ stopper[s] = "idle"
  /\ stopper' = [stopper EXCEPT ![s] = "sent"]
  /\ IF HasRoom THEN PostStop ELSE UNCHANGED <<channel, marks>>
  /\ UNCHANGED <<dropped_logs, handles, callers, asker, dropped, worker, ticks, storage,
                 device, lost, untold>>

(* send(StopService).await: there is room, or the worker is gone, or the
   caller waits until the worker has freed a slot for it. *)
SendStop(s) ==
  /\ ~dropped
  /\ \/ /\ stopper[s] = "idle" /\ HasRoom
        /\ PostStop /\ stopper' = [stopper EXCEPT ![s] = "sent"]
     \/ /\ stopper[s] = "granted" /\ ~Closed
        /\ PostStop /\ stopper' = [stopper EXCEPT ![s] = "sent"]
     \/ /\ stopper[s] \in {"idle", "waiting", "granted"} /\ Closed
        /\ stopper' = [stopper EXCEPT ![s] = "sent"]
        /\ UNCHANGED <<channel, marks>>
     \/ /\ stopper[s] = "idle" /\ ~HasRoom /\ ~Closed
        /\ stopper' = [stopper EXCEPT ![s] = "waiting"]
        /\ UNCHANGED <<channel, marks>>
  /\ UNCHANGED <<dropped_logs, handles, callers, asker, dropped, worker, ticks, storage,
                 device, lost, untold>>

(* Whoever finds the JoinHandle awaits it; the others return at once. *)
TakeHandle(s) ==
  /\ stopper[s] = "sent"
  /\ stopper' = [stopper EXCEPT ![s] = IF handle = "some" THEN "joining" ELSE "returned"]
  /\ handle' = "none" /\ UNCHANGED <<logger, loggers>>
  /\ UNCHANGED <<channel, dropped_logs, callers, asker, dropped, worker, ticks, storage,
                 device, lost, untold, marks>>

Join(s) ==
  /\ stopper[s] = "joining" /\ Closed
  /\ stopper' = [stopper EXCEPT ![s] = "returned"]
  /\ UNCHANGED <<channel, dropped_logs, handles, callers, asker, dropped, worker, ticks,
                 storage, device, lost, untold, marks>>

(* The last handle goes: no call is under way and none will follow. *)
DropHandles ==
  /\ ~dropped
  /\ \A p \in Producers : call[p].at = "idle"
  /\ \A a \in Askers : asker[a] # "waiting"
  /\ \A s \in Stoppers : stopper[s] \in {"idle", "returned"}
  /\ dropped' = TRUE
  /\ UNCHANGED <<channel, dropped_logs, handles, callers, asker, stopper, worker, ticks,
                 storage, device, lost, untold, marks>>

----------------------------------------------------------------------------
(* OpLogWorker::run: the select is biased, a tick that is due goes before any
   message. *)

(* A flush begins with an info!, which comes back through the channel when the
   global logger is this OpLog's. *)
StartPass(why, a) ==
  worker' = [at    |-> IF why # "tick" /\ Ours THEN "report" ELSE "pass",
             why   |-> why, todo |-> defined, asker |-> a, late |-> FALSE]

Report ==
  /\ worker.at = "report"
  /\ worker' = [worker EXCEPT !.at = "pass"]
  /\ TakeCount(Worker, logger)

Select == worker.at = "select"

WriterTick ==
  /\ Select /\ writer_due
  /\ writer_due' = FALSE
  /\ StartPass("tick", "nobody")
  /\ UNCHANGED <<channel, dropped_logs, handles, callers, asker, stopper, dropped,
                 cleanup_due, storage, device, lost, untold, marks>>

(* clean_up: definitions that ask for it go when they have been idle for 10
   minutes, but not while one of their files has entries.  The bounded pass
   over the old files that follows is FileCleanup: while it lasts the worker
   takes no other step, and of this module it touches nothing but, with an
   info! about what it deleted, the channel.  Bound: MaxSends of those, one a
   pass. *)
MayGoAnyway(l) == l \in AutoRemove
MayGo(l) == l \in AutoRemove /\ queue[l] = <<>>

CleanUpTick ==
  /\ Select /\ ~writer_due /\ cleanup_due
  /\ cleanup_due' = FALSE
  /\ \E gone \in SUBSET {l \in defined : MayGo(l)} :
       /\ defined' = defined \ gone
       /\ queue' = [l \in Logs |-> IF l \in gone THEN <<>> ELSE queue[l]]
       /\ timer' = [l \in Logs |-> IF l \in gone THEN "none" ELSE timer[l]]
  /\ \/ UNCHANGED worker
     \/ /\ Ours /\ sends[Worker] < MaxSends
        /\ worker' = [worker EXCEPT !.at = "report", !.why = "cleanup", !.todo = {}]
  /\ UNCHANGED <<channel, dropped_logs, handles, callers, asker, stopper, dropped,
                 writer_due, written, device, lost, untold, marks>>

(* The worker takes a message; the slot goes to a shutdown that waits for
   one, if any. *)
Take(kinds) ==
  /\ Select /\ ~writer_due /\ ~cleanup_due
  /\ channel # <<>> /\ Head(channel).kind \in kinds
  /\ channel' = Tail(channel)
  /\ LET waiting == {s \in Stoppers : stopper[s] = "waiting"}
     IN IF waiting = {} THEN UNCHANGED stopper
        ELSE \E s \in waiting : stopper' = [stopper EXCEPT ![s] = "granted"]
  /\ UNCHANGED <<dropped_logs, handles, callers, asker, dropped, ticks, written, device,
                 untold, marks>>

(* add_to_log; the newest entry always stays. *)
EnqueueWithoutLimit(l, m) ==
  /\ queue' = [queue EXCEPT ![l] = Append(@, m)]
  /\ timer' = [timer EXCEPT ![l] = IF @ = "none" THEN "running" ELSE @]
  /\ UNCHANGED lost

Enqueue(l, m) ==
  /\ LET q == Append(queue[l], m)
     IN IF Len(q) > QueueMax
        THEN queue' = [queue EXCEPT ![l] = Tail(q)] /\ lost' = lost \cup EntryOf(Head(q))
        ELSE queue' = [queue EXCEPT ![l] = q] /\ UNCHANGED lost
  /\ timer' = [timer EXCEPT ![l] = IF @ = "none" THEN "running" ELSE @]

(* Log, from log() or the notice of send_log: an entry for a name that is not
   defined is discarded. *)
ReceiveLog ==
  LET m == Head(channel)
  IN /\ Take({"log", "notice"})
     /\ IF m.log \in defined THEN Enqueue(m.log, m)
        ELSE lost' = lost \cup EntryOf(m) /\ UNCHANGED <<queue, timer>>
     /\ UNCHANGED <<worker, defined>>

ReceiveDefinition ==
  /\ Take({"def"})
  /\ defined' = defined \cup {Head(channel).log}
  /\ UNCHANGED <<worker, queue, timer, lost>>

ReceiveBundle ==
  LET m == Head(channel)
  IN /\ Take({"bundle"})
     /\ defined' = defined \cup {m.log}
     /\ Enqueue(m.log, m)
     /\ UNCHANGED worker

ReceiveRules ==
  /\ Take({"rules"})
  /\ UNCHANGED <<worker, defined, queue, timer, lost>>

ReceiveFlush ==
  /\ Take({"flush"})
  /\ StartPass("flush", "nobody")
  /\ UNCHANGED <<defined, queue, timer, lost>>

ReceiveGetInfo ==
  /\ Take({"info"})
  /\ StartPass("info", Head(channel).asker)
  /\ UNCHANGED <<defined, queue, timer, lost>>

(* break, then the final flush. *)
ReceiveStopEndingAtOnce ==
  /\ Take({"stop"})
  /\ worker' = [worker EXCEPT !.at = "ended"]
  /\ UNCHANGED <<defined, queue, timer, lost>>

ReceiveStop ==
  /\ Take({"stop"})
  /\ StartPass("final", "nobody")
  /\ UNCHANGED <<defined, queue, timer, lost>>

(* recv() returns None: no message is left, and no sender, whether a handle's
   or a logger's. *)
ChannelClosed ==
  /\ Select /\ ~writer_due /\ ~cleanup_due
  /\ dropped /\ loggers = {} /\ channel = <<>>
  /\ StartPass("final", "nobody")
  /\ UNCHANGED <<channel, dropped_logs, handles, callers, asker, stopper, dropped, ticks,
                 storage, device, lost, untold, marks>>

Receive ==
  \/ ReceiveLog
  \/ ReceiveDefinition
  \/ ReceiveBundle
  \/ ReceiveRules
  \/ ReceiveFlush
  \/ ReceiveGetInfo
  \/ ReceiveStop
  \/ ChannelClosed

----------------------------------------------------------------------------
(* A pass over the definitions: write_to_files on a tick, flush otherwise.  An
   attempt is one step: LogFile has its parts. *)

Passing == worker.at = "pass" /\ Working(Worker, "idle")

Visited(l) == [worker EXCEPT !.todo = @ \ {l}]

(* Nothing to write, or not yet. *)
SkipFile(l) ==
  /\ Passing /\ l \in worker.todo
  /\ queue[l] = <<>> \/ (worker.why = "tick" /\ timer[l] = "running")
  /\ worker' = Visited(l)
  /\ UNCHANGED <<channel, dropped_logs, handles, callers, asker, stopper, dropped, ticks,
                 storage, device, lost, untold, marks>>

Attempting(l) ==
  /\ Passing /\ l \in worker.todo
  /\ queue[l] # <<>>
  /\ worker.why = "tick" => timer[l] # "running"

(* A frame takes some of the oldest entries. *)
WriteFile(l) ==
  /\ Attempting(l) /\ disk[l] = "ok"
  /\ \E n \in 1..Len(queue[l]) :
       /\ written' = [written EXCEPT ![l] = @ \o SubSeq(queue[l], 1, n)]
       /\ queue' = [queue EXCEPT ![l] = SubSeq(@, n + 1, Len(@))]
       /\ timer' = IF n = Len(queue[l]) THEN [timer EXCEPT ![l] = "none"] ELSE timer
  /\ worker' = Visited(l)
  /\ UNCHANGED <<channel, dropped_logs, handles, callers, asker, stopper, dropped, ticks,
                 defined, device, lost, untold, marks>>

(* An error leaves the entries where they are. *)
KeepPuttingTheFailedLast(l) ==
  queue' = [queue EXCEPT ![l] = Append(Tail(@), Head(@))] /\ UNCHANGED <<defined, timer, written>>

Keep(l) == UNCHANGED storage

WriteFileFailsEndingTheRound(l) ==
  /\ Attempting(l) /\ disk[l] = "failing"
  /\ Keep(l)
  /\ worker' = [worker EXCEPT !.todo = {}]
  /\ UNCHANGED <<channel, dropped_logs, handles, callers, asker, stopper, dropped, ticks,
                 device, lost, untold, marks>>

WriteFileFailsRetryingInPlace(l) ==
  Attempting(l) /\ disk[l] = "failing" /\ UNCHANGED vars

WriteFileFails(l) ==
  /\ Attempting(l) /\ disk[l] = "failing"
  /\ Keep(l)
  /\ worker' = Visited(l)
  /\ UNCHANGED <<channel, dropped_logs, handles, callers, asker, stopper, dropped, ticks,
                 device, lost, untold, marks>>

(* WRITE_TIMEOUT is longer than the period of the writer tick and than the
   deadline of a flush: by now both have passed. *)
WriteFileTimesOut(l) ==
  /\ Attempting(l) /\ disk[l] = "wedged"
  /\ Keep(l)
  /\ worker' = [Visited(l) EXCEPT !.late = TRUE]
  /\ writer_due' = TRUE
  /\ UNCHANGED <<channel, dropped_logs, handles, callers, asker, stopper, dropped,
                 cleanup_due, device, lost, untold, marks>>

Attempt(l) == SkipFile(l) \/ WriteFile(l) \/ WriteFileFails(l) \/ WriteFileTimesOut(l)

(* log_count() == 0, or the deadline has passed. *)
FlushDoneAfterOneRound == TRUE
FlushDone == worker.late \/ \A l \in defined : queue[l] = <<>>

Flushing == Passing /\ worker.why \notin {"tick", "cleanup"}

FlushAgain ==
  /\ Flushing /\ worker.todo = {} /\ ~FlushDone
  /\ worker' = [worker EXCEPT !.todo = defined]
  /\ UNCHANGED <<channel, dropped_logs, handles, callers, asker, stopper, dropped, ticks,
                 storage, device, lost, untold, marks>>

(* Back to the select; a GetInfoAndFlush is answered. *)
EndPass ==
  /\ Passing /\ worker.why # "final" /\ worker.todo = {}
  /\ Flushing => FlushDone
  /\ worker' = [worker EXCEPT !.at = "select"]
  /\ asker' = IF worker.why = "info" THEN [asker EXCEPT ![worker.asker] = "some"] ELSE asker
  /\ UNCHANGED <<channel, dropped_logs, handles, callers, stopper, dropped, ticks, storage,
                 device, lost, untold, marks>>

(* The task ends; the receiver goes, with every message and reply sender left
   in the channel. *)
AnswersKept == asker
Answers == [a \in Askers |-> IF asker[a] = "waiting" THEN "none" ELSE asker[a]]

EndTask ==
  /\ Passing /\ worker.why = "final" /\ worker.todo = {} /\ FlushDone
  /\ worker' = [worker EXCEPT !.at = "ended"]
  /\ channel' = <<>>
  /\ asker' = Answers
  /\ UNCHANGED <<dropped_logs, handles, callers, stopper, dropped, ticks, storage, device,
                 lost, untold, marks>>

----------------------------------------------------------------------------
(* Time and the disk *)

Elapse == UNCHANGED <<channel, dropped_logs, handles, callers, asker, stopper, dropped,
                      queue, defined, written, lost, untold, marks>>

(* Whatever the worker is at: the period may be over before a pass is. *)
WriterTickFires ==
  /\ ~Closed
  /\ ~writer_due /\ writer_due' = TRUE
  /\ Elapse /\ UNCHANGED <<worker, cleanup_due, timer, device>>

CleanUpTickFires ==
  /\ ~Closed
  /\ ~cleanup_due /\ cleanup_due' = TRUE
  /\ Elapse /\ UNCHANGED <<worker, writer_due, timer, device>>

FlushIntervalElapses(l) ==
  /\ ~Closed /\ timer[l] = "running"
  /\ timer' = [timer EXCEPT ![l] = "elapsed"]
  /\ Elapse /\ UNCHANGED <<worker, ticks, device>>

(* The 5 seconds of a flush. *)
DeadlinePasses ==
  /\ Flushing /\ ~worker.late
  /\ worker' = [worker EXCEPT !.late = TRUE]
  /\ writer_due' = TRUE
  /\ Elapse /\ UNCHANGED <<cleanup_due, timer, device>>

DiskBreaks(l) ==
  /\ disk[l] = "ok" /\ breaks < MaxBreaks
  /\ \E kind \in Breakdowns : disk' = [disk EXCEPT ![l] = kind]
  /\ breaks' = breaks + 1
  /\ Elapse /\ UNCHANGED <<worker, ticks, timer>>

DiskRecovers(l) ==
  /\ disk[l] # "ok"
  /\ disk' = [disk EXCEPT ![l] = "ok"]
  /\ Elapse /\ UNCHANGED <<worker, ticks, timer, breaks>>

----------------------------------------------------------------------------
Init ==
  /\ channel = <<>> /\ dropped_logs = 0 /\ handle = "some"
  /\ logger \in {"none"} \cup (IF "system" \in Calls THEN {"another"} ELSE {})
  /\ loggers = {}
  /\ call = [p \in Callers |-> [at |-> "idle", pending |-> 0, log |-> "none"]]
  /\ sends = [p \in Callers |-> 0]
  /\ asker = [a \in Askers |-> "idle"]
  /\ stopper = [s \in Stoppers |-> "idle"]
  /\ dropped = FALSE
  /\ worker = [at |-> "select", why |-> "none", todo |-> {}, asker |-> "nobody", late |-> FALSE]
  /\ writer_due = TRUE /\ cleanup_due = TRUE
  /\ defined = {}
  /\ queue = [l \in Logs |-> <<>>]
  /\ timer = [l \in Logs |-> "none"]
  /\ written = [l \in Logs |-> <<>>]
  /\ disk = [l \in Logs |-> "ok"] /\ breaks = 0
  /\ lost = {} /\ untold = 0
  /\ stopping = FALSE /\ before_stop = {}
  /\ ahead = [a \in Askers |-> {}]

LogStep(p) == SendNotice(p) \/ RestoreCount(p) \/ SendEntry(p) \/ CountDrop(p)

Producing ==
  \E p \in Producers :
    \/ LogStep(p) \/ InstallLogger(p)
    \/ Flush(p)
    \/ SetRules(p)
    \/ \E l \in Logs : Log(p, l) \/ Def(p, l) \/ LogBundle(p, l) \/ DefSystemLog(p, l)

Handling ==
  \/ \E a \in Askers : GetInfo(a)
  \/ \E s \in Stoppers : SendStop(s) \/ TakeHandle(s) \/ Join(s)
  \/ DropHandles

PassStep ==
  \/ Report \/ LogStep(Worker)
  \/ \E l \in Logs : Attempt(l)
  \/ FlushAgain
  \/ EndPass
  \/ EndTask

WorkerStep == WriterTick \/ CleanUpTick \/ Receive \/ PassStep

Environment ==
  \/ WriterTickFires
  \/ CleanUpTickFires
  \/ DeadlinePasses
  \/ \E l \in Logs : FlushIntervalElapses(l) \/ DiskBreaks(l) \/ DiskRecovers(l)

Next == Producing \/ Handling \/ WorkerStep \/ Environment

(* The worker takes every step it can: the task is polled, operations end or
   time out, clocks advance.  A message and the clean-up tick compete with the
   writer tick, which comes again and again: that they are ready infinitely
   often is enough, since the worker looks at everything each time it is back
   at the select.  A call that has begun goes on; nobody has to begin one, and
   nobody mends a disk. *)
Fairness ==
  /\ WF_vars(WriterTick \/ PassStep) /\ SF_vars(CleanUpTick) /\ SF_vars(Receive)
  /\ WF_vars(WriterTickFires) /\ WF_vars(DeadlinePasses)
  /\ \A l \in Logs : WF_vars(FlushIntervalElapses(l))
  /\ \A p \in Producers : WF_vars(LogStep(p) \/ InstallLogger(p))
  /\ \A s \in Stoppers :
       WF_vars((stopper[s] # "idle" /\ SendStop(s)) \/ TakeHandle(s) \/ Join(s))

Spec == Init /\ [][Next]_vars

FairSpec == Spec /\ Fairness

----------------------------------------------------------------------------
(* Properties *)

Id == Callers \X Nat

LogMessage == [kind : {"log", "bundle"}, log : Logs, id : Id]
Notice     == [kind : {"notice"}, log : Logs, count : Nat \ {0}]
Message    == LogMessage \cup Notice
                \cup [kind : {"def"}, log : Logs] \cup [kind : {"flush", "rules", "stop"}]
                \cup [kind : {"info"}, asker : Askers]

CallState   == [at : {"idle", "notice", "restore", "entry", "count", "install"},
                pending : Nat, log : Logs \cup {"none"}]
WorkerState == [at : {"select", "report", "pass", "ended"},
                why : {"none", "tick", "cleanup", "flush", "info", "final"},
                todo : SUBSET Logs, asker : Askers \cup {"nobody"}, late : BOOLEAN]

(* The channel never holds more than its capacity, a queue never more than its
   limit, and a file's timer runs exactly while entries wait for it; whether
   untold is negative is a matter of DropsAccounted. *)
TypeOK ==
  /\ channel \in Seq(Message) /\ Len(channel) <= ChannelCapacity
  /\ dropped_logs \in Nat /\ untold \in Int
  /\ handle \in {"some", "none"} /\ loggers \subseteq Logs
  /\ logger \in Logs \cup {"none", "another"}
  /\ call \in [Callers -> CallState] /\ sends \in [Callers -> Nat]
  /\ asker \in [Askers -> {"idle", "waiting", "some", "none"}]
  /\ stopper \in [Stoppers -> {"idle", "waiting", "granted", "sent", "joining", "returned"}]
  /\ dropped \in BOOLEAN /\ stopping \in BOOLEAN
  /\ worker \in WorkerState /\ worker.todo \subseteq defined
  /\ defined \subseteq Logs
  /\ queue \in [Logs -> Seq(LogMessage \cup Notice)]
  /\ written \in [Logs -> Seq(LogMessage \cup Notice)]
  /\ timer \in [Logs -> {"none", "running", "elapsed"}]
  /\ \A l \in Logs : Len(queue[l]) <= QueueMax /\ (timer[l] = "none" <=> queue[l] = <<>>)
  /\ lost \subseteq Id /\ before_stop \subseteq Id /\ ahead \in [Askers -> SUBSET Id]

(* send_log: every entry of log() the full channel refused is in the shared
   count, or in the hands of a call between its swap and its notice or
   fetch_add, or in a notice the channel took - whatever calls overlap. *)
InHand(p) == call[p].pending + (IF call[p].at = "count" THEN 1 ELSE 0)

DropsAccounted == untold = dropped_logs + SumFunction([p \in Callers |-> InHand(p)])

(* An entry the channel took stays in the channel, a queue or a file, or is
   evicted, or meets no definition; no clean-up, failed write or flush makes
   one disappear.  Only the end of the task does, to what the channel still
   holds; that nothing a shutdown waited for is among it is ShutdownFlushes. *)
EntriesConserved ==
  [][Pending \cup Stored \subseteq
       (Pending \cup Stored \cup lost)' \cup (IF Closed' THEN Entries(channel) ELSE {})]_vars

(* Before: in the order their threads logged them. *)
Before(A, B) == \A a \in A, b \in B : a[1] = b[1] => a[2] < b[2]
InOrder(c)   == \A i, j \in DOMAIN c : i < j => Before(EntryOf(c[i]), EntryOf(c[j]))

(* What one thread logs is on the disk, in the queue and in the channel in the
   order it was logged. *)
ProducerOrder == \A l \in Logs : InOrder(written[l] \o queue[l] \o channel)

(* shutdown: once the worker has ended, every entry that was waiting when the
   stop message went in, in the channel or in a queue, is on the disk or was
   evicted; it is still in a queue only if the final flush ran out of its
   5 seconds or the write timed out. *)
ShutdownFlushes ==
  Closed => before_stop \subseteq Stored \cup lost \cup (IF worker.late THEN Waiting ELSE {})

(* get_info: when the statistics come, what had been logged before the call
   is no longer waiting, unless the flush ran out of time. *)
InfoFollowsFlush ==
  [][\A a \in Askers :
       asker[a] = "waiting" /\ asker'[a] = "some" /\ ~worker.late =>
         ahead[a] \cap Pending' = {}]_vars

(* Liveness.  A pass begun by a tick overruns when the next tick is due before
   it is over: its writes hang, or are slow to fail or to succeed. *)
Overruns ==
  /\ worker.at = "pass" /\ worker.why = "tick"
  /\ ~writer_due /\ writer_due'

(* From some time on the pass of every tick ends within the period.  This is a
   premise, no assumption of the specification: the code bounds a write by
   WRITE_TIMEOUT, which is 30 periods long. *)
PassesInTime == <>[][~Overruns]_vars

(* An entry whose file can be written is written, even while the disk of
   other names returns errors or hangs for ever, and whatever that does to the
   channel. *)
EntriesReachDisk ==
  \A l \in Logs :
    <>[](disk[l] = "ok") => (queue[l] # <<>> ~> (queue[l] = <<>> \/ Closed))

(* As long as the passes of the ticks are in time, the worker takes the entries
   out of the channel, however many of its writes fail and however often. *)
ChannelDrainsInTime ==
  PassesInTime => (Entries(channel) # {} ~> Entries(channel) = {})

(* get_info answers, and so does one the worker never gets to, because it
   stops first. *)
InfoAnswered ==
  PassesInTime => \A a \in Askers : asker[a] = "waiting" ~> asker[a] \in {"some", "none"}

(* shutdown returns, even if the channel was full when it was called. *)
ShutdownReturns ==
  PassesInTime =>
    \A s \in Stoppers : stopper[s] # "idle" ~> stopper[s] = "returned"

(* A worker nobody can reach any more ends, after a last flush: every handle
   is dropped, and the global logger is not this OpLog's.  A def_system_log
   that came too late does not keep it alive (its comment: "a losing call
   frees what it built"). *)
WorkerEnds == PassesInTime => (dropped ~> (Closed \/ Ours))

(* add_to_log.rs, QUEUE_MAX_BYTES: "Entries pile up in memory while writes
   fail (no space left, a wedged volume) - the channel only buffers the way
   in, the worker drains it into the queue regardless."  Only writes that hang
   are given the blame: passes are taken to be in time but for them. *)
ChannelDrains ==
  <>[][Overruns => \E l \in Logs : WriteFileTimesOut(l)]_vars =>
    (Entries(channel) # {} ~> Entries(channel) = {})
=============================================================================
