------------------------------ MODULE Definitions ------------------------------
(***************************************************************************)
(* The worker's definitions and the queues behind them: add_to_log.rs (def *)
(* and log, with the file an entry goes to and the stamp it gets),         *)
(* clean_up.rs (what is forgotten after ten idle minutes) and the order in *)
(* which service.rs works through a bundle.  How a queue reaches its file  *)
(* is LogFile; here a write drains some entries or fails.                  *)
(*                                                                         *)
(* Every handler is an operator on the map of definitions, because a       *)
(* bundle runs several of them in one step of the worker.                  *)
(*                                                                         *)
(* A name or a path is the sequence of its tokens: the separators "_", "/" *)
(* and ".log", and the longest stretches without one.  Only separators are *)
(* put next to what a caller chose, so that equal strings are equal        *)
(* sequences.                                                              *)
(***************************************************************************)
EXTENDS Integers, Sequences, FiniteSets, Functions, SequencesExt

CONSTANTS
  Tokens,      \* the separators and what stands between them
  Names,       \* log names
  Settings,    \* what a registration may say
  Calendar,    \* date |-> its year, month, day, hour and minute in Warsaw
  Idle,        \* ten minutes, in cleanup ticks
  QueueCap,    \* entries a queue holds (QUEUE_MAX_BYTES)
  MaxBacklog,  \* bound: entries queued or dropped, in all files together
  MaxFiles     \* bound: queues, in all definitions together

Dates == DOMAIN Calendar

LogTypes == {"NoSplit", "PerHour", "PerDay", "PerMonth"}
Options == {"NoAddDateToLog", "UseSubDirectories"}

\* flush_interval, which decides when a queue is written, is LogFile's.
OpLogDefinition ==
  [path : Seq(Tokens), log_type : LogTypes, options : SUBSET Options, header : STRING,
   auto_remove_definition : BOOLEAN]

LocalTime ==
  [year : Tokens, month : Tokens, day : Tokens, hour : Tokens, minute : Tokens]

\* A year has four digits, the others have two.
ASSUME DefinitionsAssumption ==
  /\ {"/", "_", ".log"} \subseteq Tokens
  /\ Names \subseteq Seq(Tokens) /\ Settings \subseteq OpLogDefinition
  /\ \A t \in Dates :
       /\ Calendar[t] \in LocalTime
       /\ "/" \notin {Calendar[t].year, Calendar[t].month, Calendar[t].day, Calendar[t].hour}
  /\ \A t, u \in Dates :
       Calendar[t].year \notin {Calendar[u].month, Calendar[u].day, Calendar[u].hour}

ASSUME BoundsAssumption == Idle \in Nat \ {0} /\ QueueCap \in Nat \ {0}

VARIABLES
  definitions, \* name |-> its definition, for the names that have one
  known,       \* history: name |-> whether the last registration asked for
               \* auto-removal, and how long ago its last entry was kept or
               \* it was registered anew
  undue        \* history: an entry was discarded that should have been kept

vars == <<definitions, known, undue>>

--------------------------------------------------------------------------------
(* What a caller says (messages.rs): a registration starts from the defaults, *)
(* and each builder replaces one setting; a bundle grows at its end.          *)

New(dir) ==
  [path |-> dir, log_type |-> "PerDay", options |-> {}, header |-> "",
   auto_remove_definition |-> FALSE]

header(d, text)                   == [d EXCEPT !.header = text]
path(d, dir)                      == [d EXCEPT !.path = dir]
log_type(d, type)                 == [d EXCEPT !.log_type = type]
options(d, opts)                  == [d EXCEPT !.options = opts]
auto_remove_definition(d, enable) == [d EXCEPT !.auto_remove_definition = enable]

NewBundle == [definitions |-> <<>>, logs |-> <<>>]

add_definition(bundle, name, d) ==
  [bundle EXCEPT !.definitions = Append(@, [log_name |-> name, d |-> d])]
add_log(bundle, name, date) ==
  [bundle EXCEPT !.logs = Append(@, [log_name |-> name, date |-> date])]

--------------------------------------------------------------------------------
(* Which file, which stamp.  Seconds are left out. *)

TIME_IN_LOG(t)         == <<t.hour, t.minute>>
DAY_AND_TIME_IN_LOG(t) == <<t.day, t.hour, t.minute>>
HOUR_IN_PATH(t)        == <<t.year, "_", t.month, "_", t.day, "_", t.hour>>
DAY_IN_PATH(t)         == <<t.year, "_", t.month, "_", t.day>>
MONTH_IN_PATH(t)       == <<t.year, "_", t.month>>

format_time_in_log(type, date) ==
  IF type = "NoSplit" THEN <<>> ELSE TIME_IN_LOG(Calendar[date])

format_date_in_log(type, date) ==
  CASE type = "NoSplit"             -> <<>>
    [] type = "PerMonth"            -> DAY_AND_TIME_IN_LOG(Calendar[date])
    [] type \in {"PerHour", "PerDay"} -> TIME_IN_LOG(Calendar[date])

format_date_in_path(type, date) ==
  CASE type = "NoSplit"  -> <<>>
    [] type = "PerHour"  -> HOUR_IN_PATH(Calendar[date])
    [] type = "PerDay"   -> DAY_IN_PATH(Calendar[date])
    [] type = "PerMonth" -> MONTH_IN_PATH(Calendar[date])

\* The entry as it is queued: no stamp when the definition opts out.
format_entry(def, date) ==
  [date |-> date,
   stamp |-> IF "NoAddDateToLog" \in def.options THEN <<>>
             ELSE format_date_in_log(def.log_type, date)]

\* log() and get_log_file: without periods the file has the log's name; with
\* them the period is a directory of its own or a part of the file's name.
FileNameOfThePeriod(name, def, date) ==
  LET period == format_date_in_path(def.log_type, date)
  IN  IF "UseSubDirectories" \in def.options
      THEN def.path \o <<"/">> \o period \o <<".log">>
      ELSE def.path \o <<"/">> \o name \o <<"_">> \o period \o <<".log">>

log_path(def, date) ==
  LET period == format_date_in_path(def.log_type, date)
  IN  IF period # <<>> /\ "UseSubDirectories" \in def.options
      THEN def.path \o <<"/">> \o period ELSE def.path

log_name(name, def, date) ==
  LET period == format_date_in_path(def.log_type, date)
  IN  IF period # <<>> /\ "UseSubDirectories" \notin def.options
      THEN name \o <<"_">> \o period \o <<".log">> ELSE name \o <<".log">>

\* The file on the disk, and the key of its queue in the definition's map.
FileName(name, def, date) == log_path(def, date) \o <<"/">> \o log_name(name, def, date)

--------------------------------------------------------------------------------
(* The handlers, as operators on the map of definitions. *)

\* The map m with v under k.
With(m, k, v) == [j \in DOMAIN m \cup {k} |-> IF j = k THEN v ELSE m[j]]

\* A registration replaces the settings of a definition that exists and
\* leaves its queues, and the time of its last use, alone.
def(defs, name, d) ==
  LET old == IF name \in DOMAIN defs THEN defs[name]
             ELSE [last_time_use |-> 0, files |-> <<>>]
  IN  With(defs, name,
           [path |-> d.path, log_type |-> d.log_type, options |-> d.options,
            header |-> d.header, auto_remove_definition |-> d.auto_remove_definition,
            last_time_use |-> old.last_time_use, files |-> old.files])

\* The file's queue, made on first use; its header follows the definition's.
get_log_file(d, key) ==
  IF key \in DOMAIN d.files THEN [d.files[key] EXCEPT !.header = d.header]
  ELSE [header |-> d.header, logs |-> <<>>, dropped |-> 0, last_time_use |-> 0]

add_to_log_unbounded(d, key, entry) ==
  LET file == get_log_file(d, key)
  IN  [d EXCEPT !.files =
         With(@, key, [file EXCEPT !.logs = Append(@, entry), !.last_time_use = 0])]

\* Above the cap the oldest entries go, and are counted.
add_to_log(d, key, entry) ==
  LET file == get_log_file(d, key)
      logs == Append(file.logs, entry)
      over == IF Len(logs) > QueueCap THEN Len(logs) - QueueCap ELSE 0
  IN  [d EXCEPT !.files =
         With(@, key, [file EXCEPT !.logs = SubSeq(logs, over + 1, Len(logs)),
                                   !.dropped = @ + over,
                                   !.last_time_use = 0])]

\* An entry for a name nobody defined is discarded.
log(defs, name, date) ==
  IF name \notin DOMAIN defs THEN defs
  ELSE LET d == [defs[name] EXCEPT !.last_time_use = 0]
       IN  [defs EXCEPT ![name] =
              add_to_log(d, FileName(name, d, date), format_entry(d, date))]

clean_up_by_age(defs) ==
  [n \in DOMAIN defs |->
     [defs[n] EXCEPT !.files =
        Restrict(@, {k \in DOMAIN @ : @[k].last_time_use < Idle})]]

\* First the queues that are empty and idle, then the definitions that asked
\* for it, have no queue left and are idle themselves.
clean_up(defs) ==
  LET kept(d)  == {k \in DOMAIN d.files : d.files[k].logs # <<>>
                                          \/ d.files[k].last_time_use < Idle}
      swept    == [n \in DOMAIN defs |->
                     [defs[n] EXCEPT !.files = Restrict(@, kept(defs[n]))]]
  IN  Restrict(swept, {n \in DOMAIN swept : \/ ~swept[n].auto_remove_definition
                                            \/ DOMAIN swept[n].files # {}
                                            \/ swept[n].last_time_use < Idle})

\* One file's attempt: it drains the entries one frame takes and clears the
\* count of the dropped ones.
written(defs, name, key, n) ==
  LET drained == [defs[name].files[key] EXCEPT !.logs = SubSeq(@, n + 1, Len(@)), !.dropped = 0]
  IN  [defs EXCEPT ![name].files[key] = drained]

def_all(defs, regs)    == FoldLeft(LAMBDA m, r : def(m, r.log_name, r.d), defs, regs)
log_all(defs, entries) == FoldLeft(LAMBDA m, l : log(m, l.log_name, l.date), defs, entries)

process_logs_first(defs, bundle) ==
  def_all(log_all(defs, bundle.logs), bundle.definitions)

\* A bundle's definitions go first.
process_bundle(defs, bundle) ==
  log_all(def_all(defs, bundle.definitions), bundle.logs)

--------------------------------------------------------------------------------
(* The history: what a caller may count on. *)

Older(age) == IF age < Idle THEN age + 1 ELSE age

Aged(d) ==
  LET older(x) == [x EXCEPT !.last_time_use = Older(@)]
  IN  [older(d) EXCEPT !.files = [k \in DOMAIN d.files |-> older(d.files[k])]]

\* Registering an existing definition again does not prolong its life.
Register(kn, name, auto, isNew) ==
  With(kn, name, [auto |-> auto, since |-> IF isNew THEN 0 ELSE kn[name].since])

\* An entry for a name in kn is due to be kept unless the name was left to
\* expire.
Due(kn, name) ==
  name \in DOMAIN kn /\ (~kn[name].auto \/ kn[name].since < Idle)

RegisterAll(kn, regs, isNew) ==
  FoldLeft(LAMBDA m, r : Register(m, r.log_name, r.d.auto_remove_definition, isNew), kn, regs)

\* The worker took a call that handed it the contents of bundle.
Took(bundle, isNew) ==
  LET logs == bundle.logs
      kn   == RegisterAll(known, bundle.definitions, isNew)
      lost(l) == l.log_name \notin DOMAIN definitions'
                 \/ \A k \in DOMAIN definitions'[l.log_name].files :
                      ~\E i \in DOMAIN definitions'[l.log_name].files[k].logs :
                         definitions'[l.log_name].files[k].logs[i].date = l.date
      bad  == \E i \in DOMAIN logs : lost(logs[i]) /\ Due(kn, logs[i].log_name)
      kept == {logs[i].log_name : i \in DOMAIN logs} \cap DOMAIN definitions'
  IN  /\ known' = [n \in DOMAIN kn |-> IF n \in kept THEN [kn[n] EXCEPT !.since = 0] ELSE kn[n]]
      /\ undue' = (undue \/ bad)

--------------------------------------------------------------------------------
(* The worker's steps. *)

Files(defs) == UNION {{<<n, k>> : k \in DOMAIN defs[n].files} : n \in DOMAIN defs}
Queue(defs, f) == defs[f[1]].files[f[2]].logs
Backlog(defs) ==
  MapThenSumSet(LAMBDA f : Len(Queue(defs, f)) + defs[f[1]].files[f[2]].dropped,
                Files(defs))

Bounded ==
  /\ Cardinality(Files(definitions')) <= MaxFiles
  /\ Backlog(definitions') <= MaxBacklog

Init ==
  /\ definitions = <<>> /\ known = <<>> /\ undue = FALSE

\* LogDefinition
Def ==
  \E n \in Names, d \in Settings :
    /\ definitions' = def(definitions, n, d)
    /\ Took(add_definition(NewBundle, n, d), n \notin DOMAIN definitions)

\* Log
Log ==
  \E n \in Names, t \in Dates :
    /\ definitions' = log(definitions, n, t) /\ Bounded
    /\ Took(add_log(NewBundle, n, t), FALSE)

\* LogBundle: a registration and an entry of the same or of another name.
Bundle ==
  \E n, m \in Names, d \in Settings, t \in Dates :
    LET bundle == add_log(add_definition(NewBundle, n, d), m, t)
    IN  /\ definitions' = process_bundle(definitions, bundle) /\ Bounded
        /\ Took(bundle, n \notin DOMAIN definitions)

WriteFile ==
  \E f \in Files(definitions) : \E n \in 1 .. Len(Queue(definitions, f)) :
    /\ definitions' = written(definitions, f[1], f[2], n)
    /\ UNCHANGED <<known, undue>>

CleanUp ==
  /\ definitions' = clean_up(definitions)
  /\ UNCHANGED <<known, undue>>

\* Five minutes pass.
Tick ==
  /\ definitions' = [n \in DOMAIN definitions |-> Aged(definitions[n])]
  /\ known' = [n \in DOMAIN known |-> [known[n] EXCEPT !.since = Older(@)]]
  /\ UNCHANGED undue

Next == Def \/ Log \/ Bundle \/ WriteFile \/ CleanUp \/ Tick

Spec == Init /\ [][Next]_vars

--------------------------------------------------------------------------------
Queued  == [date : Dates, stamp : Seq(Tokens)]
LogFile == [header : STRING, logs : Seq(Queued), dropped : Nat, last_time_use : 0 .. Idle]

LogDefinition(d) ==
  /\ d.last_time_use \in 0 .. Idle
  /\ Restrict(d, {"path", "log_type", "options", "header", "auto_remove_definition"})
       \in OpLogDefinition
  /\ \A k \in DOMAIN d.files : d.files[k] \in LogFile

\* Every variable holds a value of its type, and no queue more than the cap.
TypeOK ==
  /\ DOMAIN definitions \subseteq DOMAIN known /\ DOMAIN known \subseteq Names
  /\ \A n \in DOMAIN definitions :
       /\ LogDefinition(definitions[n])
       /\ \A k \in DOMAIN definitions[n].files :
            k \in Seq(Tokens) /\ Len(definitions[n].files[k].logs) <= QueueCap

\* Between them def, log and clean_up keep every queued entry until a write
\* takes it: a queue is only forgotten empty and with nothing left to report,
\* a registration or another entry never costs one, and what the cap pushes
\* out is counted (add_to_log.rs: "Drops are counted").
EntriesKept ==
  [][\/ WriteFile
     \/ \A f \in Files(definitions) :
          LET old == definitions[f[1]].files[f[2]]
              new == definitions'[f[1]].files[f[2]]
              out == new.dropped - old.dropped
          IN  IF f \notin Files(definitions') THEN old.logs = <<>> /\ old.dropped = 0
              ELSE IsPrefix(SubSeq(old.logs, out + 1, Len(old.logs)), new.logs)]_vars

\* An entry is only discarded when its name was never registered, or when the
\* definition asked to be removed and had no entry for ten minutes: a name
\* registered once can be logged to for good, and a bundle may bring its own
\* definitions (clean_up.rs's test idle_definition_is_kept_...).
InTimeIsKept == ~undue

\* The name of a log's file and the stamp of an entry in it tell the entry's
\* local time, whatever was registered in between: the stamp has what the
\* period leaves out, and a file of one period is never one of another.
StampsTellTime ==
  \A f, g \in Files(definitions) :
    \A i \in DOMAIN Queue(definitions, f), j \in DOMAIN Queue(definitions, g) :
      LET a == Queue(definitions, f)[i]
          b == Queue(definitions, g)[j]
      IN  f = g /\ a.stamp = b.stamp /\ a.stamp # <<>>
            => Calendar[a.date] = Calendar[b.date]

\* Two logs feed one file - each through a queue of its own, which trusts the
\* tail it verified - only if the name of one is the other's with a period
\* behind it, and the file is the one it has without a period in its name:
\* "app" by days and "app_2025_10_26" under one path.  (A name may hold a "/";
\* then it reaches into other directories, and nothing is said of it.)
Extends(n, m) ==
  \E type \in LogTypes \ {"NoSplit"}, t \in Dates :
    m = n \o <<"_">> \o format_date_in_path(type, t)

SharedOnlyByPeriod ==
  LET takes(k, n, m) == Extends(n, m) /\ IsSuffix(<<"/">> \o m \o <<".log">>, k)
  IN  \A f, g \in Files(definitions) :
        f # g /\ f[2] = g[2] /\ "/" \notin Range(f[1]) \cup Range(g[1]) =>
          takes(f[2], f[1], g[1]) \/ takes(f[2], g[1], f[1])

================================================================================
