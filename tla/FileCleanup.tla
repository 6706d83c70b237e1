------------------------------ MODULE FileCleanup ------------------------------
(***************************************************************************)
(* The old-file cleanup (clean_up_delete_files.rs): the rules, and a pass  *)
(* over the directories they name.  The pass awaits every file operation,  *)
(* so each is a step: log writers, a removal left behind by an earlier     *)
(* pass, and other programs change the tree in between.  The rules change  *)
(* between passes only, the worker being one task.                         *)
(***************************************************************************)
EXTENDS Integers, Sequences, FiniteSets, Functions, SequencesExt

CONSTANTS
  Dirs, Files, Links,  \* the names the tree may hold; links stand for all that
                       \* is neither a file nor a directory
  Parent,              \* name |-> the directory it is in, or "top"
  Above,               \* name |-> all the directories it lies below
  Dating,              \* file |-> the time the system reports: "modified",
                       \* "created" (and no modification), or "none"
  Breakable,           \* names whose operations may turn out to fail
  Bundles,             \* rule lists a caller may hand over
  RulePaths, Days,     \* what a single rule may say
  DayLen,              \* the length of a day in ticks of the clock
  MaxAge,              \* bound: ages are not told apart beyond it
  MaxLeft              \* bound: removals left behind at a time

Nodes == Dirs \cup Files \cup Links

OpLogCleanUpDefinition == [path : RulePaths, days : Nat]

Absent == -2
Future == -1           \* a time ahead of the clock

ASSUME CleanupAssumption ==
  /\ Dirs \cap Files = {} /\ Links \cap (Dirs \cup Files) = {} /\ "top" \notin Dirs
  /\ Parent \in [Nodes -> Dirs \cup {"top"}]
  /\ Above \in [Nodes -> SUBSET Dirs]
  /\ \A n \in Nodes :
       Above[n] = IF Parent[n] = "top" THEN {} ELSE {Parent[n]} \cup Above[Parent[n]]
  /\ RulePaths \subseteq Dirs /\ Days \subseteq Nat
  /\ DayLen \in Nat \ {0} /\ MaxAge \in Nat /\ MaxAge >= DayLen
  /\ Bundles \subseteq Seq(OpLogCleanUpDefinition)

VARIABLES
  clean_up_definitions,
  wanted,     \* history: path |-> the days last asked for, by one call
  twice,      \* history: paths the bundle in force names more than once
  age,        \* name |-> ticks since the time reported for it, or Absent
  broken,     \* the names whose operations fail, now and then or always
  pass,       \* where in clean_up_delete_files the worker is
  cleanup_timed_out, \* the last pass was cut off
  left,       \* removals a cut-off pass left running, with their rule's days
  overtaken   \* history: files written after they were dated for removal

vars == <<clean_up_definitions, wanted, twice, age, broken, pass, cleanup_timed_out,
          left, overtaken>>
rules == <<clean_up_definitions, wanted, twice>>

NoPass == [at |-> "idle", rule |-> 0, stack |-> <<>>, node |-> "none"]

Exists(n) == age[n] # Absent
Children(d) == {n \in Nodes : Exists(n) /\ Parent[n] = d}

\* d and what lies below it.
Covers(d, n) == n = d \/ d \in Above[n]

--------------------------------------------------------------------------------
(* The rules. *)

RulesFor(p, defs) == {i \in DOMAIN defs : defs[i].path = p}
DaysFor(p, defs) == {defs[i].days : i \in RulesFor(p, defs)}

RemoveAllDefinitions ==
  /\ clean_up_definitions' = <<>>
  /\ wanted' = [p \in RulePaths |-> {}] /\ twice' = {}

CleanUpBundle ==
  \E b \in Bundles :
    /\ clean_up_definitions' = b
    /\ wanted' = [p \in RulePaths |-> DaysFor(p, b)]
    /\ twice' = {p \in RulePaths : \E i, j \in RulesFor(p, b) : i # j}

AddedAnyway(path, days) ==
  Append(clean_up_definitions, [path |-> path, days |-> days])

\* The first rule for the path is updated; without one the rule is added.
Updated(path, days) ==
  LET same == RulesFor(path, clean_up_definitions)
  IN  IF same = {} THEN Append(clean_up_definitions, [path |-> path, days |-> days])
      ELSE [clean_up_definitions EXCEPT
              ![CHOOSE i \in same : \A j \in same : i <= j].days = days]

CleanUpDefinition ==
  \E p \in RulePaths, d \in Days :
    /\ clean_up_definitions' = Updated(p, d)
    /\ wanted' = [wanted EXCEPT ![p] = {d}] /\ UNCHANGED twice

Receive ==
  /\ pass.at = "idle"
  /\ RemoveAllDefinitions \/ CleanUpBundle \/ CleanUpDefinition
  /\ UNCHANGED <<age, broken, pass, cleanup_timed_out, left, overtaken>>

--------------------------------------------------------------------------------
(* One pass.  What fails is passed over; an error never ends the pass. *)

is_older_either_way(f, min_days) ==
  LET elapsed == IF Dating[f] = "none" THEN 0 ELSE IF age[f] = Future THEN MaxAge ELSE age[f]
  IN  elapsed \div DayLen >= min_days

\* Whole days, from the modification, or else the creation, or else now.
is_older_than(f, min_days) ==
  LET elapsed == IF Dating[f] = "none" \/ age[f] = Future THEN 0 ELSE age[f]
  IN  elapsed \div DayLen >= min_days

MayFail(n) == ~Exists(n) \/ n \in broken
Rule == clean_up_definitions[pass.rule]
Top == Last(pass.stack)

\* read_dir: what is in the directory now is what the loop will see.
Opened(d) == Append(pass.stack, [dir |-> d, todo |-> Children(d)])

Goto(p) == pass' = p /\ UNCHANGED <<rules, broken, left>>
Step(p) == Goto(p) /\ UNCHANGED cleanup_timed_out
Looks == UNCHANGED <<age, overtaken>>

StartPass ==
  /\ pass.at = "idle"
  /\ Step([NoPass EXCEPT !.at = "rule", !.rule = 1]) /\ Looks

\* A rule of zero days is none.
OpenRule ==
  /\ pass.at = "rule" /\ pass.rule <= Len(clean_up_definitions)
  /\ \/ /\ Rule.days > 0 /\ Exists(Rule.path)
        /\ Step([pass EXCEPT !.at = "entry", !.stack = Opened(Rule.path)])
     \/ /\ Rule.days = 0 \/ MayFail(Rule.path)
        /\ Step([pass EXCEPT !.rule = @ + 1])
  /\ Looks

EndPass ==
  /\ pass.at = "rule" /\ pass.rule > Len(clean_up_definitions)
  /\ Goto(NoPass) /\ Looks
  /\ cleanup_timed_out' = FALSE

\* The next entry: a file is dated, a directory gone through - or, when it
\* cannot be opened, tried to be removed all the same.
NextEntry ==
  /\ pass.at = "entry" /\ Top.todo # {}
  /\ \E n \in Top.todo :
       LET rest == [pass EXCEPT !.stack[Len(pass.stack)].todo = @ \ {n}]
       IN  \/ /\ n \in Links \/ n \in broken
              /\ Step(rest)
           \/ /\ n \in Files
              /\ Step([rest EXCEPT !.at = "date", !.node = n])
           \/ /\ n \in Dirs /\ Exists(n)
              /\ Step([rest EXCEPT !.stack = Append(@, [dir |-> n, todo |-> Children(n)])])
           \/ /\ n \in Dirs /\ MayFail(n)
              /\ Step([rest EXCEPT !.at = "rmdir", !.node = n])
  /\ Looks

LeaveWithoutReturning ==
  /\ pass.at = "entry" /\ Top.todo = {}
  /\ Step(IF Len(pass.stack) = 1 THEN [pass EXCEPT !.at = "rule", !.rule = @ + 1]
          ELSE [pass EXCEPT !.at = "rmdir", !.stack = Front(@), !.node = Top.dir])
  /\ Looks

LeaveRemovingTheRulesOwn ==
  /\ pass.at = "entry" /\ (Top.todo = {} \/ Top.dir \in broken)
  /\ Step(IF Len(pass.stack) > 1
          THEN [pass EXCEPT !.at = "rmdir", !.stack = Front(@), !.node = Top.dir]
          ELSE IF Exists(Top.dir) THEN [pass EXCEPT !.at = "rmdir", !.node = Top.dir]
          ELSE [pass EXCEPT !.at = "rule", !.stack = <<>>, !.rule = @ + 1])
  /\ Looks

\* No entry is left, or the next one cannot be read.
LeaveDirectory ==
  /\ pass.at = "entry" /\ (Top.todo = {} \/ Top.dir \in broken)
  /\ Step(IF Len(pass.stack) = 1
          THEN [pass EXCEPT !.at = "rule", !.stack = <<>>, !.rule = @ + 1]
          ELSE [pass EXCEPT !.at = "rmdir", !.stack = Front(@), !.node = Top.dir])
  /\ Looks

DateFileOrGiveUp ==
  /\ pass.at = "date"
  /\ Step(IF MayFail(pass.node)
          THEN [NoPass EXCEPT !.at = "rule", !.rule = Len(clean_up_definitions) + 1]
          ELSE IF is_older_than(pass.node, Rule.days) THEN [pass EXCEPT !.at = "remove"]
          ELSE [pass EXCEPT !.at = "entry", !.node = "none"])
  /\ Looks

\* is_for_deletion: a file whose metadata cannot be had stays.
DateFile ==
  /\ pass.at = "date"
  /\ \/ /\ Exists(pass.node) /\ is_older_than(pass.node, Rule.days)
        /\ Step([pass EXCEPT !.at = "remove"])
     \/ /\ MayFail(pass.node) \/ ~is_older_than(pass.node, Rule.days)
        /\ Step([pass EXCEPT !.at = "entry", !.node = "none"])
  /\ Looks

\* What removing n may do: nothing, if it fails; a directory must be empty.
Removal(n) ==
  \/ /\ Exists(n) /\ Children(n) = {}
     /\ age' = [age EXCEPT ![n] = Absent]
  \/ /\ MayFail(n) \/ Children(n) # {}
     /\ UNCHANGED age

RemoveNode ==
  /\ pass.at \in {"remove", "rmdir"}
  /\ Removal(pass.node)
  /\ Step([pass EXCEPT !.at = "entry", !.node = "none"])
  /\ overtaken' = {f \in overtaken : \E r \in left : r.path = f}

\* CLEANUP_TIMEOUT, at any await: the pass is dropped, and a removal it was
\* waiting for stays with the blocking pool.
CutOff ==
  /\ pass.at # "idle"
  /\ pass' = NoPass /\ cleanup_timed_out' = TRUE
  /\ \/ /\ pass.at \in {"remove", "rmdir"} /\ Cardinality(left) < MaxLeft
        /\ left' = left \cup {[path |-> pass.node, days |-> Rule.days]}
        /\ UNCHANGED overtaken
     \/ /\ overtaken' = {f \in overtaken : \E r \in left : r.path = f}
        /\ UNCHANGED left
  /\ UNCHANGED <<rules, age, broken>>

LateRemoval ==
  \E r \in left :
    /\ Removal(r.path)
    /\ left' = left \ {r}
    /\ overtaken' = {f \in overtaken : \/ pass.at = "remove" /\ pass.node = f
                                      \/ \E q \in left' : q.path = f}
    /\ UNCHANGED <<rules, broken, pass, cleanup_timed_out>>

--------------------------------------------------------------------------------
(* Everybody else. *)

\* A writer appends to a file, or makes it with the directories above it.
Write ==
  \E f \in Files :
    /\ age' = [n \in Nodes |->
         IF n = f THEN (IF Dating[f] = "created" /\ Exists(f) THEN age[f] ELSE 0)
         ELSE IF n \in Above[f] /\ ~Exists(n) THEN 0 ELSE age[n]]
    /\ overtaken' = IF \/ pass.at = "remove" /\ pass.node = f
                       \/ \E r \in left : r.path = f
                    THEN overtaken \cup {f} ELSE overtaken
    /\ UNCHANGED <<rules, broken, pass, cleanup_timed_out, left>>

Tick ==
  /\ age' = [n \in Nodes |->
       IF n \in Files /\ Exists(n) /\ Dating[n] # "none" /\ age[n] < MaxAge
       THEN age[n] + 1 ELSE age[n]]
  /\ UNCHANGED <<rules, broken, pass, cleanup_timed_out, left, overtaken>>

--------------------------------------------------------------------------------
Init ==
  /\ clean_up_definitions = <<>>
  /\ wanted = [p \in RulePaths |-> {}] /\ twice = {}
  /\ age \in [Nodes -> {0, Future, Absent}]
  /\ \A n \in Nodes :
       /\ age[n] = Future => n \in Files /\ Dating[n] = "modified"
       /\ age[n] = Absent => n \in Links \/ (n \in Files /\ Dating[n] = "none")
  /\ broken \in SUBSET Breakable
  /\ pass = NoPass /\ cleanup_timed_out = FALSE /\ left = {} /\ overtaken = {}

PassStep ==
  \/ StartPass \/ OpenRule \/ NextEntry \/ LeaveDirectory
  \/ DateFile \/ RemoveNode \/ EndPass

Next == Receive \/ PassStep \/ CutOff \/ LateRemoval \/ Write \/ Tick

Spec == Init /\ [][Next]_vars

\* The cleanup tick comes every five minutes, and every operation of a pass
\* ends or is cut off.
FairSpec == Spec /\ WF_vars(PassStep)

--------------------------------------------------------------------------------
Frame == [dir : Dirs, todo : SUBSET Nodes]

\* Every variable holds a value of its type, and the pass is inside a
\* directory exactly while it deals with one's entries.
TypeOK ==
  /\ clean_up_definitions \in Seq(OpLogCleanUpDefinition)
  /\ age \in [Nodes -> Absent .. MaxAge]
  /\ pass.at \in {"idle", "rule", "entry", "date", "remove", "rmdir"}
  /\ pass.stack \in Seq(Frame)
  /\ pass.at \in {"entry", "date", "remove", "rmdir"} <=> pass.stack # <<>>
  /\ overtaken \subseteq Files /\ cleanup_timed_out \in BOOLEAN

\* A rule of some days above the file, which has been dated and is that old.
Asks(r, f) ==
  r.days > 0 /\ Covers(r.path, f) /\ Dating[f] # "none" /\ age[f] >= r.days * DayLen

\* A file goes only if a rule above it asks for its age: never one that was
\* written within the rule's days, or lies ahead of the clock, or cannot be
\* dated - except one written between its dating and its removal, which no
\* check excludes (is_for_deletion and remove_file are two awaits, and a
\* removal may be left behind by a pass that was cut off).
OnlyOldFilesGo ==
  [][\A f \in Files :
       age[f] # Absent /\ age'[f] = Absent =>
         f \in overtaken \/ \E r \in Range(clean_up_definitions) \cup left : Asks(r, f)]_vars

\* Nothing a rule does not reach is ever removed: not the directory the rule
\* names, unless it lies below another rule's, and no link.
RulePathsStay ==
  [][\A n \in Dirs \cup Links :
       age[n] # Absent /\ age'[n] = Absent =>
         /\ n \in Dirs
         /\ \/ \E r \in Range(clean_up_definitions) : r.days > 0 /\ r.path \in Above[n]
            \/ \E r \in left : r.days > 0 /\ r.path = n]_vars

\* For every path the rules in force say what the last call for it said, and
\* nothing else (clean_up_definition: "Registers or updates a cleanup rule") -
\* except for a path the bundle in force names more than once: a later update
\* of it changes the first of its rules, and the others stay in force.
LastRuleHolds ==
  \A p \in RulePaths :
    LET inForce == DaysFor(p, clean_up_definitions)
    IN  wanted[p] \subseteq inForce /\ (inForce \subseteq wanted[p] \/ p \in twice)

\* A file old enough for a rule does go, or is written, or the rule changes:
\* other files and directories that fail for ever do not keep the pass from
\* it.  That passes are not cut off for ever is a premise, which the comment
\* on CLEANUP_TIMEOUT takes for granted ("every partial pass has already
\* removed something, so it converges").
Due(f) == Exists(f) /\ \E r \in Range(clean_up_definitions) : Asks(r, f)

OldFilesGo ==
  <>[]~cleanup_timed_out =>
    \A f \in Files :
      [](broken \cap (Above[f] \cup {f}) = {}) => (Due(f) ~> ~Due(f))

================================================================================
