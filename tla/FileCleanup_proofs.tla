--------------------------- MODULE FileCleanup_proofs ---------------------------
(***************************************************************************)
(* What the old-file cleanup may remove, and which rules are in force, for *)
(* every tree, every list of rules and every sequence of writes, failures, *)
(* cut-offs and late removals.                                             *)
(***************************************************************************)
EXTENDS FileCleanup, SequenceTheorems, WellFoundedInduction, TLAPS

--------------------------------------------------------------------------------
(* The inductive invariants. *)

\* What LastRuleHolds says, and that only a path the bundle in force names
\* more than once has a second rule.
RulesInv ==
  /\ clean_up_definitions \in Seq(OpLogCleanUpDefinition)
  /\ wanted \in [RulePaths -> SUBSET Nat]
  /\ \A i, j \in DOMAIN clean_up_definitions :
       clean_up_definitions[i].path = clean_up_definitions[j].path =>
         i = j \/ clean_up_definitions[i].path \in twice
  /\ LastRuleHolds

Places == {"idle", "rule", "entry", "date", "remove", "rmdir"}
Inside == {"entry", "date", "remove", "rmdir"}

\* A directory on the stack is the rule's own or below it, and what is left to
\* look at lies in it.
FrameBelow(i) ==
  LET frame == pass.stack[i]
  IN  /\ IF i = 1 THEN frame.dir = Rule.path ELSE Rule.path \in Above[frame.dir]
      /\ \A n \in frame.todo : Parent[n] = frame.dir

\* Old enough when it was dated, and not written since.
Aged(days, f) == Dating[f] # "none" /\ age[f] >= days * DayLen
MayBeRemoved(days, f) == Aged(days, f) \/ f \in overtaken \/ ~Exists(f)

\* Where the pass is, under which rule, and why it may do what it does next.
PassInv ==
  /\ pass \in [at : Places, rule : Nat, stack : Seq(Frame), node : Nodes \cup {"none"}]
  /\ pass.at \in Inside <=> pass.stack # <<>>
  /\ pass.at = "rule" => pass.rule > 0
  /\ pass.at \in Inside =>
       /\ pass.rule \in DOMAIN clean_up_definitions /\ Rule.days > 0
       /\ \A i \in DOMAIN pass.stack : FrameBelow(i)
  /\ pass.at \in {"date", "remove"} => pass.node \in Files
  /\ pass.at = "rmdir" => pass.node \in Dirs
  /\ pass.at \in {"date", "remove", "rmdir"} => Rule.path \in Above[pass.node]
  /\ pass.at = "remove" => MayBeRemoved(Rule.days, pass.node)

\* The same of a removal that was left behind.
LeftInv ==
  /\ left \subseteq [path : Dirs \cup Files, days : Nat \ {0}]
  /\ \A r \in left : r.path \in Files => MayBeRemoved(r.days, r.path)

TreeInv ==
  /\ age \in [Nodes -> Absent .. MaxAge]
  /\ overtaken \subseteq Files
  /\ cleanup_timed_out \in BOOLEAN

IInv == RulesInv /\ TreeInv /\ PassInv /\ LeftInv

--------------------------------------------------------------------------------
(* The rules. *)

LEMMA RulesInit == Init => RulesInv
BY DEF Init, RulesInv, LastRuleHolds, DaysFor, RulesFor

LEMMA RuleType ==
  ASSUME NEW D \in Seq(OpLogCleanUpDefinition), NEW i \in DOMAIN D
  PROVE  /\ D[i] = [path |-> D[i].path, days |-> D[i].days]
         /\ D[i].path \in RulePaths /\ D[i].days \in Nat
<1>1. i \in 1 .. Len(D)
  BY LenProperties
<1>2. D[i] \in OpLogCleanUpDefinition
  BY <1>1, ElementOfSeq
<1> QED
  BY <1>2 DEF OpLogCleanUpDefinition

LEMMA LeastOf ==
  ASSUME NEW S, S \subseteq Nat, S # {}
  PROVE  \E i \in S : \A j \in S : i <= j
<1>1. PICK i \in S : \A j \in S : ~(<<j, i>> \in OpToRel(<, Nat))
  BY NatLessThanWellFounded, WFMin
<1>2. \A j \in S : ~(j < i)
  BY <1>1 DEF OpToRel
<1> QED
  BY <1>2

LEMMA UpdatedKeeps ==
  ASSUME RulesInv, NEW p \in RulePaths, NEW d \in Nat,
         clean_up_definitions' = Updated(p, d), wanted' = [wanted EXCEPT ![p] = {d}],
         twice' = twice
  PROVE  RulesInv'
<1> DEFINE D == clean_up_definitions
           E == clean_up_definitions'
           new == [path |-> p, days |-> d]
           same == {i \in DOMAIN D : D[i].path = p}
<1>1. /\ D \in Seq(OpLogCleanUpDefinition) /\ new \in OpLogCleanUpDefinition
      /\ Len(D) \in Nat /\ DOMAIN D = 1 .. Len(D)
  BY LenProperties DEF RulesInv, OpLogCleanUpDefinition
<1>2. ASSUME NEW i \in DOMAIN D
      PROVE  /\ D[i] = [path |-> D[i].path, days |-> D[i].days]
             /\ D[i].path \in RulePaths
  BY <1>1, RuleType
<1>3. wanted' \in [RulePaths -> SUBSET Nat] /\ wanted'[p] = {d}
      /\ \A q \in RulePaths \ {p} : wanted'[q] = wanted[q]
  BY DEF RulesInv
<1>4. \A q \in RulePaths : /\ wanted[q] \subseteq DaysFor(q, D)
                           /\ DaysFor(q, D) \subseteq wanted[q] \/ q \in twice
  BY DEF RulesInv, LastRuleHolds
<1>5. SUFFICES
        /\ E \in Seq(OpLogCleanUpDefinition)
        /\ \A i, j \in DOMAIN E : E[i].path = E[j].path => i = j \/ E[i].path \in twice
        /\ \A q \in RulePaths : q # p => DaysFor(q, E) = DaysFor(q, D)
        /\ d \in DaysFor(p, E) /\ (DaysFor(p, E) \subseteq {d} \/ p \in twice)
  <2> HIDE DEF E
  <2>1. ASSUME NEW q \in RulePaths
        PROVE  /\ wanted'[q] \subseteq DaysFor(q, E)
               /\ DaysFor(q, E) \subseteq wanted'[q] \/ q \in twice
    BY <1>3, <1>4, <1>5
  <2> QED
    BY <1>3, <1>5, <2>1 DEF RulesInv, LastRuleHolds, E
<1>6. CASE same = {}
  <2>1. E = Append(D, new)
    BY <1>6 DEF Updated, RulesFor
  <2>2. /\ E \in Seq(OpLogCleanUpDefinition) /\ DOMAIN E = 1 .. Len(D) + 1
        /\ E[Len(D) + 1] = new
        /\ \A i \in DOMAIN D : i \in DOMAIN E /\ E[i] = D[i] /\ D[i].path # p
    BY <1>1, <1>6, <2>1, AppendProperties, LenProperties
  <2>3. \A i \in DOMAIN E : i \in DOMAIN D \/ i = Len(D) + 1
    BY <1>1, <2>2
  <2>4. \A i, j \in DOMAIN E : E[i].path = E[j].path => i = j \/ E[i].path \in twice
    BY <2>2, <2>3 DEF RulesInv
  <2>5. \A q \in RulePaths : q # p => RulesFor(q, E) = RulesFor(q, D)
    BY <2>2, <2>3 DEF RulesFor
  <2>6. RulesFor(p, E) = {Len(D) + 1}
    BY <1>1, <2>2, <2>3 DEF RulesFor
  <2>7. \A q \in RulePaths : q # p => DaysFor(q, E) = DaysFor(q, D)
    BY <2>2, <2>5 DEF DaysFor, RulesFor
  <2>8. DaysFor(p, E) = {d}
    BY <2>2, <2>6 DEF DaysFor
  <2> QED
    BY <2>2, <2>4, <2>7, <2>8
<1>7. CASE same # {}
  <2> DEFINE k == CHOOSE i \in same : \A j \in same : i <= j
  <2>1. k \in DOMAIN D /\ D[k].path = p
    <3>1. same \subseteq Nat /\ same # {}
      BY <1>1, <1>7
    <3>2. \E i \in same : \A j \in same : i <= j
      BY <3>1, LeastOf
    <3> QED
      BY <3>2
  <2>2. E = [D EXCEPT ![k].days = d]
    BY <1>7 DEF Updated, RulesFor
  <2> HIDE DEF k
  <2>3. E = [D EXCEPT ![k] = new]
    BY <1>2, <2>1, <2>2
  <2>4. E \in Seq(OpLogCleanUpDefinition) /\ DOMAIN E = DOMAIN D
    BY <1>1, <2>1, <2>3, ExceptSeq, LenProperties
  <2>5. E[k] = new /\ \A i \in DOMAIN D \ {k} : E[i] = D[i]
    BY <2>1, <2>3
  <2>6. \A i \in DOMAIN D : E[i].path = D[i].path
    BY <2>1, <2>5
  <2>7. \A i, j \in DOMAIN E : E[i].path = E[j].path => i = j \/ E[i].path \in twice
    BY <2>4, <2>6 DEF RulesInv
  <2>8. \A q \in RulePaths : RulesFor(q, E) = RulesFor(q, D)
    BY <2>4, <2>6 DEF RulesFor
  <2>9. \A q \in RulePaths : q # p => DaysFor(q, E) = DaysFor(q, D)
    BY <2>1, <2>5, <2>8 DEF DaysFor, RulesFor
  <2>10. k \in RulesFor(p, E)
    BY <2>1, <2>8 DEF RulesFor
  <2>11. d \in DaysFor(p, E)
    BY <2>5, <2>10 DEF DaysFor
  <2>12. ASSUME p \notin twice
         PROVE  DaysFor(p, E) \subseteq {d}
    <3>1. \A i \in RulesFor(p, E) : i = k
      BY <2>1, <2>8, <2>12 DEF RulesInv, RulesFor
    <3> QED
      BY <2>5, <3>1 DEF DaysFor
  <2> QED
    BY <2>4, <2>7, <2>9, <2>11, <2>12
<1> QED
  BY <1>6, <1>7

LEMMA RulesStep == RulesInv /\ [Next]_vars => RulesInv'
<1> SUFFICES ASSUME RulesInv, [Next]_vars
             PROVE  RulesInv'
  OBVIOUS
<1>1. CASE UNCHANGED rules
  BY <1>1 DEF RulesInv, LastRuleHolds, rules
<1>2. CASE RemoveAllDefinitions
  BY <1>2, EmptySeq DEF RulesInv, LastRuleHolds, DaysFor, RulesFor, RemoveAllDefinitions
<1>3. CASE CleanUpBundle
  <2>1. PICK b \in Bundles :
          /\ clean_up_definitions' = b
          /\ wanted' = [p \in RulePaths |-> DaysFor(p, b)]
          /\ twice' = {p \in RulePaths : \E i, j \in RulesFor(p, b) : i # j}
    BY <1>3 DEF CleanUpBundle
  <2>2. b \in Seq(OpLogCleanUpDefinition)
    BY CleanupAssumption
  <2>3. \A i \in DOMAIN b : b[i].path \in RulePaths /\ b[i].days \in Nat
    BY <2>2, RuleType
  <2>4. wanted' \in [RulePaths -> SUBSET Nat]
    BY <2>1, <2>3 DEF DaysFor, RulesFor
  <2>5. \A i, j \in DOMAIN b : b[i].path = b[j].path => i = j \/ b[i].path \in twice'
    BY <2>1, <2>3 DEF RulesFor
  <2>6. \A p \in RulePaths : wanted'[p] = DaysFor(p, b)
    BY <2>1
  <2> QED
    BY <2>1, <2>2, <2>4, <2>5, <2>6 DEF RulesInv, LastRuleHolds
<1>4. CASE CleanUpDefinition
  BY <1>4, UpdatedKeeps, CleanupAssumption DEF CleanUpDefinition
<1>5. QED
  BY <1>1, <1>2, <1>3, <1>4
  DEF Next, vars, rules, Receive, PassStep, StartPass, OpenRule, NextEntry, LeaveDirectory,
      DateFile, RemoveNode, EndPass, CutOff, LateRemoval, Write, Tick, Step, Goto

--------------------------------------------------------------------------------
(* Whichever of clean_up_definition, clean_up_bundle and                   *)
(* clean_up_remove_all_definitions are called, in any order and with any    *)
(* bundles: for every path the rules in force say what the last call said,  *)
(* and a path has another rule besides only if the bundle in force named it *)
(* more than once.                                                          *)
THEOREM LastRuleAlwaysHolds == Spec => []LastRuleHolds
<1>1. Spec => []RulesInv
  BY RulesInit, RulesStep, PTL DEF Spec
<1>2. RulesInv => LastRuleHolds
  BY DEF RulesInv
<1> QED
  BY <1>1, <1>2, PTL

--------------------------------------------------------------------------------
(* The pass. *)

\* Whole days come from as many ticks.
LEMMA DaysPassed ==
  ASSUME NEW elapsed \in Nat, NEW len \in Nat \ {0}, NEW days \in Nat \ {0},
         elapsed \div len >= days
  PROVE  elapsed >= days * len /\ elapsed > 0
OBVIOUS

LEMMA DatedOld ==
  ASSUME TreeInv, NEW f \in Files, Exists(f), NEW days \in Nat \ {0},
         is_older_than(f, days)
  PROVE  Aged(days, f)
<1> DEFINE elapsed == IF Dating[f] = "none" \/ age[f] = Future THEN 0 ELSE age[f]
<1>1. age[f] \in Absent .. MaxAge /\ age[f] # Absent /\ DayLen \in Nat \ {0} /\ MaxAge \in Nat
  BY CleanupAssumption DEF TreeInv, Exists, Nodes
<1>2. elapsed \in Nat
  BY <1>1 DEF Future, Absent
<1>3. elapsed \div DayLen >= days
  BY DEF is_older_than
<1>4. elapsed >= days * DayLen /\ elapsed > 0
  BY <1>1, <1>2, <1>3, DaysPassed
<1> QED
  BY <1>4 DEF Aged

\* A name in a directory at or below another lies below that other.
LEMMA ChildBelow ==
  ASSUME NEW n \in Nodes, NEW d \in Dirs, Parent[n] = d,
         NEW r \in Dirs, r = d \/ r \in Above[d]
  PROVE  r \in Above[n]
<1>1. Parent[n] # "top"
  BY CleanupAssumption
<1>2. Above[n] = {d} \cup Above[d]
  BY <1>1, CleanupAssumption
<1> QED
  BY <1>2

LEMMA RemovalEffect ==
  ASSUME TreeInv, NEW n \in Nodes, Removal(n)
  PROVE  /\ age' \in [Nodes -> Absent .. MaxAge]
         /\ \A m \in Nodes : age'[m] = age[m] \/ (m = n /\ age'[m] = Absent)
BY CleanupAssumption DEF TreeInv, Removal, Absent

\* What a step with no effect on f's age but its removal keeps.
LEMMA MayBeRemovedKept ==
  ASSUME NEW f \in Files, NEW days, MayBeRemoved(days, f),
         age'[f] = age[f] \/ age'[f] = Absent,
         f \in overtaken => f \in overtaken'
  PROVE  MayBeRemoved(days, f)'
BY DEF MayBeRemoved, Aged, Exists

LEMMA TopShrinks ==
  ASSUME NEW s \in Seq(Frame), s # <<>>, NEW n
  PROVE  LET t == [s EXCEPT ![Len(s)].todo = @ \ {n}]
         IN  /\ t \in Seq(Frame) /\ t # <<>> /\ DOMAIN t = DOMAIN s
             /\ \A i \in DOMAIN s : t[i].dir = s[i].dir /\ t[i].todo \subseteq s[i].todo
<1> DEFINE t == [s EXCEPT ![Len(s)].todo = @ \ {n}]
<1>1. Len(s) \in Nat /\ Len(s) > 0 /\ DOMAIN s = 1 .. Len(s)
  BY LenProperties, EmptySeq
<1>2. ASSUME NEW i \in DOMAIN s
      PROVE  s[i] \in Frame
  BY <1>1, ElementOfSeq
<1> DEFINE top == [s[Len(s)] EXCEPT !.todo = @ \ {n}]
<1>3. top \in Frame /\ top.dir = s[Len(s)].dir /\ top.todo \subseteq s[Len(s)].todo
  BY <1>1, <1>2 DEF Frame
<1>4. t = [s EXCEPT ![Len(s)] = top]
  OBVIOUS
<1>5. t \in Seq(Frame) /\ Len(t) = Len(s)
  BY <1>1, <1>3, <1>4, ExceptSeq
<1> QED
  BY <1>1, <1>3, <1>4, <1>5, LenProperties

LEMMA PassInit == Init => TreeInv /\ PassInv /\ LeftInv
<1> SUFFICES ASSUME Init PROVE TreeInv /\ PassInv /\ LeftInv
  OBVIOUS
<1>1. TreeInv
  <2>1. {0, Future, Absent} \subseteq Absent .. MaxAge
    BY CleanupAssumption DEF Absent, Future
  <2> QED
    BY <2>1 DEF Init, TreeInv
<1>2. PassInv
  BY EmptySeq DEF Init, PassInv, NoPass, Places, Inside
<1>3. LeftInv
  BY DEF Init, LeftInv
<1> QED
  BY <1>1, <1>2, <1>3

\* A step of the pass that only looks changes nothing a removal rests on.
LEMMA LookingKeeps ==
  ASSUME TreeInv, LeftInv, Looks, UNCHANGED left, cleanup_timed_out' \in BOOLEAN
  PROVE  TreeInv' /\ LeftInv'
BY DEF TreeInv, LeftInv, Looks, MayBeRemoved, Aged, Exists

\* While a pass is under way its rule is one of the list.
LEMMA RuleInForce ==
  ASSUME RulesInv, PassInv, pass.at \in Inside
  PROVE  /\ Rule \in Range(clean_up_definitions)
         /\ Rule.path \in RulePaths /\ Rule.path \in Dirs /\ Rule.days \in Nat \ {0}
<1>1. pass.rule \in DOMAIN clean_up_definitions /\ Rule.days > 0
  BY DEF PassInv
<1>2. Rule.path \in RulePaths /\ Rule.days \in Nat
  BY <1>1, RuleType DEF RulesInv, Rule
<1> QED
  BY <1>1, <1>2, CleanupAssumption DEF Range, Rule

\* The directory on top of the stack, and what is left to look at in it.
LEMMA TopBelow ==
  ASSUME RulesInv, PassInv, pass.at \in Inside
  PROVE  /\ Len(pass.stack) \in Nat \ {0} /\ DOMAIN pass.stack = 1 .. Len(pass.stack)
         /\ Top \in Frame
         /\ IF Len(pass.stack) = 1 THEN Top.dir = Rule.path ELSE Rule.path \in Above[Top.dir]
         /\ \A n \in Top.todo : n \in Nodes /\ Rule.path \in Above[n]
<1>1. pass.stack \in Seq(Frame) /\ pass.stack # <<>>
  BY DEF PassInv
<1>2. Len(pass.stack) \in Nat \ {0} /\ DOMAIN pass.stack = 1 .. Len(pass.stack)
  BY <1>1, LenProperties, EmptySeq
<1>3. Top \in Frame
  BY <1>1, <1>2, ElementOfSeq DEF Top, Last
<1>4. FrameBelow(Len(pass.stack))
  BY <1>2 DEF PassInv
<1>5. /\ IF Len(pass.stack) = 1 THEN Top.dir = Rule.path ELSE Rule.path \in Above[Top.dir]
      /\ \A n \in Top.todo : Parent[n] = Top.dir
  BY <1>4 DEF FrameBelow, Top, Last
<1>6. ASSUME NEW n \in Top.todo
      PROVE  n \in Nodes /\ Rule.path \in Above[n]
  <2>1. n \in Nodes /\ Top.dir \in Dirs /\ Parent[n] = Top.dir
    BY <1>3, <1>5 DEF Frame
  <2> QED
    BY <2>1, <1>5, RuleInForce, ChildBelow
<1> QED
  BY <1>2, <1>3, <1>5, <1>6

--------------------------------------------------------------------------------
(* Each step of the pass. *)

LEMMA OpenRuleKeeps == RulesInv /\ PassInv /\ OpenRule => PassInv'
<1> SUFFICES ASSUME RulesInv, PassInv, OpenRule PROVE PassInv'
  OBVIOUS
<1>1. /\ pass.at = "rule" /\ pass.stack = <<>> /\ pass.rule \in Nat \ {0}
      /\ pass.rule \in DOMAIN clean_up_definitions
  BY LenProperties DEF OpenRule, PassInv, RulesInv, Inside
<1>2. UNCHANGED clean_up_definitions
  BY DEF OpenRule, Step, Goto, rules
<1>3. CASE /\ Rule.days > 0 /\ Exists(Rule.path)
           /\ Step([pass EXCEPT !.at = "entry", !.stack = Opened(Rule.path)])
  <2> DEFINE f == [dir |-> Rule.path, todo |-> Children(Rule.path)]
  <2>1. Rule.path \in Dirs
    BY <1>1, RuleType, CleanupAssumption DEF RulesInv, Rule
  <2>2. f \in Frame /\ \A n \in f.todo : Parent[n] = f.dir
    BY <2>1 DEF Frame, Children
  <2>3. pass'.stack = <<f>>
    BY <1>1, <1>3 DEF Step, Goto, Opened, PassInv
  <2>4. /\ pass'.stack \in Seq(Frame) /\ pass'.stack # <<>>
        /\ DOMAIN pass'.stack = {1} /\ pass'.stack[1] = f
    BY <2>2, <2>3
  <2>5. pass' = [pass EXCEPT !.at = "entry", !.stack = pass'.stack]
    BY <1>3, <2>3 DEF Step, Goto, PassInv
  <2>6. Rule' = Rule
    BY <1>2, <2>5 DEF Rule, PassInv
  <2>7. FrameBelow(1)'
    BY <2>2, <2>4, <2>6 DEF FrameBelow
  <2> QED
    BY <1>1, <1>2, <1>3, <2>4, <2>5, <2>6, <2>7 DEF PassInv, Places, Inside
<1>4. CASE Step([pass EXCEPT !.rule = @ + 1])
  BY <1>1, <1>4 DEF Step, Goto, PassInv, Places, Inside
<1> QED
  BY <1>3, <1>4 DEF OpenRule

LEMMA NextEntryKeeps == RulesInv /\ PassInv /\ NextEntry => PassInv'
<1> SUFFICES ASSUME RulesInv, PassInv, NextEntry PROVE PassInv'
  OBVIOUS
<1> DEFINE s == pass.stack
<1>1. PICK n \in Top.todo :
        LET rest == [pass EXCEPT !.stack[Len(pass.stack)].todo = @ \ {n}]
        IN  \/ /\ n \in Links \/ n \in broken
               /\ Step(rest)
            \/ /\ n \in Files
               /\ Step([rest EXCEPT !.at = "date", !.node = n])
            \/ /\ n \in Dirs /\ Exists(n)
               /\ Step([rest EXCEPT !.stack = Append(@, [dir |-> n, todo |-> Children(n)])])
            \/ /\ n \in Dirs /\ MayFail(n)
               /\ Step([rest EXCEPT !.at = "rmdir", !.node = n])
  BY DEF NextEntry
<1>2. pass.at = "entry" /\ s \in Seq(Frame) /\ s # <<>>
  BY DEF NextEntry, PassInv, Inside
<1>3. n \in Nodes /\ Rule.path \in Above[n]
  BY <1>2, TopBelow DEF Inside
<1> DEFINE t == [s EXCEPT ![Len(s)].todo = @ \ {n}]
<1>4. /\ t \in Seq(Frame) /\ t # <<>> /\ DOMAIN t = DOMAIN s
      /\ \A i \in DOMAIN s : t[i].dir = s[i].dir /\ t[i].todo \subseteq s[i].todo
  BY <1>2, TopShrinks
<1>5. [pass EXCEPT !.stack[Len(pass.stack)].todo = @ \ {n}] = [pass EXCEPT !.stack = t]
  BY DEF PassInv
<1>6. /\ UNCHANGED clean_up_definitions /\ pass'.rule = pass.rule /\ Rule' = Rule
      /\ pass.rule \in DOMAIN clean_up_definitions /\ Rule.days > 0
      /\ \A i \in DOMAIN s : FrameBelow(i)
  BY <1>1, <1>2, <1>5 DEF Step, Goto, rules, PassInv, Rule, Inside
<1>7. ASSUME pass'.stack = t
      PROVE  \A i \in DOMAIN pass'.stack : FrameBelow(i)'
  BY <1>4, <1>6, <1>7 DEF FrameBelow
<1>8. CASE pass' = [pass EXCEPT !.stack = t]
  BY <1>2, <1>4, <1>6, <1>7, <1>8 DEF PassInv, Places, Inside
<1>9. CASE n \in Files /\ pass' = [pass EXCEPT !.stack = t, !.at = "date", !.node = n]
  BY <1>2, <1>3, <1>4, <1>6, <1>7, <1>9 DEF PassInv, Places, Inside
<1>10. CASE n \in Dirs /\ pass' = [pass EXCEPT !.stack = t, !.at = "rmdir", !.node = n]
  BY <1>2, <1>3, <1>4, <1>6, <1>7, <1>10 DEF PassInv, Places, Inside
<1>11. CASE n \in Dirs /\ pass' = [pass EXCEPT !.stack = Append(t, [dir |-> n, todo |-> Children(n)])]
  <2> DEFINE f == [dir |-> n, todo |-> Children(n)]
             u == Append(t, f)
  <2>1. f \in Frame /\ \A m \in f.todo : Parent[m] = n
    BY <1>11 DEF Frame, Children
  <2>2. Len(t) \in Nat \ {0} /\ DOMAIN t = 1 .. Len(t)
    BY <1>4, LenProperties, EmptySeq
  <2>3. /\ u \in Seq(Frame) /\ u # <<>> /\ DOMAIN u = 1 .. Len(t) + 1
        /\ u[Len(t) + 1] = f /\ \A i \in 1 .. Len(t) : u[i] = t[i]
    BY <1>4, <2>1, <2>2, AppendProperties, LenProperties
  <2>4. pass'.stack = u
    BY <1>11 DEF PassInv
  <2>5. ASSUME NEW i \in DOMAIN u
        PROVE  FrameBelow(i)'
    <3>1. CASE i \in 1 .. Len(t)
      BY <3>1, <1>4, <1>6, <2>2, <2>3, <2>4 DEF FrameBelow
    <3>2. CASE i = Len(t) + 1
      BY <3>2, <1>3, <1>6, <2>1, <2>2, <2>3, <2>4 DEF FrameBelow
    <3> QED
      BY <2>2, <2>3, <3>1, <3>2
  <2> QED
    BY <1>2, <1>6, <1>11, <2>3, <2>4, <2>5 DEF PassInv, Places, Inside
<1> QED
  BY <1>1, <1>5, <1>8, <1>9, <1>10, <1>11 DEF Step, Goto, PassInv

LEMMA LeaveDirectoryKeeps == RulesInv /\ PassInv /\ LeaveDirectory => PassInv'
<1> SUFFICES ASSUME RulesInv, PassInv, LeaveDirectory PROVE PassInv'
  OBVIOUS
<1> DEFINE s == pass.stack
           t == Front(s)
<1>1. pass.at = "entry" /\ s \in Seq(Frame)
  BY DEF LeaveDirectory, PassInv
<1>2. /\ Len(s) \in Nat \ {0} /\ DOMAIN s = 1 .. Len(s) /\ Top \in Frame
      /\ IF Len(s) = 1 THEN Top.dir = Rule.path ELSE Rule.path \in Above[Top.dir]
  BY <1>1, TopBelow DEF Inside
<1>3. CASE Len(s) = 1 /\ pass' = [pass EXCEPT !.at = "rule", !.stack = <<>>, !.rule = @ + 1]
  <2>1. <<>> \in Seq(Frame)
    BY EmptySeq
  <2>2. pass' \in [at : Places, rule : Nat, stack : Seq(Frame), node : Nodes \cup {"none"}]
    <3>1. pass' = [at |-> "rule", rule |-> pass.rule + 1, stack |-> <<>>, node |-> pass.node]
      BY <1>3 DEF PassInv
    <3>2. pass.rule + 1 \in Nat /\ pass.node \in Nodes \cup {"none"}
      BY DEF PassInv
    <3> QED
      BY <2>1, <3>1, <3>2 DEF Places
  <2>3. pass'.at = "rule" /\ pass'.stack = <<>> /\ pass'.rule > 0
    BY <1>3 DEF PassInv
  <2> QED
    BY <2>2, <2>3 DEF PassInv, Inside
<1>4. CASE Len(s) # 1 /\ pass' = [pass EXCEPT !.at = "rmdir", !.stack = t, !.node = Top.dir]
  <2>1. \A i \in 1 .. Len(s) - 1 : s[i] \in Frame
    BY <1>1, <1>2, ElementOfSeq
  <2>2. /\ t \in Seq(Frame) /\ Len(t) = Len(s) - 1
        /\ \A i \in 1 .. Len(s) - 1 : t[i] = s[i]
    BY <1>2, <1>4, <2>1, SubSeqProperties DEF Front
  <2>3. DOMAIN t = 1 .. Len(s) - 1 /\ t # <<>>
    <3> HIDE DEF t
    <3>1. DOMAIN t = 1 .. Len(s) - 1
      BY <2>2, LenProperties
    <3>2. Len(t) # 0
      BY <1>2, <1>4, <2>2
    <3> QED
      BY <3>1, <3>2
  <2>4. /\ UNCHANGED clean_up_definitions /\ pass'.rule = pass.rule /\ Rule' = Rule
        /\ pass'.stack = t
        /\ pass.rule \in DOMAIN clean_up_definitions /\ Rule.days > 0
        /\ \A i \in DOMAIN s : FrameBelow(i)
    BY <1>1, <1>4 DEF LeaveDirectory, Step, Goto, rules, PassInv, Rule, Inside
  <2>5. \A i \in DOMAIN t : FrameBelow(i)'
    BY <1>2, <2>2, <2>3, <2>4 DEF FrameBelow
  <2>6. Top.dir \in Dirs /\ Top.dir \in Nodes /\ Rule.path \in Above[Top.dir]
    BY <1>2, <1>4 DEF Frame, Nodes
  <2> QED
    BY <1>1, <1>4, <2>2, <2>3, <2>4, <2>5, <2>6 DEF PassInv, Places, Inside
<1> QED
  BY <1>3, <1>4 DEF LeaveDirectory, Step, Goto

LEMMA DateFileKeeps == RulesInv /\ TreeInv /\ PassInv /\ DateFile => PassInv'
<1> SUFFICES ASSUME RulesInv, TreeInv, PassInv, DateFile PROVE PassInv'
  OBVIOUS
<1>1. pass.at = "date" /\ pass.node \in Files
  BY DEF DateFile, PassInv
<1>2. UNCHANGED <<clean_up_definitions, age, overtaken>>
  BY DEF DateFile, Step, Goto, rules, Looks
<1>3. CASE /\ Exists(pass.node) /\ is_older_than(pass.node, Rule.days)
           /\ Step([pass EXCEPT !.at = "remove"])
  <2>1. Aged(Rule.days, pass.node)
    BY <1>1, <1>3, DatedOld, RuleInForce DEF Inside
  <2>2. pass' = [pass EXCEPT !.at = "remove"]
    BY <1>3 DEF Step, Goto
  <2>3. /\ pass'.rule = pass.rule /\ pass'.stack = pass.stack /\ pass'.node = pass.node
        /\ pass'.at = "remove" /\ Rule' = Rule
    BY <1>2, <2>2 DEF PassInv, Rule
  <2>4. MayBeRemoved(Rule.days, pass.node)'
    BY <1>2, <2>1, <2>3 DEF MayBeRemoved, Aged
  <2>5. \A i \in DOMAIN pass'.stack : FrameBelow(i)'
    BY <1>1, <2>3 DEF PassInv, FrameBelow, Inside
  <2> QED
    BY <1>1, <1>2, <2>2, <2>3, <2>4, <2>5 DEF PassInv, Places, Inside
<1>4. CASE Step([pass EXCEPT !.at = "entry", !.node = "none"])
  <2>1. pass' = [pass EXCEPT !.at = "entry", !.node = "none"]
    BY <1>4 DEF Step, Goto
  <2>2. pass'.rule = pass.rule /\ pass'.stack = pass.stack /\ pass'.at = "entry" /\ Rule' = Rule
    BY <1>2, <2>1 DEF PassInv, Rule
  <2>3. \A i \in DOMAIN pass'.stack : FrameBelow(i)'
    BY <1>1, <2>2 DEF PassInv, FrameBelow, Inside
  <2> QED
    BY <1>1, <1>2, <2>1, <2>2, <2>3 DEF PassInv, Places, Inside
<1> QED
  BY <1>3, <1>4 DEF DateFile

LEMMA RemoveNodeKeeps ==
  RulesInv /\ TreeInv /\ PassInv /\ LeftInv /\ RemoveNode => TreeInv' /\ PassInv' /\ LeftInv'
<1> SUFFICES ASSUME RulesInv, TreeInv, PassInv, LeftInv, RemoveNode
             PROVE  TreeInv' /\ PassInv' /\ LeftInv'
  OBVIOUS
<1>1. /\ pass.at \in {"remove", "rmdir"} /\ pass.node \in Nodes
      /\ pass' = [pass EXCEPT !.at = "entry", !.node = "none"]
      /\ UNCHANGED <<clean_up_definitions, left, cleanup_timed_out>>
      /\ overtaken' = {f \in overtaken : \E r \in left : r.path = f}
  BY DEF RemoveNode, Step, Goto, rules, PassInv, Nodes
<1>2. /\ age' \in [Nodes -> Absent .. MaxAge]
      /\ \A m \in Nodes : age'[m] = age[m] \/ age'[m] = Absent
  BY <1>1, RemovalEffect DEF RemoveNode
<1>3. TreeInv'
  BY <1>1, <1>2 DEF TreeInv
<1>4. LeftInv'
  <2> SUFFICES ASSUME NEW r \in left, r.path \in Files
               PROVE  MayBeRemoved(r.days, r.path)'
    BY <1>1 DEF LeftInv
  <2> QED
    BY <1>1, <1>2, MayBeRemovedKept DEF LeftInv, Nodes
<1>5. PassInv'
  <2>1. pass'.rule = pass.rule /\ pass'.stack = pass.stack /\ pass'.at = "entry" /\ Rule' = Rule
    BY <1>1 DEF PassInv, Rule
  <2>2. \A i \in DOMAIN pass'.stack : FrameBelow(i)'
    BY <1>1, <2>1 DEF PassInv, FrameBelow, Inside
  <2> QED
    BY <1>1, <2>1, <2>2 DEF PassInv, Places, Inside
<1> QED
  BY <1>3, <1>4, <1>5

--------------------------------------------------------------------------------
(* The steps between passes, and everybody else's. *)

LEMMA BetweenPassesKeeps ==
  RulesInv /\ PassInv /\ (StartPass \/ EndPass \/ CutOff \/ Receive) => PassInv'
<1> SUFFICES ASSUME RulesInv, PassInv, StartPass \/ EndPass \/ CutOff \/ Receive
             PROVE  PassInv'
  OBVIOUS
<1>1. CASE pass' = [at |-> "rule", rule |-> 1, stack |-> <<>>, node |-> "none"]
  BY <1>1, EmptySeq DEF PassInv, Places, Inside
<1>2. CASE pass' = NoPass
  BY <1>2, EmptySeq DEF PassInv, NoPass, Places, Inside
<1>3. CASE Receive
  <2>1. pass' = pass /\ pass.at = "idle"
    BY <1>3 DEF Receive
  <2> QED
    BY <2>1 DEF PassInv, Inside
<1> QED
  BY <1>1, <1>2, <1>3 DEF StartPass, EndPass, CutOff, Step, Goto, NoPass

\* The pass stays where it is while others change the tree.
LEMMA PassStays ==
  ASSUME PassInv, UNCHANGED <<pass, clean_up_definitions>>,
         pass.at = "remove" => MayBeRemoved(Rule.days, pass.node)'
  PROVE  PassInv'
<1>1. Rule' = Rule
  BY DEF Rule
<1>2. \A i : FrameBelow(i) => FrameBelow(i)'
  BY <1>1 DEF FrameBelow
<1> QED
  BY <1>1, <1>2 DEF PassInv

LEMMA CutOffKeeps ==
  RulesInv /\ TreeInv /\ PassInv /\ LeftInv /\ CutOff => TreeInv' /\ LeftInv'
<1> SUFFICES ASSUME RulesInv, TreeInv, PassInv, LeftInv, CutOff PROVE TreeInv' /\ LeftInv'
  OBVIOUS
<1>1. UNCHANGED age /\ cleanup_timed_out' = TRUE
  BY DEF CutOff
<1>2. CASE /\ pass.at \in {"remove", "rmdir"}
           /\ left' = left \cup {[path |-> pass.node, days |-> Rule.days]}
           /\ UNCHANGED overtaken
  <2> DEFINE r == [path |-> pass.node, days |-> Rule.days]
  <2>1. /\ r \in [path : Dirs \cup Files, days : Nat \ {0}]
        /\ r.path \in Files => MayBeRemoved(r.days, r.path)
    <3>1. Rule.days \in Nat \ {0}
      BY <1>2, RuleInForce DEF Inside
    <3>2. CASE pass.at = "remove"
      BY <3>1, <3>2 DEF PassInv
    <3>3. CASE pass.at = "rmdir"
      BY <3>1, <3>3, CleanupAssumption DEF PassInv
    <3> QED
      BY <1>2, <3>2, <3>3
  <2>2. \A q \in left' : q \in left \/ q = r
    BY <1>2
  <2>3. ASSUME NEW q \in left', q.path \in Files
        PROVE  MayBeRemoved(q.days, q.path)'
    BY <1>1, <1>2, <2>1, <2>2, <2>3 DEF LeftInv, MayBeRemoved, Aged, Exists
  <2> QED
    BY <1>1, <1>2, <2>1, <2>3 DEF TreeInv, LeftInv
<1>3. CASE /\ overtaken' = {f \in overtaken : \E r \in left : r.path = f}
           /\ UNCHANGED left
  BY <1>1, <1>3 DEF TreeInv, LeftInv, MayBeRemoved, Aged, Exists
<1> QED
  BY <1>2, <1>3 DEF CutOff

LEMMA LateRemovalKeeps ==
  TreeInv /\ PassInv /\ LeftInv /\ LateRemoval => TreeInv' /\ PassInv' /\ LeftInv'
<1> SUFFICES ASSUME TreeInv, PassInv, LeftInv, LateRemoval
             PROVE  TreeInv' /\ PassInv' /\ LeftInv'
  OBVIOUS
<1>1. PICK r \in left :
        /\ Removal(r.path)
        /\ left' = left \ {r}
        /\ overtaken' = {f \in overtaken : \/ pass.at = "remove" /\ pass.node = f
                                          \/ \E q \in left' : q.path = f}
        /\ UNCHANGED <<clean_up_definitions, pass, cleanup_timed_out>>
  BY DEF LateRemoval, rules
<1>2. /\ age' \in [Nodes -> Absent .. MaxAge]
      /\ \A m \in Nodes : age'[m] = age[m] \/ age'[m] = Absent
  <2>1. r.path \in Nodes
    BY <1>1 DEF LeftInv, Nodes
  <2> QED
    BY <1>1, <2>1, RemovalEffect
<1>3. TreeInv'
  BY <1>1, <1>2 DEF TreeInv
<1>4. LeftInv'
  <2> SUFFICES ASSUME NEW q \in left', q.path \in Files
               PROVE  MayBeRemoved(q.days, q.path)'
    BY <1>1 DEF LeftInv
  <2> QED
    BY <1>1, <1>2, MayBeRemovedKept DEF LeftInv, Nodes
<1>5. PassInv'
  <2>1. CASE pass.at = "remove"
    <3>1. pass.node \in Files /\ MayBeRemoved(Rule.days, pass.node)
      BY <2>1 DEF PassInv
    <3>2. MayBeRemoved(Rule.days, pass.node)'
      <4>1. pass.node \in overtaken => pass.node \in overtaken'
        BY <1>1, <2>1
      <4>2. age'[pass.node] = age[pass.node] \/ age'[pass.node] = Absent
        BY <1>2, <3>1 DEF Nodes
      <4>3. Rule' = Rule /\ pass' = pass
        BY <1>1 DEF Rule
      <4> QED
        BY <3>1, <4>1, <4>2, <4>3 DEF MayBeRemoved, Aged, Exists
    <3> QED
      BY <1>1, <3>2, PassStays
  <2>2. CASE pass.at # "remove"
    BY <1>1, <2>2, PassStays
  <2> QED
    BY <2>1, <2>2
<1> QED
  BY <1>3, <1>4, <1>5

LEMMA WriteKeeps ==
  TreeInv /\ PassInv /\ LeftInv /\ Write => TreeInv' /\ PassInv' /\ LeftInv'
<1> SUFFICES ASSUME TreeInv, PassInv, LeftInv, Write PROVE TreeInv' /\ PassInv' /\ LeftInv'
  OBVIOUS
<1>1. PICK f \in Files :
        /\ age' = [n \in Nodes |->
             IF n = f THEN (IF Dating[f] = "created" /\ Exists(f) THEN age[f] ELSE 0)
             ELSE IF n \in Above[f] /\ ~Exists(n) THEN 0 ELSE age[n]]
        /\ overtaken' = IF \/ pass.at = "remove" /\ pass.node = f
                           \/ \E r \in left : r.path = f
                        THEN overtaken \cup {f} ELSE overtaken
        /\ UNCHANGED <<clean_up_definitions, pass, cleanup_timed_out, left>>
  BY DEF Write, rules
<1>2. TreeInv'
  <2>1. 0 \in Absent .. MaxAge
    BY CleanupAssumption DEF Absent
  <2>2. age' \in [Nodes -> Absent .. MaxAge]
    BY <1>1, <2>1 DEF TreeInv, Nodes
  <2> QED
    BY <1>1, <2>2 DEF TreeInv
<1>3. ASSUME NEW g \in Files, NEW days, MayBeRemoved(days, g),
             \/ pass.at = "remove" /\ pass.node = g
             \/ \E r \in left : r.path = g
      PROVE  MayBeRemoved(days, g)'
  <2>1. CASE g = f
    BY <1>1, <1>3, <2>1 DEF MayBeRemoved
  <2>2. CASE g # f
    <3>1. g \in Nodes /\ g \notin Above[f]
      BY CleanupAssumption DEF Nodes
    <3>2. age'[g] = age[g] /\ (g \in overtaken => g \in overtaken')
      BY <1>1, <2>2, <3>1
    <3> QED
      BY <1>3, <3>2, MayBeRemovedKept
  <2> QED
    BY <2>1, <2>2
<1>4. LeftInv'
  BY <1>1, <1>3 DEF LeftInv
<1>5. PassInv'
  <2>1. Rule' = Rule
    BY <1>1 DEF Rule
  <2>2. ASSUME pass.at = "remove" PROVE MayBeRemoved(Rule.days, pass.node)'
    BY <1>1, <1>3, <2>1, <2>2 DEF PassInv
  <2> QED
    BY <1>1, <2>2, PassStays
<1> QED
  BY <1>2, <1>4, <1>5

LEMMA TickKeeps ==
  RulesInv /\ TreeInv /\ PassInv /\ LeftInv /\ Tick => TreeInv' /\ PassInv' /\ LeftInv'
<1> SUFFICES ASSUME RulesInv, TreeInv, PassInv, LeftInv, Tick PROVE TreeInv' /\ PassInv' /\ LeftInv'
  OBVIOUS
<1>1. /\ age' = [n \in Nodes |->
           IF n \in Files /\ Exists(n) /\ Dating[n] # "none" /\ age[n] < MaxAge
           THEN age[n] + 1 ELSE age[n]]
      /\ UNCHANGED <<clean_up_definitions, pass, cleanup_timed_out, left, overtaken>>
  BY DEF Tick, rules
<1>2. \A n \in Nodes : age[n] \in Absent .. MaxAge
  BY DEF TreeInv
<1>3. \A n \in Nodes : age'[n] \in Absent .. MaxAge
  BY <1>1, <1>2, CleanupAssumption DEF Absent
<1>4. TreeInv'
  BY <1>1, <1>3 DEF TreeInv
<1>5. ASSUME NEW g \in Files, NEW days \in Nat, MayBeRemoved(days, g)
      PROVE  MayBeRemoved(days, g)'
  <2>1. g \in Nodes /\ (age'[g] = age[g] \/ (age[g] # Absent /\ age'[g] = age[g] + 1))
    BY <1>1 DEF Nodes, Exists
  <2>2. CASE age'[g] = age[g]
    BY <1>1, <1>5, <2>2, MayBeRemovedKept
  <2>3. CASE age[g] # Absent /\ age'[g] = age[g] + 1
    <3>1. days * DayLen \in Nat /\ age[g] \in Int
      BY <1>2, <2>1, CleanupAssumption DEF Absent
    <3>2. age[g] >= days * DayLen => age'[g] >= days * DayLen
      BY <2>3, <3>1
    <3> QED
      BY <1>1, <1>5, <2>3, <3>2 DEF MayBeRemoved, Aged, Exists
  <2> QED
    BY <2>1, <2>2, <2>3
<1>6. LeftInv'
  BY <1>1, <1>5 DEF LeftInv
<1>7. PassInv'
  <2>1. Rule' = Rule
    BY <1>1 DEF Rule
  <2>2. ASSUME pass.at = "remove" PROVE MayBeRemoved(Rule.days, pass.node)'
    <3>1. Rule.days \in Nat
      BY <2>2, RuleInForce DEF Inside
    <3> QED
      BY <1>1, <1>5, <2>1, <2>2, <3>1 DEF PassInv
  <2> QED
    BY <1>1, <2>2, PassStays
<1> QED
  BY <1>4, <1>6, <1>7

--------------------------------------------------------------------------------
LEMMA Inductive == IInv /\ [Next]_vars => IInv'
<1> SUFFICES ASSUME IInv, [Next]_vars PROVE IInv'
  OBVIOUS
<1>1. RulesInv'
  BY RulesStep DEF IInv
<1>2. CASE OpenRule \/ NextEntry \/ LeaveDirectory \/ DateFile \/ StartPass \/ EndPass
  <2>1. Looks /\ UNCHANGED left /\ cleanup_timed_out' \in BOOLEAN
    BY <1>2 DEF OpenRule, NextEntry, LeaveDirectory, DateFile, StartPass, EndPass, Step, Goto,
                IInv, TreeInv
  <2> QED
    BY <1>1, <1>2, <2>1, LookingKeeps, OpenRuleKeeps, NextEntryKeeps, LeaveDirectoryKeeps,
       DateFileKeeps, BetweenPassesKeeps DEF IInv
<1>3. CASE RemoveNode
  BY <1>1, <1>3, RemoveNodeKeeps DEF IInv
<1>4. CASE CutOff
  BY <1>1, <1>4, CutOffKeeps, BetweenPassesKeeps DEF IInv
<1>5. CASE Receive
  <2>1. UNCHANGED <<age, cleanup_timed_out, left, overtaken>>
    BY <1>5 DEF Receive
  <2>2. TreeInv' /\ LeftInv'
    BY <2>1 DEF IInv, TreeInv, LeftInv, MayBeRemoved, Aged, Exists
  <2> QED
    BY <1>1, <1>5, <2>2, BetweenPassesKeeps DEF IInv
<1>6. CASE LateRemoval
  BY <1>1, <1>6, LateRemovalKeeps DEF IInv
<1>7. CASE Write
  BY <1>1, <1>7, WriteKeeps DEF IInv
<1>8. CASE Tick
  BY <1>1, <1>8, TickKeeps DEF IInv
<1>9. CASE UNCHANGED vars
  <2>1. UNCHANGED <<clean_up_definitions, age, pass, cleanup_timed_out, left, overtaken>>
    BY <1>9 DEF vars
  <2>2. TreeInv' /\ LeftInv'
    BY <2>1 DEF IInv, TreeInv, LeftInv, MayBeRemoved, Aged, Exists
  <2>3. ASSUME pass.at = "remove" PROVE MayBeRemoved(Rule.days, pass.node)'
    <3>1. MayBeRemoved(Rule.days, pass.node)
      BY <2>3 DEF IInv, PassInv
    <3> QED
      BY <2>1, <3>1 DEF MayBeRemoved, Aged, Exists, Rule
  <2>4. PassInv'
    BY <2>1, <2>3, PassStays DEF IInv
  <2> QED
    BY <1>1, <2>2, <2>4 DEF IInv
<1> QED
  BY <1>2, <1>3, <1>4, <1>5, <1>6, <1>7, <1>8, <1>9 DEF Next, PassStep

THEOREM Invariance == Spec => []IInv
<1>1. Init => IInv
  BY RulesInit, PassInit DEF IInv
<1> QED
  BY <1>1, Inductive, PTL DEF Spec

\* Every variable has its type, and the pass is inside a directory exactly
\* while it deals with one's entries.
THEOREM TypeCorrect == Spec => []TypeOK
<1>1. IInv => TypeOK
  <2> SUFFICES ASSUME IInv PROVE TypeOK
    OBVIOUS
  <2>1. pass.stack \in Seq(Frame) /\ pass.at \in Places
    BY DEF IInv, PassInv
  <2> QED
    BY <2>1 DEF IInv, RulesInv, TreeInv, PassInv, TypeOK, Places, Inside
<1> QED
  BY <1>1, Invariance, PTL

--------------------------------------------------------------------------------
(* What goes. *)

\* A step that makes a name disappear is a removal of the pass or a late one.
LEMMA OnlyRemovalsRemove ==
  ASSUME IInv, [Next]_vars, NEW n \in Nodes, age[n] # Absent, age'[n] = Absent
  PROVE  \/ RemoveNode /\ pass.node = n
         \/ LateRemoval /\ \E r \in left : r.path = n
<1>1. age \in [Nodes -> Absent .. MaxAge] /\ MaxAge \in Nat
  BY CleanupAssumption DEF IInv, TreeInv
<1>2. CASE RemoveNode
  <2>1. pass.node \in Nodes /\ Removal(pass.node)
    BY <1>2 DEF RemoveNode, IInv, PassInv, Nodes
  <2> QED
    BY <1>2, <2>1, RemovalEffect DEF IInv
<1>3. CASE LateRemoval
  <2>1. PICK r \in left : Removal(r.path)
    BY <1>3 DEF LateRemoval
  <2>2. r.path \in Nodes
    BY <2>1 DEF IInv, LeftInv, Nodes
  <2> QED
    BY <1>3, <2>1, <2>2, RemovalEffect DEF IInv
<1>4. ASSUME Write PROVE FALSE
  BY <1>1, <1>4 DEF Write, Absent
<1>5. ASSUME Tick PROVE FALSE
  <2>1. /\ age'[n] = age[n] \/ age'[n] = age[n] + 1
        /\ age[n] \in Int /\ age[n] >= Absent
    BY <1>1, <1>5 DEF Tick, Absent
  <2> QED
    BY <2>1 DEF Absent
<1>6. ASSUME UNCHANGED age PROVE FALSE
  BY <1>6
<1> QED
  BY <1>2, <1>3, <1>4, <1>5, <1>6
  DEF Next, PassStep, Receive, StartPass, OpenRule, NextEntry, LeaveDirectory, DateFile,
      EndPass, CutOff, Looks, vars

\* A file goes only if a rule above it asks for its age, or it was written
\* between its dating and its removal: in no tree, under no list of rules and
\* after no cut-off does clean_up_delete_files remove another.
THEOREM OnlyOldFilesEverGo == Spec => OnlyOldFilesGo
<1>1. IInv /\ [Next]_vars =>
        [\A f \in Files :
           age[f] # Absent /\ age'[f] = Absent =>
             f \in overtaken
               \/ \E r \in Range(clean_up_definitions) \cup left : Asks(r, f)]_vars
  <2> SUFFICES ASSUME IInv, [Next]_vars, NEW f \in Files, age[f] # Absent, age'[f] = Absent
               PROVE  f \in overtaken
                        \/ \E r \in Range(clean_up_definitions) \cup left : Asks(r, f)
    OBVIOUS
  <2>1. CASE RemoveNode /\ pass.node = f
    <3>1. pass.at = "remove"
      BY <2>1, CleanupAssumption DEF RemoveNode, IInv, PassInv
    <3>2. MayBeRemoved(Rule.days, f) /\ Rule.path \in Above[f]
      BY <2>1, <3>1 DEF IInv, PassInv
    <3>3. Rule \in Range(clean_up_definitions) /\ Rule.days > 0
      BY <3>1, RuleInForce DEF IInv, Inside
    <3> QED
      BY <3>2, <3>3 DEF MayBeRemoved, Aged, Exists, Asks, Covers
  <2>2. CASE LateRemoval /\ \E r \in left : r.path = f
    BY <2>2 DEF IInv, LeftInv, MayBeRemoved, Aged, Exists, Asks, Covers
  <2> QED
    BY <2>1, <2>2, OnlyRemovalsRemove DEF Nodes
<1> QED
  BY <1>1, Invariance, PTL DEF Spec, OnlyOldFilesGo

\* No directory goes but one below a rule's, or one a removal left behind was
\* for; the directory a rule names stays unless it lies below another rule's,
\* and a link always does.
THEOREM RulePathsAlwaysStay == Spec => RulePathsStay
<1>1. IInv /\ [Next]_vars =>
        [\A n \in Dirs \cup Links :
           age[n] # Absent /\ age'[n] = Absent =>
             /\ n \in Dirs
             /\ \/ \E r \in Range(clean_up_definitions) : r.days > 0 /\ r.path \in Above[n]
                \/ \E r \in left : r.days > 0 /\ r.path = n]_vars
  <2> SUFFICES ASSUME IInv, [Next]_vars, NEW n \in Dirs \cup Links,
                      age[n] # Absent, age'[n] = Absent
               PROVE  /\ n \in Dirs
                      /\ \/ \E r \in Range(clean_up_definitions) :
                              r.days > 0 /\ r.path \in Above[n]
                         \/ \E r \in left : r.days > 0 /\ r.path = n
    OBVIOUS
  <2>1. CASE RemoveNode /\ pass.node = n
    <3>1. /\ pass.at \in {"remove", "rmdir"} /\ n \in Dirs \cup Files
          /\ Rule.path \in Above[n]
      BY <2>1 DEF RemoveNode, IInv, PassInv
    <3>2. Rule \in Range(clean_up_definitions) /\ Rule.days > 0
      BY <3>1, RuleInForce DEF IInv, Inside
    <3> QED
      BY <3>1, <3>2, CleanupAssumption
  <2>2. CASE LateRemoval /\ \E r \in left : r.path = n
    BY <2>2, CleanupAssumption DEF IInv, LeftInv
  <2> QED
    BY <2>1, <2>2, OnlyRemovalsRemove DEF Nodes
<1> QED
  BY <1>1, Invariance, PTL DEF Spec, RulePathsStay

================================================================================
