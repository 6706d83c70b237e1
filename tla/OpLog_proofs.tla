---------------------------- MODULE OpLog_proofs ----------------------------
(***************************************************************************)
(* Proofs about OpLog, for any number of threads, log names, messages and  *)
(* failures: the types, the slots of the channel, the limits of the queues *)
(* and what a step does to the entries in a queue; and the count of the    *)
(* entries the channel refused.                                            *)
(***************************************************************************)
EXTENDS OpLog, Sums_proofs, SequenceTheorems, FiniteSetTheorems, TLAPS

(* The slots freed for a waiting shutdown are counted as taken. *)
Granted == {s \in Stoppers : stopper[s] = "granted"}

SlotsInv == Len(channel) + Cardinality(Granted) <= ChannelCapacity

CallInv ==
  /\ \A p \in Callers : /\ call[p].at # "idle" => call[p].log \in Logs
                        /\ call[p].at = "notice" => call[p].pending > 0
  /\ worker.at = "report" => Ours

(* Entries wait only for a name that is defined, and the worker looks for
   ticks and messages only when it has nothing left to visit. *)
QueueInv ==
  /\ \A l \in Logs \ defined : queue[l] = <<>>
  /\ worker.at = "select" => worker.todo = {} /\ worker.why # "final"

IInv == TypeOK /\ SlotsInv /\ CallInv /\ QueueInv
----------------------------------------------------------------------------
(* Entries in sequences of messages *)

LEMMA EntriesAppend ==
  ASSUME NEW S, NEW c \in Seq(S), NEW m \in S
  PROVE  Entries(Append(c, m)) = Entries(c) \cup EntryOf(m)
<1> DEFINE d == Append(c, m)
<1>1. /\ DOMAIN d = 1..(Len(c) + 1) /\ DOMAIN c = 1..Len(c) /\ Len(c) \in Nat
      /\ \A i \in 1..Len(c) : d[i] = c[i]
      /\ d[Len(c) + 1] = m
  <2>1. /\ d \in Seq(S) /\ Len(d) = Len(c) + 1
        /\ \A i \in 1..Len(c) : d[i] = c[i]
        /\ d[Len(c) + 1] = m
    BY AppendProperties
  <2> HIDE DEF d
  <2>2. QED
    BY <2>1, LenProperties
<1> HIDE DEF d
<1>2. DOMAIN d = DOMAIN c \cup {Len(c) + 1}
  BY <1>1
<1>3. Entries(d) = Entries(c) \cup EntryOf(m)
  BY <1>1, <1>2 DEF Entries
<1>4. QED
  BY <1>3 DEF d

LEMMA TailAt ==
  ASSUME NEW S, NEW c \in Seq(S), c # <<>>
  PROVE  /\ Head(c) = c[1] /\ Head(c) \in S
         /\ Tail(c) \in Seq(S) /\ Len(Tail(c)) = Len(c) - 1
         /\ Len(c) \in Nat \ {0} /\ DOMAIN c = 1..Len(c) /\ DOMAIN Tail(c) = 1..(Len(c) - 1)
         /\ \A i \in 1..(Len(c) - 1) : Tail(c)[i] = c[i + 1]
<1>1. /\ Head(c) \in S /\ Tail(c) \in Seq(S) /\ Len(Tail(c)) = Len(c) - 1
      /\ \A i \in 1..Len(Tail(c)) : Tail(c)[i] = c[i + 1]
  BY HeadTailProperties
<1>2. Len(c) \in Nat /\ DOMAIN c = 1..Len(c) /\ Len(c) # 0
  BY LenProperties, EmptySeq
<1>3. DOMAIN Tail(c) = 1..Len(Tail(c))
  BY <1>1, LenProperties
<1>4. Head(c) = c[1]
  OBVIOUS
<1>5. QED
  BY <1>1, <1>2, <1>3, <1>4

LEMMA EntriesTail ==
  ASSUME NEW S, NEW c \in Seq(S), c # <<>>
  PROVE  Entries(c) = EntryOf(Head(c)) \cup Entries(Tail(c))
<1> DEFINE n == Len(c)
           t == Tail(c)
<1>1. /\ Head(c) = c[1] /\ n \in Nat \ {0} /\ DOMAIN c = 1..n /\ DOMAIN t = 1..(n - 1)
      /\ \A i \in 1..(n - 1) : t[i] = c[i + 1]
  BY TailAt
<1> HIDE DEF n, t
<1>2. ASSUME NEW i \in 1..n PROVE EntryOf(c[i]) \subseteq EntryOf(Head(c)) \cup Entries(t)
  <2>1. CASE i = 1
    BY <1>1, <2>1
  <2>2. CASE i # 1
    <3>1. i - 1 \in 1..(n - 1) /\ (i - 1) + 1 = i
      BY <1>1, <2>2
    <3>2. t[i - 1] = c[i]
      BY <1>1, <3>1
    <3>3. QED
      BY <1>1, <3>1, <3>2 DEF Entries
  <2>3. QED
    BY <2>1, <2>2
<1>3. ASSUME NEW i \in 1..(n - 1) PROVE EntryOf(t[i]) \subseteq Entries(c)
  <2>1. i + 1 \in 1..n
    BY <1>1
  <2>2. QED
    BY <1>1, <2>1 DEF Entries
<1>4. EntryOf(Head(c)) \subseteq Entries(c)
  <2>1. 1 \in 1..n
    BY <1>1
  <2>2. QED
    BY <1>1, <2>1 DEF Entries
<1>5. Entries(c) \subseteq EntryOf(Head(c)) \cup Entries(t)
  BY <1>1, <1>2 DEF Entries
<1>6. Entries(t) \subseteq Entries(c)
  BY <1>1, <1>3 DEF Entries
<1>7. QED
  BY <1>4, <1>5, <1>6 DEF t

LEMMA EntriesEmpty == Entries(<<>>) = {}
BY DEF Entries

(* A frame takes the first n: they and the rest are all there was. *)
LEMMA EntriesSplit ==
  ASSUME NEW S, NEW c \in Seq(S), NEW n \in 1..Len(c)
  PROVE  /\ SubSeq(c, 1, n) \in Seq(S)
         /\ SubSeq(c, n + 1, Len(c)) \in Seq(S)
         /\ Len(SubSeq(c, n + 1, Len(c))) = Len(c) - n
         /\ Entries(c) = Entries(SubSeq(c, 1, n)) \cup Entries(SubSeq(c, n + 1, Len(c)))
<1> DEFINE front == SubSeq(c, 1, n)
           rest  == SubSeq(c, n + 1, Len(c))
           m     == n + 1
<1>1. Len(c) \in Nat /\ DOMAIN c = 1..Len(c) /\ n \in Nat /\ n <= Len(c) /\ 1 <= n
      /\ \A i \in 1..Len(c) : c[i] \in S
  BY LenProperties, ElementOfSeq
<1>2. /\ front \in Seq(S) /\ DOMAIN front = 1..n
      /\ \A i \in 1..n : front[i] = c[i]
  <2>1. 1 \in Int /\ n \in Int /\ \A i \in 1..n : c[i] \in S
    BY <1>1
  <2>2. /\ front \in Seq(S) /\ Len(front) = IF 1 <= n THEN n - 1 + 1 ELSE 0
        /\ \A i \in 1..(n - 1 + 1) : front[i] = c[1 + i - 1]
    BY <2>1, SubSeqProperties
  <2> HIDE DEF front
  <2>3. Len(front) = n /\ \A i \in 1..n : front[i] = c[i]
    BY <1>1, <2>2
  <2>4. QED
    BY <2>2, <2>3, LenProperties
<1>3. /\ rest \in Seq(S) /\ Len(rest) = Len(c) - n /\ DOMAIN rest = 1..(Len(c) - n)
      /\ \A i \in 1..(Len(c) - n) : rest[i] = c[n + i]
  <2>1. m \in Int /\ Len(c) \in Int /\ \A i \in m..Len(c) : c[i] \in S
    BY <1>1
  <2>2. /\ rest \in Seq(S) /\ Len(rest) = IF m <= Len(c) THEN Len(c) - m + 1 ELSE 0
        /\ \A i \in 1..(Len(c) - m + 1) : rest[i] = c[m + i - 1]
    BY <2>1, SubSeqProperties
  <2> HIDE DEF rest
  <2>3. Len(rest) = Len(c) - n
    <3>1. \A k \in Nat, j \in Nat :
            j <= k => (IF j + 1 <= k THEN k - (j + 1) + 1 ELSE 0) = k - j
      OBVIOUS
    <3>2. QED
      BY <1>1, <2>2, <3>1
  <2>4. Len(c) - m + 1 = Len(c) - n /\ \A i \in 1..(Len(c) - n) : m + i - 1 = n + i
    BY <1>1
  <2>5. \A i \in 1..(Len(c) - n) : rest[i] = c[n + i]
    BY <2>2, <2>4
  <2>6. QED
    BY <2>2, <2>3, <2>5, LenProperties
<1> HIDE DEF front, rest
<1>4. ASSUME NEW i \in 1..Len(c) PROVE EntryOf(c[i]) \subseteq Entries(front) \cup Entries(rest)
  <2>1. CASE i <= n
    <3>1. i \in 1..n
      BY <2>1
    <3>2. QED
      BY <1>2, <3>1 DEF Entries
  <2>2. CASE i > n
    <3>1. i - n \in 1..(Len(c) - n) /\ n + (i - n) = i
      BY <1>1, <2>2
    <3>2. rest[i - n] = c[i]
      BY <1>3, <3>1
    <3>3. QED
      BY <1>3, <3>1, <3>2 DEF Entries
  <2>3. QED
    BY <1>1, <2>1, <2>2
<1>5. Entries(c) \subseteq Entries(front) \cup Entries(rest)
  BY <1>1, <1>4 DEF Entries
<1>6. Entries(front) \subseteq Entries(c)
  <2>1. \A i \in 1..n : i \in 1..Len(c)
    BY <1>1
  <2>2. QED
    BY <1>1, <1>2, <2>1 DEF Entries
<1>7. Entries(rest) \subseteq Entries(c)
  <2>1. \A i \in 1..(Len(c) - n) : n + i \in 1..Len(c)
    BY <1>1
  <2>2. QED
    BY <1>1, <1>3, <2>1 DEF Entries
<1>8. QED
  BY <1>2, <1>3, <1>5, <1>6, <1>7 DEF front, rest

LEMMA EntriesConcat ==
  ASSUME NEW S, NEW c \in Seq(S), NEW d \in Seq(S)
  PROVE  c \o d \in Seq(S) /\ Entries(c \o d) = Entries(c) \cup Entries(d)
<1> DEFINE e == c \o d
<1>1. /\ Len(c) \in Nat /\ DOMAIN c = 1..Len(c)
      /\ Len(d) \in Nat /\ DOMAIN d = 1..Len(d)
  BY LenProperties
<1>2. /\ e \in Seq(S) /\ DOMAIN e = 1..(Len(c) + Len(d))
      /\ \A i \in 1..Len(c) : e[i] = c[i]
      /\ \A i \in 1..Len(d) : e[Len(c) + i] = d[i]
  <2>1. /\ e \in Seq(S) /\ Len(e) = Len(c) + Len(d)
        /\ \A i \in 1..(Len(c) + Len(d)) : e[i] = IF i <= Len(c) THEN c[i] ELSE d[i - Len(c)]
    BY ConcatProperties
  <2> HIDE DEF e
  <2>2. DOMAIN e = 1..(Len(c) + Len(d))
    BY <2>1, LenProperties
  <2>3. \A i \in 1..Len(c) : e[i] = c[i]
    BY <1>1, <2>1
  <2>4. ASSUME NEW i \in 1..Len(d) PROVE e[Len(c) + i] = d[i]
    <3>1. /\ Len(c) + i \in 1..(Len(c) + Len(d)) /\ ~(Len(c) + i <= Len(c))
          /\ (Len(c) + i) - Len(c) = i
      BY <1>1
    <3>2. QED
      BY <2>1, <3>1
  <2>5. QED
    BY <2>1, <2>2, <2>3, <2>4
<1> HIDE DEF e
<1>3. ASSUME NEW i \in 1..(Len(c) + Len(d)) PROVE EntryOf(e[i]) \subseteq Entries(c) \cup Entries(d)
  <2>1. CASE i <= Len(c)
    <3>1. i \in 1..Len(c)
      BY <2>1
    <3>2. QED
      BY <1>1, <1>2, <3>1 DEF Entries
  <2>2. CASE i > Len(c)
    <3>1. i - Len(c) \in 1..Len(d) /\ Len(c) + (i - Len(c)) = i
      BY <1>1, <2>2
    <3>2. e[i] = d[i - Len(c)]
      BY <1>2, <3>1
    <3>3. QED
      BY <1>1, <3>1, <3>2 DEF Entries
  <2>3. QED
    BY <1>1, <2>1, <2>2
<1>4. Entries(e) \subseteq Entries(c) \cup Entries(d)
  BY <1>2, <1>3 DEF Entries
<1>5. Entries(c) \subseteq Entries(e)
  <2>1. \A i \in 1..Len(c) : i \in 1..(Len(c) + Len(d))
    BY <1>1
  <2>2. QED
    BY <1>1, <1>2, <2>1 DEF Entries
<1>6. Entries(d) \subseteq Entries(e)
  <2>1. \A i \in 1..Len(d) : Len(c) + i \in 1..(Len(c) + Len(d))
    BY <1>1
  <2>2. QED
    BY <1>1, <1>2, <2>1 DEF Entries
<1>7. QED
  BY <1>2, <1>4, <1>5, <1>6 DEF e

----------------------------------------------------------------------------
(* The channel *)

LEMMA MessageKinds ==
  ASSUME NEW m \in Message
  PROVE  /\ m.kind \in {"log", "bundle"} => m \in LogMessage /\ m.id \in Id
         /\ m.kind \in {"log", "notice"} => m \in LogMessage \cup Notice
         /\ m.kind = "def" => m.log \in Logs
         /\ m.kind = "info" => m.asker \in Askers
         /\ EntryOf(m) \subseteq Id
         /\ m.kind \notin {"log", "bundle"} => EntryOf(m) = {}
BY DEF Message, LogMessage, Notice, EntryOf

LEMMA MessageLog ==
  ASSUME NEW m \in LogMessage \cup Notice
  PROVE  m \in Message /\ m.log \in Logs
BY DEF Message, LogMessage, Notice

LEMMA QueueIsChannel == Seq(LogMessage \cup Notice) \subseteq Seq(Message)
BY MessageLog, SeqMonotonic

LEMMA EntriesType ==
  ASSUME NEW c \in Seq(Message)
  PROVE  Entries(c) \subseteq Id
<1>1. \A i \in DOMAIN c : c[i] \in Message
  BY LenProperties, ElementOfSeq
<1>2. QED
  BY <1>1, MessageKinds DEF Entries

LEMMA PendingType ==
  ASSUME TypeOK
  PROVE  Pending \subseteq Id
<1>1. channel \in Seq(Message) /\ \A l \in Logs : queue[l] \in Seq(Message)
  BY QueueIsChannel DEF TypeOK
<1>2. QED
  BY <1>1, EntriesType DEF Pending, Waiting

LEMMA GrantedType ==
  IsFiniteSet(Granted) /\ Cardinality(Granted) \in Nat
<1>1. IsFiniteSet(Stoppers) /\ Granted \subseteq Stoppers
  BY OpLogAssumption DEF OpLogAssumption, Granted
<1>2. IsFiniteSet(Granted)
  BY <1>1, FS_Subset
<1>3. QED
  BY <1>2, FS_CardinalityType

(* A message that finds room fits. *)
LEMMA PostFits ==
  ASSUME TypeOK, HasRoom, NEW m \in Message, NEW c, c = Append(channel, m)
  PROVE  /\ c \in Seq(Message) /\ Len(c) <= ChannelCapacity
         /\ Len(c) + Cardinality(Granted) <= ChannelCapacity
<1>1. channel \in Seq(Message) /\ ChannelCapacity \in Nat
  BY OpLogAssumption DEF TypeOK, OpLogAssumption
<1>2. c \in Seq(Message) /\ Len(c) = Len(channel) + 1 /\ Len(channel) \in Nat
  BY <1>1, AppendProperties, LenProperties
<1>3. Cardinality(Granted) \in Nat /\ Len(channel) + Cardinality(Granted) < ChannelCapacity
  BY GrantedType DEF HasRoom, Granted
<1>4. QED
  BY <1>1, <1>2, <1>3

(* The slot that a message leaves goes to a waiting shutdown. *)
LEMMA TakeFits ==
  ASSUME TypeOK, SlotsInv, NEW kinds, Take(kinds)
  PROVE  /\ channel' \in Seq(Message) /\ Len(channel') <= ChannelCapacity
         /\ Head(channel) \in Message /\ Head(channel).kind \in kinds
         /\ stopper' \in [Stoppers -> {"idle", "waiting", "granted", "sent", "joining", "returned"}]
         /\ SlotsInv'
         /\ \A s \in Stoppers : stopper'[s] = stopper[s] \/ stopper'[s] = "granted"
<1>1. /\ channel \in Seq(Message) /\ channel # <<>> /\ channel' = Tail(channel)
      /\ Head(channel).kind \in kinds
      /\ ChannelCapacity \in Nat /\ Len(channel) <= ChannelCapacity
      /\ stopper \in [Stoppers -> {"idle", "waiting", "granted", "sent", "joining", "returned"}]
  BY OpLogAssumption DEF TypeOK, OpLogAssumption, Take
<1>2. /\ channel' \in Seq(Message) /\ Len(channel') = Len(channel) - 1
      /\ Head(channel) \in Message /\ Len(channel) \in Nat
  BY <1>1, TailAt
<1>3. IsFiniteSet(Granted) /\ Cardinality(Granted) \in Nat
  BY GrantedType
<1>4. CASE stopper' = stopper
  <2>1. Granted' = Granted
    BY <1>4 DEF Granted
  <2>2. SlotsInv'
    BY <1>1, <1>2, <1>3, <2>1 DEF SlotsInv
  <2>3. QED
    BY <1>1, <1>2, <1>4, <2>2
<1>5. CASE \E s \in Stoppers : stopper[s] = "waiting" /\ stopper' = [stopper EXCEPT ![s] = "granted"]
  <2>1. PICK s \in Stoppers : stopper[s] = "waiting" /\ stopper' = [stopper EXCEPT ![s] = "granted"]
    BY <1>5
  <2>2. Granted' = Granted \cup {s} /\ s \notin Granted
    BY <1>1, <2>1 DEF Granted
  <2>3. Cardinality(Granted') = Cardinality(Granted) + 1
    BY <1>3, <2>2, FS_AddElement
  <2>4. SlotsInv'
    BY <1>1, <1>2, <1>3, <2>3 DEF SlotsInv
  <2>5. QED
    BY <1>1, <1>2, <2>1, <2>4
<1>6. QED
  BY <1>4, <1>5 DEF Take

----------------------------------------------------------------------------
(* Types, slots and calls *)

LEMMA InitIInv == Init => IInv
<1> SUFFICES ASSUME Init PROVE IInv
  OBVIOUS
<1> USE DEF Init
<1>1. channel = <<>> /\ Len(channel) = 0 /\ channel \in Seq(Message)
  BY EmptySeq
<1>2. <<>> \in Seq(LogMessage \cup Notice) /\ Len(<<>>) = 0
  BY EmptySeq
<1>3. ChannelCapacity \in Nat /\ QueueMax \in Nat
  BY OpLogAssumption DEF OpLogAssumption
<1>4. worker \in WorkerState /\ worker.todo = {} /\ worker.why = "none" /\ worker.at = "select"
  BY DEF WorkerState
<1>5. call \in [Callers -> CallState] /\ \A p \in Callers : call[p].at = "idle"
  BY DEF CallState
<1>6. TypeOK
  <2>1. /\ queue \in [Logs -> Seq(LogMessage \cup Notice)]
        /\ written \in [Logs -> Seq(LogMessage \cup Notice)]
        /\ timer \in [Logs -> {"none", "running", "elapsed"}]
        /\ \A l \in Logs : Len(queue[l]) <= QueueMax /\ (timer[l] = "none" <=> queue[l] = <<>>)
    BY <1>2, <1>3
  <2>2. /\ channel \in Seq(Message) /\ Len(channel) <= ChannelCapacity
        /\ dropped_logs \in Nat /\ untold \in Int
        /\ handle \in {"some", "none"} /\ logger \in Logs \cup {"none", "another"}
        /\ loggers \subseteq Logs
    BY <1>1, <1>3
  <2>3. /\ asker \in [Askers -> {"idle", "waiting", "some", "none"}]
        /\ stopper \in [Stoppers -> {"idle", "waiting", "granted", "sent", "joining", "returned"}]
        /\ sends \in [Callers -> Nat]
        /\ dropped \in BOOLEAN /\ stopping \in BOOLEAN /\ defined \subseteq Logs
        /\ lost \subseteq Id /\ before_stop \subseteq Id /\ ahead \in [Askers -> SUBSET Id]
    OBVIOUS
  <2>4. QED
    BY <1>4, <1>5, <2>1, <2>2, <2>3 DEF TypeOK
<1>7. SlotsInv
  <2>1. Granted = {}
    BY DEF Granted
  <2>2. QED
    BY <1>1, <1>3, <2>1, FS_EmptySet DEF SlotsInv
<1>8. CallInv /\ QueueInv
  BY <1>4, <1>5 DEF CallInv, QueueInv
<1>9. QED
  BY <1>6, <1>7, <1>8 DEF IInv

CallsFit(c) ==
  /\ c \in [Callers -> CallState]
  /\ \A p \in Callers : /\ c[p].at # "idle" => c[p].log \in Logs
                        /\ c[p].at = "notice" => c[p].pending > 0

LEMMA CallsFitNow == ASSUME IInv PROVE CallsFit(call)
BY DEF IInv, TypeOK, CallInv, CallsFit

(* A step of one caller: one message goes in, or none, and what the worker and
   the disk hold stays. *)
LEMMA CallerKeeps ==
  ASSUME IInv,
         channel' = channel \/ \E m \in Message : HasRoom /\ channel' = Append(channel, m),
         CallsFit(call'), sends' \in [Callers -> Nat],
         dropped_logs' \in Nat, untold' \in Int,
         logger' = logger \/ logger' \in Logs,
         loggers' = loggers \/ loggers' \subseteq Logs,
         asker' \in [Askers -> {"idle", "waiting", "some", "none"}],
         ahead' \in [Askers -> SUBSET Id],
         worker' = worker \/ worker' = [worker EXCEPT !.at = "pass"],
         UNCHANGED <<handle, stopper, dropped, storage, lost, stopping, before_stop>>
  PROVE  IInv'
<1> USE DEF storage
<1>1. Granted' = Granted
  BY DEF Granted
<1>2. /\ channel' \in Seq(Message) /\ Len(channel') <= ChannelCapacity
      /\ Len(channel') + Cardinality(Granted) <= ChannelCapacity
  <2>1. CASE channel' = channel
    BY <2>1 DEF IInv, TypeOK, SlotsInv
  <2>2. CASE \E m \in Message : HasRoom /\ channel' = Append(channel, m)
    BY <2>2, PostFits DEF IInv
  <2>3. QED
    BY <2>1, <2>2
<1>3. SlotsInv'
  BY <1>1, <1>2 DEF SlotsInv
<1>4. worker \in WorkerState
  BY DEF IInv, TypeOK
<1>5. /\ worker' \in WorkerState /\ worker'.todo = worker.todo /\ worker'.why = worker.why
      /\ worker'.at = worker.at \/ worker'.at = "pass"
  BY <1>4 DEF WorkerState
<1>6. TypeOK'
  BY <1>2, <1>5 DEF IInv, TypeOK, CallsFit
<1>7. CallInv'
  BY <1>5 DEF IInv, CallInv, CallsFit, Ours
<1>8. QueueInv'
  BY <1>5 DEF IInv, QueueInv
<1>9. QED
  BY <1>3, <1>6, <1>7, <1>8 DEF IInv

(* The steps of send_log, whoever takes them. *)
LEMMA SendLogKeeps ==
  ASSUME IInv, NEW p \in Callers,
         \/ /\ \E l \in Logs : TakeCount(p, l)
            /\ worker' = worker \/ worker' = [worker EXCEPT !.at = "pass"]
         \/ LogStep(p)
  PROVE  IInv'
<1> USE DEF handles, callers, ticks, storage, device, marks
<1>1. /\ CallsFit(call) /\ sends \in [Callers -> Nat] /\ dropped_logs \in Nat /\ untold \in Int
      /\ asker \in [Askers -> {"idle", "waiting", "some", "none"}]
      /\ ahead \in [Askers -> SUBSET Id]
  BY CallsFitNow DEF IInv, TypeOK
<1>2. ASSUME NEW l \in Logs, TakeCount(p, l),
             worker' = worker \/ worker' = [worker EXCEPT !.at = "pass"]
      PROVE  IInv'
  <2>1. CallsFit(call')
    BY <1>1, <1>2 DEF TakeCount, CallsFit, CallState
  <2>2. sends' \in [Callers -> Nat] /\ dropped_logs' \in Nat
    BY <1>1, <1>2 DEF TakeCount
  <2>3. UNCHANGED <<channel, untold, logger, loggers, asker, ahead, handle, stopper, dropped, storage,
                    lost, stopping, before_stop>>
    BY <1>2 DEF TakeCount
  <2>4. QED
    BY <1>1, <1>2, <2>1, <2>2, <2>3, CallerKeeps
<1>3. CASE SendNotice(p)
  <2>1. CallsFit(call')
    BY <1>1, <1>3 DEF SendNotice, Goto, Working, CallsFit, CallState
  <2>2. \/ channel' = channel
        \/ \E m \in Message : HasRoom /\ channel' = Append(channel, m)
    <3> DEFINE m == [kind |-> "notice", log |-> call[p].log, count |-> call[p].pending]
    <3>1. m \in Message
      BY <1>1, <1>3 DEF SendNotice, Working, CallsFit, CallState, Message, Notice
    <3>2. channel' = channel \/ (HasRoom /\ channel' = Append(channel, m))
      BY <1>3 DEF SendNotice, Post
    <3> HIDE DEF m
    <3>3. QED
      BY <3>1, <3>2
  <2>3. untold' \in Int
    BY <1>1, <1>3 DEF SendNotice, CallsFit, CallState
  <2>4. UNCHANGED <<sends, dropped_logs, worker, logger, loggers, asker, ahead, handle, stopper, dropped,
                    storage, lost, stopping, before_stop>>
    BY <1>3 DEF SendNotice
  <2>5. QED
    BY <1>1, <2>1, <2>2, <2>3, <2>4, CallerKeeps
<1>4. CASE RestoreCount(p)
  <2>0. call[p] \in CallState /\ call[p].log \in Logs /\ call[p].pending \in Nat
    BY <1>1, <1>4 DEF RestoreCount, Working, CallsFit, CallState
  <2>1. CallsFit(call') /\ dropped_logs' \in Nat
    <3>1. CallsFit(call')
      BY <1>1, <1>4, <2>0 DEF RestoreCount, CallsFit, CallState
    <3>2. QED
      BY <1>1, <1>4, <2>0, <3>1 DEF RestoreCount
  <2>2. UNCHANGED <<channel, sends, untold, worker, logger, loggers, asker, ahead, handle, stopper,
                    dropped, storage, lost, stopping, before_stop>>
    BY <1>4 DEF RestoreCount
  <2>3. QED
    BY <1>1, <2>1, <2>2, CallerKeeps
<1>5. CASE SendEntry(p)
  <2>0. call[p] \in CallState /\ call[p].log \in Logs
    BY <1>1, <1>5 DEF SendEntry, Working, CallsFit
  <2>1. CallsFit(call') /\ untold' \in Int
    <3>1. \E at \in {"idle", "count"} : call' = [call EXCEPT ![p].at = at]
      BY <1>5 DEF SendEntry, Goto
    <3>2. CallsFit(call')
      BY <1>1, <2>0, <3>1 DEF CallsFit, CallState
    <3>3. QED
      BY <1>1, <1>5, <3>2 DEF SendEntry
  <2>2. \/ channel' = channel
        \/ \E m \in Message : HasRoom /\ channel' = Append(channel, m)
    <3> DEFINE m == [kind |-> "log", log |-> call[p].log, id |-> <<p, sends[p]>>]
    <3>1. m \in Message
      BY <1>1, <1>5 DEF SendEntry, Working, CallsFit, CallState, Message, LogMessage, Id
    <3>2. channel' = channel \/ (HasRoom /\ channel' = Append(channel, m))
      BY <1>5 DEF SendEntry, Post
    <3> HIDE DEF m
    <3>3. QED
      BY <3>1, <3>2
  <2>3. UNCHANGED <<sends, dropped_logs, worker, logger, loggers, asker, ahead, handle, stopper, dropped,
                    storage, lost, stopping, before_stop>>
    BY <1>5 DEF SendEntry
  <2>4. QED
    BY <1>1, <2>1, <2>2, <2>3, CallerKeeps
<1>6. CASE CountDrop(p)
  <2>1. CallsFit(call') /\ dropped_logs' \in Nat
    BY <1>1, <1>6 DEF CountDrop, Goto, Working, CallsFit, CallState
  <2>2. UNCHANGED <<channel, sends, untold, worker, logger, loggers, asker, ahead, handle, stopper,
                    dropped, storage, lost, stopping, before_stop>>
    BY <1>6 DEF CountDrop
  <2>3. QED
    BY <1>1, <2>1, <2>2, CallerKeeps
<1>7. QED
  BY <1>2, <1>3, <1>4, <1>5, <1>6 DEF LogStep

(* The calls that are one try_send. *)
LEMMA TrySendKeeps ==
  ASSUME IInv, NEW p \in Producers,
         \/ \E l \in Logs : Def(p, l) \/ LogBundle(p, l) \/ DefSystemLog(p, l)
         \/ Flush(p) \/ SetRules(p) \/ InstallLogger(p)
  PROVE  IInv'
<1> USE DEF handles, callers, ticks, storage, device, marks
<1>1. /\ CallsFit(call) /\ sends \in [Callers -> Nat] /\ dropped_logs \in Nat /\ untold \in Int
      /\ asker \in [Askers -> {"idle", "waiting", "some", "none"}]
      /\ ahead \in [Askers -> SUBSET Id] /\ p \in Callers
  BY CallsFitNow DEF IInv, TypeOK, Callers
<1>2. ASSUME NEW m \in Message, TrySend(m)
      PROVE  channel' = channel \/ \E n \in Message : HasRoom /\ channel' = Append(channel, n)
  BY <1>2 DEF TrySend, Post
<1>3. ASSUME NEW l \in Logs, Def(p, l) PROVE IInv'
  <2>1. [kind |-> "def", log |-> l] \in Message
    BY DEF Message
  <2>2. TrySend([kind |-> "def", log |-> l])
        /\ UNCHANGED <<call, sends, untold, dropped_logs, worker, logger, loggers, asker, ahead, handle,
                       stopper, dropped, storage, lost, stopping, before_stop>>
    BY <1>3 DEF Def
  <2>3. QED
    BY <1>1, <1>2, <2>1, <2>2, CallerKeeps
<1>4. ASSUME NEW l \in Logs, LogBundle(p, l) PROVE IInv'
  <2> DEFINE m == [kind |-> "bundle", log |-> l, id |-> <<p, sends[p] + 1>>]
  <2>1. m \in Message
    BY <1>1 DEF Message, LogMessage, Id
  <2>2. TrySend(m) /\ sends' = [sends EXCEPT ![p] = @ + 1]
        /\ UNCHANGED <<call, untold, dropped_logs, worker, logger, loggers, asker, ahead, handle,
                       stopper, dropped, storage, lost, stopping, before_stop>>
    BY <1>4 DEF LogBundle
  <2>3. sends' \in [Callers -> Nat]
    BY <1>1, <2>2
  <2> HIDE DEF m
  <2>4. QED
    BY <1>1, <1>2, <2>1, <2>2, <2>3, CallerKeeps
<1>5. ASSUME NEW l \in Logs, DefSystemLog(p, l) PROVE IInv'
  <2>1. [kind |-> "def", log |-> l] \in Message
    BY DEF Message
  <2>2. CallsFit(call')
    <3>1. /\ call \in [Callers -> CallState]
          /\ call' = [call EXCEPT ![p].at = "install", ![p].log = l]
      BY <1>1, <1>5 DEF DefSystemLog, CallsFit
    <3>2. /\ call'[p] \in CallState /\ call'[p].at = "install" /\ call'[p].log = l
          /\ \A q \in Callers \ {p} : call'[q] = call[q]
      BY <1>1, <3>1 DEF CallState
    <3>3. call' \in [Callers -> CallState]
      BY <3>1, <3>2
    <3>4. QED
      BY <1>1, <3>2, <3>3 DEF CallsFit
  <2>3. TrySend([kind |-> "def", log |-> l])
        /\ UNCHANGED <<sends, untold, dropped_logs, worker, logger, loggers, asker, ahead, handle,
                       stopper, dropped, storage, lost, stopping, before_stop>>
    BY <1>5 DEF DefSystemLog
  <2>4. QED
    BY <1>1, <1>2, <2>1, <2>2, <2>3, CallerKeeps
<1>6. CASE Flush(p) \/ SetRules(p)
  <2>1. [kind |-> "flush"] \in Message /\ [kind |-> "rules"] \in Message
    BY DEF Message
  <2>2. \/ TrySend([kind |-> "flush"])
        \/ TrySend([kind |-> "rules"])
    BY <1>6 DEF Flush, SetRules
  <2>3. UNCHANGED <<call, sends, untold, dropped_logs, worker, logger, loggers, asker, ahead, handle,
                    stopper, dropped, storage, lost, stopping, before_stop>>
    BY <1>6 DEF Flush, SetRules
  <2>4. QED
    BY <1>1, <1>2, <2>1, <2>2, <2>3, CallerKeeps
<1>7. CASE InstallLogger(p)
  <2>1. CallsFit(call') /\ call[p].log \in Logs
    BY <1>1, <1>7 DEF InstallLogger, Working, Goto, CallsFit, CallState
  <2>2. /\ logger' = logger \/ logger' \in Logs
        /\ UNCHANGED <<channel, sends, untold, dropped_logs, worker, asker, ahead, handle,
                       stopper, dropped, storage, lost, stopping, before_stop>>
    BY <1>7, <2>1 DEF InstallLogger
  <2>3. loggers \subseteq Logs
    BY DEF IInv, TypeOK
  <2>4. loggers' = loggers \/ loggers' \subseteq Logs
    BY <1>7, <2>1, <2>3 DEF InstallLogger
  <2>5. QED
    BY <1>1, <2>1, <2>2, <2>4, CallerKeeps
<1>8. QED
  BY <1>3, <1>4, <1>5, <1>6, <1>7

(* get_info, shutdown, and the last handle. *)
LEMMA HandlingKeeps ==
  ASSUME IInv, Handling
  PROVE  IInv'
<1> USE DEF handles, callers, ticks, storage, device, marks
<1>1. CASE \E a \in Askers : GetInfo(a)
  <2>1. PICK a \in Askers : GetInfo(a)
    BY <1>1
  <2>2. [kind |-> "info", asker |-> a] \in Message
    BY DEF Message
  <2>3. \/ channel' = channel
        \/ \E m \in Message : HasRoom /\ channel' = Append(channel, m)
    BY <2>1, <2>2 DEF GetInfo, TrySend, Post
  <2>4. /\ asker' \in [Askers -> {"idle", "waiting", "some", "none"}]
        /\ ahead' \in [Askers -> SUBSET Id]
    BY <2>1, PendingType DEF GetInfo, IInv, TypeOK
  <2>5. /\ sends \in [Callers -> Nat] /\ dropped_logs \in Nat /\ untold \in Int
        /\ UNCHANGED <<call, sends, untold, dropped_logs, worker, logger, loggers, handle, stopper,
                       dropped, storage, lost, stopping, before_stop>>
    BY <2>1 DEF GetInfo, IInv, TypeOK
  <2>6. QED
    BY <2>3, <2>4, <2>5, CallsFitNow, CallerKeeps
<1>2. ASSUME NEW s \in Stoppers, SendStop(s) PROVE IInv'
  <2>1. /\ channel \in Seq(Message) /\ Len(channel) <= ChannelCapacity
        /\ Len(channel) + Cardinality(Granted) <= ChannelCapacity
        /\ Len(channel) \in Nat /\ ChannelCapacity \in Nat
    BY OpLogAssumption, LenProperties DEF IInv, TypeOK, SlotsInv, OpLogAssumption
  <2>2. IsFiniteSet(Granted) /\ Cardinality(Granted) \in Nat
    BY GrantedType
  <2>3. stopper \in [Stoppers -> {"idle", "waiting", "granted", "sent", "joining", "returned"}]
    BY DEF IInv, TypeOK
  <2>4. [kind |-> "stop"] \in Message
    BY DEF Message
  <2>5. /\ channel' \in Seq(Message) /\ Len(channel') <= ChannelCapacity
        /\ SlotsInv'
    <3>1. CASE stopper[s] = "granted" /\ PostStop /\ stopper' = [stopper EXCEPT ![s] = "sent"]
      <4>1. Granted' = Granted \ {s} /\ s \in Granted
        BY <2>3, <3>1 DEF Granted
      <4>2. Cardinality(Granted') = Cardinality(Granted) - 1
        BY <2>2, <4>1, FS_RemoveElement
      <4>3. Cardinality(Granted) # 0
        BY <2>2, <4>1, FS_EmptySet
      <4>4. channel' = Append(channel, [kind |-> "stop"])
        BY <3>1 DEF PostStop, Post
      <4>5. channel' \in Seq(Message) /\ Len(channel') = Len(channel) + 1
        BY <2>1, <2>4, <4>4, AppendProperties
      <4>6. QED
        BY <2>1, <2>2, <4>2, <4>3, <4>5 DEF SlotsInv
    <3>2. CASE stopper[s] = "idle" /\ HasRoom /\ PostStop
               /\ stopper' = [stopper EXCEPT ![s] = "sent"]
      <4>1. Granted' = Granted
        BY <2>3, <3>2 DEF Granted
      <4>2. channel' = Append(channel, [kind |-> "stop"])
        BY <3>2 DEF PostStop, Post
      <4>3. QED
        BY <2>4, <3>2, <4>1, <4>2, PostFits DEF SlotsInv, IInv
    <3>3. CASE /\ channel' = channel
               /\ \E at \in {"sent", "waiting"} : stopper' = [stopper EXCEPT ![s] = at]
      <4>1. Granted' \subseteq Granted
        BY <2>3, <3>3 DEF Granted
      <4>2. Cardinality(Granted') <= Cardinality(Granted) /\ Cardinality(Granted') \in Nat
        BY <2>2, <4>1, FS_Subset, FS_CardinalityType
      <4>3. QED
        BY <2>1, <2>2, <3>3, <4>2 DEF SlotsInv
    <3>4. QED
      BY <1>2, <3>1, <3>2, <3>3 DEF SendStop
  <2>6. stopper' \in [Stoppers -> {"idle", "waiting", "granted", "sent", "joining", "returned"}]
    BY <1>2, <2>3 DEF SendStop
  <2>7. stopping' \in BOOLEAN /\ before_stop' \subseteq Id /\ ahead' = ahead
    BY <1>2, PendingType DEF SendStop, PostStop, IInv, TypeOK
  <2>8. TypeOK'
    <3>1. UNCHANGED <<dropped_logs, handles, callers, asker, dropped, worker, storage, lost, untold>>
      BY <1>2 DEF SendStop
    <3>2. QED
      BY <2>5, <2>6, <2>7, <3>1 DEF IInv, TypeOK
  <2>9. CallInv' /\ QueueInv'
    BY <1>2 DEF SendStop, IInv, CallInv, QueueInv, Ours
  <2>10. QED
    BY <2>5, <2>8, <2>9 DEF IInv
<1>3. ASSUME NEW s \in Stoppers, TakeHandle(s) \/ Join(s) PROVE IInv'
  <2>1. /\ stopper \in [Stoppers -> {"idle", "waiting", "granted", "sent", "joining", "returned"}]
        /\ handle \in {"some", "none"}
    BY DEF IInv, TypeOK
  <2>2. /\ stopper[s] \in {"sent", "joining"} /\ handle' \in {"some", "none"}
        /\ \E at \in {"joining", "returned"} : stopper' = [stopper EXCEPT ![s] = at]
        /\ UNCHANGED <<channel, dropped_logs, logger, loggers, callers, asker, dropped, worker, ticks,
                       storage, device, lost, untold, marks>>
    BY <1>3, <2>1 DEF TakeHandle, Join
  <2>3. Granted' = Granted
    BY <2>1, <2>2 DEF Granted
  <2>4. SlotsInv' /\ CallInv' /\ QueueInv'
    BY <2>2, <2>3 DEF IInv, SlotsInv, CallInv, QueueInv, Ours
  <2>5. TypeOK'
    BY <2>1, <2>2 DEF IInv, TypeOK
  <2>6. QED
    BY <2>4, <2>5 DEF IInv
<1>4. CASE DropHandles
  <2>1. TypeOK'
    BY <1>4 DEF DropHandles, IInv, TypeOK
  <2>2. Granted' = Granted
    BY <1>4 DEF DropHandles, Granted
  <2>3. SlotsInv' /\ CallInv' /\ QueueInv'
    BY <1>4, <2>2 DEF DropHandles, IInv, SlotsInv, CallInv, QueueInv, Ours
  <2>4. QED
    BY <2>1, <2>3 DEF IInv
<1>5. QED
  BY <1>1, <1>2, <1>3, <1>4 DEF Handling

(* The worker's steps that leave the channel and the shutdowns alone. *)
LEMMA WorkerKeeps ==
  ASSUME IInv,
         UNCHANGED <<channel, dropped_logs, handles, callers, stopper, dropped, lost, untold, marks>>,
         worker' \in WorkerState, worker'.todo \subseteq defined',
         asker' \in [Askers -> {"idle", "waiting", "some", "none"}],
         defined' \subseteq Logs,
         queue' \in [Logs -> Seq(LogMessage \cup Notice)],
         written' \in [Logs -> Seq(LogMessage \cup Notice)],
         timer' \in [Logs -> {"none", "running", "elapsed"}],
         \A l \in Logs : Len(queue'[l]) <= QueueMax /\ (timer'[l] = "none" <=> queue'[l] = <<>>),
         \A l \in Logs \ defined' : queue'[l] = <<>>,
         worker'.at = "report" => Ours,
         worker'.at = "select" => worker'.todo = {} /\ worker'.why # "final"
  PROVE  IInv'
<1> USE DEF handles, callers, marks
<1>1. TypeOK'
  BY DEF IInv, TypeOK
<1>2. Granted' = Granted
  BY DEF Granted
<1>3. SlotsInv' /\ CallInv' /\ QueueInv'
  BY <1>2 DEF IInv, SlotsInv, CallInv, QueueInv, Ours
<1>4. QED
  BY <1>1, <1>3 DEF IInv

LEMMA PassStarts ==
  ASSUME IInv, NEW why \in {"tick", "flush", "info", "final"},
         NEW a \in Askers \cup {"nobody"}, StartPass(why, a)
  PROVE  /\ worker' \in WorkerState /\ worker'.todo = defined /\ worker'.why = why
         /\ worker'.asker = a /\ worker'.at \in {"report", "pass"} /\ ~worker'.late
         /\ worker'.at = "report" => Ours
BY DEF StartPass, IInv, TypeOK, WorkerState

(* What IInv says of the queues and the pass, for the steps that leave it. *)
LEMMA StorageNow ==
  ASSUME IInv
  PROVE  /\ worker \in WorkerState /\ worker.todo \subseteq defined /\ defined \subseteq Logs
         /\ asker \in [Askers -> {"idle", "waiting", "some", "none"}]
         /\ queue \in [Logs -> Seq(LogMessage \cup Notice)]
         /\ written \in [Logs -> Seq(LogMessage \cup Notice)]
         /\ timer \in [Logs -> {"none", "running", "elapsed"}]
         /\ \A l \in Logs : Len(queue[l]) <= QueueMax /\ (timer[l] = "none" <=> queue[l] = <<>>)
         /\ \A l \in Logs \ defined : queue[l] = <<>>
         /\ worker.at = "report" => Ours
         /\ worker.at = "select" => worker.todo = {} /\ worker.why # "final"
BY DEF IInv, TypeOK, CallInv, QueueInv

LEMMA TicksKeep ==
  ASSUME IInv, WriterTick \/ CleanUpTick
  PROVE  IInv'
<1> USE DEF ticks, storage, device
<1>1. CASE WriterTick
  <2>1. StartPass("tick", "nobody")
        /\ UNCHANGED <<channel, dropped_logs, handles, callers, asker, stopper, dropped,
                       storage, lost, untold, marks>>
    BY <1>1 DEF WriterTick
  <2>2. QED
    BY <2>1, PassStarts, StorageNow, WorkerKeeps
<1>2. CASE CleanUpTick
  <2>1. PICK gone \in SUBSET {l \in defined : MayGo(l)} :
          /\ defined' = defined \ gone
          /\ queue' = [l \in Logs |-> IF l \in gone THEN <<>> ELSE queue[l]]
          /\ timer' = [l \in Logs |-> IF l \in gone THEN "none" ELSE timer[l]]
    BY <1>2 DEF CleanUpTick
  <2>2. /\ worker.at = "select"
        /\ worker' = worker \/ (Ours /\ worker' = [worker EXCEPT !.at = "report", !.why = "cleanup", !.todo = {}])
        /\ UNCHANGED <<channel, dropped_logs, handles, callers, asker, stopper, dropped,
                       written, lost, untold, marks>>
    BY <1>2 DEF CleanUpTick, Select
  <2>3. /\ worker' \in WorkerState /\ worker'.todo = {}
        /\ worker'.at = "report" => Ours
        /\ worker'.at = "select" => worker'.why # "final"
    BY <2>2, StorageNow DEF WorkerState
  <2>4. /\ queue' \in [Logs -> Seq(LogMessage \cup Notice)]
        /\ timer' \in [Logs -> {"none", "running", "elapsed"}]
        /\ \A l \in Logs : Len(queue'[l]) <= QueueMax /\ (timer'[l] = "none" <=> queue'[l] = <<>>)
        /\ \A l \in Logs \ defined' : queue'[l] = <<>>
    <3>1. <<>> \in Seq(LogMessage \cup Notice) /\ Len(<<>>) = 0 /\ QueueMax \in Nat
      BY EmptySeq, OpLogAssumption DEF OpLogAssumption
    <3>2. QED
      BY <2>1, <3>1, StorageNow
  <2>5. QED
    BY <2>1, <2>2, <2>3, <2>4, StorageNow, WorkerKeeps
<1>3. QED
  BY <1>1, <1>2

(* add_to_log. *)
LEMMA EnqueueFits ==
  ASSUME IInv, NEW l \in Logs, NEW m \in LogMessage \cup Notice, Enqueue(l, m)
  PROVE  /\ queue' \in [Logs -> Seq(LogMessage \cup Notice)]
         /\ timer' \in [Logs -> {"none", "running", "elapsed"}]
         /\ \A k \in Logs : Len(queue'[k]) <= QueueMax /\ (timer'[k] = "none" <=> queue'[k] = <<>>)
         /\ \A k \in Logs \ {l} : queue'[k] = queue[k]
         /\ Entries(queue[l]) \cup EntryOf(m) \subseteq Entries(queue'[l]) \cup lost'
         /\ Entries(queue'[l]) \subseteq Entries(queue[l]) \cup EntryOf(m)
         /\ lost \subseteq lost' /\ lost' \subseteq Id
<1> DEFINE S == LogMessage \cup Notice
           q == Append(queue[l], m)
<1>1. /\ queue \in [Logs -> Seq(S)] /\ timer \in [Logs -> {"none", "running", "elapsed"}]
      /\ \A k \in Logs : Len(queue[k]) <= QueueMax /\ (timer[k] = "none" <=> queue[k] = <<>>)
      /\ QueueMax \in Nat \ {0} /\ lost \subseteq Id
  BY StorageNow, OpLogAssumption DEF IInv, TypeOK, OpLogAssumption
<1>2. /\ q \in Seq(S) /\ q # <<>> /\ Len(q) = Len(queue[l]) + 1 /\ Len(queue[l]) \in Nat
      /\ Entries(q) = Entries(queue[l]) \cup EntryOf(m)
  BY <1>1, AppendProperties, LenProperties, EntriesAppend
<1>3. /\ Head(q) \in S /\ Tail(q) \in Seq(S) /\ Len(Tail(q)) = Len(q) - 1
      /\ Entries(q) = EntryOf(Head(q)) \cup Entries(Tail(q))
  BY <1>2, TailAt, EntriesTail
<1>4. /\ \/ Len(q) > QueueMax /\ queue' = [queue EXCEPT ![l] = Tail(q)]
            /\ lost' = lost \cup EntryOf(Head(q))
         \/ ~(Len(q) > QueueMax) /\ queue' = [queue EXCEPT ![l] = q] /\ lost' = lost
      /\ timer' = [timer EXCEPT ![l] = IF @ = "none" THEN "running" ELSE @]
  BY DEF Enqueue
<1> HIDE DEF q
<1>5. EntryOf(Head(q)) \subseteq Id
  BY <1>3, MessageLog, MessageKinds
<1>6. timer' \in [Logs -> {"none", "running", "elapsed"}] /\ timer'[l] # "none"
      /\ \A k \in Logs \ {l} : timer'[k] = timer[k]
  BY <1>1, <1>4
<1>7. CASE /\ Len(q) > QueueMax /\ queue' = [queue EXCEPT ![l] = Tail(q)]
           /\ lost' = lost \cup EntryOf(Head(q))
  <2>1. /\ queue' \in [Logs -> Seq(S)] /\ queue'[l] = Tail(q)
        /\ \A k \in Logs \ {l} : queue'[k] = queue[k]
    BY <1>1, <1>3, <1>7
  <2>2. Len(queue'[l]) <= QueueMax /\ queue'[l] # <<>>
    <3>1. Len(queue[l]) <= QueueMax
      BY <1>1
    <3>2. Len(queue'[l]) = Len(queue[l]) /\ Len(queue[l]) > 0
      BY <1>1, <1>2, <1>3, <1>7, <2>1
    <3>3. QED
      BY <3>1, <3>2, EmptySeq
  <2>3. \A k \in Logs : Len(queue'[k]) <= QueueMax /\ (timer'[k] = "none" <=> queue'[k] = <<>>)
    BY <1>1, <1>6, <2>1, <2>2
  <2>4. QED
    BY <1>1, <1>2, <1>3, <1>5, <1>6, <1>7, <2>1, <2>3
<1>8. CASE ~(Len(q) > QueueMax) /\ queue' = [queue EXCEPT ![l] = q] /\ lost' = lost
  <2>1. /\ queue' \in [Logs -> Seq(S)] /\ queue'[l] = q
        /\ \A k \in Logs \ {l} : queue'[k] = queue[k]
    BY <1>1, <1>2, <1>8
  <2>2. Len(queue'[l]) <= QueueMax /\ queue'[l] # <<>>
    BY <1>1, <1>2, <1>8, <2>1
  <2>3. \A k \in Logs : Len(queue'[k]) <= QueueMax /\ (timer'[k] = "none" <=> queue'[k] = <<>>)
    BY <1>1, <1>6, <2>1, <2>2
  <2>4. QED
    BY <1>1, <1>2, <1>6, <1>8, <2>1, <2>3
<1>9. QED
  BY <1>4, <1>7, <1>8

LEMMA TakeKeeps ==
  ASSUME IInv, NEW kinds, Take(kinds),
         worker' \in WorkerState, worker'.todo \subseteq defined', defined' \subseteq Logs,
         queue' \in [Logs -> Seq(LogMessage \cup Notice)],
         timer' \in [Logs -> {"none", "running", "elapsed"}],
         \A l \in Logs : Len(queue'[l]) <= QueueMax /\ (timer'[l] = "none" <=> queue'[l] = <<>>),
         \A l \in Logs \ defined' : queue'[l] = <<>>,
         lost' \subseteq Id,
         worker'.at = "report" => Ours,
         worker'.at = "select" => worker'.todo = {} /\ worker'.why # "final"
  PROVE  IInv'
<1> USE DEF handles, callers, marks
<1>1. /\ channel' \in Seq(Message) /\ Len(channel') <= ChannelCapacity /\ SlotsInv'
      /\ stopper' \in [Stoppers -> {"idle", "waiting", "granted", "sent", "joining", "returned"}]
  BY TakeFits DEF IInv
<1>2. UNCHANGED <<dropped_logs, handles, callers, asker, dropped, written, untold, marks>>
  BY DEF Take
<1>3. TypeOK'
  BY <1>1, <1>2 DEF IInv, TypeOK
<1>4. CallInv' /\ QueueInv'
  BY <1>2 DEF IInv, CallInv, QueueInv, Ours
<1>5. QED
  BY <1>1, <1>3, <1>4 DEF IInv

(* The worker is at the select when it takes a message, with nothing to do. *)
LEMMA AtSelect ==
  ASSUME IInv, NEW kinds, Take(kinds)
  PROVE  /\ worker.at = "select" /\ worker.todo = {} /\ worker.why # "final"
         /\ channel \in Seq(Message) /\ channel # <<>> /\ channel' = Tail(channel)
         /\ Head(channel) \in Message /\ Head(channel).kind \in kinds
BY StorageNow, TakeFits DEF Take, Select, IInv, TypeOK

LEMMA ReceiveKeeps ==
  ASSUME IInv, Receive
  PROVE  IInv'
<1> USE DEF storage
<1> DEFINE m == Head(channel)
<1>1. CASE ReceiveLog
  <2>1. /\ Take({"log", "notice"}) /\ UNCHANGED <<worker, defined>>
        /\ \/ m.log \in defined /\ Enqueue(m.log, m)
           \/ lost' = lost \cup EntryOf(m) /\ UNCHANGED <<queue, timer>>
    BY <1>1 DEF ReceiveLog
  <2>2. /\ m \in LogMessage \cup Notice /\ m.log \in Logs /\ EntryOf(m) \subseteq Id
        /\ worker.at = "select"
    BY <2>1, AtSelect, MessageKinds, MessageLog
  <2> HIDE DEF m
  <2>3. lost \subseteq Id
    BY DEF IInv, TypeOK
  <2>4. CASE m.log \in defined /\ Enqueue(m.log, m)
    <3>1. /\ queue' \in [Logs -> Seq(LogMessage \cup Notice)]
          /\ timer' \in [Logs -> {"none", "running", "elapsed"}]
          /\ \A l \in Logs : Len(queue'[l]) <= QueueMax /\ (timer'[l] = "none" <=> queue'[l] = <<>>)
          /\ \A l \in Logs \ {m.log} : queue'[l] = queue[l]
          /\ lost' \subseteq Id
      BY <2>2, <2>4, EnqueueFits
    <3>2. \A l \in Logs \ defined' : queue'[l] = <<>>
      BY <2>1, <2>4, <3>1, StorageNow
    <3>3. QED
      BY <2>1, <3>1, <3>2, StorageNow, TakeKeeps
  <2>5. CASE lost' = lost \cup EntryOf(m) /\ UNCHANGED <<queue, timer>>
    <3>1. lost' \subseteq Id
      BY <2>2, <2>3, <2>5
    <3>2. QED
      BY <2>1, <2>2, <2>5, <3>1, StorageNow, TakeKeeps
  <2>6. QED
    BY <2>1, <2>4, <2>5
<1>2. CASE ReceiveDefinition
  <2>1. /\ Take({"def"}) /\ defined' = defined \cup {m.log}
        /\ UNCHANGED <<worker, queue, timer, lost>>
    BY <1>2 DEF ReceiveDefinition
  <2>2. m \in Message /\ m.kind \in {"def"}
    BY <2>1, AtSelect
  <2> HIDE DEF m
  <2>3. m.log \in Logs
    BY <2>2, MessageKinds
  <2>4. lost \subseteq Id
    BY DEF IInv, TypeOK
  <2>5. QED
    BY <2>1, <2>3, <2>4, StorageNow, TakeKeeps
<1>3. CASE ReceiveBundle
  <2>1. /\ Take({"bundle"}) /\ defined' = defined \cup {m.log}
        /\ Enqueue(m.log, m) /\ UNCHANGED worker
    BY <1>3 DEF ReceiveBundle
  <2>2. m \in LogMessage \cup Notice /\ m.log \in Logs /\ worker.at = "select"
    BY <2>1, AtSelect, MessageKinds, MessageLog
  <2> HIDE DEF m
  <2>3. /\ queue' \in [Logs -> Seq(LogMessage \cup Notice)]
        /\ timer' \in [Logs -> {"none", "running", "elapsed"}]
        /\ \A l \in Logs : Len(queue'[l]) <= QueueMax /\ (timer'[l] = "none" <=> queue'[l] = <<>>)
        /\ \A l \in Logs \ {m.log} : queue'[l] = queue[l]
        /\ lost' \subseteq Id
    BY <2>1, <2>2, EnqueueFits
  <2>4. \A l \in Logs \ defined' : queue'[l] = <<>>
    BY <2>1, <2>3, StorageNow
  <2>5. QED
    BY <2>1, <2>2, <2>3, <2>4, StorageNow, TakeKeeps
<1>4. CASE ReceiveRules
  <2>1. Take({"rules"}) /\ UNCHANGED <<worker, defined, queue, timer, lost>>
    BY <1>4 DEF ReceiveRules
  <2>2. lost \subseteq Id
    BY DEF IInv, TypeOK
  <2>3. QED
    BY <2>1, <2>2, StorageNow, TakeKeeps
<1>5. CASE ReceiveFlush \/ ReceiveGetInfo \/ ReceiveStop
  <2>1. \E kinds \in {{"flush"}, {"info"}, {"stop"}}, why \in {"flush", "info", "final"},
           a \in Askers \cup {"nobody"} :
          Take(kinds) /\ StartPass(why, a)
    <3>1. CASE ReceiveFlush
      BY <3>1 DEF ReceiveFlush
    <3>2. CASE ReceiveGetInfo
      <4>1. Take({"info"}) /\ StartPass("info", m.asker)
        BY <3>2 DEF ReceiveGetInfo
      <4>2. m.asker \in Askers
        BY <4>1, AtSelect, MessageKinds
      <4>3. QED
        BY <4>1, <4>2
    <3>3. CASE ReceiveStop
      BY <3>3 DEF ReceiveStop
    <3>4. QED
      BY <1>5, <3>1, <3>2, <3>3
  <2>2. PICK kinds \in {{"flush"}, {"info"}, {"stop"}}, why \in {"flush", "info", "final"},
             a \in Askers \cup {"nobody"} :
          Take(kinds) /\ StartPass(why, a)
    BY <2>1
  <2>3. UNCHANGED <<defined, queue, timer, lost>> /\ lost \subseteq Id
    BY <1>5 DEF ReceiveFlush, ReceiveGetInfo, ReceiveStop, IInv, TypeOK
  <2>4. /\ worker' \in WorkerState /\ worker'.todo = defined /\ worker'.at \in {"report", "pass"}
        /\ worker'.at = "report" => Ours
    BY <2>2, PassStarts
  <2>5. QED
    BY <2>2, <2>3, <2>4, StorageNow, TakeKeeps
<1>6. CASE ChannelClosed
  <2>1. StartPass("final", "nobody")
        /\ UNCHANGED <<channel, dropped_logs, handles, callers, asker, stopper, dropped,
                       storage, lost, untold, marks>>
    BY <1>6 DEF ChannelClosed
  <2>2. QED
    BY <2>1, PassStarts, StorageNow, WorkerKeeps
<1>7. QED
  BY <1>1, <1>2, <1>3, <1>4, <1>5, <1>6 DEF Receive

(* A frame takes some of the oldest entries of one queue to its file. *)
LEMMA WriteMoves ==
  ASSUME IInv, NEW l \in Logs, WriteFile(l)
  PROVE  /\ queue' \in [Logs -> Seq(LogMessage \cup Notice)]
         /\ written' \in [Logs -> Seq(LogMessage \cup Notice)]
         /\ timer' \in [Logs -> {"none", "running", "elapsed"}]
         /\ \A k \in Logs : Len(queue'[k]) <= QueueMax /\ (timer'[k] = "none" <=> queue'[k] = <<>>)
         /\ \A k \in Logs \ {l} : queue'[k] = queue[k] /\ written'[k] = written[k]
         /\ Entries(queue[l]) \cup Entries(written[l]) = Entries(queue'[l]) \cup Entries(written'[l])
         /\ Entries(written[l]) \subseteq Entries(written'[l])
         /\ Entries(queue'[l]) \subseteq Entries(queue[l])
         /\ l \in defined
<1> DEFINE S == LogMessage \cup Notice
<1>1. /\ queue \in [Logs -> Seq(S)] /\ written \in [Logs -> Seq(S)]
      /\ timer \in [Logs -> {"none", "running", "elapsed"}]
      /\ \A k \in Logs : Len(queue[k]) <= QueueMax /\ (timer[k] = "none" <=> queue[k] = <<>>)
      /\ \A k \in Logs \ defined : queue[k] = <<>>
      /\ QueueMax \in Nat
  BY StorageNow, OpLogAssumption DEF OpLogAssumption
<1>2. queue[l] # <<>>
  BY DEF WriteFile, Attempting
<1> DEFINE q == queue[l]
<1>3. PICK n \in 1..Len(q) :
        /\ written' = [written EXCEPT ![l] = @ \o SubSeq(q, 1, n)]
        /\ queue' = [queue EXCEPT ![l] = SubSeq(q, n + 1, Len(q))]
        /\ timer' = IF n = Len(q) THEN [timer EXCEPT ![l] = "none"] ELSE timer
  BY DEF WriteFile
<1> DEFINE front == SubSeq(q, 1, n)
           rest  == SubSeq(q, n + 1, Len(q))
<1>4. /\ q \in Seq(S) /\ Len(q) \in Nat /\ Len(q) <= QueueMax /\ timer[l] # "none"
  BY <1>1, <1>2, LenProperties
<1>5. /\ front \in Seq(S) /\ rest \in Seq(S) /\ Len(rest) = Len(q) - n
      /\ Entries(q) = Entries(front) \cup Entries(rest)
  <2> HIDE DEF q
  <2>1. QED
    BY <1>4, EntriesSplit
<1> HIDE DEF q, front, rest
<1>6. /\ queue' = [queue EXCEPT ![l] = rest]
      /\ written' = [written EXCEPT ![l] = written[l] \o front]
  BY <1>3 DEF front, rest
<1>7. /\ written[l] \o front \in Seq(S)
      /\ Entries(written[l] \o front) = Entries(written[l]) \cup Entries(front)
  <2>1. written[l] \in Seq(S)
    BY <1>1
  <2> HIDE DEF S
  <2>2. QED
    BY <1>5, <2>1, EntriesConcat
<1>8. rest = <<>> <=> n = Len(q)
  <2>1. rest = <<>> <=> Len(rest) = 0
    BY <1>5, EmptySeq
  <2>2. QED
    BY <1>4, <1>5, <2>1
<1>9. /\ queue' \in [Logs -> Seq(S)] /\ queue'[l] = rest
      /\ written' \in [Logs -> Seq(S)] /\ written'[l] = written[l] \o front
      /\ \A k \in Logs \ {l} : queue'[k] = queue[k] /\ written'[k] = written[k]
  BY <1>1, <1>5, <1>6, <1>7
<1>10. /\ timer' \in [Logs -> {"none", "running", "elapsed"}]
       /\ timer'[l] = "none" <=> n = Len(q)
       /\ \A k \in Logs \ {l} : timer'[k] = timer[k]
  BY <1>1, <1>3, <1>4
<1>11. Len(rest) <= QueueMax
  BY <1>1, <1>4, <1>5
<1>12. \A k \in Logs : Len(queue'[k]) <= QueueMax /\ (timer'[k] = "none" <=> queue'[k] = <<>>)
  BY <1>1, <1>8, <1>9, <1>10, <1>11
<1>13. /\ Entries(q) \cup Entries(written[l]) = Entries(queue'[l]) \cup Entries(written'[l])
       /\ Entries(written[l]) \subseteq Entries(written'[l])
       /\ Entries(queue'[l]) \subseteq Entries(q)
  BY <1>5, <1>7, <1>9
<1>14. QED
  BY <1>1, <1>2, <1>9, <1>10, <1>12, <1>13 DEF q

LEMMA PassKeeps ==
  ASSUME IInv, PassStep
  PROVE  IInv'
<1> USE DEF storage, ticks, device
<1>1. worker \in WorkerState /\ worker.todo \subseteq defined /\ (worker.at = "report" => Ours)
  BY StorageNow
<1>2. CASE Report
  <2>1. Worker \in Callers /\ Ours /\ logger \in Logs
    BY <1>1, <1>2 DEF Report, Callers, Ours
  <2>2. TakeCount(Worker, logger) /\ worker' = [worker EXCEPT !.at = "pass"]
    BY <1>2 DEF Report
  <2>3. QED
    BY <2>1, <2>2, SendLogKeeps
<1>3. CASE LogStep(Worker)
  BY <1>3, SendLogKeeps DEF Callers
<1>4. ASSUME NEW l \in Logs, Attempt(l) PROVE IInv'
  <2>1. worker.at = "pass"
    BY <1>4 DEF Attempt, SkipFile, WriteFile, WriteFileFails, WriteFileTimesOut, Attempting,
                Passing
  <2>2. /\ worker' \in WorkerState /\ worker'.todo \subseteq defined /\ worker'.at = "pass"
    BY <1>1, <1>4, <2>1 DEF Attempt, SkipFile, WriteFile, WriteFileFails, WriteFileTimesOut,
                       Visited, WorkerState
  <2>3. UNCHANGED <<channel, dropped_logs, handles, callers, asker, stopper, dropped, defined,
                    lost, untold, marks>>
    BY <1>4 DEF Attempt, SkipFile, WriteFile, WriteFileFails, WriteFileTimesOut, Keep
  <2>4. CASE WriteFile(l)
    <3>1. /\ queue' \in [Logs -> Seq(LogMessage \cup Notice)]
          /\ written' \in [Logs -> Seq(LogMessage \cup Notice)]
          /\ timer' \in [Logs -> {"none", "running", "elapsed"}]
          /\ \A k \in Logs : Len(queue'[k]) <= QueueMax /\ (timer'[k] = "none" <=> queue'[k] = <<>>)
          /\ \A k \in Logs \ {l} : queue'[k] = queue[k]
          /\ l \in defined
      BY <2>4, WriteMoves
    <3>2. \A k \in Logs \ defined' : queue'[k] = <<>>
      BY <2>3, <3>1, StorageNow
    <3>3. QED
      BY <2>2, <2>3, <3>1, <3>2, StorageNow, WorkerKeeps
  <2>5. CASE SkipFile(l) \/ WriteFileFails(l) \/ WriteFileTimesOut(l)
    <3>1. UNCHANGED storage
      BY <2>5 DEF SkipFile, WriteFileFails, WriteFileTimesOut, Keep
    <3>2. QED
      BY <2>2, <2>3, <3>1, StorageNow, WorkerKeeps
  <2>6. QED
    BY <1>4, <2>4, <2>5 DEF Attempt
<1>5. CASE FlushAgain
  <2>1. /\ worker.at = "pass" /\ worker' = [worker EXCEPT !.todo = defined]
        /\ UNCHANGED <<channel, dropped_logs, handles, callers, asker, stopper, dropped, storage,
                       lost, untold, marks>>
    BY <1>5 DEF FlushAgain, Flushing, Passing
  <2>2. worker' \in WorkerState /\ worker'.todo = defined /\ worker'.at = "pass"
    BY <2>1, StorageNow DEF WorkerState
  <2>3. QED
    BY <2>1, <2>2, StorageNow, WorkerKeeps
<1>6. CASE EndPass
  <2>1. /\ worker.todo = {} /\ worker.why # "final"
        /\ worker' = [worker EXCEPT !.at = "select"]
        /\ UNCHANGED <<channel, dropped_logs, handles, callers, stopper, dropped, storage,
                       lost, untold, marks>>
    BY <1>6 DEF EndPass
  <2>2. worker' \in WorkerState /\ worker'.todo = {} /\ worker'.at = "select" /\ worker'.why # "final"
    BY <1>1, <2>1 DEF WorkerState
  <2>3. asker' \in [Askers -> {"idle", "waiting", "some", "none"}]
    BY <1>6, StorageNow DEF EndPass
  <2>4. QED
    BY <2>1, <2>2, <2>3, StorageNow, WorkerKeeps
<1>7. CASE EndTask
  <2>1. /\ worker' = [worker EXCEPT !.at = "ended"] /\ channel' = <<>>
        /\ asker' = Answers
        /\ UNCHANGED <<dropped_logs, handles, callers, stopper, dropped, storage, lost, untold,
                       marks>>
    BY <1>7 DEF EndTask
  <2>2. worker' \in WorkerState /\ worker'.todo = worker.todo /\ worker'.at = "ended"
    BY <1>1, <2>1 DEF WorkerState
  <2>3. asker' \in [Askers -> {"idle", "waiting", "some", "none"}]
    BY <2>1, StorageNow DEF Answers
  <2>4. channel' \in Seq(Message) /\ Len(channel') = 0 /\ ChannelCapacity \in Nat
    BY <2>1, EmptySeq, OpLogAssumption DEF OpLogAssumption
  <2>5. TypeOK'
    BY <1>1, <2>1, <2>2, <2>3, <2>4 DEF IInv, TypeOK, handles, callers, marks
  <2>6. SlotsInv'
    <3>1. Granted' = Granted /\ Len(channel) \in Nat
      BY <2>1, LenProperties DEF Granted, IInv, TypeOK
    <3>2. QED
      BY <2>4, <3>1, GrantedType DEF IInv, SlotsInv
  <2>7. CallInv' /\ QueueInv'
    BY <2>1, <2>2 DEF IInv, CallInv, QueueInv, callers
  <2>8. QED
    BY <2>5, <2>6, <2>7 DEF IInv
<1>8. QED
  BY <1>2, <1>3, <1>4, <1>5, <1>6, <1>7 DEF PassStep

LEMMA EnvironmentKeeps ==
  ASSUME IInv, Environment
  PROVE  IInv'
<1> USE DEF storage, ticks, device
<1>1. worker \in WorkerState
  BY StorageNow
<1>2. CASE DeadlinePasses
  <2>1. /\ worker' = [worker EXCEPT !.late = TRUE]
        /\ UNCHANGED <<channel, dropped_logs, handles, callers, asker, stopper, dropped, storage,
                       lost, untold, marks>>
    BY <1>2 DEF DeadlinePasses, Elapse
  <2>2. worker' \in WorkerState /\ worker'.todo = worker.todo /\ worker'.at = worker.at
        /\ worker'.why = worker.why
    BY <1>1, <2>1 DEF WorkerState
  <2>3. QED
    BY <2>1, <2>2, StorageNow, WorkerKeeps
<1>3. ASSUME NEW l \in Logs, FlushIntervalElapses(l) PROVE IInv'
  <2>1. /\ timer[l] = "running" /\ timer' = [timer EXCEPT ![l] = "elapsed"]
        /\ UNCHANGED <<channel, dropped_logs, handles, callers, asker, stopper, dropped, worker,
                       defined, queue, written, lost, untold, marks>>
    BY <1>3 DEF FlushIntervalElapses, Elapse
  <2>2. /\ timer' \in [Logs -> {"none", "running", "elapsed"}]
        /\ \A k \in Logs : timer'[k] = "none" <=> queue'[k] = <<>>
    BY <2>1, StorageNow
  <2>3. QED
    BY <2>1, <2>2, StorageNow, WorkerKeeps
<1>4. CASE WriterTickFires \/ CleanUpTickFires \/ (\E l \in Logs : DiskBreaks(l) \/ DiskRecovers(l))
  <2>1. UNCHANGED <<channel, dropped_logs, handles, callers, asker, stopper, dropped, worker,
                    storage, lost, untold, marks>>
    BY <1>4 DEF WriterTickFires, CleanUpTickFires, DiskBreaks, DiskRecovers, Elapse
  <2>2. QED
    BY <2>1, StorageNow, WorkerKeeps
<1>5. QED
  BY <1>2, <1>3, <1>4 DEF Environment

LEMMA StepIInv ==
  ASSUME IInv, [Next]_vars
  PROVE  IInv'
<1>1. CASE Producing
  <2>1. PICK p \in Producers :
          \/ LogStep(p) \/ InstallLogger(p) \/ Flush(p) \/ SetRules(p)
          \/ \E l \in Logs : Log(p, l) \/ Def(p, l) \/ LogBundle(p, l) \/ DefSystemLog(p, l)
    BY <1>1 DEF Producing
  <2>2. p \in Callers
    BY DEF Callers
  <2>3. CASE LogStep(p)
    BY <2>2, <2>3, SendLogKeeps
  <2>4. ASSUME NEW l \in Logs, Log(p, l) PROVE IInv'
    BY <2>2, <2>4, SendLogKeeps DEF Log
  <2>5. CASE \E l \in Logs : Def(p, l) \/ LogBundle(p, l) \/ DefSystemLog(p, l)
    BY <2>5, TrySendKeeps
  <2>6. CASE InstallLogger(p) \/ Flush(p) \/ SetRules(p)
    BY <2>6, TrySendKeeps
  <2>7. QED
    BY <2>1, <2>3, <2>4, <2>5, <2>6
<1>2. CASE Handling
  BY <1>2, HandlingKeeps
<1>3. CASE WorkerStep
  BY <1>3, TicksKeep, ReceiveKeeps, PassKeeps DEF WorkerStep
<1>4. CASE Environment
  BY <1>4, EnvironmentKeeps
<1>5. CASE UNCHANGED vars
  <2>1. UNCHANGED <<channel, dropped_logs, handles, callers, asker, stopper, dropped, worker,
                    storage, lost, untold, marks>>
    BY <1>5 DEF vars
  <2>2. QED
    BY <2>1, StorageNow, WorkerKeeps DEF storage
<1>6. QED
  BY <1>1, <1>2, <1>3, <1>4, <1>5 DEF Next

THEOREM Invariance == Spec => []IInv
<1>1. Init => IInv
  BY InitIInv
<1>2. IInv /\ [Next]_vars => IInv'
  BY StepIInv
<1>3. QED
  BY <1>1, <1>2, PTL DEF Spec

(* Every variable keeps its type, whatever the threads, the worker and the
   disks do: the channel holds what its capacity allows, with the slot kept
   for a shutdown that waits, and each queue what its limit allows. *)
THEOREM TypeCorrect == Spec => []TypeOK
<1>1. IInv => TypeOK
  BY DEF IInv
<1>2. QED
  BY <1>1, Invariance, PTL
----------------------------------------------------------------------------
(* The count of the entries the channel refused *)

(* A call holds a count only between its swap and its notice or fetch_add. *)
HeldInv == \A p \in Callers : call[p].at \notin {"notice", "restore"} => call[p].pending = 0

(* The worker logs only at the start of a pass. *)
WorkerLogs == worker.at # "pass" => call[Worker].at = "idle"

CountInv == DropsAccounted /\ HeldInv /\ WorkerLogs

InHandOf(c, p) == c[p].pending + (IF c[p].at = "count" THEN 1 ELSE 0)

InHands(c) == [p \in Callers |-> InHandOf(c, p)]

LEMMA CallersFinite == IsFiniteSet(Callers)
<1>1. IsFiniteSet(Producers \cup {Worker})
  BY OpLogAssumption, FS_AddElement DEF OpLogAssumption
<1>2. QED
  BY <1>1 DEF Callers

LEMMA InHandsType ==
  ASSUME NEW c \in [Callers -> CallState]
  PROVE  InHands(c) \in [Callers -> Nat] /\ SumFunction(InHands(c)) \in Nat
<1>1. InHands(c) \in [Callers -> Nat]
  BY DEF InHands, InHandOf, CallState
<1> DEFINE h == InHands(c)
<1> HIDE DEF h
<1>2. h \in [Callers -> Nat]
  BY <1>1 DEF h
<1>3. DOMAIN h = Callers /\ \A p \in Callers : h[p] \in Nat
  BY <1>2
<1>4. SumFunctionOnSet(h, Callers) \in Nat
  BY <1>3, CallersFinite, SumNat
<1>5. SumFunction(h) \in Nat
  BY <1>3, <1>4 DEF SumFunction
<1>6. QED
  BY <1>1, <1>5 DEF h

(* When one call moves, the sum moves by what that call has in hand. *)
LEMMA InHandMoves ==
  ASSUME NEW c \in [Callers -> CallState], NEW d \in [Callers -> CallState], NEW p \in Callers,
         \A q \in Callers \ {p} : d[q] = c[q]
  PROVE  SumFunction(InHands(d)) = SumFunction(InHands(c)) + InHandOf(d, p) - InHandOf(c, p)
<1> DEFINE h == InHands(c)
           g == InHands(d)
<1>1. h \in [Callers -> Nat] /\ g \in [Callers -> Nat]
  BY InHandsType
<1>2. /\ h[p] = InHandOf(c, p) /\ g[p] = InHandOf(d, p)
      /\ \A q \in Callers \ {p} : g[q] = h[q]
  BY DEF InHands, InHandOf
<1> HIDE DEF h, g
<1>3. SumFunction(g) = SumFunction(h) + g[p] - h[p]
  BY <1>1, <1>2, CallersFinite, SumUpdate
<1>4. QED
  BY <1>2, <1>3 DEF h, g

LEMMA AccountedNow == DropsAccounted <=> untold = dropped_logs + SumFunction(InHands(call))
<1>1. [p \in Callers |-> InHand(p)] = InHands(call)
  BY DEF InHand, InHands, InHandOf
<1>2. QED
  BY <1>1 DEF DropsAccounted

LEMMA AccountedNext == DropsAccounted' <=> untold' = dropped_logs' + SumFunction(InHands(call'))
<1>1. [p \in Callers |-> InHand(p)]' = InHands(call')
  BY DEF InHand, InHands, InHandOf
<1>2. QED
  BY <1>1 DEF DropsAccounted

(* A step of one call: what it adds to the entries untold it adds to the
   shared count or takes in hand. *)
LEMMA OneCallMoves ==
  ASSUME IInv, CountInv, CallsFit(call'), NEW p \in Callers,
         \A q \in Callers \ {p} : call'[q] = call[q],
         dropped_logs' \in Nat, untold' \in Int,
         untold' - untold = (dropped_logs' - dropped_logs) + (InHandOf(call', p) - InHandOf(call, p)),
         call'[p].at \notin {"notice", "restore"} => call'[p].pending = 0
  PROVE  DropsAccounted' /\ HeldInv'
<1>1. /\ call \in [Callers -> CallState] /\ call' \in [Callers -> CallState]
      /\ dropped_logs \in Nat /\ untold \in Int
  BY CallsFitNow DEF CallsFit, IInv, TypeOK
<1>2. SumFunction(InHands(call')) = SumFunction(InHands(call)) + InHandOf(call', p) - InHandOf(call, p)
  BY <1>1, InHandMoves
<1>3. SumFunction(InHands(call)) \in Nat /\ InHandOf(call, p) \in Nat /\ InHandOf(call', p) \in Nat
  BY <1>1, InHandsType DEF InHandOf, CallState
<1>4. untold = dropped_logs + SumFunction(InHands(call))
  BY AccountedNow DEF CountInv
<1>5. untold' = dropped_logs' + SumFunction(InHands(call'))
  BY <1>1, <1>2, <1>3, <1>4
<1>6. DropsAccounted'
  BY <1>5, AccountedNext
<1>7. HeldInv'
  BY DEF CountInv, HeldInv
<1>8. QED
  BY <1>6, <1>7

(* The steps of send_log, and of def_system_log, that touch a call. *)
LEMMA SendersCount ==
  ASSUME IInv, IInv', CountInv, NEW p \in Callers,
         \/ (\E l \in Logs : TakeCount(p, l)) /\ call[p].at = "idle"
         \/ LogStep(p)
         \/ InstallLogger(p) \/ \E l \in Logs : DefSystemLog(p, l)
  PROVE  DropsAccounted' /\ HeldInv'
<1>1. /\ call \in [Callers -> CallState] /\ call[p] \in CallState /\ call[p].pending \in Nat
      /\ dropped_logs \in Nat /\ untold \in Int
      /\ call[p].at \notin {"notice", "restore"} => call[p].pending = 0
  BY CallsFitNow DEF CallsFit, IInv, TypeOK, CountInv, HeldInv, CallState
<1>2. CallsFit(call') /\ dropped_logs' \in Nat /\ untold' \in Int
  BY DEF CallsFit, IInv, TypeOK, CallInv
<1>3. SUFFICES /\ \A q \in Callers \ {p} : call'[q] = call[q]
               /\ untold' - untold
                    = (dropped_logs' - dropped_logs) + (InHandOf(call', p) - InHandOf(call, p))
               /\ call'[p].at \notin {"notice", "restore"} => call'[p].pending = 0
  BY <1>2, OneCallMoves
<1>4. CASE call[p].at = "idle" /\ \E l \in Logs : TakeCount(p, l)
  <2>1. /\ call'[p].pending = dropped_logs /\ dropped_logs' = 0 /\ untold' = untold
        /\ call'[p].at = (IF dropped_logs > 0 THEN "notice" ELSE "entry")
        /\ \A q \in Callers \ {p} : call'[q] = call[q]
    BY <1>1, <1>4 DEF TakeCount
  <2>2. QED
    BY <1>1, <1>4, <2>1 DEF InHandOf
<1>5. CASE SendNotice(p)
  <2>1. CASE HasRoom
    <3>1. /\ call[p].at = "notice" /\ call'[p].at = "entry" /\ call'[p].pending = 0
          /\ untold' = untold - call[p].pending /\ dropped_logs' = dropped_logs
          /\ \A q \in Callers \ {p} : call'[q] = call[q]
      BY <1>1, <1>5, <2>1 DEF SendNotice, Working, CallState
    <3>2. QED
      BY <1>1, <3>1 DEF InHandOf
  <2>2. CASE ~HasRoom
    <3>1. /\ call[p].at = "notice" /\ call'[p].at = "restore" /\ call'[p].pending = call[p].pending
          /\ untold' = untold /\ dropped_logs' = dropped_logs
          /\ \A q \in Callers \ {p} : call'[q] = call[q]
      BY <1>1, <1>5, <2>2 DEF SendNotice, Working, Goto, CallState
    <3>2. QED
      BY <1>1, <3>1 DEF InHandOf
  <2>3. QED
    BY <2>1, <2>2
<1>6. CASE RestoreCount(p)
  <2>1. /\ call[p].at = "restore" /\ call'[p].at = "entry" /\ call'[p].pending = 0
        /\ untold' = untold /\ dropped_logs' = dropped_logs + call[p].pending
        /\ \A q \in Callers \ {p} : call'[q] = call[q]
    BY <1>1, <1>6 DEF RestoreCount, Working, CallState
  <2>2. QED
    BY <1>1, <2>1 DEF InHandOf
<1>7. CASE SendEntry(p)
  <2>1. /\ call[p].at = "entry" /\ call'[p].pending = call[p].pending
        /\ \/ call'[p].at = "idle" /\ untold' = untold
           \/ call'[p].at = "count" /\ untold' = untold + 1
        /\ dropped_logs' = dropped_logs
        /\ \A q \in Callers \ {p} : call'[q] = call[q]
    BY <1>1, <1>7 DEF SendEntry, Working, Goto, CallState
  <2>2. InHandOf(call, p) = 0 /\ call'[p].pending = 0
    BY <1>1, <2>1 DEF InHandOf
  <2>3. CASE call'[p].at = "idle" /\ untold' = untold
    <3>1. InHandOf(call', p) = 0
      BY <2>2, <2>3 DEF InHandOf
    <3>2. QED
      BY <1>1, <2>1, <2>2, <2>3, <3>1
  <2>4. CASE call'[p].at = "count" /\ untold' = untold + 1
    <3>1. InHandOf(call', p) = 1
      BY <2>2, <2>4 DEF InHandOf
    <3>2. QED
      BY <1>1, <2>1, <2>2, <2>4, <3>1
  <2>5. QED
    BY <2>1, <2>3, <2>4
<1>8. CASE CountDrop(p)
  <2>1. /\ call[p].at = "count" /\ call'[p].at = "idle" /\ call'[p].pending = call[p].pending
        /\ untold' = untold /\ dropped_logs' = dropped_logs + 1
        /\ \A q \in Callers \ {p} : call'[q] = call[q]
    BY <1>1, <1>8 DEF CountDrop, Working, Goto, CallState
  <2>2. QED
    BY <1>1, <2>1 DEF InHandOf
<1>9. CASE InstallLogger(p) \/ \E l \in Logs : DefSystemLog(p, l)
  <2>1. /\ call[p].at \in {"idle", "install"}
        /\ \/ call' = [call EXCEPT ![p].at = "idle"]
           \/ \E l \in Logs : call' = [call EXCEPT ![p].at = "install", ![p].log = l]
        /\ untold' = untold /\ dropped_logs' = dropped_logs
    BY <1>9 DEF InstallLogger, DefSystemLog, Calling, Working, Goto
  <2>2. /\ call'[p].at \in {"idle", "install"} /\ call'[p].pending = call[p].pending
        /\ \A q \in Callers \ {p} : call'[q] = call[q]
    BY <1>1, <2>1 DEF CallState
  <2>3. QED
    BY <1>1, <2>1, <2>2 DEF InHandOf
<1>10. QED
  BY <1>4, <1>5, <1>6, <1>7, <1>8, <1>9 DEF LogStep

(* Everything else leaves the counts alone. *)
LEMMA OthersCountNothing ==
  ASSUME \/ \E p \in Producers : Flush(p) \/ SetRules(p) \/ \E l \in Logs : Def(p, l) \/ LogBundle(p, l)
         \/ Handling \/ WriterTick \/ CleanUpTick \/ Receive
         \/ (\E l \in Logs : Attempt(l)) \/ FlushAgain \/ EndPass \/ EndTask
         \/ Environment \/ UNCHANGED vars
  PROVE  UNCHANGED <<call, dropped_logs, untold>>
<1> USE DEF callers
<1>1. CASE \E p \in Producers : Flush(p) \/ SetRules(p) \/ \E l \in Logs : Def(p, l) \/ LogBundle(p, l)
  BY <1>1 DEF Flush, SetRules, Def, LogBundle
<1>2. CASE Handling
  BY <1>2 DEF Handling, GetInfo, SendStop, TakeHandle, Join, DropHandles
<1>3. CASE WriterTick \/ CleanUpTick
  BY <1>3 DEF WriterTick, CleanUpTick
<1>4. CASE Receive
  BY <1>4 DEF Receive, ReceiveLog, ReceiveDefinition, ReceiveBundle, ReceiveRules, ReceiveFlush,
              ReceiveGetInfo, ReceiveStop, ChannelClosed, Take
<1>5. CASE (\E l \in Logs : Attempt(l)) \/ FlushAgain \/ EndPass \/ EndTask
  BY <1>5 DEF Attempt, SkipFile, WriteFile, WriteFileFails, WriteFileTimesOut, FlushAgain, EndPass,
              EndTask
<1>6. CASE Environment \/ UNCHANGED vars
  BY <1>6 DEF Environment, WriterTickFires, CleanUpTickFires, FlushIntervalElapses, DeadlinePasses,
              DiskBreaks, DiskRecovers, Elapse, vars
<1>7. QED
  BY <1>1, <1>2, <1>3, <1>4, <1>5, <1>6

(* A pass begins with no entry of the worker's under way, and goes on only
   when there is none. *)
LEMMA StepWorkerLogs ==
  ASSUME IInv, WorkerLogs, [Next]_vars
  PROVE  WorkerLogs'
<1>1. worker \in WorkerState /\ call \in [Callers -> CallState] /\ Worker \in Callers
      /\ Worker \notin Producers
  BY StorageNow, CallsFitNow, OpLogAssumption DEF CallsFit, Callers, OpLogAssumption
<1>2. CASE Producing
  <2>1. UNCHANGED worker /\ call'[Worker] = call[Worker]
    <3>1. PICK p \in Producers :
            \/ LogStep(p) \/ InstallLogger(p) \/ Flush(p) \/ SetRules(p)
            \/ \E l \in Logs : Log(p, l) \/ Def(p, l) \/ LogBundle(p, l) \/ DefSystemLog(p, l)
      BY <1>2 DEF Producing
    <3>2. UNCHANGED worker
      BY <3>1 DEF LogStep, SendNotice, RestoreCount, SendEntry, CountDrop, InstallLogger, Flush,
                  SetRules, Log, TakeCount, Def, LogBundle, DefSystemLog, storage
    <3>3. \/ UNCHANGED call
          \/ \E c : call' = [call EXCEPT ![p] = c]
      BY <3>1 DEF LogStep, SendNotice, RestoreCount, SendEntry, CountDrop, InstallLogger, Flush,
                  SetRules, Log, TakeCount, Def, LogBundle, DefSystemLog, Goto, callers
    <3>4. QED
      BY <1>1, <3>2, <3>3
  <2>2. QED
    BY <2>1 DEF WorkerLogs
<1>3. CASE Report
  BY <1>1, <1>3 DEF Report, WorkerLogs, WorkerState
<1>4. CASE LogStep(Worker)
  <2>1. UNCHANGED worker /\ call[Worker].at # "idle"
    BY <1>4 DEF LogStep, SendNotice, RestoreCount, SendEntry, CountDrop, Working
  <2>2. QED
    BY <2>1 DEF WorkerLogs
<1>5. CASE Handling \/ Environment \/ UNCHANGED vars
  <2>1. UNCHANGED call
    BY <1>5, OthersCountNothing
  <2>2. worker' = worker \/ worker' = [worker EXCEPT !.late = TRUE]
    BY <1>5 DEF Handling, GetInfo, SendStop, TakeHandle, Join, DropHandles, Environment,
                WriterTickFires, CleanUpTickFires, FlushIntervalElapses, DeadlinePasses,
                DiskBreaks, DiskRecovers, Elapse, vars
  <2>3. worker'.at = worker.at
    BY <1>1, <2>2 DEF WorkerState
  <2>4. QED
    BY <2>1, <2>3 DEF WorkerLogs
<1>6. CASE WriterTick \/ CleanUpTick \/ Receive
  <2>1. UNCHANGED call
    BY <1>6, OthersCountNothing
  <2>2. worker.at = "select"
    BY <1>6 DEF WriterTick, CleanUpTick, Receive, ReceiveLog, ReceiveDefinition, ReceiveBundle,
                ReceiveRules, ReceiveFlush, ReceiveGetInfo, ReceiveStop, ChannelClosed, Take, Select
  <2>3. QED
    BY <2>1, <2>2 DEF WorkerLogs
<1>7. CASE (\E l \in Logs : Attempt(l)) \/ FlushAgain \/ EndPass \/ EndTask
  <2>1. UNCHANGED call
    BY <1>7, OthersCountNothing
  <2>2. call[Worker].at = "idle"
    BY <1>7 DEF Attempt, SkipFile, WriteFile, WriteFileFails, WriteFileTimesOut, Attempting,
                FlushAgain, EndPass, EndTask, Flushing, Passing, Working
  <2>3. QED
    BY <2>1, <2>2 DEF WorkerLogs
<1>8. QED
  BY <1>2, <1>3, <1>4, <1>5, <1>6, <1>7 DEF Next, WorkerStep, PassStep

LEMMA StepCounts ==
  ASSUME IInv, CountInv, [Next]_vars
  PROVE  CountInv'
<1>1. IInv'
  BY StepIInv
<1>2. SUFFICES DropsAccounted' /\ HeldInv'
  BY StepWorkerLogs DEF CountInv
<1>3. Producers \subseteq Callers /\ Worker \in Callers
  BY DEF Callers
<1>4. ASSUME UNCHANGED <<call, dropped_logs, untold>> PROVE DropsAccounted' /\ HeldInv'
  BY <1>4, AccountedNow, AccountedNext DEF CountInv, HeldInv
<1>5. CASE Producing
  <2>1. PICK p \in Producers :
          \/ LogStep(p) \/ InstallLogger(p) \/ Flush(p) \/ SetRules(p)
          \/ \E l \in Logs : Log(p, l) \/ Def(p, l) \/ LogBundle(p, l) \/ DefSystemLog(p, l)
    BY <1>5 DEF Producing
  <2>2. p \in Callers
    BY <1>3
  <2>3. CASE Flush(p) \/ SetRules(p) \/ \E l \in Logs : Def(p, l) \/ LogBundle(p, l)
    BY <1>4, <2>3, OthersCountNothing
  <2>4. CASE LogStep(p) \/ InstallLogger(p) \/ \E l \in Logs : DefSystemLog(p, l)
    BY <1>1, <2>2, <2>4, SendersCount
  <2>5. ASSUME NEW l \in Logs, Log(p, l) PROVE DropsAccounted' /\ HeldInv'
    <3>1. TakeCount(p, l) /\ call[p].at = "idle"
      BY <2>5 DEF Log, MayLog, Working
    <3>2. QED
      BY <1>1, <2>2, <3>1, SendersCount
  <2>6. QED
    BY <2>1, <2>3, <2>4, <2>5
<1>6. CASE Report
  <2>1. call[Worker].at = "idle"
    BY <1>6 DEF Report, CountInv, WorkerLogs
  <2>2. TakeCount(Worker, logger) /\ logger \in Logs
    BY <1>6, StorageNow DEF Report, Ours
  <2>3. QED
    BY <1>1, <1>3, <2>1, <2>2, SendersCount
<1>7. CASE LogStep(Worker)
  BY <1>1, <1>3, <1>7, SendersCount
<1>8. CASE \/ Handling \/ WriterTick \/ CleanUpTick \/ Receive
           \/ (\E l \in Logs : Attempt(l)) \/ FlushAgain \/ EndPass \/ EndTask
           \/ Environment \/ UNCHANGED vars
  BY <1>4, <1>8, OthersCountNothing
<1>9. QED
  BY <1>5, <1>6, <1>7, <1>8 DEF Next, WorkerStep, PassStep

LEMMA InitCounts == Init => CountInv
<1> SUFFICES ASSUME Init PROVE CountInv
  OBVIOUS
<1>1. /\ call = [p \in Callers |-> [at |-> "idle", pending |-> 0, log |-> "none"]]
      /\ untold = 0 /\ dropped_logs = 0 /\ Worker \in Callers
  BY DEF Init, Callers
<1> DEFINE h == InHands(call)
<1>2. DOMAIN h = Callers /\ \A p \in Callers : h[p] = 0
  BY <1>1 DEF InHands, InHandOf
<1> HIDE DEF h
<1>3. SumFunctionOnSet(h, Callers) = 0
  BY <1>2, CallersFinite, SumZero
<1>4. SumFunction(h) = 0
  BY <1>2, <1>3 DEF SumFunction
<1>5. DropsAccounted
  BY <1>1, <1>4, AccountedNow DEF h
<1>6. HeldInv /\ WorkerLogs
  BY <1>1 DEF HeldInv, WorkerLogs
<1>7. QED
  BY <1>5, <1>6 DEF CountInv

(* Whatever calls overlap, and whether the channel takes a notice or not, every
   entry of log() the full channel refused is in the shared count, in the hands
   of a call between its swap and its notice or fetch_add, or told of. *)
THEOREM RefusedAreCounted == Spec => []DropsAccounted
<1>1. Init => CountInv
  BY InitCounts
<1>2. IInv /\ CountInv /\ [Next]_vars => CountInv'
  BY StepCounts
<1>3. CountInv => DropsAccounted
  BY DEF CountInv
<1>4. QED
  BY <1>1, <1>2, <1>3, Invariance, PTL DEF Spec

=============================================================================
