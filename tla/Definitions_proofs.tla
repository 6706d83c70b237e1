--------------------------- MODULE Definitions_proofs ---------------------------
(***************************************************************************)
(* Proofs about Definitions, for any names, settings, dates and queues.    *)
(***************************************************************************)
EXTENDS Definitions, SequenceTheorems, WellFoundedInduction, TLAPS

----------------------------------------------------------------------------
(* What a definition is, with its queues *)

Key == Seq(Tokens)

FileMaps == UNION {[K -> LogFile] : K \in SUBSET Key}

Definition ==
  [path : Key, log_type : LogTypes, options : SUBSET Options, header : STRING,
   auto_remove_definition : BOOLEAN, last_time_use : 0 .. Idle, files : FileMaps]

(* The key and the stamp came from the name, the date and one definition: it
   may have had settings that have changed since. *)
Dated(n, k, e) ==
  \E d \in Definition :
    /\ k = FileName(n, d, e.date)
    /\ e.stamp # <<>> => e.stamp = format_date_in_log(d.log_type, e.date)

Named(n, k) == \E d \in Definition, t \in Dates : k = FileName(n, d, t)

(* A queue is within its cap, owes no report when it is empty, and holds
   entries that belong into the file. *)
GoodQueue(n, k, file) ==
  /\ file \in LogFile
  /\ Len(file.logs) <= QueueCap
  /\ file.logs = <<>> => file.dropped = 0
  /\ \A i \in DOMAIN file.logs : Dated(n, k, file.logs[i])

Good(n, d) ==
  /\ d \in Definition
  /\ \A k \in DOMAIN d.files : Named(n, k) /\ GoodQueue(n, k, d.files[k])

AllGood(defs) == DOMAIN defs \subseteq Names /\ \A n \in DOMAIN defs : Good(n, defs[n])

LEMMA FileMapType ==
  ASSUME NEW fs \in FileMaps
  PROVE  /\ DOMAIN fs \subseteq Key /\ fs = [k \in DOMAIN fs |-> fs[k]]
         /\ \A k \in DOMAIN fs : fs[k] \in LogFile
BY DEF FileMaps

LEMMA IsFileMap ==
  ASSUME NEW K \in SUBSET Key, NEW fs, fs = [k \in K |-> fs[k]],
         \A k \in K : fs[k] \in LogFile
  PROVE  fs \in FileMaps /\ DOMAIN fs = K
<1>1. fs \in [K -> LogFile]
  OBVIOUS
<1>2. QED
  BY <1>1 DEF FileMaps

----------------------------------------------------------------------------
(* The period and the stamp *)

LEMMA CalendarType ==
  ASSUME NEW t \in Dates
  PROVE  /\ Calendar[t].year \in Tokens /\ Calendar[t].month \in Tokens
         /\ Calendar[t].day \in Tokens /\ Calendar[t].hour \in Tokens
         /\ Calendar[t].minute \in Tokens /\ Calendar[t] \in LocalTime
BY DefinitionsAssumption DEF DefinitionsAssumption, LocalTime

LEMMA StampType ==
  ASSUME NEW type \in LogTypes, NEW t \in Dates
  PROVE  format_date_in_log(type, t) \in Seq(Tokens)
<1>1. /\ Calendar[t].day \in Tokens /\ Calendar[t].hour \in Tokens
      /\ Calendar[t].minute \in Tokens
  BY CalendarType
<1>2. \A a, b, c \in Tokens : /\ <<>> \in Seq(Tokens) /\ <<a, b>> \in Seq(Tokens)
                              /\ <<a, b, c>> \in Seq(Tokens)
  OBVIOUS
<1>3. QED
  BY <1>1, <1>2 DEF LogTypes, format_date_in_log, TIME_IN_LOG, DAY_AND_TIME_IN_LOG

(* The stamp has what the period leaves out. *)
LEMMA PeriodAndStampTellTime ==
  ASSUME NEW type \in LogTypes, NEW t1 \in Dates, NEW t2 \in Dates, type # "NoSplit",
         format_date_in_log(type, t1) = format_date_in_log(type, t2),
         format_date_in_path(type, t1) = format_date_in_path(type, t2)
  PROVE  Calendar[t1] = Calendar[t2]
<1> DEFINE a == Calendar[t1]
           b == Calendar[t2]
<1>1. a \in LocalTime /\ b \in LocalTime
  BY CalendarType
<1>2. SUFFICES /\ a.year = b.year /\ a.month = b.month /\ a.day = b.day
               /\ a.hour = b.hour /\ a.minute = b.minute
  BY <1>1 DEF LocalTime
<1> USE DEF format_date_in_log, format_date_in_path, TIME_IN_LOG,
     DAY_AND_TIME_IN_LOG, HOUR_IN_PATH, DAY_IN_PATH, MONTH_IN_PATH
<1>3. CASE type = "PerMonth"
  BY <1>3
<1>4. CASE type = "PerDay"
  BY <1>4
<1>5. CASE type = "PerHour"
  BY <1>5
<1>6. QED
  BY <1>3, <1>4, <1>5 DEF LogTypes

----------------------------------------------------------------------------
(* Names and paths.  The solvers see sequences only through these lemmas. *)

Cat(u, v)  == u \o v
NoSlash(u) == "/" \notin Range(u)

Slash == <<"/">>
Bar   == <<"_">>
Dot   == <<".log">>

LEMMA CatAt ==
  ASSUME NEW u \in Key, NEW v \in Key
  PROVE  /\ Cat(u, v) \in Key /\ Len(Cat(u, v)) = Len(u) + Len(v)
         /\ \A i \in 1 .. Len(u) : Cat(u, v)[i] = u[i]
         /\ \A i \in 1 .. Len(v) : Cat(u, v)[Len(u) + i] = v[i]
<1>1. Len(u) \in Nat /\ Len(v) \in Nat
  BY LenProperties DEF Key
<1>2. /\ u \o v \in Key /\ Len(u \o v) = Len(u) + Len(v)
      /\ \A i \in 1 .. Len(u) + Len(v) : (u \o v)[i] =
                     IF i <= Len(u) THEN u[i] ELSE v[i - Len(u)]
  BY ConcatProperties DEF Key
<1>3. ASSUME NEW i \in 1 .. Len(v) PROVE (u \o v)[Len(u) + i] = v[i]
  <2>1. Len(u) + i \in 1 .. Len(u) + Len(v) /\ ~(Len(u) + i <= Len(u)) /\ (Len(u) + i) - Len(u) = i
    BY <1>1
  <2>2. QED
    BY <1>2, <2>1
<1>4. \A i \in 1 .. Len(u) : i \in 1 .. Len(u) + Len(v) /\ i <= Len(u)
  BY <1>1
<1>5. QED
  BY <1>2, <1>3, <1>4 DEF Cat

LEMMA CatLen ==
  ASSUME NEW u \in Key, NEW v \in Key
  PROVE  Cat(u, v) \in Key /\ Len(Cat(u, v)) = Len(u) + Len(v)
BY CatAt, Zenon

LEMMA CatLeft ==
  ASSUME NEW u \in Key, NEW v \in Key, NEW i, i \in 1 .. Len(u)
  PROVE  Cat(u, v)[i] = u[i]
BY CatAt, Zenon

RightIs(u, v) == \A i \in 1 .. Len(v) : Cat(u, v)[Len(u) + i] = v[i]

LEMMA CatRight ==
  ASSUME NEW u \in Key, NEW v \in Key
  PROVE  RightIs(u, v)
BY CatAt DEF RightIs

LEMMA AssociativeIn ==
  ASSUME NEW S, NEW u \in Seq(S), NEW v \in Seq(S), NEW w \in Seq(S)
  PROVE  (u \o v) \o w = u \o (v \o w)
BY ONLY ConcatAssociative

LEMMA CatAssociative ==
  ASSUME NEW u \in Key, NEW v \in Key, NEW w \in Key
  PROVE  Cat(Cat(u, v), w) = Cat(u, Cat(v, w))
<1>1. u \in Seq(Tokens) /\ v \in Seq(Tokens) /\ w \in Seq(Tokens)
  BY Zenon DEF Key
<1>2. (u \o v) \o w = u \o (v \o w)
  BY ONLY <1>1, AssociativeIn
<1>3. QED
  BY Zenon, <1>2 DEF Cat

LEMMA NoSlashCat ==
  ASSUME NEW u \in Key, NEW v \in Key
  PROVE  NoSlash(Cat(u, v)) <=> NoSlash(u) /\ NoSlash(v)
<1>1. Range(u \o v) = Range(u) \cup Range(v)
  BY RangeConcatenation DEF Key
<1>2. QED
  BY <1>1 DEF NoSlash, Cat

LEMMA KeyProperties ==
  ASSUME NEW u \in Key
  PROVE  /\ Len(u) \in Nat /\ DOMAIN u = 1 .. Len(u)
         /\ NoSlash(u) <=> \A i \in 1 .. Len(u) : u[i] # "/"
<1>1. Len(u) \in Nat /\ DOMAIN u = 1 .. Len(u)
  BY LenProperties DEF Key
<1>2. QED
  BY <1>1 DEF NoSlash, Range

LEMMA SameKey ==
  ASSUME NEW u \in Key, NEW v \in Key, Len(u) = Len(v),
         \A i \in 1 .. Len(u) : u[i] = v[i]
  PROVE  u = v
BY SeqEqual, Zenon DEF Key

LEMMA OneToken ==
  ASSUME NEW x \in Tokens
  PROVE  <<x>> \in Key /\ Len(<<x>>) = 1 /\ <<x>>[1] = x
<1>1. <<x>> \in Key
  BY DEF Key
<1>2. Len(<<x>>) = 1
  OBVIOUS
<1>3. <<x>>[1] = x
  OBVIOUS
<1>4. QED
  BY <1>1, <1>2, <1>3

LEMMA Separators ==
  /\ Slash \in Key /\ Len(Slash) = 1 /\ Slash[1] = "/"
  /\ Bar \in Key /\ Len(Bar) = 1 /\ NoSlash(Bar)
  /\ Dot \in Key /\ Len(Dot) = 1 /\ NoSlash(Dot)
<1>1. "/" \in Tokens /\ "_" \in Tokens /\ ".log" \in Tokens
  BY Zenon, DefinitionsAssumption DEF DefinitionsAssumption
<1>a. "/" # "_"
  BY Zenon
<1>c. "/" # ".log"
  BY Zenon
<1>b. 1 .. 1 = {1}
  OBVIOUS
<1>2. Slash \in Key /\ Len(Slash) = 1 /\ Slash[1] = "/"
  BY <1>1, OneToken, Zenon DEF Slash
<1>3. Bar \in Key /\ Len(Bar) = 1 /\ Bar[1] = "_"
  BY <1>1, OneToken, Zenon DEF Bar
<1>4. Dot \in Key /\ Len(Dot) = 1 /\ Dot[1] = ".log"
  BY <1>1, OneToken, Zenon DEF Dot
<1>5. NoSlash(Bar) /\ NoSlash(Dot)
  BY <1>a, <1>b, <1>c, <1>3, <1>4, KeyProperties, Zenon
<1>6. QED
  BY <1>2, <1>3, <1>4, <1>5

LEMMA SameEnd ==
  ASSUME NEW u \in Key, NEW v \in Key, NEW s \in Key, NEW t \in Key,
         Len(s) = Len(t), Cat(u, s) = Cat(v, t)
  PROVE  u = v /\ s = t
<1>1. Len(u) \in Nat /\ Len(v) \in Nat /\ Len(s) \in Nat
  BY KeyProperties
<1>2. Len(Cat(u, s)) = Len(u) + Len(s) /\ Len(Cat(v, t)) = Len(v) + Len(t)
  BY CatLen
<1>3. Len(u) = Len(v)
  BY <1>1, <1>2
<1>4. ASSUME NEW i \in 1 .. Len(u) PROVE u[i] = v[i]
  <2>1. Cat(u, s)[i] = u[i]
    BY Zenon, CatLeft
  <2>2. Cat(v, t)[i] = v[i]
    BY Zenon, <1>3, CatLeft
  <2>3. QED
    BY Zenon, <2>1, <2>2
<1>5. ASSUME NEW i \in 1 .. Len(s) PROVE s[i] = t[i]
  <2>0. RightIs(u, s) /\ RightIs(v, t)
    BY CatRight
  <2>1. Cat(u, s)[Len(u) + i] = s[i]
    BY <2>0 DEF RightIs
  <2>2. Cat(v, t)[Len(v) + i] = t[i]
    BY <2>0 DEF RightIs
  <2>3. QED
    BY Zenon, <1>3, <2>1, <2>2
<1>6. QED
  BY <1>3, <1>4, <1>5, SameKey

LEMMA SameStart ==
  ASSUME NEW u \in Key, NEW s \in Key, NEW t \in Key, Cat(u, s) = Cat(u, t)
  PROVE  s = t
<1>1. Len(u) \in Nat /\ Len(s) \in Nat /\ Len(t) \in Nat
  BY KeyProperties
<1>2. Len(Cat(u, s)) = Len(u) + Len(s) /\ Len(Cat(u, t)) = Len(u) + Len(t)
  BY CatLen
<1>3. Len(s) = Len(t)
  BY <1>1, <1>2
<1>4. QED
  BY <1>3, SameEnd

LEMMA UnderSlash ==
  ASSUME NEW a \in Key
  PROVE  Cat(a, Slash) \in Key /\ Len(Cat(a, Slash)) = Len(a) + 1
         /\ Cat(a, Slash)[Len(a) + 1] = "/"
<1>1. 1 \in 1 .. Len(Slash) /\ Slash \in Key
  BY Separators
<1>2. Cat(a, Slash)[Len(a) + 1] = Slash[1]
  <2>1. RightIs(a, Slash)
    BY <1>1, CatRight
  <2>2. QED
    BY <1>1, <2>1 DEF RightIs
<1>3. QED
  BY <1>2, Separators, CatLen

(* Where the last slash is, is determined by the tokens. *)
LEMMA LastSlashIsLater ==
  ASSUME NEW a \in Key, NEW b \in Key, NEW c \in Key, NEW d \in Key,
         NoSlash(b), Cat(Cat(a, Slash), b) = Cat(Cat(c, Slash), d)
  PROVE  ~(Len(a) < Len(c))
<1> SUFFICES ASSUME Len(a) < Len(c) PROVE FALSE
  OBVIOUS
<1> DEFINE as == Cat(a, Slash)
           cs == Cat(c, Slash)
<1>1. /\ as \in Key /\ Len(as) = Len(a) + 1 /\ cs \in Key /\ Len(cs) = Len(c) + 1
      /\ cs[Len(c) + 1] = "/"
  BY UnderSlash
<1>2. Cat(as, b) = Cat(cs, d)
  OBVIOUS
<1> HIDE DEF as, cs
<1>3. Len(a) \in Nat /\ Len(b) \in Nat /\ Len(c) \in Nat /\ Len(d) \in Nat
  BY KeyProperties
<1>a. Len(Cat(as, b)) = Len(as) + Len(b)
  BY Zenon, <1>1, CatLen
<1>b. Len(Cat(cs, d)) = Len(cs) + Len(d)
  BY Zenon, <1>1, CatLen
<1>4. Len(as) + Len(b) = Len(cs) + Len(d)
  BY Zenon, <1>2, <1>a, <1>b
<1> DEFINE i == Len(c) - Len(a)
<1>5. i \in 1 .. Len(b) /\ Len(as) + i = Len(c) + 1 /\ Len(c) + 1 \in 1 .. Len(cs)
  BY <1>1, <1>3, <1>4
<1> HIDE DEF i
<1>6. Cat(as, b)[Len(as) + i] = b[i]
  <2>1. RightIs(as, b)
    BY <1>1, CatRight
  <2>2. QED
    BY <1>5, <2>1 DEF RightIs
<1>7. Cat(cs, d)[Len(c) + 1] = "/"
  BY <1>1, <1>5, CatLeft
<1>8. b[i] # "/"
  BY <1>5, KeyProperties
<1>9. QED
  BY <1>2, <1>5, <1>6, <1>7, <1>8

LEMMA LastSlash ==
  ASSUME NEW a \in Key, NEW b \in Key, NEW c \in Key, NEW d \in Key,
         NoSlash(b), NoSlash(d), Cat(Cat(a, Slash), b) = Cat(Cat(c, Slash), d)
  PROVE  b = d
<1>1. ~(Len(a) < Len(c)) /\ ~(Len(c) < Len(a))
  BY LastSlashIsLater
<1>2. Len(a) \in Nat /\ Len(b) \in Nat /\ Len(c) \in Nat /\ Len(d) \in Nat
  BY KeyProperties
<1> DEFINE as == Cat(a, Slash)
           cs == Cat(c, Slash)
<1>3. as \in Key /\ Len(as) = Len(a) + 1 /\ cs \in Key /\ Len(cs) = Len(c) + 1
  BY UnderSlash
<1>4. Cat(as, b) = Cat(cs, d)
  OBVIOUS
<1> HIDE DEF as, cs
<1>a. Len(Cat(as, b)) = Len(as) + Len(b)
  BY Zenon, <1>3, CatLen
<1>b. Len(Cat(cs, d)) = Len(cs) + Len(d)
  BY Zenon, <1>3, CatLen
<1>5. Len(as) + Len(b) = Len(cs) + Len(d)
  BY Zenon, <1>4, <1>a, <1>b
<1>6. Len(b) = Len(d)
  BY <1>1, <1>2, <1>3, <1>5
<1>7. ASSUME NEW u \in Key, NEW v \in Key, Cat(u, b) = Cat(v, d)
      PROVE  b = d
  BY <1>6, <1>7, SameEnd
<1>8. QED
  BY <1>3, <1>4, <1>7

LEMMA Cut ==
  ASSUME NEW u \in Key, NEW m \in 1 .. Len(u)
  PROVE  \E b, r \in Key :
           /\ u = Cat(Cat(b, <<u[m]>>), r) /\ Len(r) = Len(u) - m
           /\ \A j \in 1 .. Len(r) : r[j] = u[m + j]
<1> DEFINE b == SubSeq(u, 1, m - 1)
           r == SubSeq(u, m + 1, Len(u))
           c == <<u[m]>>
           bs == Cat(b, c)
<1>1. Len(u) \in Nat /\ DOMAIN u = 1 .. Len(u) /\ \A j \in 1 .. Len(u) : u[j] \in Tokens
  BY LenProperties, ElementOfSeq DEF Key
<1>2. /\ b \in Key /\ Len(b) = m - 1 /\ \A j \in 1 .. m - 1 : b[j] = u[j]
  <2>1. \A j \in 1 .. m - 1 : u[j] \in Tokens
    BY <1>1
  <2>2. m - 1 \in Int /\ 1 \in Int /\ (IF 1 <= m - 1 THEN m - 1 - 1 + 1 ELSE 0) = m - 1
    BY <1>1
  <2>3. /\ b \in Seq(Tokens)
        /\ Len(b) = IF 1 <= m - 1 THEN m - 1 - 1 + 1 ELSE 0
        /\ \A j \in 1 .. m - 1 - 1 + 1 : b[j] = u[1 + j - 1]
    BY <2>1, <2>2, SubSeqProperties
  <2>4. \A j \in 1 .. m - 1 : j \in 1 .. m - 1 - 1 + 1 /\ 1 + j - 1 = j
    BY <1>1
  <2> HIDE DEF b
  <2>5. QED
    BY <2>2, <2>3, <2>4 DEF Key
<1>3. /\ r \in Key /\ Len(r) = Len(u) - m /\ \A j \in 1 .. Len(u) - m : r[j] = u[m + j]
  <2>1. \A j \in m + 1 .. Len(u) : u[j] \in Tokens
    BY <1>1
  <2>2. m + 1 \in Int /\ Len(u) \in Int
    BY <1>1
  <2>3. (IF m + 1 <= Len(u) THEN Len(u) - (m + 1) + 1 ELSE 0) = Len(u) - m
    <3>1. \A n \in Nat : \A l \in 1 .. n : l + 1 <= n \/ (l = n /\ ~(l + 1 <= n) /\ n - l = 0)
      OBVIOUS
    <3>2. Len(u) - (m + 1) + 1 = Len(u) - m
      BY <1>1
    <3>3. QED
      BY <1>1, <3>1, <3>2
  <2>4. /\ r \in Seq(Tokens)
        /\ Len(r) = IF m + 1 <= Len(u) THEN Len(u) - (m + 1) + 1 ELSE 0
        /\ \A j \in 1 .. Len(u) - (m + 1) + 1 : r[j] = u[(m + 1) + j - 1]
    BY <2>1, <2>2, SubSeqProperties
  <2>5. \A j \in 1 .. Len(u) - m : j \in 1 .. Len(u) - (m + 1) + 1 /\ (m + 1) + j - 1 = m + j
    BY <1>1
  <2> HIDE DEF r
  <2>6. QED
    BY <2>3, <2>4, <2>5 DEF Key
<1>4. c \in Key /\ Len(c) = 1 /\ c[1] = u[m]
  <2>1. u[m] \in Tokens
    BY <1>1
  <2>2. QED
    BY Zenon, <2>1, OneToken
<1> HIDE DEF b, r, c
<1>5. /\ bs \in Key /\ Len(bs) = m /\ \A j \in 1 .. m : bs[j] = u[j]
  <2>1. 1 \in 1 .. Len(c) /\ (m - 1) + 1 = m
    BY <1>1, <1>4
  <2>2. bs \in Key /\ Len(bs) = m
    BY <1>2, <1>4, <2>1, CatLen
  <2>3. ASSUME NEW j \in 1 .. m PROVE bs[j] = u[j]
    <3>1. CASE j = m
      <4>1. bs[Len(b) + 1] = c[1]
        <5>1. RightIs(b, c)
          BY <1>2, <1>4, CatRight
        <5>2. QED
          BY <2>1, <5>1 DEF RightIs
      <4>2. QED
        BY <1>2, <1>4, <2>1, <3>1, <4>1
    <3>2. CASE j # m
      <4>1. j \in 1 .. m - 1
        BY <1>1, <3>2
      <4>2. bs[j] = b[j]
        BY Zenon, <1>2, <1>4, <4>1, CatLeft
      <4>3. QED
        BY <1>2, <4>1, <4>2
    <3>3. QED
      BY <3>1, <3>2
  <2>4. QED
    BY <2>2, <2>3
<1> HIDE DEF bs
<1>6. Cat(bs, r) \in Key /\ Len(Cat(bs, r)) = Len(u)
  <2>1. m + (Len(u) - m) = Len(u)
    BY <1>1
  <2>2. QED
    BY <1>3, <1>5, <2>1, CatLen
<1>7. ASSUME NEW j \in 1 .. Len(u) PROVE u[j] = Cat(bs, r)[j]
  <2>1. CASE j \in 1 .. m
    <3>1. Cat(bs, r)[j] = bs[j]
      BY <1>3, <1>5, <2>1, CatLeft
    <3>2. QED
      BY <1>5, <2>1, <3>1
  <2>2. CASE j \notin 1 .. m
    <3>1. j - m \in 1 .. Len(u) - m /\ m + (j - m) = j
      BY <1>1, <2>2
    <3>2. j = Len(bs) + (j - m) /\ j - m \in 1 .. Len(r)
      BY <1>3, <1>5, <3>1
    <3>2a. Cat(bs, r)[j] = r[j - m]
      <4>1. RightIs(bs, r)
        BY <1>3, <1>5, CatRight
      <4>2. QED
        BY <1>3, <3>2, <4>1 DEF RightIs
    <3>3. QED
      BY <1>3, <3>1, <3>2a
  <2>3. QED
    BY <2>1, <2>2
<1>8. u = Cat(bs, r)
  BY <1>6, <1>7, SameKey
<1>9. QED
  BY Zenon, <1>2, <1>3, <1>8 DEF bs, c

(* Whatever directory a name is put under, and whatever follows it, the part
   behind the last slash starts with the same tokens. *)
LEMMA BehindTheSlash ==
  ASSUME NEW n \in Key
  PROVE  \E r \in Key : /\ NoSlash(r)
                        /\ \A p, s \in Key : \E a \in Key :
                             Cat(Cat(p, Slash), Cat(n, s)) = Cat(Cat(a, Slash), Cat(r, s))
<1>1. CASE NoSlash(n)
  BY Zenon, <1>1
<1>2. CASE ~NoSlash(n)
  <2> DEFINE S == {j \in Nat : j < Len(n) /\ n[Len(n) - j] = "/"}
  <2>1. Len(n) \in Nat /\ DOMAIN n = 1 .. Len(n)
    BY KeyProperties
  <2>2. PICK x \in 1 .. Len(n) : n[x] = "/"
    BY <1>2, KeyProperties
  <2>3. Len(n) - x \in S
    <3>1. Len(n) - x \in Nat /\ Len(n) - x < Len(n) /\ Len(n) - (Len(n) - x) = x
      BY <2>1
    <3>2. QED
      BY <2>2, <3>1
  <2>4. PICK i \in S : \A j \in S : ~(<<j, i>> \in OpToRel(<, Nat))
    BY <2>3, NatLessThanWellFounded, WFMin
  <2>5. \A j \in S : ~(j < i)
    BY <2>4 DEF OpToRel
  <2>6. i \in Nat /\ i < Len(n) /\ n[Len(n) - i] = "/"
    OBVIOUS
  <2> DEFINE m == Len(n) - i
  <2>7. m \in 1 .. Len(n) /\ n[m] = "/"
    BY <2>1, <2>6
  <2>8. ASSUME NEW j \in (m + 1) .. Len(n) PROVE n[j] # "/"
    <3>1. SUFFICES ASSUME n[j] = "/" PROVE FALSE
      OBVIOUS
    <3>2. Len(n) - j \in Nat /\ Len(n) - j < Len(n) /\ Len(n) - (Len(n) - j) = j /\ Len(n) - j < i
      BY <2>1, <2>6
    <3>3. Len(n) - j \in S
      BY <3>1, <3>2
    <3>4. QED
      BY <2>5, <3>2, <3>3
  <2> HIDE DEF S, m
  <2>9. PICK b \in Key, r \in Key : /\ n = Cat(Cat(b, <<n[m]>>), r) /\ Len(r) = Len(n) - m
                                    /\ \A j \in 1 .. Len(r) : r[j] = n[m + j]
    BY <2>7, Cut
  <2>10. n = Cat(Cat(b, Slash), r)
    BY Zenon, <2>7, <2>9 DEF Slash
  <2>11. NoSlash(r)
    <3>1. \A j \in 1 .. Len(n) - m : m + j \in (m + 1) .. Len(n)
      BY <2>1, <2>7
    <3>2. QED
      BY <2>8, <2>9, <3>1, KeyProperties
  <2>12. ASSUME NEW p \in Key, NEW s \in Key
         PROVE  \E a \in Key :
                  Cat(Cat(p, Slash), Cat(n, s)) = Cat(Cat(a, Slash), Cat(r, s))
    <3> DEFINE ps == Cat(p, Slash)
               bs == Cat(b, Slash)
               rs == Cat(r, s)
    <3>1. ps \in Key /\ bs \in Key /\ rs \in Key
      BY UnderSlash, CatLen
    <3>2. Cat(n, s) = Cat(bs, rs)
      BY <2>10, <3>1, CatAssociative
    <3>3. Cat(Cat(ps, b), Slash) = Cat(ps, bs)
      BY <3>1, Separators, CatAssociative
    <3> HIDE DEF ps, bs, rs
    <3>4. Cat(ps, Cat(bs, rs)) = Cat(Cat(ps, bs), rs)
      BY <3>1, CatAssociative
    <3>5. Cat(ps, b) \in Key
      BY <3>1, CatLen
    <3>6. Cat(ps, Cat(n, s)) = Cat(Cat(Cat(ps, b), Slash), rs)
      BY <3>2, <3>3, <3>4
    <3>7. QED
      BY Zenon, <3>5, <3>6 DEF ps, rs
  <2>13. QED
    BY Zenon, <2>11, <2>12
<1>3. QED
  BY <1>1, <1>2

LEMMA SuffixOf ==
  ASSUME NEW a \in Key, NEW s \in Key
  PROVE  IsSuffix(s, Cat(a, s))
<1> DEFINE k  == Cat(a, s)
           sr == Reverse(s)
           kr == Reverse(k)
<1>1. Len(a) \in Nat /\ Len(s) \in Nat
  BY KeyProperties
<1>2. k \in Key /\ Len(k) = Len(a) + Len(s)
  BY CatLen
<1>3. RightIs(a, s)
  BY CatRight
<1>4. ASSUME NEW u \in Key
      PROVE  /\ Reverse(u) \in Key /\ Len(Reverse(u)) = Len(u)
             /\ \A i \in 1 .. Len(u) : Reverse(u)[i] = u[(Len(u) - i) + 1]
  <2>1. Len(u) \in Nat /\ \A i \in 1 .. Len(u) : u[i] \in Tokens
    BY KeyProperties, ElementOfSeq DEF Key
  <2>2. \A i \in 1 .. Len(u) : (Len(u) - i) + 1 \in 1 .. Len(u)
    BY <2>1
  <2>3. [i \in 1 .. Len(u) |-> u[(Len(u) - i) + 1]] \in Seq(Tokens)
    BY <2>1, <2>2
  <2>4. Reverse(u) = [i \in 1 .. Len(u) |-> u[(Len(u) - i) + 1]]
    BY DEF Reverse
  <2>5. Reverse(u) \in Key
    BY Zenon, <2>3, <2>4 DEF Key
  <2>6. DOMAIN Reverse(u) = 1 .. Len(u)
    BY <2>4
  <2>7. Len(Reverse(u)) = Len(u)
    BY <2>1, <2>5, <2>6, KeyProperties
  <2>8. QED
    BY <2>4, <2>5, <2>7
<1>5. sr \in Key /\ Len(sr) = Len(s) /\ kr \in Key /\ Len(kr) = Len(a) + Len(s)
  BY <1>2, <1>4
<1>6. ASSUME NEW i \in 1 .. Len(s) PROVE sr[i] = kr[i]
  <2> DEFINE j == (Len(s) - i) + 1
  <2>1. j \in 1 .. Len(s) /\ (Len(k) - i) + 1 = Len(a) + j /\ i \in 1 .. Len(k)
    BY <1>1, <1>2
  <2>2. sr[i] = s[j]
    BY <1>4
  <2>3. kr[i] = k[(Len(k) - i) + 1]
    BY <1>2, <1>4, <2>1
  <2> HIDE DEF j
  <2>4. k[Len(a) + j] = s[j]
    BY <1>3, <2>1 DEF RightIs
  <2>5. QED
    BY <2>1, <2>2, <2>3, <2>4
<1> HIDE DEF sr, kr, k
<1>7. SubSeq(sr, 1, Len(sr)) = SubSeq(kr, 1, Len(sr))
  <2> DEFINE front == SubSeq(kr, 1, Len(s))
  <2>1. \A i \in 1 .. Len(s) : i \in 1 .. Len(a) + Len(s)
    BY <1>1
  <2>2. \A i \in 1 .. Len(s) : kr[i] \in Tokens
    BY <1>5, <2>1, ElementOfSeq DEF Key
  <2>3. /\ front \in Seq(Tokens) /\ Len(front) = Len(s)
        /\ \A i \in 1 .. Len(s) : front[i] = kr[i]
    BY <1>1, <2>2, SubSeqProperties
  <2> HIDE DEF front
  <2>4. front = sr
    BY <1>5, <1>6, <2>3, SameKey DEF Key
  <2>5. SubSeq(sr, 1, Len(sr)) = sr
    BY <1>5, SubSeqFull DEF Key
  <2>6. QED
    BY Zenon, <1>5, <2>4, <2>5 DEF front
<1>8. Len(sr) <= Len(kr)
  BY <1>1, <1>5
<1>9. QED
  BY Zenon, <1>7, <1>8 DEF IsSuffix, IsPrefix, sr, kr, k

----------------------------------------------------------------------------
(* The period in a name *)

Splits == LogTypes \ {"NoSplit"}
Period(type, t) == format_date_in_path(type, t)

PeriodLen(type) == CASE type = "PerMonth" -> 3 [] type = "PerDay" -> 5 [] type = "PerHour" -> 7

LEMMA PeriodLenTells ==
  /\ \A a \in Splits : PeriodLen(a) \in {3, 5, 7}
  /\ \A a, b \in Splits : PeriodLen(a) = PeriodLen(b) => a = b
BY DEF PeriodLen, Splits, LogTypes

LEMMA TokensInRow ==
  ASSUME NEW a \in Tokens, NEW b \in Tokens, NEW c \in Tokens, NEW d \in Tokens,
         NEW e \in Tokens, NEW f \in Tokens, NEW g \in Tokens
  PROVE  /\ <<a, b, c>> \in Key /\ <<a, b, c, d, e>> \in Key
         /\ <<a, b, c, d, e, f, g>> \in Key
<1>1. <<a, b, c>> \in Seq(Tokens)
  OBVIOUS
<1>2. <<a, b, c, d, e>> \in Seq(Tokens)
  OBVIOUS
<1>3. <<a, b, c, d, e, f, g>> \in Seq(Tokens)
  OBVIOUS
<1>4. QED
  BY Zenon, <1>1, <1>2, <1>3 DEF Key

(* A year is never where a month, a day or an hour stands. *)
LEMMA PeriodTokens ==
  ASSUME NEW type \in Splits, NEW t \in Dates
  PROVE  /\ Period(type, t) \in Key /\ NoSlash(Period(type, t))
         /\ Period(type, t)[1] = Calendar[t].year
         /\ Len(Period(type, t)) = PeriodLen(type)
         /\ Len(Period(type, t)) # 3 => Period(type, t)[3] = Calendar[t].month
         /\ Len(Period(type, t)) = 7 => Period(type, t)[5] = Calendar[t].day
<1> DEFINE c == Calendar[t]
           p == Period(type, t)
<1>1. /\ c.year \in Tokens /\ c.month \in Tokens /\ c.day \in Tokens /\ c.hour \in Tokens
      /\ "_" \in Tokens
  BY DefinitionsAssumption DEF DefinitionsAssumption, LocalTime
<1>2. "/" # c.year /\ "/" # c.month /\ "/" # c.day /\ "/" # c.hour /\ "/" # "_"
  BY DefinitionsAssumption DEF DefinitionsAssumption
<1> HIDE DEF c
<1>3. CASE type = "PerMonth"
  <2>1. p = <<c.year, "_", c.month>>
    BY <1>3 DEF Period, format_date_in_path, MONTH_IN_PATH, c
  <2> HIDE DEF p
  <2>2. p \in Key
    BY Zenon, <1>1, <2>1, TokensInRow
  <2>3. Len(p) = 3 /\ p[1] = c.year /\ p[2] = "_" /\ p[3] = c.month
    BY <2>1
  <2>4. NoSlash(p)
    <3>1. \A i \in 1 .. 3 : i \in {1, 2, 3}
      OBVIOUS
    <3>2. \A i \in 1 .. 3 : p[i] # "/"
      BY <1>2, <2>3, <3>1
    <3>3. QED
      BY <2>2, <2>3, <3>2, KeyProperties
  <2>5. QED
    <3>a. 3 # 5 /\ 3 # 7
      OBVIOUS
    <3>1. (Len(p) # 3 => p[3] = c.month) /\ (Len(p) = 7 => p[5] = c.day)
      BY Zenon, <2>3, <3>a
    <3>2. PeriodLen(type) = 3
      BY <1>3 DEF PeriodLen
    <3>3. QED
      BY Zenon, <2>2, <2>3, <2>4, <3>1, <3>2 DEF p, c
<1>4. CASE type = "PerDay"
  <2>1. p = <<c.year, "_", c.month, "_", c.day>>
    BY <1>4 DEF Period, format_date_in_path, DAY_IN_PATH, c
  <2> HIDE DEF p
  <2>2. p \in Key
    BY Zenon, <1>1, <2>1, TokensInRow
  <2>3. /\ Len(p) = 5 /\ p[1] = c.year /\ p[2] = "_" /\ p[3] = c.month
        /\ p[4] = "_" /\ p[5] = c.day
    BY <2>1
  <2>4. NoSlash(p)
    <3>1. \A i \in 1 .. 5 : i \in {1, 2, 3, 4, 5}
      OBVIOUS
    <3>2. \A i \in 1 .. 5 : p[i] # "/"
      BY <1>2, <2>3, <3>1
    <3>3. QED
      BY <2>2, <2>3, <3>2, KeyProperties
  <2>5. QED
    <3>a. 5 # 3 /\ 5 # 7
      OBVIOUS
    <3>1. (Len(p) # 3 => p[3] = c.month) /\ (Len(p) = 7 => p[5] = c.day)
      BY Zenon, <2>3, <3>a
    <3>2. PeriodLen(type) = 5
      BY <1>4 DEF PeriodLen
    <3>3. QED
      BY Zenon, <2>2, <2>3, <2>4, <3>1, <3>2 DEF p, c
<1>5. CASE type = "PerHour"
  <2>1. p = <<c.year, "_", c.month, "_", c.day, "_", c.hour>>
    BY <1>5 DEF Period, format_date_in_path, HOUR_IN_PATH, c
  <2> HIDE DEF p
  <2>2. p \in Key
    BY Zenon, <1>1, <2>1, TokensInRow
  <2>3. /\ Len(p) = 7 /\ p[1] = c.year /\ p[2] = "_" /\ p[3] = c.month
        /\ p[4] = "_" /\ p[5] = c.day /\ p[6] = "_" /\ p[7] = c.hour
    BY <2>1
  <2>4. NoSlash(p)
    <3>1. \A i \in 1 .. 7 : i \in {1, 2, 3, 4, 5, 6, 7}
      OBVIOUS
    <3>2. \A i \in 1 .. 7 : p[i] # "/"
      BY <1>2, <2>3, <3>1
    <3>3. QED
      BY <2>2, <2>3, <3>2, KeyProperties
  <2>5. QED
    <3>a. 7 # 3 /\ 7 # 5
      OBVIOUS
    <3>1. (Len(p) # 3 => p[3] = c.month) /\ (Len(p) = 7 => p[5] = c.day)
      BY Zenon, <2>3, <3>a
    <3>2. PeriodLen(type) = 7
      BY <1>5 DEF PeriodLen
    <3>3. QED
      BY Zenon, <2>2, <2>3, <2>4, <3>1, <3>2 DEF p, c
<1>6. QED
  BY Zenon, <1>3, <1>4, <1>5 DEF Splits, LogTypes

LEMMA ShorterPeriod ==
  ASSUME NEW type1 \in Splits, NEW type2 \in Splits, NEW t1 \in Dates, NEW t2 \in Dates,
         NEW u \in Key, NEW v \in Key,
         Cat(u, Period(type1, t1)) = Cat(v, Period(type2, t2))
  PROVE  ~(Len(Period(type1, t1)) < Len(Period(type2, t2)))
<1> DEFINE p == Period(type1, t1)
           q == Period(type2, t2)
<1> SUFFICES ASSUME Len(p) < Len(q) PROVE FALSE
  OBVIOUS
<1>1. /\ p \in Key /\ p[1] = Calendar[t1].year /\ Len(p) \in {3, 5, 7}
      /\ q \in Key /\ Len(q) \in {3, 5, 7}
      /\ Len(q) # 3 => q[3] = Calendar[t2].month
      /\ Len(q) = 7 => q[5] = Calendar[t2].day
  <2>1. p \in Key /\ q \in Key
    BY PeriodTokens
  <2>2. p[1] = Calendar[t1].year /\ Len(p) \in {3, 5, 7}
    BY PeriodTokens, PeriodLenTells
  <2>3. /\ Len(q) \in {3, 5, 7}
        /\ Len(q) # 3 => q[3] = Calendar[t2].month
        /\ Len(q) = 7 => q[5] = Calendar[t2].day
    BY PeriodTokens, PeriodLenTells
  <2>4. QED
    BY Zenon, <2>1, <2>2, <2>3
<1>2. Calendar[t1].year # Calendar[t2].month /\ Calendar[t1].year # Calendar[t2].day
  BY DefinitionsAssumption DEF DefinitionsAssumption
<1>3. Cat(u, p) = Cat(v, q)
  OBVIOUS
<1> HIDE DEF p, q
<1>4. Len(u) \in Nat /\ Len(v) \in Nat
  BY KeyProperties
<1>5. Len(u) + Len(p) = Len(v) + Len(q)
  <2>1. Len(Cat(u, p)) = Len(u) + Len(p)
    BY <1>1, CatLen
  <2>2. Len(Cat(v, q)) = Len(v) + Len(q)
    BY <1>1, CatLen
  <2>3. QED
    BY <1>3, <2>1, <2>2
<1> DEFINE i == (Len(q) - Len(p)) + 1
<1>6. /\ i \in 1 .. Len(q) /\ Len(u) + 1 = Len(v) + i /\ 1 \in 1 .. Len(p)
      /\ i = 3 \/ i = 5
      /\ i = 3 => Len(q) # 3
      /\ i = 5 => Len(q) = 7
  <2>1. \A m \in {3, 5, 7}, n \in {3, 5, 7} : m < n =>
           /\ (n - m) + 1 \in 1 .. n /\ 1 \in 1 .. m
           /\ (n - m) + 1 = 3 \/ (n - m) + 1 = 5
           /\ (n - m) + 1 = 3 => n # 3
           /\ (n - m) + 1 = 5 => n = 7
    OBVIOUS
  <2>2. \A x, y \in Nat : \A m \in {3, 5, 7}, n \in {3, 5, 7} :
           x + m = y + n => x + 1 = y + ((n - m) + 1)
    OBVIOUS
  <2>a. Len(p) \in {3, 5, 7} /\ Len(q) \in {3, 5, 7} /\ Len(p) < Len(q)
    BY <1>1
  <2>b. Len(u) + 1 = Len(v) + i
    BY <1>4, <1>5, <2>a, <2>2
  <2>3. QED
    BY <2>1, <2>a, <2>b
<1> HIDE DEF i
<1>7. RightIs(u, p) /\ RightIs(v, q)
  BY <1>1, CatRight
<1>8. Cat(u, p)[Len(u) + 1] = p[1]
  BY <1>6, <1>7 DEF RightIs
<1>9. Cat(v, q)[Len(v) + i] = q[i]
  BY <1>6, <1>7 DEF RightIs
<1>10. p[1] = q[i]
  BY <1>3, <1>6, <1>8, <1>9
<1>11. QED
  BY <1>1, <1>2, <1>6, <1>10

(* Where two names end alike, the periods they end with are of one kind, and
   the same. *)
LEMMA SamePeriod ==
  ASSUME NEW type1 \in Splits, NEW type2 \in Splits, NEW t1 \in Dates, NEW t2 \in Dates,
         NEW u \in Key, NEW v \in Key,
         Cat(u, Period(type1, t1)) = Cat(v, Period(type2, t2))
  PROVE  type1 = type2 /\ Period(type1, t1) = Period(type2, t2) /\ u = v
<1> DEFINE p == Period(type1, t1)
           q == Period(type2, t2)
<1>1. ~(Len(p) < Len(q))
  BY Zenon, ShorterPeriod
<1>2. ~(Len(q) < Len(p))
  BY Zenon, ShorterPeriod
<1>3. /\ p \in Key /\ q \in Key
      /\ Len(p) = PeriodLen(type1) /\ Len(q) = PeriodLen(type2)
  BY PeriodTokens
<1>4. Cat(u, p) = Cat(v, q)
  OBVIOUS
<1> HIDE DEF p, q
<1>5. Len(p) = Len(q) /\ type1 = type2
  <2>1. \A m \in {3, 5, 7}, n \in {3, 5, 7} : ~(m < n) /\ ~(n < m) => m = n
    OBVIOUS
  <2>2. Len(p) \in {3, 5, 7} /\ Len(q) \in {3, 5, 7}
    BY <1>3, PeriodLenTells
  <2>3. Len(p) = Len(q)
    BY <1>1, <1>2, <2>1, <2>2
  <2>4. PeriodLen(type1) = PeriodLen(type2)
    BY Zenon, <1>3, <2>3
  <2>5. QED
    BY Zenon, <2>3, <2>4, PeriodLenTells
<1>6. u = v /\ p = q
  BY <1>3, <1>4, <1>5, SameEnd
<1>7. QED
  BY <1>5, <1>6 DEF p, q

(* What stands behind the log's name when the period does not go into the
   path. *)
Ending(type, t) == Cat(Bar, Cat(Period(type, t), Dot))

LEMMA EndingIs ==
  ASSUME NEW type \in Splits, NEW t \in Dates
  PROVE  /\ Ending(type, t) \in Key /\ NoSlash(Ending(type, t)) /\ 5 <= Len(Ending(type, t))
         /\ \A n \in Key : Cat(n, Ending(type, t)) = Cat(Cat(Cat(n, Bar), Period(type, t)), Dot)
<1> DEFINE p == Period(type, t)
<1>1. p \in Key /\ NoSlash(p) /\ Len(p) \in {3, 5, 7}
  <2>1. p \in Key /\ NoSlash(p)
    BY PeriodTokens
  <2>2. Len(p) \in {3, 5, 7}
    BY PeriodTokens, PeriodLenTells
  <2>3. QED
    BY <2>1, <2>2
<1> HIDE DEF p
<1>2. Cat(p, Dot) \in Key /\ Len(Cat(p, Dot)) = Len(p) + 1 /\ NoSlash(Cat(p, Dot))
  BY <1>1, Separators, CatLen, NoSlashCat
<1> DEFINE e == Cat(Bar, Cat(p, Dot))
<1>3. e \in Key /\ Len(e) = 1 + (Len(p) + 1) /\ NoSlash(e)
  <2>1. Cat(p, Dot) \in Key /\ Bar \in Key /\ NoSlash(Bar) /\ NoSlash(Cat(p, Dot))
    BY <1>2, Separators
  <2>2. e \in Key /\ NoSlash(e)
    BY <2>1, CatLen, NoSlashCat, Zenon
  <2>3. Len(e) = Len(Bar) + Len(Cat(p, Dot))
    BY <2>1, CatLen, Zenon
  <2>4. Len(Bar) = 1
    BY Separators
  <2>5. QED
    BY <1>2, <2>2, <2>3, <2>4
<1>4. ASSUME NEW n \in Key PROVE Cat(n, e) = Cat(Cat(Cat(n, Bar), p), Dot)
  <2>1. Cat(n, Bar) \in Key
    BY Separators, CatLen
  <2>2. Cat(Cat(n, Bar), Cat(p, Dot)) = Cat(n, Cat(Bar, Cat(p, Dot)))
    BY <1>2, Separators, CatAssociative
  <2>3. Cat(Cat(Cat(n, Bar), p), Dot) = Cat(Cat(n, Bar), Cat(p, Dot))
    BY <1>1, <2>1, Separators, CatAssociative
  <2>4. QED
    BY <2>2, <2>3
<1>5. 5 <= Len(e)
  <2>1. \A m \in {3, 5, 7} : 5 <= 1 + (m + 1)
    OBVIOUS
  <2>2. QED
    BY <1>1, <1>3, <2>1
<1>6. QED
  BY Zenon, <1>3, <1>4, <1>5 DEF Ending, p

----------------------------------------------------------------------------
(* The forms of a file's name *)

Plain(n, k)            == \E a \in Key : k = Cat(Cat(a, Slash), Cat(n, Dot))
Under(n, k, type, t)   == \E a \in Key :
                            k = Cat(Cat(Cat(a, Period(type, t)), Slash), Cat(n, Dot))
Behind(n, k, type, t)  == \E a \in Key : k = Cat(Cat(a, Slash), Cat(n, Ending(type, t)))

(* Without a period, with it as a directory, or with it behind the name. *)
LEMMA FileNameIs ==
  ASSUME NEW n \in Names, NEW d \in Definition, NEW t \in Dates
  PROVE  /\ FileName(n, d, t) \in Key
         /\ d.log_type = "NoSplit" => Plain(n, FileName(n, d, t))
         /\ d.log_type # "NoSplit" =>
              /\ d.log_type \in Splits
              /\ \/ Under(n, FileName(n, d, t), d.log_type, t)
                 \/ Behind(n, FileName(n, d, t), d.log_type, t)
<1> DEFINE type == d.log_type
           p == Period(type, t)
           k == FileName(n, d, t)
           dir == log_path(d, t)
           name == log_name(n, d, t)
<1>1. type \in LogTypes /\ d.path \in Key /\ n \in Key
  BY DefinitionsAssumption DEF Definition, DefinitionsAssumption, Key
<1>2. k = Cat(Cat(dir, Slash), name)
  BY Zenon DEF FileName, Cat, Slash
<1>3. CASE type = "NoSplit"
  <2>1. p = <<>>
    BY <1>3 DEF Period, format_date_in_path
  <2>2. dir = d.path
    BY Zenon, <2>1 DEF log_path, Period
  <2>3. name = Cat(n, Dot)
    BY Zenon, <2>1 DEF log_name, Period, Cat, Dot
  <2>4. k = Cat(Cat(d.path, Slash), Cat(n, Dot))
    BY Zenon, <1>2, <2>2, <2>3
  <2>5. k \in Key
    <3>1. Cat(d.path, Slash) \in Key
      BY <1>1, CatLen, Separators
    <3>2. Cat(n, Dot) \in Key
      BY <1>1, CatLen, Separators
    <3>3. QED
      BY Zenon, <2>4, <3>1, <3>2, CatLen
  <2>6. Plain(n, k)
    BY Zenon, <1>1, <2>4 DEF Plain
  <2>7. QED
    BY Zenon, <1>3, <2>5, <2>6
<1>4. CASE type # "NoSplit"
  <2>1. type \in Splits
    BY <1>1, <1>4 DEF Splits
  <2>2. p \in Key /\ p # <<>>
    <3>1. p \in Key /\ Len(p) = PeriodLen(type) /\ PeriodLen(type) \in {3, 5, 7}
      BY Zenon, <2>1, PeriodTokens, PeriodLenTells
    <3>2. Len(<<>>) = 0
      OBVIOUS
    <3>3. 0 \notin {3, 5, 7}
      OBVIOUS
    <3>4. QED
      BY Zenon, <3>1, <3>2, <3>3
  <2>3. CASE "UseSubDirectories" \in d.options
    <3>1. dir = Cat(Cat(d.path, Slash), p)
      BY Zenon, <2>2, <2>3 DEF log_path, Period, Cat, Slash
    <3>2. name = Cat(n, Dot)
      BY Zenon, <2>3 DEF log_name, Period, Cat, Dot
    <3>3. k = Cat(Cat(Cat(Cat(d.path, Slash), p), Slash), Cat(n, Dot))
      BY Zenon, <1>2, <3>1, <3>2
    <3>4. Cat(d.path, Slash) \in Key
      BY <1>1, CatLen, Separators
    <3>5. k \in Key
      <4>1. dir \in Key
        BY <2>2, <3>1, <3>4, CatLen
      <4>2. Cat(dir, Slash) \in Key /\ name \in Key
        BY <1>1, <3>2, <4>1, CatLen, Separators
      <4>3. QED
        BY <1>2, <4>2, CatLen
    <3>6. Under(n, k, type, t)
      BY Zenon, <3>3, <3>4 DEF Under
    <3>7. QED
      BY Zenon, <1>4, <2>1, <3>5, <3>6
  <2>4. CASE "UseSubDirectories" \notin d.options
    <3>1. dir = d.path
      BY Zenon, <2>4 DEF log_path
    <3>2. name = Cat(Cat(Cat(n, Bar), p), Dot)
      BY Zenon, <2>2, <2>4 DEF log_name, Period, Cat, Bar, Dot
    <3>3. name = Cat(n, Ending(type, t))
      BY Zenon, <1>1, <2>1, <3>2, EndingIs
    <3>4. k = Cat(Cat(d.path, Slash), Cat(n, Ending(type, t)))
      BY Zenon, <1>2, <3>1, <3>3
    <3>5. k \in Key
      <4>1. Ending(type, t) \in Key
        BY <2>1, EndingIs
      <4>2. name \in Key /\ Cat(d.path, Slash) \in Key
        <5>1. Cat(n, Ending(type, t)) \in Key
          BY <1>1, <4>1, CatLen
        <5>2. QED
          BY <1>1, <3>3, <5>1, CatLen, Separators
      <4>3. QED
        BY <1>2, <3>1, <4>2, CatLen
    <3>6. Behind(n, k, type, t)
      BY Zenon, <1>1, <3>4 DEF Behind
    <3>7. QED
      BY Zenon, <1>4, <2>1, <3>5, <3>6
  <2>5. QED
    BY Zenon, <2>3, <2>4
<1>5. QED
  BY Zenon, <1>3, <1>4

LEMMA DropDot ==
  ASSUME NEW u \in Key, NEW v \in Key, Cat(u, Dot) = Cat(v, Dot)
  PROVE  u = v
BY Separators, SameEnd

LEMMA DropSlash ==
  ASSUME NEW u \in Key, NEW v \in Key, Cat(u, Slash) = Cat(v, Slash)
  PROVE  u = v
BY Separators, SameEnd

LEMMA DropBar ==
  ASSUME NEW u \in Key, NEW v \in Key, Cat(u, Bar) = Cat(v, Bar)
  PROVE  u = v
BY Separators, SameEnd

LEMMA UnderIsPlain ==
  ASSUME NEW n \in Key, NEW k, NEW type \in Splits, NEW t \in Dates, Under(n, k, type, t)
  PROVE  Plain(n, k)
<1>1. PICK a \in Key : k = Cat(Cat(Cat(a, Period(type, t)), Slash), Cat(n, Dot))
  BY DEF Under
<1>2. Cat(a, Period(type, t)) \in Key
  BY PeriodTokens, CatLen
<1>3. QED
  BY Zenon, <1>1, <1>2 DEF Plain

(* One log's files with periods: if two are one, their periods are. *)
LEMMA OneFileOnePeriod ==
  ASSUME NEW n \in Key, NEW k \in Key,
         NEW type1 \in Splits, NEW t1 \in Dates, NEW type2 \in Splits, NEW t2 \in Dates,
         Under(n, k, type1, t1) \/ Behind(n, k, type1, t1),
         Under(n, k, type2, t2) \/ Behind(n, k, type2, t2)
  PROVE  type1 = type2 /\ Period(type1, t1) = Period(type2, t2)
<1> DEFINE p == Period(type1, t1)
           q == Period(type2, t2)
<1>1. p \in Key /\ q \in Key
  BY PeriodTokens
<1>2. /\ Ending(type1, t1) \in Key /\ NoSlash(Ending(type1, t1)) /\ 5 <= Len(Ending(type1, t1))
      /\ Ending(type2, t2) \in Key /\ NoSlash(Ending(type2, t2)) /\ 5 <= Len(Ending(type2, t2))
  BY EndingIs
<1>3. Dot \in Key /\ NoSlash(Dot) /\ Len(Dot) = 1 /\ Cat(n, Dot) \in Key
  BY Separators, CatLen
<1>4. PICK r \in Key :
        /\ NoSlash(r)
        /\ \A b, s \in Key : \E a \in Key :
             Cat(Cat(b, Slash), Cat(n, s)) = Cat(Cat(a, Slash), Cat(r, s))
  BY BehindTheSlash
(* The part of k behind its last slash. *)
<1>5. ASSUME NEW b \in Key, NEW s \in Key, NEW c \in Key, NEW e \in Key, NoSlash(s), NoSlash(e),
             k = Cat(Cat(b, Slash), Cat(n, s)), k = Cat(Cat(c, Slash), Cat(n, e))
      PROVE  s = e
  <2>1. PICK x \in Key : Cat(Cat(b, Slash), Cat(n, s)) = Cat(Cat(x, Slash), Cat(r, s))
    BY Zenon, <1>4
  <2>2. PICK y \in Key : Cat(Cat(c, Slash), Cat(n, e)) = Cat(Cat(y, Slash), Cat(r, e))
    BY Zenon, <1>4
  <2>3. Cat(r, s) \in Key /\ NoSlash(Cat(r, s))
    BY <1>4, <1>5, CatLen, NoSlashCat
  <2>4. Cat(r, e) \in Key /\ NoSlash(Cat(r, e))
    BY <1>4, <1>5, CatLen, NoSlashCat
  <2>5. Cat(Cat(x, Slash), Cat(r, s)) = Cat(Cat(y, Slash), Cat(r, e))
    BY Zenon, <1>5, <2>1, <2>2
  <2>6. Cat(r, s) = Cat(r, e)
    BY Zenon, <2>3, <2>4, <2>5, LastSlash
  <2>7. QED
    BY ONLY r \in Key, s \in Key, e \in Key, <2>6, SameStart
<1> HIDE DEF p, q
<1>6. CASE Under(n, k, type1, t1) /\ Under(n, k, type2, t2)
  <2>1. PICK a \in Key : k = Cat(Cat(Cat(a, p), Slash), Cat(n, Dot))
    BY Zenon, <1>6 DEF Under, p
  <2>2. PICK b \in Key : k = Cat(Cat(Cat(b, q), Slash), Cat(n, Dot))
    BY Zenon, <1>6 DEF Under, q
  <2>3. Cat(a, p) \in Key /\ Cat(b, q) \in Key
    BY <1>1, CatLen
  <2>4. Cat(Cat(a, p), Slash) \in Key /\ Cat(Cat(b, q), Slash) \in Key /\ Slash \in Key
    BY <2>3, CatLen, Separators
  <2>5. Cat(Cat(Cat(a, p), Slash), Cat(n, Dot)) = Cat(Cat(Cat(b, q), Slash), Cat(n, Dot))
    BY Zenon, <2>1, <2>2
  <2>6. Cat(Cat(a, p), Slash) = Cat(Cat(b, q), Slash)
    <3> DEFINE u == Cat(Cat(a, p), Slash)
               v == Cat(Cat(b, q), Slash)
               e == Cat(n, Dot)
    <3>1. u \in Key /\ v \in Key /\ e \in Key /\ Cat(u, e) = Cat(v, e)
      BY Zenon, <1>3, <2>4, <2>5
    <3> HIDE DEF u, v, e
    <3>2. u = v
      BY ONLY <3>1, SameEnd
    <3>3. QED
      BY Zenon, <3>2 DEF u, v
  <2>7. Cat(a, p) = Cat(b, q)
    BY Zenon, <2>3, <2>6, DropSlash
  <2>8. Cat(a, Period(type1, t1)) = Cat(b, Period(type2, t2))
    BY Zenon, <2>7 DEF p, q
  <2>9. QED
    BY <2>8, SamePeriod DEF p, q
<1>7. CASE Behind(n, k, type1, t1) /\ Behind(n, k, type2, t2)
  <2>1. PICK a \in Key : k = Cat(Cat(a, Slash), Cat(n, Ending(type1, t1)))
    BY Zenon, <1>7 DEF Behind
  <2>2. PICK b \in Key : k = Cat(Cat(b, Slash), Cat(n, Ending(type2, t2)))
    BY Zenon, <1>7 DEF Behind
  <2>3. Ending(type1, t1) = Ending(type2, t2)
    BY Zenon, <1>2, <1>5, <2>1, <2>2
  <2>4. Cat(p, Dot) \in Key /\ Cat(q, Dot) \in Key /\ Bar \in Key
    BY <1>1, CatLen, Separators
  <2>5. Cat(Bar, Cat(p, Dot)) = Cat(Bar, Cat(q, Dot))
    BY Zenon, <2>3 DEF Ending, p, q
  <2>6. Cat(p, Dot) = Cat(q, Dot)
    BY Zenon, <2>4, <2>5, SameStart
  <2>7. p = q
    BY Zenon, <1>1, <2>6, DropDot
  <2>8. Cat(Bar, Period(type1, t1)) = Cat(Bar, Period(type2, t2))
    BY Zenon, <2>7 DEF p, q
  <2>9. QED
    BY <2>4, <2>8, SamePeriod DEF p, q
<1>8. \A x : ~(5 <= x /\ x = 1)
  OBVIOUS
<1>9. ASSUME NEW type \in Splits, NEW t \in Dates, NEW type0 \in Splits, NEW t0 \in Dates,
             Under(n, k, type0, t0), Behind(n, k, type, t)
      PROVE  FALSE
  <2>1. PICK a \in Key : k = Cat(Cat(a, Slash), Cat(n, Dot))
    BY Zenon, <1>9, UnderIsPlain DEF Plain
  <2>2. PICK b \in Key : k = Cat(Cat(b, Slash), Cat(n, Ending(type, t)))
    BY Zenon, <1>9 DEF Behind
  <2>3. Ending(type, t) \in Key /\ NoSlash(Ending(type, t)) /\ 5 <= Len(Ending(type, t))
    BY EndingIs
  <2>4. Ending(type, t) = Dot
    BY Zenon, <1>3, <1>5, <2>1, <2>2, <2>3
  <2>5. QED
    BY Zenon, <1>3, <1>8, <2>3, <2>4
<1>10. QED
  BY Zenon, <1>6, <1>7, <1>9

(* Two logs without a slash in their names, and one file: either they are one
   log, or the file is the one of the name that ends with a period. *)
Takes(k, n, m) == Extends(n, m) /\ IsSuffix(<<"/">> \o m \o <<".log">>, k)

LEMMA PlainMeetsBehind ==
  ASSUME NEW n \in Key, NEW m \in Key, NEW k \in Key, NoSlash(n), NoSlash(m),
         NEW type \in Splits, NEW t \in Dates, Plain(n, k), Behind(m, k, type, t)
  PROVE  Takes(k, m, n)
<1>1. PICK a \in Key : k = Cat(Cat(a, Slash), Cat(n, Dot))
  BY Zenon DEF Plain
<1>2. PICK b \in Key : k = Cat(Cat(b, Slash), Cat(m, Ending(type, t)))
  BY Zenon DEF Behind
<1>3. /\ Dot \in Key /\ NoSlash(Dot) /\ Slash \in Key /\ Bar \in Key
      /\ Ending(type, t) \in Key /\ NoSlash(Ending(type, t))
      /\ Period(type, t) \in Key
  BY Separators, EndingIs, PeriodTokens
<1>4. Cat(n, Dot) \in Key /\ NoSlash(Cat(n, Dot))
  BY <1>3, CatLen, NoSlashCat
<1>5. Cat(m, Ending(type, t)) \in Key /\ NoSlash(Cat(m, Ending(type, t)))
  BY <1>3, CatLen, NoSlashCat
<1>6. Cat(Cat(a, Slash), Cat(n, Dot)) = Cat(Cat(b, Slash), Cat(m, Ending(type, t)))
  BY Zenon, <1>1, <1>2
<1>7. Cat(n, Dot) = Cat(m, Ending(type, t))
  BY Zenon, <1>4, <1>5, <1>6, LastSlash
<1> DEFINE mp == Cat(Cat(m, Bar), Period(type, t))
<1>8. Cat(n, Dot) = Cat(mp, Dot)
  BY Zenon, <1>7, EndingIs
<1>9. mp \in Key
  <2>1. Cat(m, Bar) \in Key
    BY <1>3, CatLen
  <2>2. QED
    BY <1>3, <2>1, CatLen
<1>10. n = mp
  <2> HIDE DEF mp
  <2>1. QED
    BY Zenon, <1>3, <1>8, <1>9, SameEnd
<1>11. Extends(m, n)
  BY Zenon, <1>10 DEF Extends, Splits, Cat, Bar, Period
<1>12. k = Cat(a, Cat(Slash, Cat(n, Dot)))
  BY <1>1, <1>3, <1>4, CatAssociative
<1>13. Cat(Slash, Cat(n, Dot)) = Cat(Cat(Slash, n), Dot)
  BY <1>3, CatAssociative
<1>14. Cat(Slash, Cat(n, Dot)) \in Key
  BY <1>3, <1>4, CatLen
<1>15. IsSuffix(Cat(Slash, Cat(n, Dot)), k)
  BY Zenon, <1>12, <1>14, SuffixOf
<1>16. IsSuffix(Cat(Cat(Slash, n), Dot), k)
  BY Zenon, <1>13, <1>15
<1>17. QED
  BY Zenon, <1>11, <1>16 DEF Takes, Cat, Slash, Dot

LEMMA OneFileTwoLogs ==
  ASSUME NEW n \in Key, NEW m \in Key, NEW k \in Key, NoSlash(n), NoSlash(m),
         Plain(n, k) \/ (\E type \in Splits, t \in Dates : Behind(n, k, type, t)),
         Plain(m, k) \/ (\E type \in Splits, t \in Dates : Behind(m, k, type, t))
  PROVE  n = m \/ Takes(k, n, m) \/ Takes(k, m, n)
<1>1. Dot \in Key /\ NoSlash(Dot) /\ Bar \in Key
  BY Separators
<1>2. CASE Plain(n, k) /\ Plain(m, k)
  <2>1. PICK a \in Key : k = Cat(Cat(a, Slash), Cat(n, Dot))
    BY Zenon, <1>2 DEF Plain
  <2>2. PICK b \in Key : k = Cat(Cat(b, Slash), Cat(m, Dot))
    BY Zenon, <1>2 DEF Plain
  <2>3. Cat(n, Dot) \in Key /\ NoSlash(Cat(n, Dot))
    BY <1>1, CatLen, NoSlashCat
  <2>4. Cat(m, Dot) \in Key /\ NoSlash(Cat(m, Dot))
    BY <1>1, CatLen, NoSlashCat
  <2>5. Cat(Cat(a, Slash), Cat(n, Dot)) = Cat(Cat(b, Slash), Cat(m, Dot))
    BY Zenon, <2>1, <2>2
  <2>6. Cat(n, Dot) = Cat(m, Dot)
    BY Zenon, <2>3, <2>4, <2>5, LastSlash
  <2>7. QED
    BY Zenon, <1>1, <2>6, SameEnd
<1>3. CASE /\ \E type \in Splits, t \in Dates : Behind(n, k, type, t)
           /\ \E type \in Splits, t \in Dates : Behind(m, k, type, t)
  <2>1. PICK type1 \in Splits, t1 \in Dates : Behind(n, k, type1, t1)
    BY Zenon, <1>3
  <2>2. PICK type2 \in Splits, t2 \in Dates : Behind(m, k, type2, t2)
    BY Zenon, <1>3
  <2>3. PICK a \in Key : k = Cat(Cat(a, Slash), Cat(n, Ending(type1, t1)))
    BY Zenon, <2>1 DEF Behind
  <2>4. PICK b \in Key : k = Cat(Cat(b, Slash), Cat(m, Ending(type2, t2)))
    BY Zenon, <2>2 DEF Behind
  <2> DEFINE p  == Period(type1, t1)
             q  == Period(type2, t2)
             np == Cat(Cat(n, Bar), p)
             mq == Cat(Cat(m, Bar), q)
  <2>5. Ending(type1, t1) \in Key /\ NoSlash(Ending(type1, t1)) /\ p \in Key
    BY EndingIs, PeriodTokens
  <2>6. Ending(type2, t2) \in Key /\ NoSlash(Ending(type2, t2)) /\ q \in Key
    BY EndingIs, PeriodTokens
  <2>7. Cat(n, Ending(type1, t1)) \in Key /\ NoSlash(Cat(n, Ending(type1, t1)))
    BY <2>5, CatLen, NoSlashCat
  <2>8. Cat(m, Ending(type2, t2)) \in Key /\ NoSlash(Cat(m, Ending(type2, t2)))
    BY <2>6, CatLen, NoSlashCat
  <2>9. Cat(Cat(a, Slash), Cat(n, Ending(type1, t1)))
          = Cat(Cat(b, Slash), Cat(m, Ending(type2, t2)))
    BY Zenon, <2>3, <2>4
  <2>10. Cat(n, Ending(type1, t1)) = Cat(m, Ending(type2, t2))
    BY Zenon, <2>7, <2>8, <2>9, LastSlash
  <2>11. Cat(np, Dot) = Cat(mq, Dot)
    BY Zenon, <2>10, EndingIs
  <2>12. Cat(n, Bar) \in Key /\ Cat(m, Bar) \in Key
    BY <1>1, CatLen
  <2>13. np \in Key /\ mq \in Key
    <3> HIDE DEF p, q
    <3>1. QED
      BY <2>5, <2>6, <2>12, CatLen
  <2>14. np = mq
    <3> HIDE DEF np, mq
    <3>1. QED
      BY Zenon, <1>1, <2>11, <2>13, SameEnd
  <2>15. Cat(n, Bar) = Cat(m, Bar)
    BY <2>12, <2>14, SamePeriod
  <2>16. QED
    BY Zenon, <2>15, DropBar
<1>4. CASE Plain(n, k) /\ \E type \in Splits, t \in Dates : Behind(m, k, type, t)
  BY Zenon, <1>4, PlainMeetsBehind
<1>5. CASE Plain(m, k) /\ \E type \in Splits, t \in Dates : Behind(n, k, type, t)
  BY Zenon, <1>5, PlainMeetsBehind
<1>6. QED
  BY Zenon, <1>2, <1>3, <1>4, <1>5

----------------------------------------------------------------------------
(* What a definition gives its file and its entry belongs together. *)
LEMMA NamedAndStamped ==
  ASSUME NEW n \in Names, NEW d \in Definition, NEW t \in Dates
  PROVE  /\ FileName(n, d, t) \in Key /\ Named(n, FileName(n, d, t))
         /\ format_entry(d, t) \in Queued /\ format_entry(d, t).date = t
         /\ Dated(n, FileName(n, d, t), format_entry(d, t))
<1> DEFINE stamp  == format_date_in_log(d.log_type, t)
           k == FileName(n, d, t)
           e == format_entry(d, t)
<1>1. d.log_type \in LogTypes
  BY DEF Definition
<1>2. stamp \in Seq(Tokens)
  BY <1>1, StampType
<1>3. /\ e.date = t /\ e \in Queued /\ e.stamp \in {<<>>, stamp}
  BY <1>2, EmptySeq DEF format_entry, Queued
<1>4. k \in Key
  BY FileNameIs
<1>5. Named(n, k)
  BY DEF Named
<1>6. Dated(n, k, e)
  <2>1. e.stamp # <<>> => e.stamp = format_date_in_log(d.log_type, e.date)
    BY <1>3
  <2>2. k = FileName(n, d, e.date)
    BY <1>3
  <2> HIDE DEF k, e
  <2>3. QED
    BY <2>1, <2>2 DEF Dated
<1>7. QED
  BY <1>3, <1>4, <1>5, <1>6

----------------------------------------------------------------------------
(* A queue takes an entry *)

(* What is left of one queue in another: all but the entries that were
   counted as dropped in between. *)
KeptIn(old, new) ==
  LET out == new.dropped - old.dropped
  IN  IsPrefix(SubSeq(old.logs, out + 1, Len(old.logs)), new.logs)

LEMMA KeptInItself ==
  ASSUME NEW file \in LogFile
  PROVE  KeptIn(file, file)
<1>1. file.dropped \in Nat /\ file.logs \in Seq(Queued)
  BY DEF LogFile
<1>2. (file.dropped - file.dropped) + 1 = 1
  BY <1>1
<1>3. SubSeq(file.logs, 1, Len(file.logs)) = file.logs
  BY <1>1, SubSeqFull
<1>4. IsPrefix(file.logs, file.logs)
  BY <1>1, LenProperties DEF IsPrefix
<1>5. SubSeq(file.logs, (file.dropped - file.dropped) + 1, Len(file.logs)) = file.logs
  BY <1>2, <1>3
<1>6. QED
  BY <1>4, <1>5 DEF KeptIn

(* One more entry, and as many fewer at the front. *)
Shifts(q, e, k, new) ==
  /\ new \in Seq(Queued) /\ Len(new) = Len(q) + 1 - k
  /\ new[Len(new)] = e
  /\ \A i \in 1..Len(new) : new[i] = e \/ \E j \in DOMAIN q : new[i] = q[j]
  /\ IsPrefix(SubSeq(q, k + 1, Len(q)), new)

LEMMA Shifted ==
  ASSUME NEW q \in Seq(Queued), NEW e \in Queued, NEW k \in {0, 1}, k <= Len(q),
         NEW new, new = SubSeq(Append(q, e), k + 1, Len(Append(q, e)))
  PROVE  Shifts(q, e, k, new)
<1> DEFINE r == Append(q, e)
           p == SubSeq(q, k + 1, Len(q))
<1>1. Len(q) \in Nat /\ DOMAIN q = 1..Len(q) /\ \A i \in 1..Len(q) : q[i] \in Queued
  BY LenProperties, ElementOfSeq
<1>2. /\ r \in Seq(Queued) /\ Len(r) = Len(q) + 1 /\ r[Len(q) + 1] = e
      /\ \A i \in 1..Len(q) : r[i] = q[i]
      /\ \A i \in 1..Len(r) : r[i] \in Queued
  BY AppendProperties, ElementOfSeq
<1>3. new = SubSeq(r, k + 1, Len(r))
  OBVIOUS
<1> HIDE DEF r
<1>4. /\ new \in Seq(Queued) /\ Len(new) = Len(q) + 1 - k
      /\ \A i \in 1..(Len(q) + 1 - k) : new[i] = r[i + k]
  <2>1. \A i \in (k + 1)..Len(r) : r[i] \in Queued
    BY <1>1, <1>2
  <2>2. k + 1 \in 1..(Len(r) + 1) /\ Len(r) \in Int
    BY <1>1, <1>2
  <2>3. /\ new \in Seq(Queued)
        /\ Len(new) = IF k + 1 <= Len(r) THEN Len(r) - (k + 1) + 1 ELSE 0
        /\ \A i \in 1..(Len(r) - (k + 1) + 1) : new[i] = r[(k + 1) + i - 1]
    BY <1>3, <2>1, <2>2, SubSeqProperties
  <2>4. \A i \in 1..(Len(q) + 1 - k) : i \in 1..(Len(r) - (k + 1) + 1) /\ (k + 1) + i - 1 = i + k
    BY <1>1, <1>2
  <2>5. \A i \in 1..(Len(q) + 1 - k) : new[i] = r[i + k]
    BY <2>3, <2>4
  <2>6. Len(new) = Len(q) + 1 - k
    BY <1>1, <1>2, <2>3
  <2>7. QED
    BY <2>3, <2>5, <2>6
<1>5. new[Len(new)] = e
  <2>1. Len(new) \in 1..(Len(q) + 1 - k) /\ Len(new) + k = Len(q) + 1
    BY <1>1, <1>4
  <2>2. QED
    BY <1>2, <1>4, <2>1
<1>6. ASSUME NEW i \in 1..Len(new) PROVE new[i] = e \/ \E j \in DOMAIN q : new[i] = q[j]
  <2>1. i + k \in 1..Len(q) \/ i + k = Len(q) + 1
    BY <1>1, <1>4
  <2>2. new[i] = r[i + k]
    BY <1>4
  <2>3. QED
    BY <1>1, <1>2, <2>1, <2>2
<1>7. /\ p \in Seq(Queued) /\ Len(p) = Len(q) - k
      /\ \A i \in 1..(Len(q) - k) : p[i] = q[i + k]
  <2>1. \A i \in (k + 1)..Len(q) : q[i] \in Queued
    BY <1>1
  <2>2. k + 1 \in Int /\ Len(q) \in Int
    BY <1>1
  <2>3. /\ p \in Seq(Queued)
        /\ Len(p) = IF k + 1 <= Len(q) THEN Len(q) - (k + 1) + 1 ELSE 0
        /\ \A i \in 1..(Len(q) - (k + 1) + 1) : p[i] = q[(k + 1) + i - 1]
    BY <2>1, <2>2, SubSeqProperties
  <2> HIDE DEF p
  <2>4. \A i \in 1..(Len(q) - k) : i \in 1..(Len(q) - (k + 1) + 1) /\ (k + 1) + i - 1 = i + k
    BY <1>1
  <2>5. \A i \in 1..(Len(q) - k) : p[i] = q[i + k]
    BY <2>3, <2>4
  <2>6. Len(p) = Len(q) - k
    <3>1. CASE k + 1 <= Len(q)
      BY <1>1, <2>3, <3>1
    <3>2. CASE Len(q) = k
      BY <1>1, <2>3, <3>2
    <3>3. \A n \in Nat : k <= n => k + 1 <= n \/ n = k
      OBVIOUS
    <3>4. QED
      BY <1>1, <3>1, <3>2, <3>3
  <2>7. QED
    BY <2>3, <2>5, <2>6
<1> HIDE DEF p
<1>8. \A i \in 1..Len(p) : p[i] = new[i]
  <2>1. \A i \in 1..(Len(q) - k) : i + k \in 1..Len(q) /\ i \in 1..(Len(q) + 1 - k)
    BY <1>1
  <2>2. QED
    BY <1>2, <1>4, <1>7, <2>1
<1>9. IsPrefix(p, new)
  <2> DEFINE n == Len(p)
             front == SubSeq(new, 1, n)
  <2>1. n \in Nat /\ n <= Len(new) /\ \A i \in 1..n : new[i] \in Queued
    BY <1>1, <1>4, <1>7, ElementOfSeq
  <2>2. /\ front \in Seq(Queued) /\ Len(front) = n
        /\ \A i \in 1..n : front[i] = new[i]
    <3> HIDE DEF n
    <3>1. QED
      BY <2>1, SubSeqProperties
  <2> HIDE DEF front
  <2>3. front = p
    BY <1>7, <1>8, <2>2, SeqEqual
  <2>4. SubSeq(p, 1, n) = p
    BY <1>7, SubSeqFull
  <2>5. QED
    BY <2>1, <2>3, <2>4 DEF front, IsPrefix
<1>10. QED
  BY <1>4, <1>5, <1>6, <1>9 DEF p, Shifts

(* What a queue becomes when add_to_log appends to it. *)
Taken(file, e) ==
  LET entries == Append(file.logs, e)
      over    == IF Len(entries) > QueueCap THEN Len(entries) - QueueCap ELSE 0
  IN  [file EXCEPT !.logs = SubSeq(entries, over + 1, Len(entries)),
                   !.dropped = @ + over,
                   !.last_time_use = 0]

LEMMA QueueTakes ==
  ASSUME NEW n, NEW k, NEW file, GoodQueue(n, k, file), NEW e \in Queued, Dated(n, k, e)
  PROVE  /\ GoodQueue(n, k, Taken(file, e)) /\ KeptIn(file, Taken(file, e))
         /\ \E i \in DOMAIN Taken(file, e).logs : Taken(file, e).logs[i] = e
<1> DEFINE q       == file.logs
           entries == Append(q, e)
           over    == IF Len(entries) > QueueCap THEN Len(entries) - QueueCap ELSE 0
           rest    == SubSeq(entries, over + 1, Len(entries))
           new     == Taken(file, e)
<1>1. /\ q \in Seq(Queued) /\ Len(q) \in Nat /\ Len(q) <= QueueCap /\ DOMAIN q = 1..Len(q)
      /\ file.dropped \in Nat /\ file \in LogFile
      /\ \A i \in DOMAIN q : Dated(n, k, q[i])
  BY LenProperties DEF GoodQueue, LogFile
<1>2. QueueCap \in Nat \ {0} /\ Idle \in Nat \ {0}
  BY BoundsAssumption DEF BoundsAssumption
<1>3. Len(entries) = Len(q) + 1
  BY <1>1, AppendProperties
<1>4. over \in {0, 1} /\ over <= Len(q) /\ Len(q) + 1 - over <= QueueCap
  BY <1>1, <1>2, <1>3
<1>5. /\ new.logs = rest /\ new.dropped = file.dropped + over
      /\ new = [header |-> file.header, logs |-> rest, dropped |-> file.dropped + over,
                last_time_use |-> 0]
  <2>1. new = [file EXCEPT !.logs = rest, !.dropped = @ + over, !.last_time_use = 0]
    BY DEF Taken
  <2> HIDE DEF new, rest, over
  <2>2. QED
    BY <1>1, <2>1 DEF LogFile
<1> HIDE DEF over, q, new
<1>6. /\ rest \in Seq(Queued) /\ Len(rest) = Len(q) + 1 - over
      /\ rest[Len(rest)] = e
      /\ \A i \in 1..Len(rest) : rest[i] = e \/ \E j \in DOMAIN q : rest[i] = q[j]
      /\ IsPrefix(SubSeq(q, over + 1, Len(q)), rest)
  <2>1. Shifts(q, e, over, rest)
    BY <1>1, <1>4, Shifted
  <2> HIDE DEF rest
  <2>2. QED
    BY <2>1 DEF Shifts
<1> HIDE DEF rest
<1>7. Len(rest) \in 1..Len(rest) /\ DOMAIN rest = 1..Len(rest)
  BY <1>1, <1>4, <1>6, LenProperties
<1>8. new \in LogFile
  <2>1. file.header \in STRING /\ file.dropped + over \in Nat /\ 0 \in 0 .. Idle
    BY <1>1, <1>2, <1>4 DEF LogFile
  <2>2. QED
    BY <1>5, <1>6, <2>1 DEF LogFile
<1>9. GoodQueue(n, k, new)
  <2>1. \A i \in DOMAIN rest : Dated(n, k, rest[i])
    BY <1>1, <1>6, <1>7
  <2>2. Len(rest) <= QueueCap /\ rest # <<>>
    BY <1>4, <1>6, <1>7
  <2>3. QED
    BY <1>5, <1>8, <2>1, <2>2 DEF GoodQueue
<1>10. KeptIn(file, new)
  <2>1. new.dropped - file.dropped = over
    BY <1>1, <1>4, <1>5
  <2>2. QED
    BY <1>5, <1>6, <2>1 DEF KeptIn, q
<1>11. QED
  BY <1>5, <1>6, <1>7, <1>9, <1>10 DEF new

(* The file's queue, there already or made now. *)
LEMMA GotLogFile ==
  ASSUME NEW n, NEW d, Good(n, d), NEW k
  PROVE  /\ GoodQueue(n, k, get_log_file(d, k))
         /\ k \in DOMAIN d.files => /\ get_log_file(d, k).logs = d.files[k].logs
                                    /\ get_log_file(d, k).dropped = d.files[k].dropped
<1>1. d.header \in STRING /\ d.files \in FileMaps
  BY DEF Good, Definition
<1>2. CASE k \in DOMAIN d.files
  <2>1. d.files[k] \in LogFile /\ GoodQueue(n, k, d.files[k])
    BY <1>2 DEF Good, GoodQueue
  <2>2. get_log_file(d, k) = [d.files[k] EXCEPT !.header = d.header]
    BY <1>2 DEF get_log_file
  <2>3. /\ get_log_file(d, k) \in LogFile
        /\ get_log_file(d, k).logs = d.files[k].logs
        /\ get_log_file(d, k).dropped = d.files[k].dropped
    BY <1>1, <2>1, <2>2 DEF LogFile
  <2>4. QED
    BY <2>1, <2>3 DEF GoodQueue
<1>3. CASE k \notin DOMAIN d.files
  <2>1. get_log_file(d, k) =
          [header |-> d.header, logs |-> <<>>, dropped |-> 0, last_time_use |-> 0]
    BY <1>3 DEF get_log_file
  <2>2. 0 \in 0 .. Idle /\ QueueCap \in Nat
    BY BoundsAssumption DEF BoundsAssumption
  <2>3. <<>> \in Seq(Queued) /\ Len(<<>>) = 0 /\ DOMAIN <<>> = {}
    BY EmptySeq
  <2>4. get_log_file(d, k) \in LogFile
    BY <1>1, <2>1, <2>2, <2>3 DEF LogFile
  <2>5. QED
    BY <1>3, <2>1, <2>2, <2>3, <2>4 DEF GoodQueue
<1>4. QED
  BY <1>2, <1>3

----------------------------------------------------------------------------
(* The handlers on one map of definitions *)

(* add_to_log touches one file's queue, and this one as QueueTakes says. *)
LEMMA AddedToLog ==
  ASSUME NEW n \in Names, NEW d, Good(n, d),
         NEW k \in Key, Named(n, k), NEW e \in Queued, Dated(n, k, e),
         NEW new, new = add_to_log(d, k, e)
  PROVE  /\ Good(n, new)
         /\ new.last_time_use = d.last_time_use
         /\ new.auto_remove_definition = d.auto_remove_definition
         /\ DOMAIN new.files = DOMAIN d.files \cup {k}
         /\ \A j \in DOMAIN d.files : KeptIn(d.files[j], new.files[j])
         /\ \E i \in DOMAIN new.files[k].logs : new.files[k].logs[i] = e
<1> DEFINE file == get_log_file(d, k)
           v    == Taken(file, e)
           fs   == With(d.files, k, v)
<1>1. d \in Definition /\ d.files \in FileMaps
  BY DEF Good, Definition
<1>2. new = [d EXCEPT !.files = fs]
  BY DEF add_to_log, Taken
<1>3. /\ GoodQueue(n, k, file)
      /\ k \in DOMAIN d.files => file.logs = d.files[k].logs /\ file.dropped = d.files[k].dropped
  BY GotLogFile
<1> HIDE DEF file
<1>4. /\ GoodQueue(n, k, v) /\ KeptIn(file, v)
      /\ \E i \in DOMAIN v.logs : v.logs[i] = e
  BY <1>3, QueueTakes
<1> HIDE DEF v
<1>5. /\ DOMAIN fs = DOMAIN d.files \cup {k} /\ fs[k] = v
      /\ \A j \in DOMAIN d.files : j # k => fs[j] = d.files[j]
      /\ fs = [j \in DOMAIN d.files \cup {k} |-> fs[j]]
  BY DEF With
<1> HIDE DEF fs
<1>6. fs \in FileMaps
  <2>1. \A j \in DOMAIN d.files \cup {k} : fs[j] \in LogFile
    BY <1>1, <1>4, <1>5, FileMapType DEF GoodQueue
  <2>2. DOMAIN d.files \cup {k} \in SUBSET Key
    BY <1>1, FileMapType
  <2>3. QED
    BY <1>5, <2>1, <2>2, IsFileMap
<1>7. new = [path |-> d.path, log_type |-> d.log_type, options |-> d.options, header |-> d.header,
             auto_remove_definition |-> d.auto_remove_definition,
             last_time_use |-> d.last_time_use, files |-> fs]
  BY <1>1, <1>2 DEF Definition
<1>8. new \in Definition
  BY <1>1, <1>6, <1>7 DEF Definition
<1>9. /\ new.files = fs /\ new.last_time_use = d.last_time_use
      /\ new.auto_remove_definition = d.auto_remove_definition
  BY <1>7
<1>10. Good(n, new)
  <2>1. \A j \in DOMAIN d.files : Named(n, j) /\ GoodQueue(n, j, d.files[j])
    BY DEF Good
  <2>2. \A j \in DOMAIN fs : Named(n, j) /\ GoodQueue(n, j, fs[j])
    BY <1>4, <1>5, <2>1
  <2>3. QED
    BY <1>8, <1>9, <2>2 DEF Good
<1>11. ASSUME NEW j \in DOMAIN d.files PROVE KeptIn(d.files[j], fs[j])
  <2>1. CASE j = k
    BY <1>3, <1>4, <1>5, <2>1 DEF KeptIn
  <2>2. CASE j # k
    BY <1>1, <1>5, <2>2, FileMapType, KeptInItself
  <2>3. QED
    BY <2>1, <2>2
<1>12. QED
  BY <1>4, <1>5, <1>9, <1>10, <1>11

(* What def and log leave of the queues: all of them, and of each the entries
   that were not counted as dropped. *)
QueuesKept(defs, new) ==
  \A n \in DOMAIN defs :
    /\ n \in DOMAIN new
    /\ \A k \in DOMAIN defs[n].files :
         k \in DOMAIN new[n].files /\ KeptIn(defs[n].files[k], new[n].files[k])

LEMMA SameQueuesKept ==
  ASSUME NEW n, NEW d, Good(n, d), NEW k \in DOMAIN d.files
  PROVE  KeptIn(d.files[k], d.files[k])
BY KeptInItself DEF Good, GoodQueue

(* What a registration does to the definitions, but for their queues. *)
Registers(defs, n, d, new) ==
  /\ DOMAIN new = DOMAIN defs \cup {n}
  /\ \A m \in DOMAIN defs : m # n => new[m] = defs[m]
  /\ new[n].auto_remove_definition = d.auto_remove_definition
  /\ new[n].last_time_use = IF n \in DOMAIN defs THEN defs[n].last_time_use ELSE 0
  /\ n \in DOMAIN defs => new[n].files = defs[n].files

LEMMA Registered ==
  ASSUME NEW defs, AllGood(defs), NEW n \in Names, NEW d \in Settings,
         NEW new, new = def(defs, n, d)
  PROVE  AllGood(new) /\ QueuesKept(defs, new) /\ Registers(defs, n, d, new)
<1> DEFINE old == IF n \in DOMAIN defs THEN defs[n] ELSE [last_time_use |-> 0, files |-> <<>>]
           v   == [path |-> d.path, log_type |-> d.log_type, options |-> d.options,
                   header |-> d.header, auto_remove_definition |-> d.auto_remove_definition,
                   last_time_use |-> old.last_time_use, files |-> old.files]
<1>1. d \in OpLogDefinition
  BY DefinitionsAssumption
     DEF DefinitionsAssumption, OpLogDefinition
<1>2. /\ old.last_time_use = IF n \in DOMAIN defs THEN defs[n].last_time_use ELSE 0
      /\ old.files = IF n \in DOMAIN defs THEN defs[n].files ELSE <<>>
  OBVIOUS
<1>3. n \in DOMAIN defs => Good(n, defs[n])
  BY DEF AllGood
<1>4. old.last_time_use \in 0 .. Idle /\ old.files \in FileMaps
  <2>1. CASE n \in DOMAIN defs
    BY <1>2, <1>3, <2>1 DEF Good, Definition
  <2>2. CASE n \notin DOMAIN defs
    <3>1. 0 \in 0 .. Idle
      BY BoundsAssumption DEF BoundsAssumption
    <3>2. <<>> = [k \in {} |-> <<>>[k]] /\ {} \in SUBSET Key
      OBVIOUS
    <3>3. <<>> \in FileMaps
      BY <3>2, IsFileMap
    <3>4. QED
      BY <1>2, <2>2, <3>1, <3>3
  <2>3. QED
    BY <2>1, <2>2
<1> HIDE DEF old
<1>5. /\ v \in Definition /\ v.files = old.files /\ v.last_time_use = old.last_time_use
      /\ v.auto_remove_definition = d.auto_remove_definition
  BY <1>1, <1>4 DEF Definition, OpLogDefinition, Key
<1>6. new = With(defs, n, v)
  BY DEF def, old
<1> HIDE DEF v
<1>7. /\ DOMAIN new = DOMAIN defs \cup {n} /\ new[n] = v
      /\ \A m \in DOMAIN defs : m # n => new[m] = defs[m]
  BY <1>6 DEF With
<1>8. Good(n, v)
  <2>1. CASE n \in DOMAIN defs
    BY <1>2, <1>3, <1>5, <2>1 DEF Good
  <2>2. CASE n \notin DOMAIN defs
    BY <1>2, <1>5, <2>2 DEF Good
  <2>3. QED
    BY <2>1, <2>2
<1>9. AllGood(new)
  BY <1>7, <1>8 DEF AllGood
<1>10. QueuesKept(defs, new)
  <2> SUFFICES ASSUME NEW m \in DOMAIN defs
               PROVE  new[m].files = defs[m].files /\ m \in DOMAIN new
    BY SameQueuesKept DEF QueuesKept, AllGood
  <2>1. QED
    BY <1>2, <1>5, <1>7
<1>11. Registers(defs, n, d, new)
  BY <1>2, <1>5, <1>7 DEF Registers
<1>12. QED
  BY <1>9, <1>10, <1>11

(* What an entry does to them. *)
Logs(defs, n, t, new) ==
  /\ DOMAIN new = DOMAIN defs
  /\ \A m \in DOMAIN defs : m # n => new[m] = defs[m]
  /\ \A m \in DOMAIN defs : new[m].auto_remove_definition = defs[m].auto_remove_definition
  /\ n \in DOMAIN defs =>
       /\ new[n].last_time_use = 0
       /\ \E k \in DOMAIN new[n].files : \E i \in DOMAIN new[n].files[k].logs :
            new[n].files[k].logs[i].date = t

LEMMA Logged ==
  ASSUME NEW defs, AllGood(defs), NEW n \in Names, NEW t \in Dates,
         NEW new, new = log(defs, n, t)
  PROVE  AllGood(new) /\ QueuesKept(defs, new) /\ Logs(defs, n, t, new)
<1>1. ASSUME NEW m \in DOMAIN defs, NEW k \in DOMAIN defs[m].files
      PROVE  KeptIn(defs[m].files[k], defs[m].files[k])
  BY SameQueuesKept DEF AllGood
<1>2. CASE n \notin DOMAIN defs
  <2>1. new = defs
    BY <1>2 DEF log
  <2>2. QED
    BY <1>1, <1>2, <2>1 DEF QueuesKept, Logs
<1>3. CASE n \in DOMAIN defs
  <2> DEFINE d == [defs[n] EXCEPT !.last_time_use = 0]
             k == FileName(n, d, t)
             e == format_entry(d, t)
             v == add_to_log(d, k, e)
  <2>1. Good(n, defs[n]) /\ defs[n] \in Definition
    BY <1>3 DEF AllGood, Good
  <2>2. /\ d \in Definition /\ d.files = defs[n].files /\ d.last_time_use = 0
        /\ d.auto_remove_definition = defs[n].auto_remove_definition
    <3>1. 0 \in 0 .. Idle
      BY BoundsAssumption DEF BoundsAssumption
    <3>2. QED
      BY <2>1, <3>1 DEF Definition
  <2>3. Good(n, d)
    <3> HIDE DEF d
    <3>1. QED
      BY <2>1, <2>2 DEF Good
  <2>4. new = [defs EXCEPT ![n] = v]
    BY <1>3 DEF log
  <2> HIDE DEF d
  <2>5. /\ k \in Key /\ Named(n, k)
        /\ e \in Queued /\ e.date = t /\ Dated(n, k, e)
    BY <2>2, NamedAndStamped
  <2> HIDE DEF k, e
  <2>6. /\ Good(n, v) /\ v.last_time_use = d.last_time_use
        /\ v.auto_remove_definition = d.auto_remove_definition
        /\ DOMAIN v.files = DOMAIN d.files \cup {k}
        /\ \A j \in DOMAIN d.files : KeptIn(d.files[j], v.files[j])
        /\ \E i \in DOMAIN v.files[k].logs : v.files[k].logs[i] = e
    BY <2>3, <2>5, AddedToLog
  <2> HIDE DEF v
  <2>7. /\ DOMAIN new = DOMAIN defs /\ new[n] = v
        /\ \A m \in DOMAIN defs : m # n => new[m] = defs[m]
    BY <1>3, <2>4
  <2>8. AllGood(new)
    BY <2>6, <2>7 DEF AllGood
  <2>9. QueuesKept(defs, new)
    <3> SUFFICES ASSUME NEW m \in DOMAIN defs, NEW j \in DOMAIN defs[m].files
                 PROVE  j \in DOMAIN new[m].files /\ KeptIn(defs[m].files[j], new[m].files[j])
      BY <2>7 DEF QueuesKept
    <3>1. CASE m = n
      BY <2>2, <2>6, <2>7, <3>1
    <3>2. CASE m # n
      BY <1>1, <2>7, <3>2
    <3>3. QED
      BY <3>1, <3>2
  <2>10. Logs(defs, n, t, new)
    <3>1. \A m \in DOMAIN defs : new[m].auto_remove_definition = defs[m].auto_remove_definition
      BY <2>2, <2>6, <2>7
    <3>2. \E j \in DOMAIN new[n].files : \E i \in DOMAIN new[n].files[j].logs :
            new[n].files[j].logs[i].date = t
      BY <2>5, <2>6, <2>7
    <3>3. QED
      BY <2>2, <2>6, <2>7, <3>1, <3>2 DEF Logs
  <2>11. QED
    BY <2>8, <2>9, <2>10
<1>4. QED
  BY <1>2, <1>3

(* A write and a cleanup keep the definitions good, too. *)
LEMMA WrittenIsGood ==
  ASSUME NEW defs, AllGood(defs), NEW n \in DOMAIN defs, NEW k \in DOMAIN defs[n].files,
         NEW c \in 1..Len(defs[n].files[k].logs),
         NEW new, new = written(defs, n, k, c)
  PROVE  /\ AllGood(new) /\ DOMAIN new = DOMAIN defs
         /\ \A m \in DOMAIN defs :
              /\ new[m].auto_remove_definition = defs[m].auto_remove_definition
              /\ new[m].last_time_use = defs[m].last_time_use
<1> DEFINE d    == defs[n]
           file == d.files[k]
           rest == SubSeq(file.logs, c + 1, Len(file.logs))
           f2   == [file EXCEPT !.logs = SubSeq(@, c + 1, Len(@)), !.dropped = 0]
           fs   == [d.files EXCEPT ![k] = f2]
           v    == [d EXCEPT !.files = fs]
<1>1. Good(n, d) /\ d \in Definition /\ d.files \in FileMaps
  BY DEF AllGood, Good, Definition
<1>2. GoodQueue(n, k, file) /\ Named(n, k) /\ file \in LogFile
  BY <1>1 DEF Good, GoodQueue
<1>3. new = [defs EXCEPT ![n] = v]
  <2>1. new = [defs EXCEPT ![n].files[k] = f2]
    BY DEF written
  <2> HIDE DEF f2
  <2>2. QED
    BY <2>1
<1> HIDE DEF file
<1>4. /\ file.logs \in Seq(Queued) /\ Len(file.logs) \in Nat /\ DOMAIN file.logs = 1..Len(file.logs)
      /\ c \in 1..Len(file.logs)
  BY <1>2, LenProperties DEF LogFile, file
<1>5. /\ rest \in Seq(Queued) /\ Len(rest) = Len(file.logs) - c
      /\ \A i \in 1..(Len(file.logs) - c) : rest[i] = file.logs[i + c]
  <2>1. \A i \in 1..Len(file.logs) : file.logs[i] \in Queued
    BY <1>4, ElementOfSeq
  <2>2. /\ rest \in Seq(Queued)
        /\ Len(rest) = IF c + 1 <= Len(file.logs) THEN Len(file.logs) - (c + 1) + 1 ELSE 0
        /\ \A i \in 1..(Len(file.logs) - (c + 1) + 1) : rest[i] = file.logs[(c + 1) + i - 1]
    <3>1. /\ c + 1 \in Int /\ Len(file.logs) \in Int
          /\ \A i \in (c + 1)..Len(file.logs) : file.logs[i] \in Queued
      BY <1>4, <2>1
    <3>2. QED
      BY <3>1, SubSeqProperties
  <2> HIDE DEF rest
  <2>3. \A i \in 1..(Len(file.logs) - c) :
          i \in 1..(Len(file.logs) - (c + 1) + 1) /\ (c + 1) + i - 1 = i + c
    BY <1>4
  <2>4. \A i \in 1..(Len(file.logs) - c) : rest[i] = file.logs[i + c]
    BY <2>2, <2>3
  <2>5. Len(rest) = Len(file.logs) - c
    <3>1. \A l \in Nat : \A j \in 1..l : (IF j + 1 <= l THEN l - (j + 1) + 1 ELSE 0) = l - j
      OBVIOUS
    <3>2. QED
      BY <1>4, <2>2, <3>1
  <2>6. QED
    BY <2>2, <2>4, <2>5
<1> HIDE DEF rest
<1>6. f2 = [header |-> file.header, logs |-> rest, dropped |-> 0,
             last_time_use |-> file.last_time_use]
  <2>1. f2 = [file EXCEPT !.logs = rest, !.dropped = 0]
    BY DEF rest
  <2> HIDE DEF f2
  <2>2. QED
    BY <1>2, <2>1 DEF LogFile
<1>7. GoodQueue(n, k, f2)
  <2>1. f2 \in LogFile
    BY <1>2, <1>5, <1>6 DEF LogFile
  <2>2. Len(rest) <= QueueCap
    <3>1. QueueCap \in Nat /\ Len(file.logs) <= QueueCap
      BY <1>2, BoundsAssumption DEF GoodQueue, BoundsAssumption
    <3>2. QED
      BY <1>4, <1>5, <3>1
  <2>3. ASSUME NEW i \in DOMAIN rest PROVE Dated(n, k, rest[i])
    <3>1. i \in 1..(Len(file.logs) - c)
      BY <1>5, LenProperties
    <3>2. i + c \in 1..Len(file.logs) /\ rest[i] = file.logs[i + c]
      BY <1>4, <1>5, <3>1
    <3>3. QED
      BY <1>2, <1>4, <3>2 DEF GoodQueue
  <2>4. f2.logs = rest /\ f2.dropped = 0
    BY <1>6
  <2> HIDE DEF f2
  <2>5. QED
    BY <2>1, <2>2, <2>3, <2>4 DEF GoodQueue
<1> HIDE DEF f2
<1>8. /\ fs \in FileMaps /\ DOMAIN fs = DOMAIN d.files /\ fs[k] = f2
      /\ \A j \in DOMAIN d.files : j # k => fs[j] = d.files[j]
  <2>1. /\ DOMAIN fs = DOMAIN d.files /\ fs[k] = f2 /\ fs = [j \in DOMAIN d.files |-> fs[j]]
        /\ \A j \in DOMAIN d.files : j # k => fs[j] = d.files[j]
    OBVIOUS
  <2> HIDE DEF fs
  <2>2. DOMAIN d.files \in SUBSET Key /\ \A j \in DOMAIN d.files : fs[j] \in LogFile
    BY <1>1, <1>7, <2>1, FileMapType DEF GoodQueue
  <2>3. QED
    BY <2>1, <2>2, IsFileMap
<1> HIDE DEF fs
<1>9. /\ v \in Definition /\ v.files = fs /\ v.last_time_use = d.last_time_use
      /\ v.auto_remove_definition = d.auto_remove_definition
  BY <1>1, <1>8 DEF Definition
<1> HIDE DEF v
<1>10. Good(n, v)
  BY <1>1, <1>7, <1>8, <1>9 DEF Good
<1>11. /\ DOMAIN new = DOMAIN defs /\ new[n] = v
       /\ \A m \in DOMAIN defs : m # n => new[m] = defs[m]
  BY <1>3
<1>12. AllGood(new)
  BY <1>10, <1>11 DEF AllGood
<1>13. QED
  BY <1>9, <1>11, <1>12

(* Some of a definition's queues, and another time of last use. *)
LEMMA SweptIsGood ==
  ASSUME NEW n, NEW d, Good(n, d), NEW K \in SUBSET DOMAIN d.files,
         NEW fs, fs = [k \in K |-> fs[k]], \A k \in K : GoodQueue(n, k, fs[k]),
         NEW used \in 0 .. Idle,
         NEW new,
         new = [path |-> d.path, log_type |-> d.log_type, options |-> d.options,
                header |-> d.header, auto_remove_definition |-> d.auto_remove_definition,
                last_time_use |-> used, files |-> fs]
  PROVE  /\ Good(n, new) /\ new.files = fs /\ new.last_time_use = used
         /\ new.auto_remove_definition = d.auto_remove_definition
<1>1. d \in Definition /\ d.files \in FileMaps
  BY DEF Good, Definition
<1>2. K \in SUBSET Key /\ \A k \in K : fs[k] \in LogFile
  BY <1>1, FileMapType DEF GoodQueue
<1>3. fs \in FileMaps /\ DOMAIN fs = K
  BY <1>2, IsFileMap
<1>4. /\ new \in Definition /\ new.files = fs /\ new.last_time_use = used
      /\ new.auto_remove_definition = d.auto_remove_definition
  BY <1>1, <1>3 DEF Definition
<1>5. \A k \in K : Named(n, k) /\ GoodQueue(n, k, fs[k])
  BY DEF Good
<1>6. QED
  BY <1>3, <1>4, <1>5 DEF Good

(* clean_up forgets queues with nothing left in them or to report, and then
   definitions that asked for it and were idle. *)
LEMMA CleanedUp ==
  ASSUME NEW defs, AllGood(defs), NEW new, new = clean_up(defs)
  PROVE  /\ AllGood(new) /\ DOMAIN new \subseteq DOMAIN defs
         /\ \A n \in DOMAIN new :
              /\ new[n].auto_remove_definition = defs[n].auto_remove_definition
              /\ new[n].last_time_use = defs[n].last_time_use
         /\ \A n \in DOMAIN defs :
              n \in DOMAIN new \/ /\ defs[n].auto_remove_definition
                                  /\ ~(defs[n].last_time_use < Idle)
         /\ \A n \in DOMAIN defs : \A k \in DOMAIN defs[n].files :
              IF n \in DOMAIN new /\ k \in DOMAIN new[n].files
                THEN KeptIn(defs[n].files[k], new[n].files[k])
                ELSE defs[n].files[k].logs = <<>> /\ defs[n].files[k].dropped = 0
<1> DEFINE kept(d) == {k \in DOMAIN d.files : d.files[k].logs # <<>>
                                              \/ d.files[k].last_time_use < Idle}
           fs(n)   == Restrict(defs[n].files, kept(defs[n]))
           sw(n)   == [defs[n] EXCEPT !.files = fs(n)]
           swept   == [n \in DOMAIN defs |-> sw(n)]
           stay    == {n \in DOMAIN swept : \/ ~swept[n].auto_remove_definition
                                            \/ DOMAIN swept[n].files # {}
                                            \/ swept[n].last_time_use < Idle}
<1>1. new = Restrict(swept, stay)
  BY DEF clean_up
<1>2. DOMAIN swept = DOMAIN defs /\ \A n \in DOMAIN defs : swept[n] = sw(n)
  OBVIOUS
<1>3. ASSUME NEW n \in DOMAIN defs
      PROVE  /\ Good(n, sw(n)) /\ sw(n).files = fs(n) /\ DOMAIN fs(n) = kept(defs[n])
             /\ \A k \in kept(defs[n]) : fs(n)[k] = defs[n].files[k]
             /\ sw(n).last_time_use = defs[n].last_time_use
             /\ sw(n).auto_remove_definition = defs[n].auto_remove_definition
  <2>1. Good(n, defs[n]) /\ defs[n] \in Definition
    BY DEF AllGood, Good
  <2>2. kept(defs[n]) \in SUBSET DOMAIN defs[n].files
    OBVIOUS
  <2> HIDE DEF kept
  <2>3. /\ fs(n) = [k \in kept(defs[n]) |-> fs(n)[k]] /\ DOMAIN fs(n) = kept(defs[n])
        /\ \A k \in kept(defs[n]) : fs(n)[k] = defs[n].files[k]
    BY DEF Restrict
  <2> HIDE DEF fs
  <2>4. \A k \in kept(defs[n]) : GoodQueue(n, k, fs(n)[k])
    BY <2>1, <2>2, <2>3 DEF Good
  <2>5. /\ defs[n].last_time_use \in 0 .. Idle
        /\ sw(n) = [path |-> defs[n].path, log_type |-> defs[n].log_type, options |-> defs[n].options,
                    header |-> defs[n].header, auto_remove_definition |-> defs[n].auto_remove_definition,
                    last_time_use |-> defs[n].last_time_use, files |-> fs(n)]
    BY <2>1 DEF Definition
  <2> HIDE DEF sw
  <2>6. /\ Good(n, sw(n)) /\ sw(n).files = fs(n) /\ sw(n).last_time_use = defs[n].last_time_use
        /\ sw(n).auto_remove_definition = defs[n].auto_remove_definition
    BY <2>1, <2>2, <2>3, <2>4, <2>5, SweptIsGood
  <2>7. QED
    BY <2>3, <2>6
<1>a. \A n \in DOMAIN defs : \A k \in DOMAIN defs[n].files :
        \/ k \in kept(defs[n])
        \/ defs[n].files[k].logs = <<>> /\ ~(defs[n].files[k].last_time_use < Idle)
  OBVIOUS
<1> HIDE DEF fs, sw, swept, kept
<1>4. /\ DOMAIN new = stay /\ stay \subseteq DOMAIN defs
      /\ \A n \in stay : new[n] = sw(n)
  BY <1>1, <1>2 DEF Restrict
<1>5. AllGood(new)
  BY <1>3, <1>4 DEF AllGood
<1>6. ASSUME NEW n \in DOMAIN defs, n \notin stay
      PROVE  /\ defs[n].auto_remove_definition /\ ~(defs[n].last_time_use < Idle)
             /\ kept(defs[n]) = {}
  BY <1>2, <1>3, <1>6
<1>7. ASSUME NEW n \in DOMAIN defs, NEW k \in DOMAIN defs[n].files
      PROVE  IF n \in DOMAIN new /\ k \in DOMAIN new[n].files
               THEN KeptIn(defs[n].files[k], new[n].files[k])
               ELSE defs[n].files[k].logs = <<>> /\ defs[n].files[k].dropped = 0
  <2>1. GoodQueue(n, k, defs[n].files[k]) /\ Good(n, defs[n])
    BY DEF AllGood, Good
  <2>2. CASE n \in stay /\ k \in kept(defs[n])
    <3>1. new[n].files = fs(n) /\ k \in DOMAIN fs(n) /\ fs(n)[k] = defs[n].files[k]
      BY <1>3, <1>4, <2>2
    <3>2. KeptIn(defs[n].files[k], defs[n].files[k])
      BY <2>1, SameQueuesKept
    <3>3. QED
      BY <1>4, <2>2, <3>1, <3>2
  <2>3. CASE k \notin kept(defs[n])
    <3>1. defs[n].files[k].logs = <<>> /\ defs[n].files[k].dropped = 0
      BY <1>a, <2>1, <2>3 DEF GoodQueue
    <3>2. ~(n \in DOMAIN new /\ k \in DOMAIN new[n].files)
      BY <1>3, <1>4, <2>3
    <3>3. QED
      BY <3>1, <3>2
  <2>4. n \notin stay => k \notin kept(defs[n])
    BY <1>6
  <2>5. QED
    BY <2>2, <2>3, <2>4
<1> HIDE DEF stay
<1>8. QED
  BY <1>3, <1>4, <1>5, <1>6, <1>7

(* Time passes. *)
LEMMA OlderType ==
  ASSUME NEW age \in 0 .. Idle
  PROVE  Older(age) \in 0 .. Idle /\ (Older(age) < Idle => age < Idle)
BY BoundsAssumption DEF BoundsAssumption, Older

LEMMA AgedIsGood ==
  ASSUME NEW defs, AllGood(defs),
         NEW new, new = [n \in DOMAIN defs |-> Aged(defs[n])]
  PROVE  /\ AllGood(new) /\ DOMAIN new = DOMAIN defs
         /\ \A n \in DOMAIN defs :
              /\ new[n].auto_remove_definition = defs[n].auto_remove_definition
              /\ new[n].last_time_use = Older(defs[n].last_time_use)
              /\ DOMAIN new[n].files = DOMAIN defs[n].files
              /\ \A k \in DOMAIN defs[n].files : KeptIn(defs[n].files[k], new[n].files[k])
<1> DEFINE fs(n) == [k \in DOMAIN defs[n].files |->
                       [defs[n].files[k] EXCEPT !.last_time_use = Older(@)]]
<1>1. DOMAIN new = DOMAIN defs /\ \A n \in DOMAIN defs : new[n] = Aged(defs[n])
  OBVIOUS
<1>2. ASSUME NEW n \in DOMAIN defs
      PROVE  /\ Good(n, Aged(defs[n])) /\ DOMAIN Aged(defs[n]).files = DOMAIN defs[n].files
             /\ Aged(defs[n]).last_time_use = Older(defs[n].last_time_use)
             /\ Aged(defs[n]).auto_remove_definition = defs[n].auto_remove_definition
             /\ \A k \in DOMAIN defs[n].files : KeptIn(defs[n].files[k], Aged(defs[n]).files[k])
  <2>1. Good(n, defs[n]) /\ defs[n] \in Definition
    BY DEF AllGood, Good
  <2>2. Older(defs[n].last_time_use) \in 0 .. Idle
    BY <2>1, OlderType DEF Definition
  <2>3. ASSUME NEW k \in DOMAIN defs[n].files
        PROVE  GoodQueue(n, k, fs(n)[k]) /\ KeptIn(defs[n].files[k], fs(n)[k])
    <3> DEFINE file == defs[n].files[k]
               f2   == fs(n)[k]
    <3>1. GoodQueue(n, k, file) /\ file \in LogFile
      BY <2>1 DEF Good, GoodQueue
    <3>2. Older(file.last_time_use) \in 0 .. Idle
      BY <3>1, OlderType DEF LogFile
    <3>3. f2 = [file EXCEPT !.last_time_use = Older(file.last_time_use)]
      OBVIOUS
    <3> HIDE DEF file, f2
    <3>4. f2 \in LogFile /\ f2.logs = file.logs /\ f2.dropped = file.dropped
      BY <3>1, <3>2, <3>3 DEF LogFile
    <3>5. KeptIn(file, file)
      BY <3>1, KeptInItself
    <3>6. GoodQueue(n, k, f2) /\ KeptIn(file, f2)
      BY <3>1, <3>4, <3>5 DEF GoodQueue, KeptIn
    <3>7. QED
      BY <3>6 DEF file, f2
  <2>4. DOMAIN fs(n) = DOMAIN defs[n].files /\ fs(n) = [k \in DOMAIN defs[n].files |-> fs(n)[k]]
    OBVIOUS
  <2>5. Aged(defs[n]) =
          [path |-> defs[n].path, log_type |-> defs[n].log_type, options |-> defs[n].options,
           header |-> defs[n].header, auto_remove_definition |-> defs[n].auto_remove_definition,
           last_time_use |-> Older(defs[n].last_time_use), files |-> fs(n)]
    <3> DEFINE older == [defs[n] EXCEPT !.last_time_use = Older(@)]
    <3>1. Aged(defs[n]) = [older EXCEPT !.files = fs(n)]
      BY DEF Aged
    <3> HIDE DEF fs
    <3>2. QED
      BY <2>1, <3>1 DEF Definition
  <2> HIDE DEF fs
  <2>6. /\ Good(n, Aged(defs[n])) /\ Aged(defs[n]).files = fs(n)
        /\ Aged(defs[n]).last_time_use = Older(defs[n].last_time_use)
        /\ Aged(defs[n]).auto_remove_definition = defs[n].auto_remove_definition
    BY <2>1, <2>2, <2>3, <2>4, <2>5, SweptIsGood
  <2>7. QED
    BY <2>3, <2>4, <2>6
<1> HIDE DEF fs
<1>3. AllGood(new)
  BY <1>1, <1>2 DEF AllGood
<1>4. QED
  BY <1>1, <1>2, <1>3

----------------------------------------------------------------------------
(* The folds over one registration, one entry, or none *)

LEMMA MaxOne == Max({1}) = 1
BY DEF Max

LEMMA DefAllOne ==
  ASSUME NEW defs, NEW r
  PROVE  def_all(defs, <<r>>) = def(defs, r.log_name, r.d)
<1> DEFINE q == <<r>>
           S == DOMAIN q
           one == def(defs, r.log_name, r.d)
           Step(g, s) == IF s = {} THEN defs
                         ELSE LET i == Max(s)
                              IN  def(g[s \ {i}], q[i].log_name, q[i].d)
           Sol(g) == g = [s \in SUBSET S |-> Step(g, s)]
           fold == CHOOSE g : Sol(g)
           h == [s \in SUBSET S |-> IF s = {} THEN defs ELSE one]
<1>1. S = {1} /\ q[1] = r /\ Max({1}) = 1
  BY MaxOne
<1> HIDE DEF q
<1>2. \A s \in SUBSET S : s = {} \/ (s = {1} /\ s \ {1} = {})
  BY <1>1
<1>3. \A s \in SUBSET S : h[s] = Step(h, s)
  BY <1>1, <1>2
<1>4. Sol(h)
  <2>1. h = [s \in SUBSET S |-> h[s]]
    OBVIOUS
  <2> HIDE DEF h, Step
  <2>2. QED
    BY <1>3, <2>1
<1>5. Sol(fold)
  <2> HIDE DEF h, Sol
  <2>1. QED
    BY <1>4
<1> HIDE DEF fold
<1>6. \A s \in SUBSET S : fold[s] = Step(fold, s)
  <2> HIDE DEF Step
  <2>1. QED
    BY <1>5
<1>7. fold[S] = one
  <2>1. fold[{}] = defs
    BY <1>6
  <2>2. {1} \ {1} = {} /\ {1} # {} /\ {1} \in SUBSET S
    BY <1>1
  <2>3. QED
    BY <1>1, <1>6, <2>1, <2>2
<1>8. def_all(defs, q) = fold[S]
  BY Zenon DEF def_all, FoldLeft, MapThenFoldSet, fold
<1>9. QED
  BY <1>7, <1>8 DEF q

LEMMA LogAllOne ==
  ASSUME NEW defs, NEW r
  PROVE  log_all(defs, <<r>>) = log(defs, r.log_name, r.date)
<1> DEFINE q == <<r>>
           S == DOMAIN q
           one == log(defs, r.log_name, r.date)
           Step(g, s) == IF s = {} THEN defs
                         ELSE LET i == Max(s)
                              IN  log(g[s \ {i}], q[i].log_name, q[i].date)
           Sol(g) == g = [s \in SUBSET S |-> Step(g, s)]
           fold == CHOOSE g : Sol(g)
           h == [s \in SUBSET S |-> IF s = {} THEN defs ELSE one]
<1>1. S = {1} /\ q[1] = r /\ Max({1}) = 1
  BY MaxOne
<1> HIDE DEF q
<1>2. \A s \in SUBSET S : s = {} \/ (s = {1} /\ s \ {1} = {})
  BY <1>1
<1>3. \A s \in SUBSET S : h[s] = Step(h, s)
  BY <1>1, <1>2
<1>4. Sol(h)
  <2>1. h = [s \in SUBSET S |-> h[s]]
    OBVIOUS
  <2> HIDE DEF h, Step
  <2>2. QED
    BY <1>3, <2>1
<1>5. Sol(fold)
  <2> HIDE DEF h, Sol
  <2>1. QED
    BY <1>4
<1> HIDE DEF fold
<1>6. \A s \in SUBSET S : fold[s] = Step(fold, s)
  <2> HIDE DEF Step
  <2>1. QED
    BY <1>5
<1>7. fold[S] = one
  <2>1. fold[{}] = defs
    BY <1>6
  <2>2. {1} \ {1} = {} /\ {1} # {} /\ {1} \in SUBSET S
    BY <1>1
  <2>3. QED
    BY <1>1, <1>6, <2>1, <2>2
<1>8. log_all(defs, q) = fold[S]
  BY Zenon DEF log_all, FoldLeft, MapThenFoldSet, fold
<1>9. QED
  BY <1>7, <1>8 DEF q

LEMMA RegisterAllOne ==
  ASSUME NEW kn, NEW isNew, NEW r
  PROVE  RegisterAll(kn, <<r>>, isNew) = Register(kn, r.log_name, r.d.auto_remove_definition, isNew)
<1> DEFINE q == <<r>>
           S == DOMAIN q
           one == Register(kn, r.log_name, r.d.auto_remove_definition, isNew)
           Step(g, s) == IF s = {} THEN kn
                         ELSE LET i == Max(s)
                              IN  Register(g[s \ {i}], q[i].log_name,
                                           q[i].d.auto_remove_definition, isNew)
           Sol(g) == g = [s \in SUBSET S |-> Step(g, s)]
           fold == CHOOSE g : Sol(g)
           h == [s \in SUBSET S |-> IF s = {} THEN kn ELSE one]
<1>1. S = {1} /\ q[1] = r /\ Max({1}) = 1
  BY MaxOne
<1> HIDE DEF q
<1>2. \A s \in SUBSET S : s = {} \/ (s = {1} /\ s \ {1} = {})
  BY <1>1
<1>3. \A s \in SUBSET S : h[s] = Step(h, s)
  BY <1>1, <1>2
<1>4. Sol(h)
  <2>1. h = [s \in SUBSET S |-> h[s]]
    OBVIOUS
  <2> HIDE DEF h, Step
  <2>2. QED
    BY <1>3, <2>1
<1>5. Sol(fold)
  <2> HIDE DEF h, Sol
  <2>1. QED
    BY <1>4
<1> HIDE DEF fold
<1>6. \A s \in SUBSET S : fold[s] = Step(fold, s)
  <2> HIDE DEF Step
  <2>1. QED
    BY <1>5
<1>7. fold[S] = one
  <2>1. fold[{}] = kn
    BY <1>6
  <2>2. {1} \ {1} = {} /\ {1} # {} /\ {1} \in SUBSET S
    BY <1>1
  <2>3. QED
    BY <1>1, <1>6, <2>1, <2>2
<1>8. RegisterAll(kn, q, isNew) = fold[S]
  BY Zenon DEF RegisterAll, FoldLeft, MapThenFoldSet, fold
<1>9. QED
  BY <1>7, <1>8 DEF q

LEMMA RegisterAllNone ==
  ASSUME NEW kn, NEW isNew
  PROVE  RegisterAll(kn, <<>>, isNew) = kn
<1> DEFINE q == <<>>
           S == DOMAIN q
           Step(g, s) == IF s = {} THEN kn
                         ELSE LET i == Max(s)
                              IN  Register(g[s \ {i}], q[i].log_name,
                                           q[i].d.auto_remove_definition, isNew)
           Sol(g) == g = [s \in SUBSET S |-> Step(g, s)]
           fold == CHOOSE g : Sol(g)
           h == [s \in SUBSET S |-> kn]
<1>1. S = {} /\ \A s \in SUBSET S : s = {}
  OBVIOUS
<1> HIDE DEF q
<1>2. Sol(h)
  <2>1. h = [s \in SUBSET S |-> h[s]] /\ \A s \in SUBSET S : h[s] = Step(h, s)
    BY <1>1
  <2> HIDE DEF h, Step
  <2>2. QED
    BY <2>1
<1>3. Sol(fold)
  <2> HIDE DEF h, Sol
  <2>1. QED
    BY <1>2
<1> HIDE DEF fold
<1>4. \A s \in SUBSET S : fold[s] = Step(fold, s)
  <2> HIDE DEF Step
  <2>1. QED
    BY <1>3
<1>5. fold[S] = kn
  BY <1>1, <1>4
<1>6. RegisterAll(kn, q, isNew) = fold[S]
  BY Zenon DEF RegisterAll, FoldLeft, MapThenFoldSet, fold
<1>7. QED
  BY <1>5, <1>6 DEF q

----------------------------------------------------------------------------
(* What the callers may count on *)

(* The history agrees with the definitions: who asked to be removed, how long
   ago the last entry was, and a name that is not due to expire has one. *)
Booked(kn, defs) ==
  /\ DOMAIN defs \subseteq DOMAIN kn /\ DOMAIN kn \subseteq Names
  /\ \A n \in DOMAIN kn : kn[n] \in [auto : BOOLEAN, since : 0 .. Idle]
  /\ \A n \in DOMAIN defs : /\ kn[n].auto = defs[n].auto_remove_definition
                            /\ kn[n].since = defs[n].last_time_use
  /\ \A n \in DOMAIN kn : Due(kn, n) => n \in DOMAIN defs

(* The inductive invariant. *)
IInv == AllGood(definitions) /\ Booked(known, definitions) /\ ~undue

LEMMA RegisterBooked ==
  ASSUME NEW defs, AllGood(defs), NEW kn, Booked(kn, defs),
         NEW n \in Names, NEW d \in Settings,
         NEW new, new = def(defs, n, d),
         NEW kn2, kn2 = Register(kn, n, d.auto_remove_definition, n \notin DOMAIN defs)
  PROVE  Booked(kn2, new)
<1> DEFINE v == [auto |-> d.auto_remove_definition,
                 since |-> IF n \notin DOMAIN defs THEN 0 ELSE kn[n].since]
<1>1. /\ DOMAIN kn2 = DOMAIN kn \cup {n} /\ kn2[n] = v
      /\ \A m \in DOMAIN kn : m # n => kn2[m] = kn[m]
  BY DEF Register, With
<1>2. d.auto_remove_definition \in BOOLEAN
  BY DefinitionsAssumption
     DEF DefinitionsAssumption, OpLogDefinition
<1>3. 0 \in 0 .. Idle
  BY BoundsAssumption DEF BoundsAssumption
<1>4. n \in DOMAIN defs => kn[n].since \in 0 .. Idle /\ kn[n].since = defs[n].last_time_use
  BY DEF Booked
<1>5. /\ v \in [auto : BOOLEAN, since : 0 .. Idle]
      /\ v.auto = d.auto_remove_definition
      /\ v.since = IF n \in DOMAIN defs THEN defs[n].last_time_use ELSE 0
  BY <1>2, <1>3, <1>4
<1> HIDE DEF v
<1>6. Registers(defs, n, d, new)
  BY Registered
<1>7. DOMAIN new \subseteq DOMAIN kn2 /\ DOMAIN kn2 \subseteq Names
  BY <1>1, <1>6 DEF Booked, Registers
<1>8. \A m \in DOMAIN kn2 : kn2[m] \in [auto : BOOLEAN, since : 0 .. Idle]
  BY <1>1, <1>5 DEF Booked
<1>9. \A m \in DOMAIN new : /\ kn2[m].auto = new[m].auto_remove_definition
                            /\ kn2[m].since = new[m].last_time_use
  BY <1>1, <1>5, <1>6 DEF Booked, Registers
<1>10. \A m \in DOMAIN kn2 : Due(kn2, m) => m \in DOMAIN new
  BY <1>1, <1>6 DEF Booked, Due, Registers
<1>11. QED
  BY <1>7, <1>8, <1>9, <1>10 DEF Booked

LEMMA LogBooked ==
  ASSUME NEW defs, AllGood(defs), NEW kn, Booked(kn, defs),
         NEW n \in Names, NEW t \in Dates,
         NEW new, new = log(defs, n, t),
         NEW kn2, kn2 = [m \in DOMAIN kn |-> IF m \in {n} \cap DOMAIN new
                                               THEN [kn[m] EXCEPT !.since = 0] ELSE kn[m]]
  PROVE  Booked(kn2, new)
<1>1. Logs(defs, n, t, new)
  BY Logged
<1>2. 0 \in 0 .. Idle
  BY BoundsAssumption DEF BoundsAssumption
<1>3. /\ DOMAIN kn2 = DOMAIN kn
      /\ \A m \in DOMAIN kn : m \notin {n} \cap DOMAIN new => kn2[m] = kn[m]
      /\ \A m \in DOMAIN kn : m \in {n} \cap DOMAIN new => kn2[m] = [kn[m] EXCEPT !.since = 0]
  OBVIOUS
<1>4. ASSUME NEW m \in DOMAIN kn
      PROVE  /\ kn2[m] \in [auto : BOOLEAN, since : 0 .. Idle] /\ kn2[m].auto = kn[m].auto
             /\ kn2[m].since = IF m \in {n} \cap DOMAIN new THEN 0 ELSE kn[m].since
  <2>1. kn[m] \in [auto : BOOLEAN, since : 0 .. Idle]
    BY DEF Booked
  <2>2. QED
    BY <1>2, <1>3, <2>1
<1>5. \A m \in DOMAIN new : /\ kn2[m].auto = new[m].auto_remove_definition
                            /\ kn2[m].since = new[m].last_time_use
  BY <1>1, <1>4 DEF Booked, Logs
<1>6. \A m \in DOMAIN kn2 : Due(kn2, m) => m \in DOMAIN new
  BY <1>1, <1>3, <1>4 DEF Booked, Due, Logs
<1>7. QED
  BY <1>1, <1>3, <1>4, <1>5, <1>6 DEF Booked, Logs

(* What Took makes of the history, for a bundle without and with an entry. *)
LEMMA TookNone ==
  ASSUME NEW b, b.logs = <<>>, NEW isNew, Took(b, isNew), ~undue
  PROVE  LET kn == RegisterAll(known, b.definitions, isNew)
         IN  known' = [m \in DOMAIN kn |-> kn[m]] /\ ~undue'
<1> DEFINE kn == RegisterAll(known, b.definitions, isNew)
           lost(l) == l.log_name \notin DOMAIN definitions'
                 \/ \A k \in DOMAIN definitions'[l.log_name].files :
                      ~\E i \in DOMAIN definitions'[l.log_name].files[k].logs :
                         definitions'[l.log_name].files[k].logs[i].date = l.date
           bad  == \E i \in DOMAIN b.logs : lost(b.logs[i]) /\ Due(kn, b.logs[i].log_name)
           kept == {b.logs[i].log_name : i \in DOMAIN b.logs} \cap DOMAIN definitions'
<1>1. /\ known' = [n \in DOMAIN kn |-> IF n \in kept THEN [kn[n] EXCEPT !.since = 0] ELSE kn[n]]
      /\ undue' = (undue \/ bad)
  BY Zenon DEF Took
<1>2. DOMAIN b.logs = {}
  OBVIOUS
<1> HIDE DEF kn, lost
<1>3. ~bad
  BY <1>2
<1>4. kept = {}
  BY <1>2
<1> HIDE DEF bad, kept
<1>5. ~undue'
  BY Zenon, <1>1, <1>3
<1>6. known' = [m \in DOMAIN kn |-> kn[m]]
  BY <1>1, <1>4
<1>7. QED
  BY <1>5, <1>6 DEF kn

LEMMA TookOne ==
  ASSUME NEW b, NEW l, b.logs = <<l>>, NEW isNew, Took(b, isNew), ~undue,
         Due(RegisterAll(known, b.definitions, isNew), l.log_name) =>
           /\ l.log_name \in DOMAIN definitions'
           /\ \E k \in DOMAIN definitions'[l.log_name].files :
                \E i \in DOMAIN definitions'[l.log_name].files[k].logs :
                   definitions'[l.log_name].files[k].logs[i].date = l.date
  PROVE  LET kn == RegisterAll(known, b.definitions, isNew)
         IN  /\ known' = [m \in DOMAIN kn |-> IF m \in {l.log_name} \cap DOMAIN definitions'
                                                THEN [kn[m] EXCEPT !.since = 0] ELSE kn[m]]
             /\ ~undue'
<1> DEFINE kn == RegisterAll(known, b.definitions, isNew)
           lost(x) == x.log_name \notin DOMAIN definitions'
                 \/ \A k \in DOMAIN definitions'[x.log_name].files :
                      ~\E i \in DOMAIN definitions'[x.log_name].files[k].logs :
                         definitions'[x.log_name].files[k].logs[i].date = x.date
           bad  == \E i \in DOMAIN b.logs : lost(b.logs[i]) /\ Due(kn, b.logs[i].log_name)
           kept == {b.logs[i].log_name : i \in DOMAIN b.logs} \cap DOMAIN definitions'
<1>1. /\ known' = [n \in DOMAIN kn |-> IF n \in kept THEN [kn[n] EXCEPT !.since = 0] ELSE kn[n]]
      /\ undue' = (undue \/ bad)
  BY Zenon DEF Took
<1>2. DOMAIN b.logs = {1} /\ b.logs[1] = l
  OBVIOUS
<1>3. Due(kn, l.log_name) => ~lost(l)
  OBVIOUS
<1> HIDE DEF kn, lost
<1>4. ~bad
  BY <1>2, <1>3
<1>5. kept = {l.log_name} \cap DOMAIN definitions'
  BY <1>2
<1> HIDE DEF bad, kept
<1>6. ~undue'
  BY Zenon, <1>1, <1>4
<1>7. QED
  BY <1>1, <1>5, <1>6 DEF kn

----------------------------------------------------------------------------
(* The steps *)

(* No queue loses an entry but the counted ones, and only a queue with nothing
   in it and nothing to report is forgotten. *)
NothingLost(defs, new) ==
  \A n \in DOMAIN defs : \A k \in DOMAIN defs[n].files :
    IF n \in DOMAIN new /\ k \in DOMAIN new[n].files
      THEN KeptIn(defs[n].files[k], new[n].files[k])
      ELSE defs[n].files[k].logs = <<>> /\ defs[n].files[k].dropped = 0

LEMMA StepDef ==
  ASSUME IInv, Def
  PROVE  IInv' /\ NothingLost(definitions, definitions')
<1>1. PICK n \in Names, d \in Settings :
        /\ definitions' = def(definitions, n, d)
        /\ Took(add_definition(NewBundle, n, d), n \notin DOMAIN definitions)
  BY DEF Def
<1> DEFINE isNew  == n \notin DOMAIN definitions
           bundle == add_definition(NewBundle, n, d)
           kn     == RegisterAll(known, bundle.definitions, isNew)
<1>2. bundle.logs = <<>> /\ bundle.definitions = <<[log_name |-> n, d |-> d]>>
  BY DEF add_definition, NewBundle
<1>3. kn = Register(known, n, d.auto_remove_definition, isNew)
  <2> DEFINE r == [log_name |-> n, d |-> d]
  <2>1. kn = RegisterAll(known, <<r>>, isNew) /\ r.log_name = n /\ r.d = d
    BY Zenon, <1>2
  <2> HIDE DEF kn, isNew, r
  <2>2. QED
    BY <2>1, RegisterAllOne
<1>4. known' = [m \in DOMAIN kn |-> kn[m]] /\ ~undue'
  <2>1. ~undue /\ bundle.logs = <<>> /\ Took(bundle, isNew)
    BY <1>1, <1>2 DEF IInv
  <2> HIDE DEF bundle, isNew
  <2>2. QED
    BY Zenon, <2>1, TookNone
<1>5. known' = kn
  <2>1. kn = [m \in DOMAIN kn |-> kn[m]]
    BY <1>3 DEF Register, With
  <2>2. QED
    BY Zenon, <1>4, <2>1
<1>6. AllGood(definitions') /\ QueuesKept(definitions, definitions')
  BY <1>1, Registered DEF IInv
<1>7. Booked(known', definitions')
  <2> HIDE DEF kn
  <2>1. QED
    BY <1>1, <1>3, <1>5, RegisterBooked DEF IInv
<1>8. QED
  BY <1>4, <1>6, <1>7 DEF IInv, QueuesKept, NothingLost

LEMMA StepLog ==
  ASSUME IInv, Log
  PROVE  IInv' /\ NothingLost(definitions, definitions')
<1>1. PICK n \in Names, t \in Dates :
        definitions' = log(definitions, n, t) /\ Took(add_log(NewBundle, n, t), FALSE)
  BY DEF Log
<1> DEFINE bundle == add_log(NewBundle, n, t)
           l      == [log_name |-> n, date |-> t]
           kn     == RegisterAll(known, bundle.definitions, FALSE)
<1>2. bundle.logs = <<l>> /\ bundle.definitions = <<>> /\ l.log_name = n /\ l.date = t
  BY DEF add_log, NewBundle
<1>3. kn = known
  BY Zenon, <1>2, RegisterAllNone
<1>4. /\ AllGood(definitions') /\ QueuesKept(definitions, definitions')
      /\ Logs(definitions, n, t, definitions')
  BY <1>1, Logged DEF IInv
<1> HIDE DEF bundle, kn, l
<1>5. Due(kn, l.log_name) =>
        /\ l.log_name \in DOMAIN definitions'
        /\ \E k \in DOMAIN definitions'[l.log_name].files :
             \E i \in DOMAIN definitions'[l.log_name].files[k].logs :
                definitions'[l.log_name].files[k].logs[i].date = l.date
  BY <1>2, <1>3, <1>4 DEF IInv, Booked, Logs, Due
<1>6. /\ known' = [m \in DOMAIN kn |-> IF m \in {l.log_name} \cap DOMAIN definitions'
                                         THEN [kn[m] EXCEPT !.since = 0] ELSE kn[m]]
      /\ ~undue'
  <2>1. ~undue /\ bundle.logs = <<l>> /\ Took(bundle, FALSE)
    BY <1>1, <1>2 DEF IInv, bundle
  <2>2. QED
    BY Zenon, <1>5, <2>1, TookOne DEF kn
<1>7. Booked(known', definitions')
  <2>1. known' = [m \in DOMAIN known |-> IF m \in {n} \cap DOMAIN definitions'
                                           THEN [known[m] EXCEPT !.since = 0] ELSE known[m]]
    BY <1>2, <1>3, <1>6
  <2>2. QED
    BY <1>1, <2>1, LogBooked DEF IInv
<1>8. QED
  BY <1>4, <1>6, <1>7 DEF IInv, QueuesKept, NothingLost

LEMMA StepBundle ==
  ASSUME IInv, Bundle
  PROVE  IInv' /\ NothingLost(definitions, definitions')
<1>1. PICK n \in Names, name \in Names, d \in Settings, t \in Dates :
        LET bundle == add_log(add_definition(NewBundle, n, d), name, t)
        IN  /\ definitions' = process_bundle(definitions, bundle)
            /\ Took(bundle, n \notin DOMAIN definitions)
  BY DEF Bundle
<1> DEFINE isNew  == n \notin DOMAIN definitions
           bundle == add_log(add_definition(NewBundle, n, d), name, t)
           r      == [log_name |-> n, d |-> d]
           l      == [log_name |-> name, date |-> t]
           kn     == RegisterAll(known, bundle.definitions, isNew)
           mid    == def(definitions, n, d)
<1>2. /\ bundle.logs = <<l>> /\ bundle.definitions = <<r>>
      /\ l.log_name = name /\ l.date = t /\ r.log_name = n /\ r.d = d
  BY DEF add_log, add_definition, NewBundle
<1>3. definitions' = process_bundle(definitions, bundle) /\ Took(bundle, isNew)
  BY <1>1
<1> HIDE DEF bundle, l, r
<1>4. kn = Register(known, n, d.auto_remove_definition, isNew)
  <2>1. kn = RegisterAll(known, <<r>>, isNew)
    BY Zenon, <1>2
  <2> HIDE DEF kn, isNew
  <2>2. QED
    BY <1>2, <2>1, RegisterAllOne
<1>5. definitions' = log(mid, name, t)
  <2>1. definitions' = log_all(def_all(definitions, <<r>>), <<l>>)
    BY Zenon, <1>2, <1>3 DEF process_bundle
  <2>2. def_all(definitions, <<r>>) = mid
    BY <1>2, DefAllOne
  <2> HIDE DEF mid
  <2>3. QED
    BY <1>2, <2>1, <2>2, LogAllOne
<1>6. /\ AllGood(mid) /\ Registers(definitions, n, d, mid)
  BY Registered DEF IInv
<1>7. Booked(kn, mid)
  <2> HIDE DEF kn, mid
  <2>1. QED
    BY <1>4, RegisterBooked DEF IInv, mid
<1> HIDE DEF mid, kn
<1>8. /\ AllGood(definitions') /\ QueuesKept(mid, definitions')
      /\ Logs(mid, name, t, definitions')
  BY <1>5, <1>6, Logged
<1>9. Due(kn, l.log_name) =>
        /\ l.log_name \in DOMAIN definitions'
        /\ \E k \in DOMAIN definitions'[l.log_name].files :
             \E i \in DOMAIN definitions'[l.log_name].files[k].logs :
                definitions'[l.log_name].files[k].logs[i].date = l.date
  BY <1>2, <1>7, <1>8 DEF Booked, Logs, Due
<1>10. /\ known' = [m \in DOMAIN kn |-> IF m \in {l.log_name} \cap DOMAIN definitions'
                                          THEN [kn[m] EXCEPT !.since = 0] ELSE kn[m]]
       /\ ~undue'
  <2>1. ~undue
    BY DEF IInv
  <2> HIDE DEF isNew
  <2>2. QED
    BY Zenon, <1>2, <1>3, <1>9, <2>1, TookOne DEF kn
<1>11. Booked(known', definitions')
  <2>1. known' = [m \in DOMAIN kn |-> IF m \in {name} \cap DOMAIN definitions'
                                        THEN [kn[m] EXCEPT !.since = 0] ELSE kn[m]]
    BY <1>2, <1>10
  <2>2. QED
    BY <1>5, <1>6, <1>7, <2>1, LogBooked
<1>12. NothingLost(definitions, definitions')
  <2>1. \A m \in DOMAIN definitions : m \in DOMAIN mid /\ mid[m].files = definitions[m].files
    BY <1>6 DEF Registers
  <2>2. QED
    BY <1>8, <2>1 DEF QueuesKept, NothingLost
<1>13. QED
  BY <1>8, <1>10, <1>11, <1>12 DEF IInv

LEMMA FilesOf ==
  ASSUME NEW defs, NEW f
  PROVE  /\ f \in Files(defs) => /\ f[1] \in DOMAIN defs /\ f[2] \in DOMAIN defs[f[1]].files
                                 /\ f = <<f[1], f[2]>>
         /\ \A n \in DOMAIN defs : \A k \in DOMAIN defs[n].files :
              f = <<n, k>> => f \in Files(defs)
<1>1. ASSUME f \in Files(defs)
      PROVE  f[1] \in DOMAIN defs /\ f[2] \in DOMAIN defs[f[1]].files /\ f = <<f[1], f[2]>>
  <2>1. PICK n \in DOMAIN defs : f \in {<<n, k>> : k \in DOMAIN defs[n].files}
    BY <1>1 DEF Files
  <2>2. PICK k \in DOMAIN defs[n].files : f = <<n, k>>
    BY <2>1
  <2>3. QED
    BY <2>2
<1>2. ASSUME NEW n \in DOMAIN defs, NEW k \in DOMAIN defs[n].files, f = <<n, k>>
      PROVE  f \in Files(defs)
  <2>1. f \in {<<n, j>> : j \in DOMAIN defs[n].files}
    BY <1>2
  <2>2. QED
    BY <2>1 DEF Files
<1>3. QED
  BY <1>1, <1>2

LEMMA StepWriteFile ==
  ASSUME IInv, WriteFile
  PROVE  IInv'
<1>1. PICK f \in Files(definitions) : \E c \in 1 .. Len(Queue(definitions, f)) :
        definitions' = written(definitions, f[1], f[2], c)
  BY DEF WriteFile
<1>2. PICK c \in 1 .. Len(definitions[f[1]].files[f[2]].logs) :
        definitions' = written(definitions, f[1], f[2], c)
  BY <1>1 DEF Queue
<1>3. f[1] \in DOMAIN definitions /\ f[2] \in DOMAIN definitions[f[1]].files
  BY FilesOf
<1>4. /\ AllGood(definitions') /\ DOMAIN definitions' = DOMAIN definitions
      /\ \A m \in DOMAIN definitions :
           /\ definitions'[m].auto_remove_definition = definitions[m].auto_remove_definition
           /\ definitions'[m].last_time_use = definitions[m].last_time_use
  BY <1>2, <1>3, WrittenIsGood DEF IInv
<1>5. known' = known /\ undue' = undue
  BY DEF WriteFile
<1>6. QED
  BY <1>4, <1>5 DEF IInv, Booked, Due

LEMMA StepCleanUp ==
  ASSUME IInv, CleanUp
  PROVE  IInv' /\ NothingLost(definitions, definitions')
<1>1. definitions' = clean_up(definitions) /\ known' = known /\ undue' = undue
  BY DEF CleanUp
<1>2. /\ AllGood(definitions') /\ DOMAIN definitions' \subseteq DOMAIN definitions
      /\ \A n \in DOMAIN definitions' :
           /\ definitions'[n].auto_remove_definition = definitions[n].auto_remove_definition
           /\ definitions'[n].last_time_use = definitions[n].last_time_use
      /\ \A n \in DOMAIN definitions :
           n \in DOMAIN definitions' \/ /\ definitions[n].auto_remove_definition
                                        /\ ~(definitions[n].last_time_use < Idle)
      /\ NothingLost(definitions, definitions')
  BY <1>1, CleanedUp DEF IInv, NothingLost
<1>3. Booked(known', definitions')
  BY <1>1, <1>2 DEF IInv, Booked, Due
<1>4. QED
  BY <1>1, <1>2, <1>3 DEF IInv

LEMMA StepTick ==
  ASSUME IInv, Tick
  PROVE  IInv' /\ NothingLost(definitions, definitions')
<1>1. /\ definitions' = [n \in DOMAIN definitions |-> Aged(definitions[n])]
      /\ known' = [n \in DOMAIN known |-> [known[n] EXCEPT !.since = Older(@)]]
      /\ undue' = undue
  BY DEF Tick
<1>2. /\ AllGood(definitions') /\ DOMAIN definitions' = DOMAIN definitions
      /\ \A n \in DOMAIN definitions :
           /\ definitions'[n].auto_remove_definition = definitions[n].auto_remove_definition
           /\ definitions'[n].last_time_use = Older(definitions[n].last_time_use)
           /\ DOMAIN definitions'[n].files = DOMAIN definitions[n].files
           /\ \A k \in DOMAIN definitions[n].files :
                KeptIn(definitions[n].files[k], definitions'[n].files[k])
  BY <1>1, AgedIsGood DEF IInv
<1>3. ASSUME NEW n \in DOMAIN known
      PROVE  /\ known'[n] \in [auto : BOOLEAN, since : 0 .. Idle]
             /\ known'[n].auto = known[n].auto /\ known'[n].since = Older(known[n].since)
             /\ known'[n].since < Idle => known[n].since < Idle
  <2>1. known[n] \in [auto : BOOLEAN, since : 0 .. Idle]
    BY DEF IInv, Booked
  <2>2. known'[n] = [known[n] EXCEPT !.since = Older(known[n].since)]
    BY <1>1
  <2>3. /\ Older(known[n].since) \in 0 .. Idle
        /\ Older(known[n].since) < Idle => known[n].since < Idle
    BY <2>1, OlderType
  <2>4. QED
    BY <2>1, <2>2, <2>3
<1>4. Booked(known', definitions')
  <2>1. DOMAIN known' = DOMAIN known
    BY <1>1
  <2>2. QED
    BY <1>2, <1>3, <2>1 DEF IInv, Booked, Due
<1>5. QED
  BY <1>1, <1>2, <1>4 DEF IInv, NothingLost

LEMMA InitIInv == Init => IInv
<1> SUFFICES ASSUME Init PROVE IInv
  OBVIOUS
<1>1. definitions = <<>> /\ known = <<>> /\ ~undue /\ DOMAIN <<>> = {}
  BY DEF Init
<1>2. DOMAIN definitions = {} /\ DOMAIN known = {}
  BY <1>1
<1>3. QED
  BY <1>1, <1>2 DEF IInv, AllGood, Booked

LEMMA StepIInv == IInv /\ [Next]_vars => IInv'
<1> SUFFICES ASSUME IInv, [Next]_vars PROVE IInv'
  OBVIOUS
<1>1. CASE Next
  BY <1>1, StepDef, StepLog, StepBundle, StepWriteFile, StepCleanUp, StepTick DEF Next
<1>2. CASE UNCHANGED vars
  BY <1>2 DEF vars, IInv
<1>3. QED
  BY <1>1, <1>2

LEMMA IInvHolds == Spec => []IInv
BY InitIInv, StepIInv, PTL DEF Spec

----------------------------------------------------------------------------
(* What follows *)

(* Every variable holds a value of its type, and no queue is over its cap. *)
THEOREM TypesHold == Spec => []TypeOK
<1>1. IInv => TypeOK
  <2> SUFFICES ASSUME IInv PROVE TypeOK
    OBVIOUS
  <2>1. ASSUME NEW n \in DOMAIN definitions
        PROVE  /\ LogDefinition(definitions[n])
               /\ \A k \in DOMAIN definitions[n].files :
                    k \in Seq(Tokens) /\ Len(definitions[n].files[k].logs) <= QueueCap
    <3> DEFINE d == definitions[n]
               five == Restrict(d, {"path", "log_type", "options", "header",
                                    "auto_remove_definition"})
    <3>1. Good(n, d) /\ d \in Definition
      BY DEF IInv, AllGood, Good
    <3>2. \A k \in DOMAIN d.files :
            k \in Seq(Tokens) /\ d.files[k] \in LogFile /\ Len(d.files[k].logs) <= QueueCap
      <4>1. d.files \in FileMaps
        BY <3>1 DEF Definition
      <4>2. DOMAIN d.files \subseteq Seq(Tokens)
        BY <4>1, FileMapType DEF Key
      <4>3. QED
        BY <3>1, <4>2 DEF Good, GoodQueue
    <3>3. five \in OpLogDefinition
      BY <3>1 DEF Definition, OpLogDefinition, Key, Restrict
    <3>4. d.last_time_use \in 0 .. Idle
      BY <3>1 DEF Definition
    <3>5. QED
      BY <3>2, <3>3, <3>4 DEF LogDefinition
  <2>2. QED
    BY <2>1 DEF TypeOK, IInv, Booked
<1>2. QED
  BY <1>1, IInvHolds, PTL

(* No entry of a name that is not due to expire is ever discarded for want of
   a definition. *)
THEOREM KeptInTime == Spec => []InTimeIsKept
<1>1. IInv => InTimeIsKept
  BY DEF IInv, InTimeIsKept
<1>2. QED
  BY <1>1, IInvHolds, PTL

(* Two entries in one file with one stamp are of the same local time, whatever
   the settings of the definition were when they came. *)
THEOREM FileAndStampTellTime == Spec => []StampsTellTime
<1>1. IInv => StampsTellTime
  <2> SUFFICES ASSUME IInv,
                      NEW f \in Files(definitions),
                      NEW i \in DOMAIN Queue(definitions, f),
                      NEW j \in DOMAIN Queue(definitions, f),
                      Queue(definitions, f)[i].stamp = Queue(definitions, f)[j].stamp,
                      Queue(definitions, f)[i].stamp # <<>>
               PROVE  Calendar[Queue(definitions, f)[i].date]
                        = Calendar[Queue(definitions, f)[j].date]
    BY DEF StampsTellTime
  <2> DEFINE a == Queue(definitions, f)[i]
             b == Queue(definitions, f)[j]
             n == f[1]
             k == f[2]
  <2>1. /\ n \in Key /\ k \in Key
        /\ \A c \in DOMAIN Queue(definitions, f) :
             Queue(definitions, f)[c] \in Queued /\ Dated(n, k, Queue(definitions, f)[c])
    <3>1. n \in DOMAIN definitions /\ k \in DOMAIN definitions[n].files
      BY FilesOf
    <3>2. Good(n, definitions[n]) /\ n \in Key
      BY <3>1, DefinitionsAssumption DEF IInv, AllGood, DefinitionsAssumption, Key
    <3>3. GoodQueue(n, k, definitions[n].files[k]) /\ definitions[n].files \in FileMaps
      BY <3>1, <3>2 DEF Good, Definition
    <3>4. Queue(definitions, f) \in Seq(Queued)
      BY <3>3 DEF GoodQueue, LogFile, Queue
    <3>5. \A c \in DOMAIN Queue(definitions, f) : Queue(definitions, f)[c] \in Queued
      BY <3>4, LenProperties, ElementOfSeq
    <3>6. \A c \in DOMAIN Queue(definitions, f) : Dated(n, k, Queue(definitions, f)[c])
      BY <3>3 DEF GoodQueue, Queue
    <3>7. k \in Key
      BY <3>1, <3>3, FileMapType
    <3>8. QED
      BY <3>2, <3>5, <3>6, <3>7
  <2>2. a \in Queued /\ b \in Queued /\ Dated(n, k, a) /\ Dated(n, k, b)
    BY <2>1
  <2>3. a.stamp = b.stamp /\ a.stamp # <<>>
    OBVIOUS
  <2>4. n \in Names
    BY FilesOf DEF IInv, AllGood
  <2> HIDE DEF a, b, n, k
  <2>5. a.date \in Dates /\ b.date \in Dates
    BY <2>2 DEF Queued
  <2>6. PICK d \in Definition :
          k = FileName(n, d, a.date) /\ a.stamp = format_date_in_log(d.log_type, a.date)
    BY <2>2, <2>3 DEF Dated
  <2>7. PICK e \in Definition :
          k = FileName(n, e, b.date) /\ b.stamp = format_date_in_log(e.log_type, b.date)
    BY <2>2, <2>3 DEF Dated
  <2>8. d.log_type # "NoSplit" /\ e.log_type # "NoSplit"
    BY <2>3, <2>6, <2>7 DEF format_date_in_log
  <2>9. /\ d.log_type \in Splits
        /\ Under(n, k, d.log_type, a.date) \/ Behind(n, k, d.log_type, a.date)
    BY <2>4, <2>5, <2>6, <2>8, FileNameIs
  <2>10. /\ e.log_type \in Splits
         /\ Under(n, k, e.log_type, b.date) \/ Behind(n, k, e.log_type, b.date)
    BY <2>4, <2>5, <2>7, <2>8, FileNameIs
  <2>11. /\ d.log_type = e.log_type
         /\ Period(d.log_type, a.date) = Period(e.log_type, b.date)
    <3>1. n \in Key /\ k \in Key
      BY <2>1
    <3>2. QED
      BY <2>5, <2>9, <2>10, <3>1, OneFileOnePeriod
  <2>12. /\ d.log_type \in LogTypes
         /\ format_date_in_log(d.log_type, a.date) = format_date_in_log(d.log_type, b.date)
         /\ format_date_in_path(d.log_type, a.date) = format_date_in_path(d.log_type, b.date)
    BY Zenon, <2>3, <2>6, <2>7, <2>9, <2>11 DEF Period, Splits
  <2>13. Calendar[a.date] = Calendar[b.date]
    BY Zenon, <2>5, <2>8, <2>12, PeriodAndStampTellTime
  <2>14. QED
    BY <2>13 DEF a, b
<1>2. QED
  BY <1>1, IInvHolds, PTL

(* Two queues feed one file only if one log has the other's name with a period
   behind it, and no period in the name of this file. *)
THEOREM FilesAreSharedByPeriod == Spec => []SharedOnlyByPeriod
<1>1. IInv => SharedOnlyByPeriod
  <2> SUFFICES ASSUME IInv, NEW f \in Files(definitions), NEW g \in Files(definitions),
                      f # g, f[2] = g[2], "/" \notin Range(f[1]) \cup Range(g[1])
               PROVE  Takes(f[2], f[1], g[1]) \/ Takes(f[2], g[1], f[1])
    BY Zenon DEF SharedOnlyByPeriod, Takes
  <2>1. ASSUME NEW h \in Files(definitions)
        PROVE  /\ h[1] \in Key /\ h[2] \in Key /\ h = <<h[1], h[2]>>
               /\ \/ Plain(h[1], h[2])
                  \/ \E type \in Splits, t \in Dates : Behind(h[1], h[2], type, t)
    <3>1. /\ h[1] \in DOMAIN definitions /\ h[2] \in DOMAIN definitions[h[1]].files
          /\ h = <<h[1], h[2]>>
      BY FilesOf
    <3>2. /\ Good(h[1], definitions[h[1]])
          /\ h[1] \in Names /\ h[1] \in Key
      BY <3>1, DefinitionsAssumption DEF IInv, AllGood, DefinitionsAssumption, Key
    <3>3. Named(h[1], h[2])
      BY <3>1, <3>2 DEF Good
    <3>4. PICK d \in Definition, t \in Dates : h[2] = FileName(h[1], d, t)
      BY <3>3 DEF Named
    <3>5. /\ h[2] \in Key
          /\ \/ Plain(h[1], h[2])
             \/ d.log_type \in Splits /\ Under(h[1], h[2], d.log_type, t)
             \/ d.log_type \in Splits /\ Behind(h[1], h[2], d.log_type, t)
      BY <3>2, <3>4, FileNameIs
    <3>6. \/ Plain(h[1], h[2])
          \/ \E type \in Splits, u \in Dates : Behind(h[1], h[2], type, u)
      BY Zenon, <3>2, <3>5, UnderIsPlain
    <3>7. QED
      BY <3>1, <3>2, <3>5, <3>6
  <2> DEFINE n == f[1]
             m == g[1]
             k == f[2]
  <2>2. /\ n \in Key /\ k \in Key
        /\ Plain(n, k) \/ \E type \in Splits, t \in Dates : Behind(n, k, type, t)
    BY Zenon, <2>1
  <2>3. /\ m \in Key
        /\ Plain(m, k) \/ \E type \in Splits, t \in Dates : Behind(m, k, type, t)
    BY Zenon, <2>1
  <2>4. NoSlash(n) /\ NoSlash(m)
    BY DEF NoSlash
  <2>5. n # m
    BY <2>1
  <2> HIDE DEF n, m, k
  <2>6. Takes(k, n, m) \/ Takes(k, m, n)
    BY Zenon, <2>2, <2>3, <2>4, <2>5, OneFileTwoLogs
  <2>7. QED
    BY Zenon, <2>6 DEF n, m, k
<1>2. QED
  BY <1>1, IInvHolds, PTL

(* But for a write, no step of the worker takes an entry from a queue without
   counting it, and none forgets a queue with entries in it or drops to
   report. *)
THEOREM EntriesStay == Spec => EntriesKept
<1> DEFINE Kept(f) ==
      LET old == definitions[f[1]].files[f[2]]
          new == definitions'[f[1]].files[f[2]]
          out == new.dropped - old.dropped
      IN  IF f \notin Files(definitions') THEN old.logs = <<>> /\ old.dropped = 0
          ELSE IsPrefix(SubSeq(old.logs, out + 1, Len(old.logs)), new.logs)
<1>1. ASSUME IInv, Next PROVE WriteFile \/ \A f \in Files(definitions) : Kept(f)
  <2>1. SUFFICES ASSUME NothingLost(definitions, definitions'), NEW f \in Files(definitions)
                 PROVE  Kept(f)
    BY <1>1, StepDef, StepLog, StepBundle, StepCleanUp, StepTick DEF Next
  <2>2. /\ f[1] \in DOMAIN definitions /\ f[2] \in DOMAIN definitions[f[1]].files
        /\ f = <<f[1], f[2]>>
    BY FilesOf
  <2>3. f \in Files(definitions')
          <=> f[1] \in DOMAIN definitions' /\ f[2] \in DOMAIN definitions'[f[1]].files
    BY <2>2, FilesOf
  <2>4. QED
    BY <2>1, <2>2, <2>3 DEF NothingLost, KeptIn
<1>2. IInv /\ [Next]_vars
        => [WriteFile \/ \A f \in Files(definitions) : Kept(f)]_vars
  BY <1>1
<1>3. QED
  BY <1>2, IInvHolds, PTL DEF Spec, EntriesKept

=============================================================================
