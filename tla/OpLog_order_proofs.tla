------------------------- MODULE OpLog_order_proofs -------------------------
(***************************************************************************)
(* What OpLog_proofs leaves: no entry the channel took is ever lost, a     *)
(* shutdown and a get_info come after everything that waited before them,  *)
(* and what one thread logs stays in order up to the disk.  The argument   *)
(* is the order of the channel: what a message follows leaves before it,   *)
(* and what goes in later is an id nobody has seen, the latest of its      *)
(* thread.                                                                 *)
(***************************************************************************)
EXTENDS OpLog_proofs

(* An id that was given out is not one a call is still about to send. *)
IssuedId(id) ==
  /\ id[2] <= sends[id[1]]
  /\ call[id[1]].at \in {"notice", "restore", "entry"} => id[2] < sends[id[1]]

Issued(A) == \A id \in A : IssuedId(id)

IssuedInv ==
  Issued(Pending) /\ Issued(before_stop) /\ \A a \in Askers : Issued(ahead[a])

(* No entry of A is in the channel at place j or after it. *)
AllBefore(A, c, j) == \A i \in DOMAIN c : j <= i => EntryOf(c[i]) \cap A = {}

Final == worker.why = "final"

(* The entries that a stop message follows leave the channel before it, and
   every stop message came when they were already there. *)
StopInv ==
  /\ Closed => Final
  /\ Final => stopping \/ dropped
  /\ ~stopping => before_stop = {}
  /\ Final => before_stop \cap Entries(channel) = {}
  /\ stopping /\ ~Final => \E j \in DOMAIN channel : channel[j].kind = "stop"
  /\ \A j \in DOMAIN channel :
       channel[j].kind = "stop" => stopping /\ AllBefore(before_stop, channel, j)
  /\ before_stop \subseteq Pending \cup Stored \cup lost
  /\ ShutdownFlushes

(* The same of the entries a get_info follows. *)
InfoInv ==
  /\ \A j \in DOMAIN channel :
       channel[j].kind = "info" =>
         /\ asker[channel[j].asker] # "idle"
         /\ AllBefore(ahead[channel[j].asker], channel, j)
  /\ worker.why = "info" /\ worker.at \in {"report", "pass"} =>
       /\ worker.asker \in Askers /\ asker[worker.asker] # "idle"
       /\ ahead[worker.asker] \cap Entries(channel) = {}

----------------------------------------------------------------------------
(* What a step does to the entries and to the worker *)

(* An id nobody has seen. *)
NewId(id) ==
  \/ id[2] > sends[id[1]]
  \/ id[2] = sends[id[1]] /\ call[id[1]].at = "entry"

(* send_log and the calls that are one try_send. *)
Sends ==
  /\ UNCHANGED <<queue, written, lost, dropped, asker, marks>>
  /\ worker' = worker \/ (worker.at = "report" /\ worker' = [worker EXCEPT !.at = "pass"])
  /\ \A id \in Id : IssuedId(id) => IssuedId(id)'
  /\ \/ UNCHANGED channel
     \/ /\ ~Closed
        /\ \E m \in Message : /\ channel' = Append(channel, m)
                              /\ m.kind \notin {"stop", "info"}
                              /\ \A id \in EntryOf(m) : NewId(id) /\ IssuedId(id)'

(* A message leaves the channel: an entry goes to a queue, or is lost with a
   name that is not defined, or evicts another. *)
Takes(m) ==
  /\ worker.at = "select"
  /\ channel # <<>> /\ m = Head(channel) /\ channel' = Tail(channel)
  /\ UNCHANGED <<callers, written, dropped, asker, marks>>
  /\ Waiting \cup EntryOf(m) \subseteq Waiting' \cup lost'
  /\ Waiting' \subseteq Waiting \cup EntryOf(m)
  /\ lost \subseteq lost'
  /\ CASE m.kind = "stop" -> worker'.why = "final" /\ worker'.at \in {"report", "pass"}
       [] m.kind = "info" -> /\ worker'.why = "info" /\ worker'.at \in {"report", "pass"}
                             /\ worker'.asker = m.asker
       [] OTHER           -> worker' = worker \/ (worker'.why = "flush" /\ worker'.at # "ended")

(* Ticks, attempts, time, the disk, and what shutdown does after its message:
   entries move from queues to files at most. *)
Moves ==
  /\ UNCHANGED <<channel, callers, lost, asker, marks>>
  /\ dropped => dropped'
  /\ Waiting \cup Stored = Waiting' \cup Stored' /\ Stored \subseteq Stored'
  /\ Waiting' \subseteq Waiting
  /\ Closed => UNCHANGED <<queue, written, worker>>
  /\ Closed' => Closed
  /\ \/ /\ worker'.why = worker.why /\ worker'.asker = worker.asker
        /\ worker'.at \in {"report", "pass"} => worker.at \in {"report", "pass"}
     \/ worker.at = "select" /\ worker'.why \in {"tick", "cleanup"}
     \/ worker.at = "select" /\ worker'.why = "final" /\ channel = <<>> /\ dropped

LEMMA IssuedKept ==
  ASSUME IInv, Producing \/ Report \/ LogStep(Worker)
  PROVE  \A id \in Id : IssuedId(id) => IssuedId(id)'
<1> SUFFICES ASSUME NEW id \in Id, IssuedId(id) PROVE IssuedId(id)'
  OBVIOUS
<1> DEFINE q == id[1]
<1>1. /\ call \in [Callers -> CallState] /\ sends \in [Callers -> Nat]
      /\ q \in Callers /\ id[2] \in Nat
  BY DEF IInv, TypeOK, Id
<1>2. /\ id[2] <= sends[q]
      /\ call[q].at \in {"notice", "restore", "entry"} => id[2] < sends[q]
  BY DEF IssuedId
<1>3. SUFFICES /\ id[2] <= sends'[q]
               /\ call'[q].at \in {"notice", "restore", "entry"} => id[2] < sends'[q]
  BY DEF IssuedId
<1> HIDE DEF q
<1>4. ASSUME NEW p \in Callers, LogStep(p)
      PROVE  /\ sends' = sends
             /\ call'[q].at \in {"notice", "restore", "entry"} =>
                  call[q].at \in {"notice", "restore", "entry"}
  <2>1. CASE SendNotice(p)
    BY <1>1, <2>1 DEF SendNotice, Working, Goto, CallState
  <2>2. CASE RestoreCount(p)
    BY <1>1, <2>2 DEF RestoreCount, Working, CallState
  <2>3. CASE SendEntry(p) \/ CountDrop(p)
    BY <1>1, <2>3 DEF SendEntry, CountDrop, Goto, CallState
  <2>4. QED
    BY <1>4, <2>1, <2>2, <2>3 DEF LogStep
<1>5. ASSUME NEW p \in Callers, NEW l, TakeCount(p, l)
      PROVE  id[2] <= sends'[q] /\ (call'[q].at \in {"notice", "restore", "entry"} => id[2] < sends'[q])
  <2>1. CASE p = q
    <3>1. sends'[q] = sends[q] + 1
      BY <1>1, <1>5, <2>1 DEF TakeCount
    <3>2. QED
      BY <1>1, <1>2, <3>1
  <2>2. CASE p # q
    <3>1. sends'[q] = sends[q] /\ call'[q] = call[q]
      BY <1>1, <1>5, <2>2 DEF TakeCount
    <3>2. QED
      BY <1>2, <3>1
  <2>3. QED
    BY <2>1, <2>2
<1>6. ASSUME NEW p \in Producers, NEW l \in Logs, LogBundle(p, l)
      PROVE  id[2] <= sends'[q] /\ (call'[q].at \in {"notice", "restore", "entry"} => id[2] < sends'[q])
  <2>1. call' = call /\ (sends'[q] = sends[q] \/ sends'[q] = sends[q] + 1)
    BY <1>1, <1>6 DEF LogBundle
  <2>2. QED
    BY <1>1, <1>2, <2>1
<1>7. ASSUME NEW p \in Producers, NEW l \in Logs, DefSystemLog(p, l)
      PROVE  /\ sends' = sends
             /\ call'[q].at \in {"notice", "restore", "entry"} =>
                  call[q].at \in {"notice", "restore", "entry"}
  BY <1>1, <1>7 DEF DefSystemLog, CallState
<1>8. ASSUME NEW p \in Producers, InstallLogger(p)
      PROVE  /\ sends' = sends
             /\ call'[q].at \in {"notice", "restore", "entry"} =>
                  call[q].at \in {"notice", "restore", "entry"}
  BY <1>1, <1>8 DEF InstallLogger, Goto, CallState
<1>9. ASSUME NEW p \in Producers, NEW l \in Logs, Def(p, l)
      PROVE  UNCHANGED callers
  BY <1>9 DEF Def
<1>10. ASSUME NEW p \in Producers, Flush(p) \/ SetRules(p)
       PROVE  UNCHANGED callers
  BY <1>10 DEF Flush, SetRules
<1>11. Producers \subseteq Callers /\ Worker \in Callers
  BY DEF Callers
<1>12. CASE Report \/ LogStep(Worker)
  BY <1>2, <1>4, <1>5, <1>11, <1>12 DEF Report
<1>13. ASSUME NEW p \in Producers, NEW l \in Logs, Log(p, l)
       PROVE  id[2] <= sends'[q] /\ (call'[q].at \in {"notice", "restore", "entry"} => id[2] < sends'[q])
  BY <1>5, <1>11, <1>13 DEF Log
<1>14. CASE Producing
  BY <1>2, <1>4, <1>6, <1>7, <1>8, <1>9, <1>10, <1>11, <1>13, <1>14 DEF Producing, callers
<1>15. QED
  BY <1>12, <1>14

LEMMA CallersSend ==
  ASSUME IInv, Producing \/ Report \/ LogStep(Worker)
  PROVE  Sends
<1> USE DEF handles, ticks, storage, device
<1>0. \A id \in Id : IssuedId(id) => IssuedId(id)'
  BY IssuedKept
<1>1. CallsFit(call) /\ sends \in [Callers -> Nat]
  BY CallsFitNow DEF IInv, TypeOK
<1>2. ASSUME NEW p \in Callers, LogStep(p) PROVE Sends
  <2>1. UNCHANGED <<queue, written, lost, dropped, asker, marks, worker>>
    BY <1>2 DEF LogStep, SendNotice, RestoreCount, SendEntry, CountDrop
  <2>2. CASE UNCHANGED channel
    BY <1>0, <2>1, <2>2 DEF Sends
  <2>3. CASE SendNotice(p) /\ HasRoom
    <3> DEFINE m == [kind |-> "notice", log |-> call[p].log, count |-> call[p].pending]
    <3>1. m \in Message /\ m.kind \notin {"stop", "info"} /\ EntryOf(m) = {}
      BY <1>1, <2>3 DEF SendNotice, Working, CallsFit, CallState, Message, Notice, EntryOf
    <3>2. channel' = Append(channel, m) /\ ~Closed
      BY <2>3 DEF SendNotice, Post, HasRoom
    <3> HIDE DEF m
    <3>3. QED
      BY <1>0, <2>1, <3>1, <3>2 DEF Sends
  <2>4. CASE SendEntry(p) /\ HasRoom
    <3> DEFINE id == <<p, sends[p]>>
               m  == [kind |-> "log", log |-> call[p].log, id |-> id]
    <3>1. m \in Message /\ m.kind \notin {"stop", "info"} /\ EntryOf(m) = {id}
      BY <1>1, <2>4 DEF SendEntry, Working, CallsFit, CallState, Message, LogMessage, Id, EntryOf
    <3>2. channel' = Append(channel, m) /\ ~Closed
      BY <2>4 DEF SendEntry, Post, HasRoom
    <3>3. NewId(id)
      BY <2>4 DEF SendEntry, Working, NewId
    <3>4. ASSUME NEW i, i = id PROVE IssuedId(i)'
      <4>1. sends' = sends /\ call'[p].at = "idle" /\ sends[p] \in Nat
        BY <1>1, <2>4 DEF SendEntry, Goto, CallsFit, CallState
      <4>2. QED
        BY <3>4, <4>1 DEF IssuedId
    <3>5. \A i \in EntryOf(m) : NewId(i) /\ IssuedId(i)'
      BY <3>1, <3>3, <3>4
    <3> HIDE DEF m, id
    <3>6. QED
      BY <1>0, <2>1, <3>1, <3>2, <3>5 DEF Sends
  <2>5. QED
    BY <1>2, <2>2, <2>3, <2>4 DEF LogStep, SendNotice, RestoreCount, SendEntry, CountDrop
<1>3. ASSUME NEW p \in Producers, NEW l \in Logs, Log(p, l) PROVE Sends
  BY <1>0, <1>3 DEF Log, TakeCount, Sends
<1>4. CASE Report
  BY <1>0, <1>4 DEF Report, TakeCount, Sends
<1>5. ASSUME NEW m \in Message, TrySend(m), m.kind \notin {"stop", "info"},
             \A id \in EntryOf(m) : NewId(id) /\ IssuedId(id)',
             UNCHANGED <<queue, written, lost, dropped, asker, marks, worker>>
      PROVE  Sends
  <2>1. channel' = channel \/ (~Closed /\ channel' = Append(channel, m))
    BY <1>5 DEF TrySend, Post, HasRoom
  <2>2. QED
    BY <1>0, <1>5, <2>1 DEF Sends
<1>6. ASSUME NEW p \in Producers, NEW l \in Logs, Def(p, l) \/ DefSystemLog(p, l) PROVE Sends
  <2> DEFINE m == [kind |-> "def", log |-> l]
  <2>1. m \in Message /\ m.kind \notin {"stop", "info"} /\ EntryOf(m) = {}
    BY DEF Message, EntryOf
  <2>2. TrySend(m) /\ UNCHANGED <<queue, written, lost, dropped, asker, marks, worker>>
    BY <1>6 DEF Def, DefSystemLog
  <2> HIDE DEF m
  <2>3. QED
    BY <1>5, <2>1, <2>2
<1>7. ASSUME NEW p \in Producers, NEW l \in Logs, LogBundle(p, l) PROVE Sends
  <2> DEFINE id == <<p, sends[p] + 1>>
             m  == [kind |-> "bundle", log |-> l, id |-> id]
  <2>0. p \in Callers /\ sends[p] \in Nat
    BY <1>1 DEF Callers
  <2>1. m \in Message /\ m.kind \notin {"stop", "info"} /\ EntryOf(m) = {id}
    BY <2>0 DEF Message, LogMessage, Id, EntryOf
  <2>2. TrySend(m) /\ UNCHANGED <<queue, written, lost, dropped, asker, marks, worker>>
    BY <1>7 DEF LogBundle
  <2>3. NewId(id)
    BY <2>0 DEF NewId
  <2>4. ASSUME NEW i, i = id PROVE IssuedId(i)'
    <3>1. sends'[p] = sends[p] + 1 /\ call'[p].at = "idle"
      BY <1>1, <1>7, <2>0 DEF LogBundle, Calling, Working
    <3>2. QED
      BY <2>0, <2>4, <3>1 DEF IssuedId
  <2>5. \A i \in EntryOf(m) : NewId(i) /\ IssuedId(i)'
    BY <2>1, <2>3, <2>4
  <2> HIDE DEF m, id
  <2>6. QED
    BY <1>5, <2>1, <2>2, <2>5
<1>8. ASSUME NEW p \in Producers, Flush(p) \/ SetRules(p) PROVE Sends
  <2>1. /\ [kind |-> "flush"] \in Message /\ EntryOf([kind |-> "flush"]) = {}
        /\ [kind |-> "rules"] \in Message /\ EntryOf([kind |-> "rules"]) = {}
    BY DEF Message, EntryOf
  <2>2. /\ TrySend([kind |-> "flush"]) \/ TrySend([kind |-> "rules"])
        /\ UNCHANGED <<queue, written, lost, dropped, asker, marks, worker>>
    BY <1>8 DEF Flush, SetRules
  <2>3. QED
    BY <1>5, <2>1, <2>2
<1>9. ASSUME NEW p \in Producers, InstallLogger(p) PROVE Sends
  BY <1>0, <1>9 DEF InstallLogger, Sends
<1>10. Producers \subseteq Callers /\ Worker \in Callers
  BY DEF Callers
<1>11. QED
  BY <1>2, <1>3, <1>4, <1>6, <1>7, <1>8, <1>9, <1>10 DEF Producing

(* An entry that is enqueued is waiting, or has evicted another. *)
LEMMA EnqueueWaits ==
  ASSUME IInv, NEW l \in Logs, NEW m \in LogMessage \cup Notice, Enqueue(l, m)
  PROVE  /\ Waiting \cup EntryOf(m) \subseteq Waiting' \cup lost'
         /\ Waiting' \subseteq Waiting \cup EntryOf(m)
         /\ lost \subseteq lost'
<1>1. /\ \A k \in Logs \ {l} : queue'[k] = queue[k]
      /\ Entries(queue[l]) \cup EntryOf(m) \subseteq Entries(queue'[l]) \cup lost'
      /\ Entries(queue'[l]) \subseteq Entries(queue[l]) \cup EntryOf(m)
      /\ lost \subseteq lost'
  BY EnqueueFits
<1>2. \A k \in Logs : /\ Entries(queue[k]) \subseteq Entries(queue'[k]) \cup lost'
                      /\ Entries(queue'[k]) \subseteq Entries(queue[k]) \cup EntryOf(m)
  BY <1>1
<1>3. \A k \in Logs : Entries(queue[k]) \subseteq Waiting' \cup lost'
  BY <1>2 DEF Waiting
<1>4. \A k \in Logs : Entries(queue'[k]) \subseteq Waiting \cup EntryOf(m)
  BY <1>2 DEF Waiting
<1>5. Waiting \subseteq Waiting' \cup lost'
  BY <1>3 DEF Waiting
<1>6. Waiting' \subseteq Waiting \cup EntryOf(m)
  BY <1>4 DEF Waiting
<1>7. EntryOf(m) \subseteq Waiting' \cup lost'
  BY <1>1 DEF Waiting
<1>8. QED
  BY <1>1, <1>5, <1>6, <1>7

LEMMA ReceiveTakes ==
  ASSUME IInv, Receive
  PROVE  (\E m \in Message : Takes(m)) \/ Moves
<1> USE DEF storage
<1> DEFINE m == Head(channel)
<1>1. ASSUME NEW kinds, Take(kinds)
      PROVE  /\ worker.at = "select" /\ channel # <<>> /\ channel' = Tail(channel)
             /\ m \in Message /\ m.kind \in kinds
             /\ UNCHANGED <<callers, written, dropped, asker, marks>>
  BY <1>1, AtSelect DEF Take
<1>2. CASE ReceiveLog \/ ReceiveBundle
  <2>1. /\ Take({"log", "notice"}) \/ Take({"bundle"})
        /\ UNCHANGED worker
        /\ \/ Enqueue(m.log, m)
           \/ lost' = lost \cup EntryOf(m) /\ UNCHANGED queue
    BY <1>2 DEF ReceiveLog, ReceiveBundle
  <2>2. /\ worker.at = "select" /\ channel # <<>> /\ channel' = Tail(channel)
        /\ m \in Message /\ m.kind \in {"log", "notice", "bundle"}
        /\ UNCHANGED <<callers, written, dropped, asker, marks>>
    BY <1>1, <2>1
  <2>3. m \in LogMessage \cup Notice /\ m.log \in Logs
    BY <2>2, MessageKinds, MessageLog
  <2>4. /\ Waiting \cup EntryOf(m) \subseteq Waiting' \cup lost'
        /\ Waiting' \subseteq Waiting \cup EntryOf(m)
        /\ lost \subseteq lost'
    <3>1. CASE Enqueue(m.log, m)
      <4>1. m.log \in Logs /\ m \in LogMessage \cup Notice /\ Enqueue(m.log, m)
        BY <2>3, <3>1
      <4> HIDE DEF m
      <4>2. \A l \in Logs : l = m.log /\ Enqueue(l, m) =>
              /\ Waiting \cup EntryOf(m) \subseteq Waiting' \cup lost'
              /\ Waiting' \subseteq Waiting \cup EntryOf(m)
              /\ lost \subseteq lost'
        BY <4>1, EnqueueWaits
      <4>3. QED
        BY <4>1, <4>2
    <3>2. CASE lost' = lost \cup EntryOf(m) /\ UNCHANGED queue
      BY <3>2 DEF Waiting
    <3>3. QED
      BY <2>1, <3>1, <3>2
  <2> HIDE DEF m
  <2>5. m = Head(channel)
    BY DEF m
  <2>6. Takes(m)
    BY <2>1, <2>2, <2>4, <2>5 DEF Takes
  <2>7. QED
    BY <2>2, <2>6
<1>3. CASE ReceiveDefinition \/ ReceiveRules
  <2>1. /\ Take({"def"}) \/ Take({"rules"})
        /\ UNCHANGED <<worker, queue, lost>>
    BY <1>3 DEF ReceiveDefinition, ReceiveRules
  <2>2. /\ worker.at = "select" /\ channel # <<>> /\ channel' = Tail(channel)
        /\ m \in Message /\ m.kind \in {"def", "rules"}
        /\ UNCHANGED <<callers, written, dropped, asker, marks>>
    BY <1>1, <2>1
  <2>3. EntryOf(m) = {} /\ Waiting' = Waiting
    BY <2>1, <2>2 DEF EntryOf, Waiting
  <2> HIDE DEF m
  <2>4. m = Head(channel)
    BY DEF m
  <2>5. Takes(m)
    BY <2>1, <2>2, <2>3, <2>4 DEF Takes
  <2>6. QED
    BY <2>2, <2>5
<1>4. ASSUME NEW kinds, NEW why \in {"flush", "info", "final"}, NEW a \in Askers \cup {"nobody"},
             Take(kinds), StartPass(why, a), UNCHANGED <<queue, lost>>,
             \/ kinds = {"flush"} /\ why = "flush"
             \/ kinds = {"info"} /\ why = "info" /\ a = m.asker
             \/ kinds = {"stop"} /\ why = "final"
      PROVE  m \in Message /\ Takes(m)
  <2>1. /\ worker.at = "select" /\ channel # <<>> /\ channel' = Tail(channel)
        /\ m \in Message /\ m.kind \in kinds
        /\ UNCHANGED <<callers, written, dropped, asker, marks>>
    BY <1>1, <1>4
  <2>2. /\ worker'.why = why /\ worker'.asker = a /\ worker'.at \in {"report", "pass"}
    BY <1>4, PassStarts
  <2>3. EntryOf(m) = {} /\ Waiting' = Waiting
    BY <1>4, <2>1 DEF EntryOf, Waiting
  <2> HIDE DEF m
  <2>4. m = Head(channel)
    BY DEF m
  <2>5. Takes(m)
    BY <1>4, <2>1, <2>2, <2>3, <2>4 DEF Takes
  <2>6. QED
    BY <2>1, <2>5
<1>5. CASE ReceiveFlush
  BY <1>4, <1>5 DEF ReceiveFlush
<1>6. CASE ReceiveGetInfo
  <2>1. Take({"info"}) /\ StartPass("info", m.asker) /\ UNCHANGED <<queue, lost>>
    BY <1>6 DEF ReceiveGetInfo
  <2>2. m.asker \in Askers
    BY <2>1, AtSelect, MessageKinds
  <2>3. QED
    BY <1>4, <2>1, <2>2
<1>7. CASE ReceiveStop
  BY <1>4, <1>7 DEF ReceiveStop
<1>8. CASE ChannelClosed
  <2>1. /\ worker.at = "select" /\ dropped /\ channel = <<>> /\ StartPass("final", "nobody")
        /\ UNCHANGED <<channel, callers, asker, dropped, queue, written, lost, marks>>
    BY <1>8 DEF ChannelClosed, Select
  <2>2. worker'.why = "final" /\ worker'.at \in {"report", "pass"}
    BY <2>1, PassStarts
  <2>3. Waiting' = Waiting /\ Stored' = Stored
    BY <2>1 DEF Waiting, Stored
  <2>4. Moves
    BY <2>1, <2>2, <2>3 DEF Moves, Closed
  <2>5. QED
    BY <2>4
<1>9. QED
  BY <1>2, <1>3, <1>5, <1>6, <1>7, <1>8 DEF Receive

(* A frame moves entries from one queue to its file. *)
LEMMA WriteWaits ==
  ASSUME IInv, NEW l \in Logs, WriteFile(l)
  PROVE  /\ Waiting \cup Stored = Waiting' \cup Stored'
         /\ Stored \subseteq Stored' /\ Waiting' \subseteq Waiting
<1>1. /\ \A k \in Logs \ {l} : queue'[k] = queue[k] /\ written'[k] = written[k]
      /\ Entries(queue[l]) \cup Entries(written[l]) = Entries(queue'[l]) \cup Entries(written'[l])
      /\ Entries(written[l]) \subseteq Entries(written'[l])
  BY WriteMoves
<1>2. Entries(queue'[l]) \subseteq Entries(queue[l])
  BY WriteMoves
<1>3. \A k \in Logs :
        /\ Entries(queue[k]) \cup Entries(written[k]) = Entries(queue'[k]) \cup Entries(written'[k])
        /\ Entries(written[k]) \subseteq Entries(written'[k])
        /\ Entries(queue'[k]) \subseteq Entries(queue[k])
  BY <1>1, <1>2
<1>4. Stored \subseteq Stored' /\ Waiting' \subseteq Waiting
  BY <1>3 DEF Stored, Waiting
<1>5. Waiting \cup Stored \subseteq Waiting' \cup Stored'
  BY <1>3 DEF Stored, Waiting
<1>6. Waiting' \cup Stored' \subseteq Waiting \cup Stored
  BY <1>3 DEF Stored, Waiting
<1>7. QED
  BY <1>4, <1>5, <1>6

(* The worker's pass, until it ends. *)
LEMMA AttemptMoves ==
  ASSUME IInv, NEW l \in Logs, Attempt(l) \/ FlushAgain
  PROVE  Moves
<1> USE DEF storage
<1>1. worker.at = "pass" /\ worker \in WorkerState
  BY StorageNow DEF Attempt, SkipFile, WriteFile, WriteFileFails, WriteFileTimesOut, Attempting,
                    FlushAgain, Flushing, Passing
<1>2. /\ UNCHANGED <<channel, callers, lost, asker, dropped, marks>>
      /\ worker'.why = worker.why /\ worker'.asker = worker.asker /\ worker'.at = worker.at
  BY <1>1 DEF Attempt, SkipFile, WriteFile, WriteFileFails, WriteFileTimesOut, FlushAgain, Visited,
              WorkerState
<1>3. /\ Waiting \cup Stored = Waiting' \cup Stored'
      /\ Stored \subseteq Stored' /\ Waiting' \subseteq Waiting
  <2>1. CASE WriteFile(l)
    BY <2>1, WriteWaits
  <2>2. CASE UNCHANGED <<queue, written>>
    BY <2>2 DEF Waiting, Stored
  <2>3. QED
    BY <2>1, <2>2 DEF Attempt, SkipFile, WriteFileFails, WriteFileTimesOut, Keep, FlushAgain
<1>4. QED
  BY <1>1, <1>2, <1>3 DEF Moves, Closed

LEMMA TicksMove ==
  ASSUME IInv, WriterTick \/ CleanUpTick
  PROVE  /\ Moves
         /\ UNCHANGED <<channel, written>> /\ \A l \in Logs : queue'[l] = queue[l]
<1> USE DEF storage
<1>1. /\ worker.at = "select" /\ worker \in WorkerState
      /\ UNCHANGED <<channel, callers, written, lost, asker, dropped, marks>>
  BY StorageNow DEF WriterTick, CleanUpTick, Select
<1>2. \A l \in Logs : queue'[l] = queue[l]
  <2>1. CASE WriterTick
    BY <2>1 DEF WriterTick
  <2>2. CASE CleanUpTick
    BY <2>2 DEF CleanUpTick, MayGo
  <2>3. QED
    BY <2>1, <2>2
<1>3. \/ worker' = worker
      \/ worker'.why \in {"tick", "cleanup"} /\ worker'.at # "ended"
  <2>1. CASE WriterTick
    BY <2>1, PassStarts DEF WriterTick
  <2>2. CASE CleanUpTick
    BY <1>1, <2>2 DEF CleanUpTick, WorkerState
  <2>3. QED
    BY <2>1, <2>2
<1>4. Waiting' = Waiting /\ Stored' = Stored
  BY <1>1, <1>2 DEF Waiting, Stored
<1>5. QED
  BY <1>1, <1>2, <1>3, <1>4 DEF Moves, Closed

(* Time, the disk and the calls of shutdown leave the entries alone. *)
LEMMA OthersMove ==
  ASSUME IInv,
         \/ Environment \/ DropHandles \/ UNCHANGED vars
         \/ \E s \in Stoppers : TakeHandle(s) \/ Join(s)
  PROVE  Moves
<1> USE DEF storage
<1>1. /\ UNCHANGED <<channel, callers, queue, written, lost, asker, marks>>
      /\ dropped => dropped'
  <2>1. CASE Environment
    BY <2>1 DEF Environment, WriterTickFires, CleanUpTickFires, FlushIntervalElapses,
                DeadlinePasses, DiskBreaks, DiskRecovers, Elapse
  <2>2. CASE DropHandles \/ \E s \in Stoppers : TakeHandle(s) \/ Join(s)
    BY <2>2 DEF DropHandles, TakeHandle, Join
  <2>3. CASE UNCHANGED vars
    BY <2>3 DEF vars
  <2>4. QED
    BY <2>1, <2>2, <2>3
<1>2. \/ worker' = worker
      \/ worker.at = "pass" /\ worker' = [worker EXCEPT !.late = TRUE]
  BY DEF Environment, WriterTickFires, CleanUpTickFires, FlushIntervalElapses, DeadlinePasses,
         DiskBreaks, DiskRecovers, DropHandles, TakeHandle, Join, vars, Flushing, Passing
<1>3. Waiting' = Waiting /\ Stored' = Stored
  BY <1>1 DEF Waiting, Stored
<1>4. worker \in WorkerState
  BY StorageNow
<1>5. \/ worker' = worker
      \/ /\ worker.at = "pass" /\ worker'.at = "pass"
         /\ worker'.why = worker.why /\ worker'.asker = worker.asker
  BY <1>2, <1>4 DEF WorkerState
<1>6. QED
  BY <1>1, <1>3, <1>5 DEF Moves, Closed

(* Every step is one of these. *)
LEMMA StepCases ==
  ASSUME IInv, [Next]_vars
  PROVE  \/ Sends
         \/ \E a \in Askers : GetInfo(a)
         \/ \E s \in Stoppers : SendStop(s)
         \/ \E m \in Message : Takes(m)
         \/ Moves
         \/ EndPass
         \/ EndTask
<1>1. CASE Producing
  BY <1>1, CallersSend
<1>2. CASE Handling
  BY <1>2, OthersMove DEF Handling
<1>3. CASE WorkerStep
  <2>1. CASE WriterTick \/ CleanUpTick
    BY <2>1, TicksMove
  <2>2. CASE Receive
    BY <2>2, ReceiveTakes
  <2>3. CASE Report \/ LogStep(Worker)
    BY <2>3, CallersSend
  <2>4. CASE \E l \in Logs : Attempt(l)
    BY <2>4, AttemptMoves
  <2>5. CASE FlushAgain
    <3>1. CASE Logs = {}
      <4>1. QED
        BY <2>5, <3>1, StorageNow DEF FlushAgain, FlushDone
    <3>2. CASE Logs # {}
      BY <2>5, <3>2, AttemptMoves
    <3>3. QED
      BY <3>1, <3>2
  <2>6. QED
    BY <1>3, <2>1, <2>2, <2>3, <2>4, <2>5 DEF WorkerStep, PassStep
<1>4. CASE Environment \/ UNCHANGED vars
  BY <1>4, OthersMove
<1>5. QED
  BY <1>1, <1>2, <1>3, <1>4 DEF Next

LEMMA PendingAppend ==
  ASSUME IInv, NEW m \in Message, channel' = Append(channel, m), UNCHANGED queue
  PROVE  Pending' = Pending \cup EntryOf(m)
<1>1. channel \in Seq(Message)
  BY DEF IInv, TypeOK
<1>2. Entries(channel') = Entries(channel) \cup EntryOf(m)
  BY <1>1, EntriesAppend
<1>3. Waiting' = Waiting
  BY DEF Waiting
<1>4. QED
  BY <1>2, <1>3 DEF Pending

LEMMA PostsNothing ==
  ASSUME IInv,
         (\E a \in Askers : GetInfo(a)) \/ (\E s \in Stoppers : SendStop(s))
  PROVE  /\ UNCHANGED <<callers, queue, written, lost, dropped, worker>>
         /\ Pending' = Pending /\ Stored' = Stored
         /\ \/ channel' = channel
            \/ \E m \in Message : m.kind \in {"info", "stop"} /\ channel' = Append(channel, m)
<1> USE DEF storage
<1>1. /\ UNCHANGED <<callers, queue, written, lost, dropped, worker>>
      /\ \/ channel' = channel
         \/ \E m \in Message : m.kind \in {"info", "stop"} /\ channel' = Append(channel, m)
  <2>1. ASSUME NEW a \in Askers, GetInfo(a)
        PROVE  \/ channel' = channel
               \/ \E m \in Message : m.kind \in {"info", "stop"} /\ channel' = Append(channel, m)
    <3>1. [kind |-> "info", asker |-> a] \in Message
      BY DEF Message
    <3>2. QED
      BY <2>1, <3>1 DEF GetInfo, TrySend, Post
  <2>2. [kind |-> "stop"] \in Message
    BY DEF Message
  <2>3. QED
    BY <2>1, <2>2 DEF GetInfo, SendStop, PostStop, Post
<1>2. CASE channel' = channel
  BY <1>1, <1>2 DEF Pending, Waiting, Stored
<1>3. ASSUME NEW m \in Message, m.kind \in {"info", "stop"}, channel' = Append(channel, m)
      PROVE  Pending' = Pending /\ Stored' = Stored
  <2>1. EntryOf(m) = {}
    BY <1>3 DEF EntryOf
  <2>2. QED
    BY <1>1, <1>3, <2>1, PendingAppend DEF Stored
<1>4. QED
  BY <1>1, <1>2, <1>3

(* What the channel took is never lost, at any step: it waits, is on the disk
   or was evicted or met no definition; only the end of the task drops what is
   still in the channel. *)
LEMMA StepConserves ==
  ASSUME IInv, [Next]_vars
  PROVE  Pending \cup Stored \subseteq
           (Pending \cup Stored \cup lost)' \cup (IF Closed' THEN Entries(channel) ELSE {})
<1>1. CASE Sends
  <2>1. UNCHANGED <<queue, written, lost>>
    BY <1>1 DEF Sends
  <2>2. Stored' = Stored /\ Waiting' = Waiting
    BY <2>1 DEF Stored, Waiting
  <2>3. CASE UNCHANGED channel
    BY <2>2, <2>3 DEF Pending
  <2>4. ASSUME NEW m \in Message, channel' = Append(channel, m)
        PROVE  Pending \subseteq Pending'
    BY <2>1, <2>4, PendingAppend
  <2>5. Pending \subseteq Pending'
    BY <1>1, <2>3, <2>4 DEF Sends, Pending, Waiting
  <2>6. QED
    BY <2>2, <2>5
<1>2. CASE (\E a \in Askers : GetInfo(a)) \/ (\E s \in Stoppers : SendStop(s))
  BY <1>2, PostsNothing
<1>3. ASSUME NEW m \in Message, Takes(m)
      PROVE  Pending \cup Stored \subseteq (Pending \cup Stored \cup lost)'
  <2>1. channel \in Seq(Message)
    BY DEF IInv, TypeOK
  <2>2. Entries(channel) = EntryOf(m) \cup Entries(channel')
    BY <1>3, <2>1, EntriesTail DEF Takes
  <2>3. Stored' = Stored
    BY <1>3 DEF Takes, Stored
  <2>4. Waiting \cup EntryOf(m) \subseteq Waiting' \cup lost'
    BY <1>3 DEF Takes
  <2>5. QED
    BY <2>2, <2>3, <2>4 DEF Pending
<1>4. CASE Moves
  <2>1. UNCHANGED channel /\ Waiting \cup Stored = Waiting' \cup Stored'
    BY <1>4 DEF Moves
  <2>2. QED
    BY <2>1 DEF Pending
<1>5. CASE EndPass
  <2>1. UNCHANGED <<channel, queue, written>>
    BY <1>5 DEF EndPass, storage
  <2>2. QED
    BY <2>1 DEF Pending, Stored, Waiting
<1>6. CASE EndTask
  <2>1. UNCHANGED <<queue, written>> /\ worker' = [worker EXCEPT !.at = "ended"]
    BY <1>6 DEF EndTask, storage
  <2>2. Stored' = Stored /\ Waiting' = Waiting /\ Closed'
    BY <2>1, StorageNow DEF Stored, Waiting, Closed, WorkerState
  <2>3. QED
    BY <2>2 DEF Pending
<1>7. QED
  BY <1>1, <1>2, <1>3, <1>4, <1>5, <1>6, StepCases

THEOREM Conservation == Spec => EntriesConserved
<1>1. IInv /\ [Next]_vars =>
        [Pending \cup Stored \subseteq
           (Pending \cup Stored \cup lost)' \cup (IF Closed' THEN Entries(channel) ELSE {})]_vars
  BY StepConserves
<1>2. QED
  BY <1>1, Invariance, PTL DEF Spec, EntriesConserved

----------------------------------------------------------------------------
(* Order in the channel *)

LEMMA AppendAt ==
  ASSUME NEW S, NEW c \in Seq(S), NEW m \in S
  PROVE  /\ Len(c) + 1 \notin DOMAIN c
         /\ DOMAIN Append(c, m) = DOMAIN c \cup {Len(c) + 1}
         /\ Append(c, m)[Len(c) + 1] = m
         /\ \A i \in DOMAIN c : Append(c, m)[i] = c[i] /\ i \in Nat /\ i < Len(c) + 1
<1> DEFINE d == Append(c, m)
<1>1. /\ d \in Seq(S) /\ Len(d) = Len(c) + 1
      /\ \A i \in 1..Len(c) : d[i] = c[i]
      /\ d[Len(c) + 1] = m
  BY AppendProperties
<1> HIDE DEF d
<1>2. DOMAIN d = 1..(Len(c) + 1) /\ DOMAIN c = 1..Len(c) /\ Len(c) \in Nat
  BY <1>1, LenProperties
<1>3. /\ Len(c) + 1 \notin DOMAIN c /\ DOMAIN d = DOMAIN c \cup {Len(c) + 1}
      /\ \A i \in DOMAIN c : i \in Nat /\ i < Len(c) + 1
  BY <1>2
<1>4. QED
  BY <1>1, <1>2, <1>3 DEF d

(* What goes in at the end comes after everything. *)
LEMMA BeforeAppend ==
  ASSUME NEW S, NEW c \in Seq(S), NEW m \in S, NEW A, EntryOf(m) \cap A = {}
  PROVE  /\ \A j \in DOMAIN c : AllBefore(A, c, j) => AllBefore(A, Append(c, m), j)
         /\ AllBefore(A, Append(c, m), Len(c) + 1)
<1> DEFINE d == Append(c, m)
<1>1. /\ DOMAIN d = DOMAIN c \cup {Len(c) + 1} /\ d[Len(c) + 1] = m
      /\ \A i \in DOMAIN c : d[i] = c[i] /\ i \in Nat /\ i < Len(c) + 1
      /\ Len(c) \in Nat
  BY AppendAt, LenProperties
<1> HIDE DEF d
<1>2. \A j \in DOMAIN c : AllBefore(A, c, j) => AllBefore(A, d, j)
  BY <1>1 DEF AllBefore
<1>3. AllBefore(A, d, Len(c) + 1)
  BY <1>1 DEF AllBefore
<1>4. QED
  BY <1>2, <1>3 DEF d

(* What follows a message stays behind it when the channel moves up. *)
LEMMA BeforeTail ==
  ASSUME NEW S, NEW c \in Seq(S), c # <<>>, NEW A
  PROVE  /\ \A j \in DOMAIN Tail(c) :
              /\ j + 1 \in DOMAIN c /\ Tail(c)[j] = c[j + 1]
              /\ AllBefore(A, c, j + 1) => AllBefore(A, Tail(c), j)
         /\ 1 \in DOMAIN c /\ Head(c) = c[1]
         /\ \A j \in DOMAIN c \ {1} : \E i \in DOMAIN Tail(c) : j = i + 1
         /\ AllBefore(A, c, 1) => A \cap Entries(Tail(c)) = {}
<1> DEFINE t == Tail(c)
           n == Len(c)
<1>1. /\ Head(c) = c[1] /\ n \in Nat \ {0} /\ DOMAIN c = 1..n /\ DOMAIN t = 1..(n - 1)
      /\ \A i \in 1..(n - 1) : t[i] = c[i + 1]
  BY TailAt
<1> HIDE DEF t, n
<1>2. \A j \in DOMAIN t : j + 1 \in DOMAIN c /\ t[j] = c[j + 1] /\ j \in Nat
  BY <1>1
<1>3. ASSUME NEW j \in DOMAIN t, AllBefore(A, c, j + 1)
      PROVE  AllBefore(A, t, j)
  <2>1. ASSUME NEW i \in DOMAIN t, j <= i PROVE EntryOf(t[i]) \cap A = {}
    <3>1. j + 1 <= i + 1 /\ i + 1 \in DOMAIN c /\ t[i] = c[i + 1]
      BY <1>2, <2>1
    <3>2. QED
      BY <1>3, <3>1 DEF AllBefore
  <2>2. QED
    BY <2>1 DEF AllBefore
<1>4. ASSUME AllBefore(A, c, 1) PROVE A \cap Entries(t) = {}
  <2>1. ASSUME NEW i \in DOMAIN t PROVE EntryOf(t[i]) \cap A = {}
    <3>1. 1 <= i + 1 /\ i + 1 \in DOMAIN c /\ t[i] = c[i + 1]
      BY <1>2
    <3>2. QED
      BY <1>4, <3>1 DEF AllBefore
  <2>2. QED
    BY <2>1 DEF Entries
<1>5. ASSUME NEW j \in DOMAIN c \ {1} PROVE \E i \in DOMAIN t : j = i + 1
  <2>1. j - 1 \in DOMAIN t /\ j = (j - 1) + 1
    BY <1>1
  <2>2. QED
    BY <2>1
<1>6. 1 \in DOMAIN c
  BY <1>1
<1>7. QED
  BY <1>1, <1>2, <1>3, <1>4, <1>5, <1>6 DEF t

----------------------------------------------------------------------------
(* Ids *)

LEMMA NewIsNotIssued ==
  ASSUME IInv, NEW id \in Id, NewId(id)
  PROVE  ~IssuedId(id)
<1>1. sends[id[1]] \in Nat /\ id[2] \in Nat
  BY DEF IInv, TypeOK, Id
<1>2. QED
  BY <1>1 DEF NewId, IssuedId

(* An id that was given out stays so. *)
LEMMA StepKeepsIssued ==
  ASSUME IInv, [Next]_vars
  PROVE  \A id \in Id : IssuedId(id) => IssuedId(id)'
<1>1. CASE Sends
  BY <1>1 DEF Sends
<1>2. CASE ~Sends
  <2>1. UNCHANGED callers
    BY <1>2, StepCases DEF GetInfo, SendStop, Takes, Moves, EndPass, EndTask
  <2>2. QED
    BY <2>1 DEF IssuedId, callers
<1>3. QED
  BY <1>1, <1>2

LEMMA StepIssued ==
  ASSUME IInv, IssuedInv, [Next]_vars
  PROVE  IssuedInv'
<1>1. /\ Pending \subseteq Id /\ before_stop \subseteq Id /\ ahead \in [Askers -> SUBSET Id]
  BY PendingType DEF IInv, TypeOK
<1>2. /\ \A id \in Pending : IssuedId(id)
      /\ \A id \in before_stop : IssuedId(id)
      /\ \A a \in Askers : \A id \in ahead[a] : IssuedId(id)
  BY DEF IssuedInv, Issued
<1>3. \A id \in Id : IssuedId(id) => IssuedId(id)'
  BY StepKeepsIssued
<1>4. \A id \in Pending' : id \in Pending \/ IssuedId(id)'
  <2>1. CASE Sends
    <3>1. UNCHANGED queue
      BY <2>1 DEF Sends
    <3>2. CASE UNCHANGED channel
      BY <3>1, <3>2 DEF Pending, Waiting
    <3>3. ASSUME NEW m \in Message, channel' = Append(channel, m),
                 \A id \in EntryOf(m) : NewId(id) /\ IssuedId(id)'
          PROVE  \A id \in Pending' : id \in Pending \/ IssuedId(id)'
      <4>1. Pending' = Pending \cup EntryOf(m)
        BY <3>1, <3>3, PendingAppend
      <4>2. QED
        BY <3>3, <4>1
    <3>4. QED
      BY <2>1, <3>2, <3>3 DEF Sends
  <2>2. CASE (\E a \in Askers : GetInfo(a)) \/ (\E s \in Stoppers : SendStop(s))
    BY <2>2, PostsNothing
  <2>3. ASSUME NEW m \in Message, Takes(m) PROVE Pending' \subseteq Pending
    <3>1. channel \in Seq(Message)
      BY DEF IInv, TypeOK
    <3>2. Entries(channel) = EntryOf(m) \cup Entries(channel')
      BY <2>3, <3>1, EntriesTail DEF Takes
    <3>3. QED
      BY <2>3, <3>2 DEF Takes, Pending
  <2>4. CASE Moves
    BY <2>4 DEF Moves, Pending
  <2>5. CASE EndPass
    BY <2>5 DEF EndPass, storage, Pending, Waiting
  <2>6. CASE EndTask
    BY <2>6, EntriesEmpty DEF EndTask, storage, Pending, Waiting
  <2>7. QED
    BY <2>1, <2>2, <2>3, <2>4, <2>5, <2>6, StepCases
<1>5. before_stop' \subseteq before_stop \cup Pending
  BY StepCases DEF Sends, GetInfo, SendStop, PostStop, Takes, Moves, EndPass, EndTask, marks
<1>6. \A a \in Askers : ahead'[a] \subseteq ahead[a] \cup Pending
  <2>1. ASSUME NEW a \in Askers, GetInfo(a)
        PROVE  \A b \in Askers : ahead'[b] \subseteq ahead[b] \cup Pending
    BY <1>1, <2>1 DEF GetInfo
  <2>2. QED
    BY <2>1, StepCases DEF Sends, SendStop, PostStop, Takes, Moves, EndPass, EndTask, marks
<1>7. /\ \A id \in Pending' : IssuedId(id)'
      /\ \A id \in before_stop' : IssuedId(id)'
      /\ \A a \in Askers : \A id \in ahead'[a] : IssuedId(id)'
  BY <1>1, <1>2, <1>3, <1>4, <1>5, <1>6
<1>8. QED
  BY <1>7 DEF IssuedInv, Issued

----------------------------------------------------------------------------
(* shutdown *)

HasStop(c) == \E j \in DOMAIN c : c[j].kind = "stop"

LEMMA StopInvInit == Init => StopInv /\ IssuedInv /\ InfoInv
<1> SUFFICES ASSUME Init PROVE StopInv /\ IssuedInv /\ InfoInv
  OBVIOUS
<1> USE DEF Init
<1>1. /\ channel = <<>> /\ DOMAIN channel = {} /\ before_stop = {}
      /\ worker.at = "select" /\ worker.why = "none" /\ ~stopping
      /\ \A a \in Askers : ahead[a] = {}
  OBVIOUS
<1>2. Entries(channel) = {} /\ Waiting = {}
  BY EntriesEmpty DEF Waiting
<1>3. StopInv
  BY <1>1, <1>2 DEF StopInv, Closed, Final, ShutdownFlushes
<1>4. IssuedInv
  BY <1>1, <1>2 DEF IssuedInv, Issued, Pending
<1>5. InfoInv
  BY <1>1 DEF InfoInv
<1>6. QED
  BY <1>3, <1>4, <1>5

(* A message without entries that stop follows goes in at the end. *)
LEMMA StopsAppend ==
  ASSUME IInv, StopInv, NEW m \in Message, channel' = Append(channel, m),
         EntryOf(m) \cap before_stop = {}, m.kind # "stop"
  PROVE  /\ before_stop \cap Entries(channel') = before_stop \cap Entries(channel)
         /\ HasStop(channel) => HasStop(channel')
         /\ \A j \in DOMAIN channel' :
              channel'[j].kind = "stop" => stopping /\ AllBefore(before_stop, channel', j)
<1> DEFINE d == channel'
           n == Len(channel) + 1
<1>1. channel \in Seq(Message)
  BY DEF IInv, TypeOK
<1>2. Entries(d) = Entries(channel) \cup EntryOf(m)
  BY <1>1, EntriesAppend
<1>3. /\ n \notin DOMAIN channel /\ DOMAIN d = DOMAIN channel \cup {n} /\ d[n] = m
      /\ \A i \in DOMAIN channel : d[i] = channel[i]
  BY <1>1, AppendAt
<1>4. \A j \in DOMAIN channel : AllBefore(before_stop, channel, j) => AllBefore(before_stop, d, j)
  BY <1>1, BeforeAppend
<1> HIDE DEF d, n
<1>5. HasStop(channel) => HasStop(d)
  BY <1>3 DEF HasStop
<1>6. \A j \in DOMAIN d : d[j].kind = "stop" => stopping /\ AllBefore(before_stop, d, j)
  BY <1>3, <1>4 DEF StopInv
<1>7. QED
  BY <1>2, <1>5, <1>6 DEF d

LEMMA SendsKeepStop ==
  ASSUME IInv, IssuedInv, StopInv, Sends
  PROVE  StopInv'
<1>1. /\ UNCHANGED <<queue, written, lost, dropped, marks>>
      /\ worker' = worker \/ (worker.at = "report" /\ worker' = [worker EXCEPT !.at = "pass"])
  BY DEF Sends
<1>2. /\ worker \in WorkerState /\ before_stop \subseteq Id
      /\ UNCHANGED <<stopping, before_stop>>
  BY <1>1 DEF IInv, TypeOK, marks
<1>3. Closed' = Closed /\ Final' = Final /\ (Closed => worker' = worker)
  BY <1>1, <1>2 DEF Closed, Final, WorkerState
<1>4. Waiting' = Waiting /\ Stored' = Stored
  BY <1>1 DEF Waiting, Stored
<1>5. ShutdownFlushes'
  BY <1>1, <1>2, <1>3, <1>4 DEF StopInv, ShutdownFlushes
<1>6. CASE UNCHANGED channel
  BY <1>1, <1>2, <1>3, <1>4, <1>5, <1>6 DEF StopInv, Pending
<1>7. ASSUME NEW m \in Message, channel' = Append(channel, m), m.kind \notin {"stop", "info"},
             \A id \in EntryOf(m) : NewId(id)
      PROVE  StopInv'
  <2>1. EntryOf(m) \cap before_stop = {}
    <3>1. EntryOf(m) \subseteq Id
      BY MessageKinds
    <3>2. \A id \in before_stop : IssuedId(id)
      BY DEF IssuedInv, Issued
    <3>3. QED
      BY <1>2, <1>7, <3>1, <3>2, NewIsNotIssued
  <2>2. /\ before_stop \cap Entries(channel') = before_stop \cap Entries(channel)
        /\ HasStop(channel) => HasStop(channel')
        /\ \A j \in DOMAIN channel' :
             channel'[j].kind = "stop" => stopping /\ AllBefore(before_stop, channel', j)
    BY <1>7, <2>1, StopsAppend
  <2>3. Pending \subseteq Pending'
    BY <1>1, <1>7, PendingAppend
  <2>4. /\ Closed => Final
        /\ Final => stopping \/ dropped
        /\ ~stopping => before_stop = {}
        /\ Final => before_stop \cap Entries(channel) = {}
        /\ stopping /\ ~Final => HasStop(channel)
        /\ before_stop \subseteq Pending \cup Stored \cup lost
    BY DEF StopInv, HasStop
  <2>5. stopping' /\ ~Final' => \E j \in DOMAIN channel' : channel'[j].kind = "stop"
    BY <1>2, <1>3, <2>2, <2>4 DEF HasStop
  <2>6. \A j \in DOMAIN channel' :
          channel'[j].kind = "stop" => stopping' /\ AllBefore(before_stop', channel', j)
    BY <1>2, <2>2
  <2>7. Final' => before_stop' \cap Entries(channel') = {}
    BY <1>2, <1>3, <2>2, <2>4
  <2>8. before_stop' \subseteq Pending' \cup Stored' \cup lost'
    BY <1>1, <1>2, <1>4, <2>3, <2>4
  <2>9. Closed' => Final'
    BY <1>3, <2>4
  <2>10. (Final' => stopping' \/ dropped') /\ (~stopping' => before_stop' = {})
    BY <1>1, <1>2, <1>3, <2>4
  <2>11. QED
    BY <1>5, <2>5, <2>6, <2>7, <2>8, <2>9, <2>10 DEF StopInv, AllBefore
<1>8. QED
  BY <1>6, <1>7 DEF Sends

(* The stop message itself: from now on before_stop is what was waiting. *)
LEMMA PostsKeepStop ==
  ASSUME IInv, StopInv,
         (\E a \in Askers : GetInfo(a)) \/ (\E s \in Stoppers : SendStop(s))
  PROVE  StopInv'
<1>1. /\ UNCHANGED <<queue, written, lost, dropped, worker>> /\ ~dropped
      /\ Pending' = Pending /\ Stored' = Stored /\ Waiting' = Waiting
  BY PostsNothing DEF GetInfo, SendStop, Waiting
<1>2. Closed' = Closed /\ Final' = Final
  BY <1>1 DEF Closed, Final
<1>3. channel \in Seq(Message)
  BY DEF IInv, TypeOK
<1>4. ASSUME NEW a \in Askers, GetInfo(a) PROVE StopInv'
  <2> DEFINE m == [kind |-> "info", asker |-> a]
  <2>1. m \in Message /\ EntryOf(m) = {} /\ m.kind = "info"
    BY DEF Message, EntryOf
  <2>2. /\ channel' = channel \/ channel' = Append(channel, m)
        /\ UNCHANGED <<stopping, before_stop>>
    BY <1>4 DEF GetInfo, TrySend, Post
  <2> HIDE DEF m
  <2>3. ShutdownFlushes'
    BY <1>1, <1>2, <2>2 DEF StopInv, ShutdownFlushes
  <2>4. CASE channel' = channel
    BY <1>1, <1>2, <2>2, <2>3, <2>4 DEF StopInv, AllBefore
  <2>5. CASE channel' = Append(channel, m)
    <3>1. /\ before_stop \cap Entries(channel') = before_stop \cap Entries(channel)
          /\ HasStop(channel) => HasStop(channel')
          /\ \A j \in DOMAIN channel' :
               channel'[j].kind = "stop" => stopping /\ AllBefore(before_stop, channel', j)
      BY <2>1, <2>5, StopsAppend
    <3>2. QED
      BY <1>1, <1>2, <2>2, <2>3, <3>1 DEF StopInv, HasStop, AllBefore
  <2>6. QED
    BY <2>2, <2>4, <2>5
<1>5. ASSUME NEW s \in Stoppers, SendStop(s) PROVE StopInv'
  <2>1. CASE UNCHANGED <<channel, marks>>
    <3>1. UNCHANGED <<stopping, before_stop>>
      BY <2>1 DEF marks
    <3>2. QED
      BY <1>1, <1>2, <2>1, <3>1 DEF StopInv, AllBefore, ShutdownFlushes
  <2>2. CASE PostStop /\ ~Closed
    <3> DEFINE m == [kind |-> "stop"]
               n == Len(channel) + 1
    <3>1. m \in Message /\ EntryOf(m) = {} /\ m.kind = "stop"
      BY DEF Message, EntryOf
    <3>2. /\ channel' = Append(channel, m) /\ stopping'
          /\ before_stop' = IF stopping THEN before_stop ELSE Pending
      BY <2>2 DEF PostStop, Post
    <3> HIDE DEF m
    <3>3. /\ n \notin DOMAIN channel /\ DOMAIN channel' = DOMAIN channel \cup {n} /\ channel'[n] = m
          /\ \A i \in DOMAIN channel : channel'[i] = channel[i]
      BY <1>3, <3>1, <3>2, AppendAt
    <3>4. /\ \A j \in DOMAIN channel :
               AllBefore(before_stop', channel, j) => AllBefore(before_stop', channel', j)
          /\ AllBefore(before_stop', channel', n)
      BY <1>3, <3>1, <3>2, BeforeAppend
    <3>5. Entries(channel') = Entries(channel)
      <4>1. Entries(Append(channel, m)) = Entries(channel) \cup EntryOf(m)
        BY <1>3, <3>1, EntriesAppend
      <4>2. QED
        BY <3>1, <3>2, <4>1
    <3> HIDE DEF n
    <3>6. /\ Final => stopping \/ dropped
          /\ Final => before_stop \cap Entries(channel) = {}
          /\ \A j \in DOMAIN channel :
               channel[j].kind = "stop" => stopping /\ AllBefore(before_stop, channel, j)
          /\ before_stop \subseteq Pending \cup Stored \cup lost
      BY DEF StopInv
    <3>7. \A j \in DOMAIN channel' :
            channel'[j].kind = "stop" => stopping' /\ AllBefore(before_stop', channel', j)
      <4>1. ASSUME NEW j \in DOMAIN channel, channel[j].kind = "stop"
            PROVE  AllBefore(before_stop', channel', j)
        <5>1. stopping /\ AllBefore(before_stop, channel, j)
          BY <3>6, <4>1
        <5>2. before_stop' = before_stop
          BY <3>2, <5>1
        <5>3. AllBefore(before_stop', channel, j)
          BY <5>1, <5>2
        <5>4. QED
          BY <3>4, <5>3
      <4>2. QED
        BY <3>2, <3>3, <3>4, <4>1
    <3>8. \E j \in DOMAIN channel' : channel'[j].kind = "stop"
      BY <3>1, <3>3
    <3>9. Final' => before_stop' \cap Entries(channel') = {}
      BY <1>1, <1>2, <3>2, <3>5, <3>6
    <3>10. before_stop' \subseteq Pending' \cup Stored' \cup lost'
      BY <1>1, <3>2, <3>6
    <3>11. ~Closed'
      BY <1>2, <2>2
    <3>12. QED
      BY <3>2, <3>7, <3>8, <3>9, <3>10, <3>11 DEF StopInv, ShutdownFlushes, AllBefore
  <2>3. QED
    BY <1>5, <2>1, <2>2 DEF SendStop, HasRoom
<1>6. QED
  BY <1>4, <1>5

(* FIFO: when the stop message comes to the head, before_stop has left. *)
LEMMA TakesKeepStop ==
  ASSUME IInv, StopInv, NEW m \in Message, Takes(m)
  PROVE  StopInv'
<1> DEFINE t == channel'
<1>1. /\ worker.at = "select" /\ channel # <<>> /\ m = Head(channel) /\ t = Tail(channel)
      /\ UNCHANGED <<written, dropped, stopping, before_stop>>
      /\ Waiting \cup EntryOf(m) \subseteq Waiting' \cup lost' /\ lost \subseteq lost'
  BY DEF Takes, marks
<1>2. channel \in Seq(Message) /\ worker.why # "final"
  BY <1>1 DEF IInv, TypeOK, QueueInv
<1>3. ~Final /\ ~Closed /\ ~Closed' /\ (Final' <=> m.kind = "stop")
  BY <1>1, <1>2 DEF Takes, Final, Closed
<1>4. /\ \A j \in DOMAIN t : /\ j + 1 \in DOMAIN channel /\ t[j] = channel[j + 1]
                             /\ AllBefore(before_stop, channel, j + 1) => AllBefore(before_stop, t, j)
      /\ 1 \in DOMAIN channel /\ m = channel[1]
      /\ \A j \in DOMAIN channel \ {1} : \E i \in DOMAIN t : j = i + 1
      /\ AllBefore(before_stop, channel, 1) => before_stop \cap Entries(t) = {}
  BY <1>1, <1>2, BeforeTail
<1>5. Entries(channel) = EntryOf(m) \cup Entries(t)
  BY <1>1, <1>2, EntriesTail
<1> HIDE DEF t
<1>6. /\ ~stopping => before_stop = {}
      /\ stopping => \E j \in DOMAIN channel : channel[j].kind = "stop"
      /\ \A j \in DOMAIN channel :
           channel[j].kind = "stop" => stopping /\ AllBefore(before_stop, channel, j)
      /\ before_stop \subseteq Pending \cup Stored \cup lost
  BY <1>3 DEF StopInv
<1>7. Final' => stopping /\ before_stop \cap Entries(t) = {}
  BY <1>3, <1>4, <1>6
<1>8. stopping /\ ~Final' => \E j \in DOMAIN t : t[j].kind = "stop"
  <2> SUFFICES ASSUME stopping, m.kind # "stop" PROVE \E j \in DOMAIN t : t[j].kind = "stop"
    BY <1>3
  <2>1. PICK j \in DOMAIN channel : channel[j].kind = "stop"
    BY <1>6
  <2>2. j # 1
    BY <1>4, <2>1
  <2>3. PICK i \in DOMAIN t : j = i + 1
    BY <1>4, <2>2
  <2>4. t[i].kind = "stop"
    BY <1>4, <2>1, <2>3
  <2>5. QED
    BY <2>4
<1>9. \A j \in DOMAIN t : t[j].kind = "stop" => stopping /\ AllBefore(before_stop, t, j)
  BY <1>4, <1>6
<1>10. before_stop \subseteq Pending' \cup Stored' \cup lost'
  <2>1. Stored' = Stored
    BY <1>1 DEF Stored
  <2>2. Pending' = Entries(t) \cup Waiting'
    BY DEF Pending, t
  <2>3. QED
    BY <1>1, <1>5, <1>6, <2>1, <2>2 DEF Pending
<1>11. QED
  BY <1>1, <1>3, <1>6, <1>7, <1>8, <1>9, <1>10 DEF StopInv, ShutdownFlushes, AllBefore, t

LEMMA MovesKeepStop ==
  ASSUME IInv, StopInv, Moves
  PROVE  StopInv'
<1>1. /\ UNCHANGED <<channel, lost, stopping, before_stop>> /\ (dropped => dropped')
      /\ Waiting \cup Stored = Waiting' \cup Stored'
      /\ Closed => UNCHANGED <<queue, written, worker>>
      /\ Closed' => Closed
  BY DEF Moves, marks
<1>2. worker.at = "select" => worker.why # "final"
  BY DEF IInv, QueueInv
<1>3. (Final => Final') /\ (Final' => Final \/ (channel = <<>> /\ dropped))
  BY <1>2 DEF Moves, Final
<1>4. Closed' => Final'
  BY <1>1, <1>3 DEF StopInv
<1>5. Final' => (stopping \/ dropped') /\ before_stop \cap Entries(channel) = {}
  BY <1>1, <1>3, EntriesEmpty DEF StopInv
<1>6. before_stop \subseteq Pending' \cup Stored' \cup lost'
  BY <1>1 DEF StopInv, Pending
<1>7. ShutdownFlushes'
  <2> SUFFICES ASSUME Closed'
               PROVE  before_stop' \subseteq Stored' \cup lost' \cup (IF worker.late THEN Waiting ELSE {})'
    BY DEF ShutdownFlushes
  <2>1. Stored' = Stored /\ Waiting' = Waiting /\ UNCHANGED <<worker, lost, before_stop>>
    BY <1>1 DEF Stored, Waiting
  <2>2. QED
    BY <1>1, <2>1 DEF StopInv, ShutdownFlushes
<1>8. QED
  BY <1>1, <1>3, <1>4, <1>5, <1>6, <1>7 DEF StopInv, AllBefore

(* The task ends when its queues are empty, or out of time. *)
LEMMA EndsKeepStop ==
  ASSUME IInv, StopInv, EndPass \/ EndTask
  PROVE  StopInv'
<1> USE DEF storage, marks
<1>1. worker \in WorkerState /\ worker.at = "pass"
  BY StorageNow DEF EndPass, EndTask, Passing
<1>2. UNCHANGED <<queue, written, lost, dropped, stopping, before_stop>>
  BY DEF EndPass, EndTask
<1>3. Waiting' = Waiting /\ Stored' = Stored
  BY <1>2 DEF Waiting, Stored
<1>4. CASE EndPass
  <2>1. /\ UNCHANGED channel /\ worker'.at = "select" /\ worker'.why = worker.why
    BY <1>1, <1>4 DEF EndPass, WorkerState
  <2>2. ~Closed' /\ Final' = Final
    BY <2>1 DEF Closed, Final
  <2>3. QED
    BY <1>2, <1>3, <2>1, <2>2 DEF StopInv, AllBefore, ShutdownFlushes, Pending
<1>5. CASE EndTask
  <2>1. /\ channel' = <<>> /\ worker'.at = "ended" /\ worker'.why = "final" /\ worker.why = "final"
        /\ worker'.late = worker.late /\ FlushDone
    BY <1>1, <1>5 DEF EndTask, WorkerState
  <2>2. Final /\ Final' /\ Closed' /\ Entries(channel') = {} /\ DOMAIN channel' = {}
    BY <2>1, EntriesEmpty DEF Final, Closed
  <2>3. before_stop \subseteq Waiting \cup Stored \cup lost
    BY <2>2 DEF StopInv, Pending
  <2>4. ~worker.late => Waiting = {}
    <3>1. ASSUME ~worker.late, NEW l \in Logs PROVE queue[l] = <<>>
      BY <2>1, <3>1, StorageNow DEF FlushDone
    <3>2. QED
      BY <3>1, EntriesEmpty DEF Waiting
  <2>5. ShutdownFlushes'
    BY <1>2, <1>3, <2>1, <2>3, <2>4 DEF ShutdownFlushes
  <2>6. QED
    BY <1>2, <1>3, <2>2, <2>3, <2>5 DEF StopInv, Pending
<1>6. QED
  BY <1>4, <1>5

LEMMA StepStopInv ==
  ASSUME IInv, IssuedInv, StopInv, [Next]_vars
  PROVE  StopInv'
BY StepCases, SendsKeepStop, PostsKeepStop, TakesKeepStop, MovesKeepStop, EndsKeepStop

(* shutdown: once the worker has ended, every entry that was waiting when the
   first stop message went in is on the disk or was evicted, or met no
   definition; it still waits in a queue only if the final flush ran out of
   time. *)
THEOREM ShutdownWritesWhatWaited == Spec => []ShutdownFlushes
<1>1. Init => IssuedInv /\ StopInv
  BY StopInvInit
<1>2. IInv /\ IssuedInv /\ StopInv /\ [Next]_vars => IssuedInv' /\ StopInv'
  BY StepIssued, StepStopInv
<1>3. StopInv => ShutdownFlushes
  BY DEF StopInv
<1>4. QED
  BY <1>1, <1>2, <1>3, Invariance, PTL DEF Spec

----------------------------------------------------------------------------
(* get_info *)

(* The part of InfoInv about the channel. *)
InfosIn(c, asked, before) ==
  \A j \in DOMAIN c :
    c[j].kind = "info" =>
      asked[c[j].asker] # "idle" /\ AllBefore(before[c[j].asker], c, j)

InfoAt ==
  worker.why = "info" /\ worker.at \in {"report", "pass"} =>
    /\ worker.asker \in Askers /\ asker[worker.asker] # "idle"
    /\ ahead[worker.asker] \cap Entries(channel) = {}

LEMMA InfoParts == InfoInv <=> InfosIn(channel, asker, ahead) /\ InfoAt
BY DEF InfoInv, InfosIn, InfoAt, AllBefore

LEMMA InfoPartsNext == InfoInv' <=> InfosIn(channel', asker', ahead') /\ InfoAt'
BY DEF InfoInv, InfosIn, InfoAt, AllBefore

(* A message goes in whose entry nobody who has asked has seen. *)
LEMMA InfosAppend ==
  ASSUME IInv, InfosIn(channel, asker, ahead), NEW m \in Message,
         \A a \in Askers : ahead[a] \cap EntryOf(m) = {},
         m.kind = "info" => asker[m.asker] # "idle"
  PROVE  /\ InfosIn(Append(channel, m), asker, ahead)
         /\ \A a \in Askers : ahead[a] \cap Entries(Append(channel, m)) = ahead[a] \cap Entries(channel)
<1> DEFINE d == Append(channel, m)
           n == Len(channel) + 1
<1>1. channel \in Seq(Message) /\ \A j \in DOMAIN channel : channel[j] \in Message
  BY LenProperties, ElementOfSeq DEF IInv, TypeOK
<1>2. /\ n \notin DOMAIN channel /\ DOMAIN d = DOMAIN channel \cup {n} /\ d[n] = m
      /\ \A i \in DOMAIN channel : d[i] = channel[i]
  BY <1>1, AppendAt
<1>3. \A a \in Askers : /\ \A j \in DOMAIN channel : AllBefore(ahead[a], channel, j) =>
                                                       AllBefore(ahead[a], d, j)
                        /\ AllBefore(ahead[a], d, n)
  BY <1>1, BeforeAppend
<1>4. Entries(d) = Entries(channel) \cup EntryOf(m)
  BY <1>1, EntriesAppend
<1> HIDE DEF d, n
<1>5. \A j \in DOMAIN channel : channel[j].kind = "info" => channel[j].asker \in Askers
  BY <1>1, MessageKinds
<1>6. m.kind = "info" => m.asker \in Askers
  BY MessageKinds
<1>7. InfosIn(d, asker, ahead)
  BY <1>2, <1>3, <1>5, <1>6 DEF InfosIn
<1>8. QED
  BY <1>4, <1>7 DEF d

LEMMA SendsKeepInfo ==
  ASSUME IInv, IssuedInv, InfoInv, Sends
  PROVE  InfoInv'
<1>1. /\ UNCHANGED <<asker, ahead>>
      /\ worker' = worker \/ (worker.at = "report" /\ worker' = [worker EXCEPT !.at = "pass"])
  BY DEF Sends, marks
<1>2. worker \in WorkerState /\ ahead \in [Askers -> SUBSET Id]
  BY DEF IInv, TypeOK
<1>3. /\ worker'.why = worker.why /\ worker'.asker = worker.asker
      /\ worker'.at \in {"report", "pass"} => worker.at \in {"report", "pass"}
  BY <1>1, <1>2 DEF WorkerState
<1>4. CASE UNCHANGED channel
  BY <1>1, <1>3, <1>4 DEF InfoInv, AllBefore
<1>5. ASSUME NEW m \in Message, channel' = Append(channel, m), m.kind \notin {"stop", "info"},
             \A id \in EntryOf(m) : NewId(id)
      PROVE  InfoInv'
  <2>1. \A a \in Askers : ahead[a] \cap EntryOf(m) = {}
    <3>1. EntryOf(m) \subseteq Id
      BY MessageKinds
    <3>2. \A a \in Askers : \A id \in ahead[a] : IssuedId(id)
      BY DEF IssuedInv, Issued
    <3>3. QED
      BY <1>5, <3>1, <3>2, NewIsNotIssued
  <2>2. /\ InfosIn(channel', asker, ahead)
        /\ \A a \in Askers : ahead[a] \cap Entries(channel') = ahead[a] \cap Entries(channel)
    BY <1>5, <2>1, InfoParts, InfosAppend
  <2>3. InfoAt'
    BY <1>1, <1>3, <2>2, InfoParts DEF InfoAt
  <2>4. QED
    BY <1>1, <2>2, <2>3, InfoPartsNext
<1>6. QED
  BY <1>4, <1>5 DEF Sends

LEMMA PostsKeepInfo ==
  ASSUME IInv, InfoInv,
         (\E a \in Askers : GetInfo(a)) \/ (\E s \in Stoppers : SendStop(s))
  PROVE  InfoInv'
<1>1. UNCHANGED worker
  BY PostsNothing
<1>2. channel \in Seq(Message) /\ asker \in [Askers -> {"idle", "waiting", "some", "none"}]
      /\ ahead \in [Askers -> SUBSET Id]
  BY DEF IInv, TypeOK
<1>3. ASSUME NEW s \in Stoppers, SendStop(s) PROVE InfoInv'
  <2> DEFINE m == [kind |-> "stop"]
  <2>1. m \in Message /\ EntryOf(m) = {} /\ m.kind = "stop"
    BY DEF Message, EntryOf
  <2>2. UNCHANGED <<asker, ahead>> /\ (channel' = channel \/ channel' = Append(channel, m))
    BY <1>3 DEF SendStop, PostStop, Post, marks
  <2> HIDE DEF m
  <2>3. CASE channel' = channel
    BY <1>1, <2>2, <2>3 DEF InfoInv, AllBefore
  <2>4. CASE channel' = Append(channel, m)
    <3>1. /\ InfosIn(channel', asker, ahead)
          /\ \A a \in Askers : ahead[a] \cap Entries(channel') = ahead[a] \cap Entries(channel)
      BY <2>1, <2>4, InfoParts, InfosAppend
    <3>2. InfoAt'
      BY <1>1, <2>2, <3>1, InfoParts DEF InfoAt
    <3>3. QED
      BY <2>2, <3>1, <3>2, InfoPartsNext
  <2>5. QED
    BY <2>2, <2>3, <2>4
<1>4. ASSUME NEW a \in Askers, GetInfo(a) PROVE InfoInv'
  <2> DEFINE m == [kind |-> "info", asker |-> a]
             n == Len(channel) + 1
  <2>1. m \in Message /\ EntryOf(m) = {} /\ m.kind = "info" /\ m.asker = a
    BY DEF Message, EntryOf
  <2>2. /\ asker[a] = "idle" /\ asker'[a] # "idle"
        /\ \A b \in Askers \ {a} : asker'[b] = asker[b] /\ ahead'[b] = ahead[b]
        /\ channel' = channel \/ channel' = Append(channel, m)
    BY <1>2, <1>4 DEF GetInfo, TrySend, Post
  <2> HIDE DEF m
  <2>3. \A j \in DOMAIN channel :
          channel[j].kind = "info" => /\ channel[j].asker \in Askers \ {a}
                                      /\ asker[channel[j].asker] # "idle"
                                      /\ AllBefore(ahead[channel[j].asker], channel, j)
    <3>1. \A j \in DOMAIN channel : channel[j] \in Message
      BY <1>2, LenProperties, ElementOfSeq
    <3>2. \A j \in DOMAIN channel : channel[j].kind = "info" => channel[j].asker \in Askers
      BY <3>1, MessageKinds
    <3>3. QED
      BY <2>2, <3>2 DEF InfoInv
  <2>4. worker.why = "info" /\ worker.at \in {"report", "pass"} =>
          /\ worker.asker \in Askers \ {a} /\ asker[worker.asker] # "idle"
          /\ ahead[worker.asker] \cap Entries(channel) = {}
    BY <2>2 DEF InfoInv
  <2>5. CASE channel' = channel
    <3>1. InfosIn(channel', asker', ahead')
      BY <2>2, <2>3, <2>5 DEF InfosIn
    <3>2. InfoAt'
      BY <1>1, <2>2, <2>4, <2>5 DEF InfoAt
    <3>3. QED
      BY <3>1, <3>2, InfoPartsNext
  <2>6. CASE channel' = Append(channel, m)
    <3>1. /\ DOMAIN channel' = DOMAIN channel \cup {n} /\ channel'[n] = m
          /\ \A i \in DOMAIN channel : channel'[i] = channel[i]
      BY <1>2, <2>1, <2>6, AppendAt
    <3>2. \A b \in Askers : /\ \A j \in DOMAIN channel : AllBefore(ahead'[b], channel, j) =>
                                                          AllBefore(ahead'[b], channel', j)
                            /\ AllBefore(ahead'[b], channel', n)
      BY <1>2, <2>1, <2>6, BeforeAppend
    <3>3. Entries(channel') = Entries(channel)
      <4>1. channel \in Seq(Message) /\ m \in Message
        BY <1>2, <2>1
      <4>2. Entries(Append(channel, m)) = Entries(channel) \cup EntryOf(m)
        BY <4>1, EntriesAppend
      <4>3. QED
        BY <2>1, <2>6, <4>2
    <3> HIDE DEF n
    <3>4. InfosIn(channel', asker', ahead')
      <4>1. ASSUME NEW j \in DOMAIN channel, channel[j].kind = "info"
            PROVE  /\ asker'[channel[j].asker] # "idle"
                   /\ AllBefore(ahead'[channel[j].asker], channel', j)
        BY <2>2, <2>3, <3>2, <4>1
      <4>2. QED
        BY <2>1, <2>2, <3>1, <3>2, <4>1 DEF InfosIn
    <3>5. InfoAt'
      BY <1>1, <2>2, <2>4, <3>3 DEF InfoAt
    <3>6. QED
      BY <3>4, <3>5, InfoPartsNext
  <2>7. QED
    BY <2>2, <2>5, <2>6
<1>5. QED
  BY <1>3, <1>4

LEMMA TakesKeepInfo ==
  ASSUME IInv, InfoInv, NEW m \in Message, Takes(m)
  PROVE  InfoInv'
<1> DEFINE t == channel'
<1>1. /\ worker.at = "select" /\ channel # <<>> /\ m = Head(channel) /\ t = Tail(channel)
      /\ UNCHANGED <<asker, ahead>>
  BY DEF Takes, marks
<1>2. channel \in Seq(Message) /\ \A j \in DOMAIN channel : channel[j] \in Message
  BY LenProperties, ElementOfSeq DEF IInv, TypeOK
<1>3. \A A :
      /\ \A j \in DOMAIN t : /\ j + 1 \in DOMAIN channel /\ t[j] = channel[j + 1]
                             /\ AllBefore(A, channel, j + 1) => AllBefore(A, t, j)
      /\ 1 \in DOMAIN channel /\ m = channel[1]
      /\ AllBefore(A, channel, 1) => A \cap Entries(t) = {}
  BY <1>1, <1>2, BeforeTail
<1> HIDE DEF t
<1>4. \A j \in DOMAIN channel :
        channel[j].kind = "info" => /\ asker[channel[j].asker] # "idle"
                                    /\ AllBefore(ahead[channel[j].asker], channel, j)
  BY DEF InfoInv
<1>5. \A j \in DOMAIN t : j + 1 \in DOMAIN channel /\ t[j] = channel[j + 1]
  BY <1>3
<1>6. ASSUME NEW j \in DOMAIN t, t[j].kind = "info"
      PROVE  asker[t[j].asker] # "idle" /\ AllBefore(ahead[t[j].asker], t, j)
  BY <1>3, <1>4, <1>5, <1>6
<1>7. InfosIn(t, asker', ahead')
  BY <1>1, <1>6 DEF InfosIn
<1>8. InfoAt'
  <2>1. CASE m.kind = "info"
    <3>1. worker'.asker = m.asker /\ m.asker \in Askers
      BY <2>1, MessageKinds DEF Takes
    <3>2. asker[m.asker] # "idle" /\ AllBefore(ahead[m.asker], channel, 1)
      BY <1>3, <1>4, <2>1
    <3>3. ahead[m.asker] \cap Entries(t) = {}
      BY <1>3, <3>2
    <3>4. QED
      BY <1>1, <3>1, <3>2, <3>3 DEF InfoAt, t
  <2>2. CASE m.kind # "info"
    BY <1>1, <2>2 DEF Takes, InfoAt
  <2>3. QED
    BY <2>1, <2>2
<1>9. QED
  BY <1>7, <1>8, InfoPartsNext DEF t

LEMMA OthersKeepInfo ==
  ASSUME IInv, InfoInv, Moves \/ EndPass \/ EndTask
  PROVE  InfoInv'
<1>1. worker \in WorkerState /\ asker \in [Askers -> {"idle", "waiting", "some", "none"}]
  BY StorageNow
<1>2. CASE Moves
  <2>1. UNCHANGED <<channel, asker, ahead>>
    BY <1>2 DEF Moves, marks
  <2>2. worker'.why = "info" /\ worker'.at \in {"report", "pass"} =>
          /\ worker.why = "info" /\ worker.at \in {"report", "pass"}
          /\ worker'.asker = worker.asker
    BY <1>2 DEF Moves
  <2>3. QED
    BY <2>1, <2>2 DEF InfoInv, AllBefore
<1>3. CASE EndPass
  <2>1. UNCHANGED <<channel, ahead>> /\ worker'.at = "select"
    BY <1>1, <1>3 DEF EndPass, marks, WorkerState
  <2>2. \A a \in Askers : asker[a] # "idle" => asker'[a] # "idle"
    BY <1>1, <1>3 DEF EndPass
  <2>3. \A j \in DOMAIN channel : channel[j].kind = "info" => channel[j].asker \in Askers
    <3>1. \A j \in DOMAIN channel : channel[j] \in Message
      BY LenProperties, ElementOfSeq DEF IInv, TypeOK
    <3>2. QED
      BY <3>1, MessageKinds
  <2>4. QED
    BY <2>1, <2>2, <2>3 DEF InfoInv, AllBefore
<1>4. CASE EndTask
  <2>1. channel' = <<>> /\ worker'.at = "ended"
    BY <1>1, <1>4 DEF EndTask, WorkerState
  <2>2. QED
    BY <2>1 DEF InfoInv
<1>5. QED
  BY <1>2, <1>3, <1>4

LEMMA StepInfoInv ==
  ASSUME IInv, IssuedInv, InfoInv, [Next]_vars
  PROVE  InfoInv'
BY StepCases, SendsKeepInfo, PostsKeepInfo, TakesKeepInfo, OthersKeepInfo

(* The answer: only the end of a flush gives it, with nothing left in the
   queues when there was time. *)
LEMMA AnswerFollows ==
  ASSUME IInv, InfoInv, [Next]_vars, NEW a \in Askers,
         asker[a] = "waiting", asker'[a] = "some", ~worker.late
  PROVE  ahead[a] \cap Pending' = {}
<1>1. worker \in WorkerState /\ asker \in [Askers -> {"idle", "waiting", "some", "none"}]
  BY StorageNow
<1>2. EndPass
  BY <1>1, StepCases DEF Sends, GetInfo, SendStop, Takes, Moves, EndTask, Answers
<1>3. worker.why = "info" /\ worker.asker = a /\ worker.at = "pass" /\ FlushDone
  BY <1>1, <1>2 DEF EndPass, Flushing, Passing
<1>4. UNCHANGED <<channel, queue>>
  BY <1>2 DEF EndPass, storage
<1>5. ahead[a] \cap Entries(channel) = {}
  BY <1>3 DEF InfoInv
<1>6. \A l \in Logs : queue[l] = <<>>
  BY <1>3, StorageNow DEF FlushDone
<1>7. Waiting = {}
  BY <1>6, EntriesEmpty DEF Waiting
<1>8. QED
  BY <1>4, <1>5, <1>7 DEF Pending, Waiting

(* get_info: whatever other threads log, flush and ask meanwhile, the
   statistics come when everything logged before the call has left the channel
   and the queues, unless the flush ran out of time. *)
THEOREM InfoComesAfterFlush == Spec => InfoFollowsFlush
<1>1. Init => IssuedInv /\ InfoInv
  BY StopInvInit
<1>2. IInv /\ IssuedInv /\ InfoInv /\ [Next]_vars => IssuedInv' /\ InfoInv'
  BY StepIssued, StepInfoInv
<1>3. IInv /\ InfoInv /\ [Next]_vars =>
        [\A a \in Askers :
           asker[a] = "waiting" /\ asker'[a] = "some" /\ ~worker.late =>
             ahead[a] \cap Pending' = {}]_vars
  BY AnswerFollows
<1>4. QED
  BY <1>1, <1>2, <1>3, Invariance, PTL DEF Spec, InfoFollowsFlush
----------------------------------------------------------------------------
(* The order of what one thread logs, from the channel to the disk *)

LEMMA BeforeMonotone ==
  ASSUME NEW A, NEW B, Before(A, B), NEW C \in SUBSET A, NEW D \in SUBSET B
  PROVE  Before(C, D)
BY DEF Before

(* Of two sequences in line, each is in order, and all of the first comes
   before all of the second. *)
LEMMA InOrderConcat ==
  ASSUME NEW c \in Seq(Message), NEW d \in Seq(Message)
  PROVE  InOrder(c \o d) <=> InOrder(c) /\ InOrder(d) /\ Before(Entries(c), Entries(d))
<1> DEFINE e == c \o d
           m == Len(c)
           n == Len(d)
<1>1. m \in Nat /\ DOMAIN c = 1..m /\ n \in Nat /\ DOMAIN d = 1..n
  BY LenProperties
<1>2. /\ DOMAIN e = 1..(m + n)
      /\ \A i \in 1..m : e[i] = c[i]
      /\ \A i \in 1..n : e[m + i] = d[i]
  <2>1. /\ e \in Seq(Message) /\ Len(e) = m + n
        /\ \A i \in 1..(m + n) : e[i] = IF i <= m THEN c[i] ELSE d[i - m]
    BY ConcatProperties
  <2> HIDE DEF e, m, n
  <2>2. DOMAIN e = 1..(m + n)
    BY <2>1, LenProperties
  <2>3. \A i \in 1..m : i \in 1..(m + n) /\ i <= m
    BY <1>1
  <2>4. \A i \in 1..n : m + i \in 1..(m + n) /\ ~(m + i <= m) /\ (m + i) - m = i
    BY <1>1
  <2>5. QED
    BY <2>1, <2>2, <2>3, <2>4
<1> HIDE DEF e, m, n
<1>3. ASSUME InOrder(e) PROVE InOrder(c) /\ InOrder(d) /\ Before(Entries(c), Entries(d))
  <2>1. ASSUME NEW i \in 1..m, NEW j \in 1..m, i < j PROVE Before(EntryOf(c[i]), EntryOf(c[j]))
    <3>1. i \in 1..(m + n) /\ j \in 1..(m + n)
      BY <1>1
    <3>2. QED
      BY <1>2, <1>3, <2>1, <3>1 DEF InOrder
  <2>2. ASSUME NEW i \in 1..n, NEW j \in 1..n, i < j PROVE Before(EntryOf(d[i]), EntryOf(d[j]))
    <3>1. m + i \in 1..(m + n) /\ m + j \in 1..(m + n) /\ m + i < m + j
      BY <1>1, <2>2
    <3>2. QED
      BY <1>2, <1>3, <3>1 DEF InOrder
  <2>3. ASSUME NEW i \in 1..m, NEW j \in 1..n PROVE Before(EntryOf(c[i]), EntryOf(d[j]))
    <3>1. i \in 1..(m + n) /\ m + j \in 1..(m + n) /\ i < m + j
      BY <1>1
    <3>2. QED
      BY <1>2, <1>3, <3>1 DEF InOrder
  <2>4. Before(Entries(c), Entries(d))
    BY <1>1, <2>3 DEF Before, Entries
  <2>5. QED
    BY <1>1, <2>1, <2>2, <2>4 DEF InOrder
<1>4. ASSUME InOrder(c), InOrder(d), Before(Entries(c), Entries(d)) PROVE InOrder(e)
  <2>1. SUFFICES ASSUME NEW i \in 1..(m + n), NEW j \in 1..(m + n), i < j
                 PROVE  Before(EntryOf(e[i]), EntryOf(e[j]))
    BY <1>2 DEF InOrder
  <2>2. CASE j <= m
    <3>1. i \in 1..m /\ j \in 1..m
      BY <1>1, <2>1, <2>2
    <3>2. QED
      BY <1>1, <1>2, <1>4, <2>1, <3>1 DEF InOrder
  <2>3. CASE i > m
    <3>1. i - m \in 1..n /\ j - m \in 1..n /\ m + (i - m) = i /\ m + (j - m) = j /\ i - m < j - m
      BY <1>1, <2>1, <2>3
    <3>2. e[i] = d[i - m] /\ e[j] = d[j - m]
      BY <1>2, <3>1
    <3>3. QED
      BY <1>1, <1>4, <3>1, <3>2 DEF InOrder
  <2>4. CASE i <= m /\ j > m
    <3>1. i \in 1..m /\ j - m \in 1..n /\ m + (j - m) = j
      BY <1>1, <2>4
    <3>2. e[i] = c[i] /\ e[j] = d[j - m]
      BY <1>2, <3>1
    <3>3. EntryOf(e[i]) \subseteq Entries(c) /\ EntryOf(e[j]) \subseteq Entries(d)
      BY <1>1, <3>1, <3>2 DEF Entries
    <3>4. QED
      BY <1>4, <3>3 DEF Before
  <2>5. QED
    BY <1>1, <2>2, <2>3, <2>4
<1>5. QED
  BY <1>3, <1>4 DEF e

LEMMA InOrderAppend ==
  ASSUME NEW c \in Seq(Message), NEW m \in Message
  PROVE  /\ Append(c, m) \in Seq(Message)
         /\ Entries(Append(c, m)) = Entries(c) \cup EntryOf(m)
         /\ InOrder(c) /\ Before(Entries(c), EntryOf(m)) => InOrder(Append(c, m))
<1> DEFINE d == Append(c, m)
           n == Len(c) + 1
<1>1. d \in Seq(Message) /\ Entries(d) = Entries(c) \cup EntryOf(m)
  BY EntriesAppend, AppendProperties
<1>2. /\ n \notin DOMAIN c /\ DOMAIN d = DOMAIN c \cup {n} /\ d[n] = m
      /\ \A i \in DOMAIN c : d[i] = c[i] /\ i \in Nat /\ i < n
  BY AppendAt
<1>3. n \in Nat
  BY LenProperties
<1> HIDE DEF d, n
<1>4. ASSUME InOrder(c), Before(Entries(c), EntryOf(m)),
             NEW i \in DOMAIN d, NEW j \in DOMAIN d, i < j
      PROVE  Before(EntryOf(d[i]), EntryOf(d[j]))
  <2>1. i \in DOMAIN c
    BY <1>2, <1>3, <1>4
  <2>2. CASE j \in DOMAIN c
    BY <1>2, <1>4, <2>1, <2>2 DEF InOrder
  <2>3. CASE j = n
    BY <1>2, <1>4, <2>1, <2>3 DEF Before, Entries
  <2>4. QED
    BY <1>2, <2>2, <2>3
<1>5. InOrder(c) /\ Before(Entries(c), EntryOf(m)) => InOrder(d)
  BY <1>4 DEF InOrder
<1>6. QED
  BY <1>1, <1>5 DEF d

LEMMA InOrderTail ==
  ASSUME NEW c \in Seq(Message), c # <<>>, InOrder(c)
  PROVE  /\ Tail(c) \in Seq(Message) /\ Head(c) \in Message
         /\ Entries(c) = EntryOf(Head(c)) \cup Entries(Tail(c))
         /\ InOrder(Tail(c)) /\ Before(EntryOf(Head(c)), Entries(Tail(c)))
<1> DEFINE t == Tail(c)
           n == Len(c)
<1>1. /\ Head(c) = c[1] /\ Head(c) \in Message /\ t \in Seq(Message)
      /\ n \in Nat \ {0} /\ DOMAIN c = 1..n /\ DOMAIN t = 1..(n - 1)
      /\ \A i \in 1..(n - 1) : t[i] = c[i + 1]
  BY TailAt
<1>2. Entries(c) = EntryOf(Head(c)) \cup Entries(t)
  BY EntriesTail
<1> HIDE DEF t, n
<1>3. ASSUME NEW i \in 1..(n - 1), NEW j \in 1..(n - 1), i < j
      PROVE  Before(EntryOf(t[i]), EntryOf(t[j]))
  <2>1. i + 1 \in 1..n /\ j + 1 \in 1..n /\ i + 1 < j + 1
    BY <1>1, <1>3
  <2>2. QED
    BY <1>1, <2>1 DEF InOrder
<1>4. ASSUME NEW j \in 1..(n - 1)
      PROVE  Before(EntryOf(Head(c)), EntryOf(t[j]))
  <2>1. 1 \in 1..n /\ j + 1 \in 1..n /\ 1 < j + 1
    BY <1>1
  <2>2. QED
    BY <1>1, <2>1 DEF InOrder
<1>5. InOrder(t) /\ Before(EntryOf(Head(c)), Entries(t))
  BY <1>1, <1>3, <1>4 DEF InOrder, Before, Entries
<1>6. QED
  BY <1>1, <1>2, <1>5 DEF t

(* The first n come before the rest. *)
LEMMA InOrderSplit ==
  ASSUME NEW c \in Seq(Message), NEW n \in 1..Len(c), InOrder(c)
  PROVE  /\ InOrder(SubSeq(c, 1, n)) /\ InOrder(SubSeq(c, n + 1, Len(c)))
         /\ Before(Entries(SubSeq(c, 1, n)), Entries(SubSeq(c, n + 1, Len(c))))
<1> DEFINE front == SubSeq(c, 1, n)
           rest  == SubSeq(c, n + 1, Len(c))
<1>1. front \in Seq(Message) /\ rest \in Seq(Message)
  BY EntriesSplit
<1>2. front \o rest = c
  <2>1. n \in 0..Len(c)
    BY LenProperties
  <2>2. QED
    BY <2>1
<1> HIDE DEF front, rest
<1>3. InOrder(front \o rest)
  BY <1>2
<1>4. InOrder(front) /\ InOrder(rest) /\ Before(Entries(front), Entries(rest))
  BY <1>1, <1>3, InOrderConcat
<1>5. QED
  BY <1>4 DEF front, rest

(* The entries of one name, from the disk to the channel. *)
InLine(w, q, c) ==
  /\ w \in Seq(Message) /\ q \in Seq(Message) /\ c \in Seq(Message)
  /\ InOrder(w) /\ InOrder(q) /\ InOrder(c)
  /\ Before(Entries(w), Entries(q))
  /\ Before(Entries(w), Entries(c)) /\ Before(Entries(q), Entries(c))

LEMMA LineParts ==
  ASSUME NEW w \in Seq(Message), NEW q \in Seq(Message), NEW c \in Seq(Message)
  PROVE  InOrder(w \o q \o c) <=> InLine(w, q, c)
<1> DEFINE d == w \o q
<1>1. d \in Seq(Message) /\ Entries(d) = Entries(w) \cup Entries(q)
  BY EntriesConcat
<1>2. InOrder(d) <=> InOrder(w) /\ InOrder(q) /\ Before(Entries(w), Entries(q))
  BY InOrderConcat
<1> HIDE DEF d
<1>3. InOrder(d \o c) <=> InOrder(d) /\ InOrder(c) /\ Before(Entries(d), Entries(c))
  BY <1>1, InOrderConcat
<1>4. Before(Entries(d), Entries(c)) <=> Before(Entries(w), Entries(c)) /\ Before(Entries(q), Entries(c))
  BY <1>1 DEF Before
<1>5. InOrder(d \o c) <=> InLine(w, q, c)
  BY <1>2, <1>3, <1>4 DEF InLine
<1>6. QED
  BY <1>5 DEF d

(* The four things a step may do to a line: a message with no entry, or with
   the latest of its thread, goes in; ... *)
LEMMA LineTakesLatest ==
  ASSUME NEW w, NEW q, NEW c, InLine(w, q, c), NEW m \in Message,
         Before(Entries(w), EntryOf(m)), Before(Entries(q), EntryOf(m)), Before(Entries(c), EntryOf(m))
  PROVE  InLine(w, q, Append(c, m))
<1>1. /\ Append(c, m) \in Seq(Message) /\ InOrder(Append(c, m))
      /\ Entries(Append(c, m)) = Entries(c) \cup EntryOf(m)
  BY InOrderAppend DEF InLine
<1>2. /\ Before(Entries(w), Entries(c) \cup EntryOf(m))
      /\ Before(Entries(q), Entries(c) \cup EntryOf(m))
  BY DEF InLine, Before
<1> DEFINE d == Append(c, m)
<1> HIDE DEF d
<1>3. /\ d \in Seq(Message) /\ InOrder(d)
      /\ Before(Entries(w), Entries(d)) /\ Before(Entries(q), Entries(d))
  <2>1. Entries(d) = Entries(c) \cup EntryOf(m)
    BY <1>1 DEF d
  <2>2. QED
    BY <1>1, <1>2, <2>1 DEF d
<1>4. InLine(w, q, d)
  BY <1>3 DEF InLine
<1>5. QED
  BY <1>4 DEF d

(* ... the oldest message leaves, to the queue, or to another; ... *)
LEMMA LineMovesUp ==
  ASSUME NEW w, NEW q, NEW c, InLine(w, q, c), c # <<>>
  PROVE  InLine(w, q, Tail(c)) /\ InLine(w, Append(q, Head(c)), Tail(c))
<1> DEFINE t == Tail(c)
           h == Head(c)
           a == Append(q, h)
<1>1. /\ t \in Seq(Message) /\ h \in Message /\ Entries(c) = EntryOf(h) \cup Entries(t)
      /\ InOrder(t) /\ Before(EntryOf(h), Entries(t))
  BY InOrderTail DEF InLine
<1> HIDE DEF t, h
<1>2. /\ Before(Entries(w), Entries(t)) /\ Before(Entries(q), Entries(t))
      /\ Before(Entries(w), EntryOf(h)) /\ Before(Entries(q), EntryOf(h))
  BY <1>1 DEF InLine, Before
<1>3. InLine(w, q, t)
  BY <1>1, <1>2 DEF InLine
<1>4. a \in Seq(Message) /\ Entries(a) = Entries(q) \cup EntryOf(h) /\ InOrder(a)
  BY <1>1, <1>2, InOrderAppend DEF InLine
<1> HIDE DEF a
<1>5. Before(Entries(w), Entries(a)) /\ Before(Entries(a), Entries(t))
  BY <1>1, <1>2, <1>4 DEF InLine, Before
<1>6. InLine(w, a, t)
  BY <1>1, <1>2, <1>4, <1>5 DEF InLine
<1>7. QED
  BY <1>3, <1>6 DEF t, h, a

(* ... the oldest entry of the queue goes for good; ... *)
LEMMA LineEvicts ==
  ASSUME NEW w, NEW q, NEW c, InLine(w, q, c), q # <<>>
  PROVE  InLine(w, Tail(q), c)
<1>1. /\ Tail(q) \in Seq(Message) /\ Entries(Tail(q)) \subseteq Entries(q)
      /\ InOrder(Tail(q))
  BY InOrderTail DEF InLine
<1> DEFINE t == Tail(q)
<1> HIDE DEF t
<1>2. Before(Entries(w), Entries(t)) /\ Before(Entries(t), Entries(c))
  BY <1>1 DEF InLine, Before, t
<1>3. InLine(w, t, c)
  BY <1>1, <1>2 DEF InLine, t
<1>4. QED
  BY <1>3 DEF t

(* ... or a frame takes some of the oldest to the disk. *)
LEMMA LineIsWritten ==
  ASSUME NEW w, NEW q, NEW c, InLine(w, q, c), NEW n \in 1..Len(q)
  PROVE  InLine(w \o SubSeq(q, 1, n), SubSeq(q, n + 1, Len(q)), c)
<1> DEFINE front == SubSeq(q, 1, n)
           rest  == SubSeq(q, n + 1, Len(q))
           v     == w \o front
<1>1. /\ front \in Seq(Message) /\ rest \in Seq(Message)
      /\ Entries(q) = Entries(front) \cup Entries(rest)
      /\ InOrder(front) /\ InOrder(rest) /\ Before(Entries(front), Entries(rest))
  BY EntriesSplit, InOrderSplit DEF InLine
<1> HIDE DEF front, rest
<1>2. /\ Before(Entries(w), Entries(front)) /\ Before(Entries(w), Entries(rest))
      /\ Before(Entries(front), Entries(c)) /\ Before(Entries(rest), Entries(c))
  BY <1>1 DEF InLine, Before
<1>3. v \in Seq(Message) /\ Entries(v) = Entries(w) \cup Entries(front) /\ InOrder(v)
  BY <1>1, <1>2, EntriesConcat, InOrderConcat DEF InLine
<1> HIDE DEF v
<1>4. Before(Entries(v), Entries(rest)) /\ Before(Entries(v), Entries(c))
  BY <1>1, <1>2, <1>3 DEF InLine, Before
<1>5. InLine(v, rest, c)
  BY <1>1, <1>2, <1>3, <1>4 DEF InLine
<1>6. QED
  BY <1>5 DEF front, rest, v

(* A sequence that ends has nothing out of order. *)
LEMMA LineEnds ==
  ASSUME NEW w, NEW q, NEW c, InLine(w, q, c)
  PROVE  InLine(w, q, <<>>)
<1>1. <<>> \in Seq(Message) /\ Entries(<<>>) = {} /\ InOrder(<<>>)
  BY EntriesEmpty DEF InOrder
<1>2. QED
  BY <1>1 DEF InLine, Before

----------------------------------------------------------------------------
(* What a step does to the line of each name *)

LineInv == ProducerOrder /\ Issued(Stored)

(* Nothing moves but, at most, what goes in at the end of the channel, with no
   entry or with a new one. *)
GoesIn ==
  /\ \A l \in Logs : queue'[l] = queue[l] /\ written'[l] = written[l]
  /\ \/ channel' = channel
     \/ channel' = <<>>
     \/ \E m \in Message : channel' = Append(channel, m) /\ \A id \in EntryOf(m) : NewId(id)

(* The oldest message leaves the channel: its entry goes to one queue, which
   may evict its oldest, or nowhere. *)
GoesOn ==
  /\ channel # <<>> /\ channel' = Tail(channel) /\ UNCHANGED written
  /\ \A l \in Logs : queue'[l] \in {queue[l], Append(queue[l], Head(channel)),
                                   Tail(Append(queue[l], Head(channel)))}

LEMMA ReceiveGoesOn ==
  ASSUME IInv, Receive
  PROVE  GoesOn \/ GoesIn
<1> USE DEF storage
<1> DEFINE m == Head(channel)
<1>1. queue \in [Logs -> Seq(LogMessage \cup Notice)]
  BY StorageNow
<1>2. CASE ChannelClosed
  BY <1>2 DEF ChannelClosed, GoesIn
<1>3. CASE ~ChannelClosed
  <2>1. channel # <<>> /\ channel' = Tail(channel) /\ UNCHANGED written
    BY <1>3 DEF Receive, ReceiveLog, ReceiveDefinition, ReceiveBundle, ReceiveRules, ReceiveFlush,
                ReceiveGetInfo, ReceiveStop, Take
  <2>2. UNCHANGED queue \/ (Enqueue(m.log, m) /\ (Take({"log", "notice"}) \/ Take({"bundle"})))
    BY <1>3 DEF Receive, ReceiveLog, ReceiveDefinition, ReceiveBundle, ReceiveRules, ReceiveFlush,
                ReceiveGetInfo, ReceiveStop
  <2>3. CASE UNCHANGED queue
    BY <2>1, <2>3 DEF GoesOn
  <2>4. CASE Enqueue(m.log, m) /\ (Take({"log", "notice"}) \/ Take({"bundle"}))
    <3>1. m \in Message /\ m.kind \in {"log", "notice", "bundle"}
      BY <2>4, AtSelect
    <3> HIDE DEF m
    <3>2. m.log \in Logs
      BY <3>1, MessageKinds, MessageLog
    <3>3. \/ queue' = [queue EXCEPT ![m.log] = Tail(Append(queue[m.log], m))]
          \/ queue' = [queue EXCEPT ![m.log] = Append(queue[m.log], m)]
      BY <2>4 DEF Enqueue
    <3>4. \A l \in Logs : queue'[l] \in {queue[l], Append(queue[l], m), Tail(Append(queue[l], m))}
      BY <1>1, <3>2, <3>3
    <3>5. QED
      BY <2>1, <3>4 DEF GoesOn, m
  <2>5. QED
    BY <2>2, <2>3, <2>4
<1>4. QED
  BY <1>2, <1>3

LEMMA LineCases ==
  ASSUME IInv, [Next]_vars
  PROVE  GoesIn \/ GoesOn \/ \E l \in Logs : WriteFile(l)
<1> USE DEF storage
<1>1. CASE Producing \/ Report \/ LogStep(Worker)
  <2>1. Sends
    BY <1>1, CallersSend
  <2>2. QED
    BY <2>1 DEF Sends, GoesIn
<1>2. CASE (\E a \in Askers : GetInfo(a)) \/ (\E s \in Stoppers : SendStop(s))
  BY <1>2, PostsNothing DEF GoesIn, EntryOf
<1>3. CASE WriterTick \/ CleanUpTick
  BY <1>3, TicksMove DEF GoesIn
<1>4. CASE Receive
  BY <1>4, ReceiveGoesOn
<1>5. CASE (\E l \in Logs : SkipFile(l) \/ WriteFileFails(l) \/ WriteFileTimesOut(l))
           \/ FlushAgain \/ EndPass \/ EndTask
  BY <1>5 DEF SkipFile, WriteFileFails, WriteFileTimesOut, Keep, FlushAgain, EndPass, EndTask, GoesIn
<1>6. CASE (\E s \in Stoppers : TakeHandle(s) \/ Join(s)) \/ DropHandles
  BY <1>6 DEF TakeHandle, Join, DropHandles, GoesIn
<1>7. CASE Environment \/ UNCHANGED vars
  BY <1>7 DEF Environment, WriterTickFires, CleanUpTickFires, FlushIntervalElapses, DeadlinePasses,
              DiskBreaks, DiskRecovers, Elapse, vars, GoesIn
<1>8. QED
  BY <1>1, <1>2, <1>3, <1>4, <1>5, <1>6, <1>7 DEF Next, Handling, WorkerStep, PassStep, Attempt

(* The latest of its thread comes after every entry that was issued. *)
LEMMA NewIsLatest ==
  ASSUME IInv, NEW A \in SUBSET Id, Issued(A), NEW B \in SUBSET Id, \A id \in B : NewId(id)
  PROVE  Before(A, B)
<1>1. sends \in [Callers -> Nat]
  BY DEF IInv, TypeOK
<1>2. ASSUME NEW a \in A, NEW b \in B, a[1] = b[1] PROVE a[2] < b[2]
  <2>1. a[2] \in Nat /\ b[2] \in Nat /\ sends[b[1]] \in Nat
    BY <1>1 DEF Id
  <2>2. /\ a[2] <= sends[b[1]]
        /\ call[b[1]].at \in {"notice", "restore", "entry"} => a[2] < sends[b[1]]
    BY <1>2 DEF Issued, IssuedId
  <2>3. \/ b[2] > sends[b[1]]
        \/ b[2] = sends[b[1]] /\ call[b[1]].at = "entry"
    BY DEF NewId
  <2>4. QED
    BY <2>1, <2>2, <2>3
<1>3. QED
  BY <1>2 DEF Before

LEMMA LineNow ==
  ASSUME IInv
  PROVE  /\ channel \in Seq(Message)
         /\ \A l \in Logs : queue[l] \in Seq(Message) /\ written[l] \in Seq(Message)
         /\ ProducerOrder <=> \A l \in Logs : InLine(written[l], queue[l], channel)
<1>1. /\ channel \in Seq(Message)
      /\ \A l \in Logs : queue[l] \in Seq(Message) /\ written[l] \in Seq(Message)
  BY QueueIsChannel DEF IInv, TypeOK
<1>2. QED
  BY <1>1, LineParts DEF ProducerOrder

LEMMA LineNext ==
  ASSUME IInv'
  PROVE  ProducerOrder' <=> \A l \in Logs : InLine(written'[l], queue'[l], channel')
<1>1. /\ channel' \in Seq(Message)
      /\ \A l \in Logs : queue'[l] \in Seq(Message) /\ written'[l] \in Seq(Message)
  BY QueueIsChannel DEF IInv, TypeOK
<1>2. QED
  BY <1>1, LineParts DEF ProducerOrder

LEMMA StepLine ==
  ASSUME IInv, IssuedInv, LineInv, [Next]_vars
  PROVE  LineInv'
<1>1. IInv' /\ IssuedInv'
  BY StepIInv, StepIssued
<1>2. /\ channel \in Seq(Message)
      /\ \A l \in Logs : queue[l] \in Seq(Message) /\ written[l] \in Seq(Message)
      /\ \A l \in Logs : InLine(written[l], queue[l], channel)
  BY LineNow DEF LineInv
<1>3. ASSUME NEW l \in Logs, GoesIn PROVE InLine(written'[l], queue'[l], channel')
  <2>1. InLine(written[l], queue[l], channel)
    BY <1>2
  <2>2. CASE channel' = channel
    BY <1>3, <2>1, <2>2 DEF GoesIn
  <2>3. CASE channel' = <<>>
    BY <1>3, <2>1, <2>3, LineEnds DEF GoesIn
  <2>4. ASSUME NEW m \in Message, channel' = Append(channel, m), \A id \in EntryOf(m) : NewId(id)
        PROVE  InLine(written[l], queue[l], channel')
    <3>1. EntryOf(m) \subseteq Id
      BY MessageKinds
    <3>2. /\ Entries(written[l]) \subseteq Id /\ Issued(Entries(written[l]))
          /\ Entries(queue[l]) \subseteq Id /\ Issued(Entries(queue[l]))
          /\ Entries(channel) \subseteq Id /\ Issued(Entries(channel))
      BY <1>2, EntriesType DEF LineInv, IssuedInv, Issued, Stored, Pending, Waiting
    <3>3. /\ Before(Entries(written[l]), EntryOf(m))
          /\ Before(Entries(queue[l]), EntryOf(m))
          /\ Before(Entries(channel), EntryOf(m))
      BY <2>4, <3>1, <3>2, NewIsLatest
    <3>4. InLine(written[l], queue[l], Append(channel, m))
      BY <2>1, <3>3, LineTakesLatest
    <3>5. QED
      BY <2>4, <3>4
  <2>5. QED
    BY <1>3, <2>2, <2>3, <2>4 DEF GoesIn
<1>4. ASSUME NEW l \in Logs, GoesOn PROVE InLine(written'[l], queue'[l], channel')
  <2> DEFINE q == Append(queue[l], Head(channel))
  <2>1. InLine(written[l], queue[l], channel) /\ channel # <<>>
    BY <1>2, <1>4 DEF GoesOn
  <2>2. InLine(written[l], queue[l], Tail(channel)) /\ InLine(written[l], q, Tail(channel))
    BY <2>1, LineMovesUp
  <2>3. q # <<>>
    <3>1. Head(channel) \in Message /\ queue[l] \in Seq(Message)
      BY <1>2, <2>1, TailAt
    <3>2. q \in Seq(Message) /\ Len(q) = Len(queue[l]) + 1 /\ Len(queue[l]) \in Nat
      BY <3>1, AppendProperties, LenProperties
    <3> HIDE DEF q
    <3>3. QED
      BY <3>2, EmptySeq
  <2>4. queue'[l] \in {queue[l], q, Tail(q)} /\ written'[l] = written[l] /\ channel' = Tail(channel)
    BY <1>4 DEF GoesOn
  <2> HIDE DEF q
  <2>5. InLine(written[l], Tail(q), Tail(channel))
    BY <2>2, <2>3, LineEvicts
  <2>6. QED
    BY <2>2, <2>4, <2>5
<1>5. ASSUME NEW k \in Logs, WriteFile(k), NEW l \in Logs
      PROVE  InLine(written'[l], queue'[l], channel')
  <2> DEFINE q == queue[k]
  <2>1. PICK n \in 1..Len(q) :
          /\ written' = [written EXCEPT ![k] = written[k] \o SubSeq(q, 1, n)]
          /\ queue' = [queue EXCEPT ![k] = SubSeq(q, n + 1, Len(q))]
    BY <1>5 DEF WriteFile
  <2>2. channel' = channel /\ DOMAIN queue = Logs /\ DOMAIN written = Logs
    BY <1>5, StorageNow DEF WriteFile
  <2>3. CASE l = k
    <3>1. InLine(written[k], q, channel)
      BY <1>2
    <3>2. InLine(written[k] \o SubSeq(q, 1, n), SubSeq(q, n + 1, Len(q)), channel)
      <4> HIDE DEF q
      <4>1. QED
        BY <3>1, LineIsWritten
    <3>3. QED
      BY <2>1, <2>2, <2>3, <3>2
  <2>4. CASE l # k
    BY <1>2, <2>1, <2>2, <2>4
  <2>5. QED
    BY <2>3, <2>4
<1>6. ProducerOrder'
  BY <1>1, <1>3, <1>4, <1>5, LineCases, LineNext
<1>7. Stored' \subseteq Stored \cup Pending
  <2>1. CASE GoesIn \/ GoesOn
    BY <2>1 DEF GoesIn, GoesOn, Stored
  <2>2. CASE \E l \in Logs : WriteFile(l)
    BY <2>2, WriteWaits DEF Pending
  <2>3. QED
    BY <2>1, <2>2, LineCases
<1>8. /\ Stored \subseteq Id /\ \A id \in Stored : IssuedId(id)
      /\ Pending \subseteq Id /\ \A id \in Pending : IssuedId(id)
  <2>1. Stored \subseteq Id
    BY <1>2, EntriesType DEF Stored
  <2>2. QED
    BY <2>1, PendingType DEF LineInv, IssuedInv, Issued, IInv
<1>9. Issued(Stored)'
  BY <1>7, <1>8, StepKeepsIssued DEF Issued
<1>10. QED
  BY <1>6, <1>9 DEF LineInv

LEMMA InitLine == Init => LineInv
<1> SUFFICES ASSUME Init PROVE LineInv
  OBVIOUS
<1>1. channel = <<>> /\ \A l \in Logs : queue[l] = <<>> /\ written[l] = <<>>
  BY DEF Init
<1>2. <<>> \in Seq(Message) /\ Entries(<<>>) = {} /\ InOrder(<<>>)
  BY EntriesEmpty DEF InOrder
<1>3. InLine(<<>>, <<>>, <<>>)
  BY <1>2 DEF InLine, Before
<1>4. ProducerOrder
  BY <1>1, <1>3, LineNow, InitIInv
<1>5. Issued(Stored)
  BY <1>1, <1>2 DEF Stored, Issued
<1>6. QED
  BY <1>4, <1>5 DEF LineInv

(* However the calls of the threads interleave, whatever the disks do and
   whichever attempts fail, what one thread logged for a name stands on the
   disk, in the queue and in the channel in the order it was logged. *)
THEOREM EntriesStayInOrder == Spec => []ProducerOrder
<1>1. Init => IssuedInv /\ LineInv
  BY StopInvInit, InitLine
<1>2. IInv /\ (IssuedInv /\ LineInv) /\ [Next]_vars => (IssuedInv /\ LineInv)'
  BY StepIssued, StepLine
<1>3. LineInv => ProducerOrder
  BY DEF LineInv
<1>4. QED
  BY <1>1, <1>2, <1>3, Invariance, PTL DEF Spec

=============================================================================
