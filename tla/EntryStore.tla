----------------------------- MODULE EntryStore -----------------------------
(***************************************************************************)
(* What one log file promises, without frames, offsets or handles: entries *)
(* wait in order, the oldest are stored first, and one that waits leaves   *)
(* only by being stored or evicted, with the process, or with a file that  *)
(* is deleted while it is being stored there.                              *)
(***************************************************************************)
EXTENDS Integers, Sequences

VARIABLES
  pending,  \* the ids of the entries waiting, oldest first
  stored,   \* the ids of the entries a reader finds
  astray    \* what is being stored goes to a file that has been deleted

vars == <<pending, stored, astray>>

Init == pending = <<>> /\ stored = {} /\ astray = FALSE

Oldest(n) == {pending[i] : i \in 1..n}

(* A new entry joins, younger than those that wait; the k oldest may have to
   make room, the new one stays. *)
Accept ==
  /\ \E k \in 0..Len(pending) :
       LET kept == Len(pending) - k
       IN /\ Len(pending') = kept + 1
          /\ SubSeq(pending', 1, kept) = SubSeq(pending, k + 1, Len(pending))
          /\ \A i \in DOMAIN pending : pending[i] < pending'[kept + 1]
  /\ UNCHANGED <<stored, astray>>

(* The n oldest are stored; the next store begins anew. *)
Stores(n) ==
  /\ stored' = IF astray THEN stored ELSE stored \cup Oldest(n)
  /\ astray' = FALSE

(* The oldest entries are stored and stop waiting. *)
Store ==
  \E n \in 1..Len(pending) :
    /\ Stores(n)
    /\ pending' = SubSeq(pending, n + 1, Len(pending))

(* They are stored, or they are not, and nobody learns of it: they will be
   stored again. *)
StoreUnconfirmed ==
  /\ \E n \in 0..Len(pending) : Stores(n)
  /\ UNCHANGED pending

(* The process dies, perhaps right after storing. *)
Crash ==
  /\ \E n \in 0..Len(pending) : Stores(n)
  /\ pending' = <<>>

Delete == stored' = {} /\ astray' \in BOOLEAN /\ UNCHANGED pending

Next == Accept \/ Store \/ StoreUnconfirmed \/ Crash \/ Delete

Spec == Init /\ [][Next]_vars
=============================================================================
