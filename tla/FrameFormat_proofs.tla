-------------------------- MODULE FrameFormat_proofs --------------------------
(***************************************************************************)
(* What the bytes of a log file are worth, for every base, number of       *)
(* groups, mask, magic, payload and limit: the fields of a frame read as   *)
(* they were written, the walk of truncated_frame_start finds the torn     *)
(* tail and nothing else, a reader gets back what was encoded, and a frame *)
(* that was confirmed is lost only to a tail check that was given up or to *)
(* the File::create or the write of an attempt that was.                   *)
(*                                                                         *)
(* The inductive invariant relates the bytes to the history of what was    *)
(* written there, block by block (Recorded).                               *)
(***************************************************************************)
EXTENDS FrameFormat, Sums_proofs, SequenceTheorems

(***************************************************************************)
(* Recursion: the functions the model defines by recursion over a finite   *)
(* range satisfy their equations.                                          *)
(***************************************************************************)

LEMMA NatSetInduction ==
  ASSUME NEW S, 0 \in S, \A n \in Nat : n \in S => n + 1 \in S
  PROVE  \A n \in Nat : n \in S
<1> DEFINE Bad == {n \in Nat : n \notin S}
<1>1. SUFFICES ASSUME Bad # {} PROVE FALSE
  OBVIOUS
<1>2. PICK n \in Bad : \A k \in Bad : ~(<<k, n>> \in OpToRel(<, Nat))
  BY <1>1, NatLessThanWellFounded, WFMin
<1>3. \A k \in Bad : ~(k < n)
  BY <1>2 DEF OpToRel
<1>4. n - 1 \in Nat /\ n - 1 \in S
  BY <1>3
<1>5. QED
  BY <1>4

(* The value at p is val[p], or G[p] of the value at next[p]; some measure m
   says how far p is from an end. *)
Recursive(D, V, N, m, Stop, val, next, G) ==
  /\ N \in Nat /\ m \in [D -> 0 .. N] /\ val \in [D -> V] /\ G \in [D -> [V -> V]]
  /\ \A p \in D \ Stop : next[p] \in D /\ m[next[p]] < m[p]

Solution(f, D, Stop, val, next, G) ==
  \A p \in D : f[p] = IF p \in Stop THEN val[p] ELSE G[p][f[next[p]]]

LEMMA Recursion ==
  ASSUME NEW D, NEW V, NEW N, NEW m, NEW Stop, NEW val, NEW next, NEW G,
         Recursive(D, V, N, m, Stop, val, next, G)
  PROVE  \E f \in [D -> V] : Solution(f, D, Stop, val, next, G)
<1> USE DEF Recursive
<1> DEFINE Solves(f, k) ==
      \A p \in D : m[p] < k => f[p] = IF p \in Stop THEN val[p] ELSE G[p][f[next[p]]]
<1> DEFINE S == {k \in Nat : \E f \in [D -> V] : Solves(f, k)}
<1>1. 0 \in S
  <2>1. Solves(val, 0)
    OBVIOUS
  <2>2. QED
    BY <2>1
<1>2. ASSUME NEW k \in Nat, k \in S PROVE k + 1 \in S
  <2>1. PICK f \in [D -> V] : Solves(f, k)
    BY <1>2
  <2> DEFINE g == [p \in D |-> IF m[p] # k THEN f[p]
                               ELSE IF p \in Stop THEN val[p] ELSE G[p][f[next[p]]]]
  <2>2. g \in [D -> V]
    <3>1. ASSUME NEW p \in D, p \notin Stop PROVE G[p][f[next[p]]] \in V
      <4>1. G[p] \in [V -> V] /\ f[next[p]] \in V
        BY <3>1
      <4>2. QED
        BY <4>1
    <3>2. \A p \in D : g[p] \in V
      BY <3>1
    <3>3. QED
      BY <3>2
  <2>3. ASSUME NEW p \in D, m[p] < k + 1
        PROVE  g[p] = IF p \in Stop THEN val[p] ELSE G[p][g[next[p]]]
    <3>1. p \notin Stop => next[p] \in D /\ m[next[p]] < k
      BY <2>3
    <3>2. p \notin Stop => g[next[p]] = f[next[p]]
      BY <3>1
    <3>3. CASE m[p] = k
      BY <3>2, <3>3
    <3>4. CASE m[p] # k
      <4>1. m[p] < k
        BY <2>3, <3>4
      <4>2. g[p] = f[p]
        BY <3>4
      <4>3. QED
        BY <2>1, <3>2, <4>1, <4>2
    <3>5. QED
      BY <3>3, <3>4
  <2>4. Solves(g, k + 1)
    BY <2>3
  <2> HIDE DEF g, Solves
  <2>5. QED
    BY <2>2, <2>4
<1>3. N + 1 \in S
  <2> HIDE DEF S
  <2>1. \A n \in Nat : n \in S
    BY <1>1, <1>2, NatSetInduction
  <2>2. QED
    BY <2>1
<1>4. PICK f \in [D -> V] : Solves(f, N + 1)
  BY <1>3
<1>5. \A p \in D : m[p] < N + 1
  OBVIOUS
<1>6. QED
  BY <1>4, <1>5 DEF Solution

LEMMA StrongInduction ==
  ASSUME NEW S, \A n \in Nat : (\A k \in 0 .. n - 1 : k \in S) => n \in S
  PROVE  \A n \in Nat : n \in S
<1> DEFINE Bad == {n \in Nat : n \notin S}
<1>1. SUFFICES ASSUME Bad # {} PROVE FALSE
  OBVIOUS
<1>2. PICK n \in Bad : \A k \in Bad : ~(<<k, n>> \in OpToRel(<, Nat))
  BY <1>1, NatLessThanWellFounded, WFMin
<1>3. \A k \in Bad : ~(k < n)
  BY <1>2 DEF OpToRel
<1>4. \A k \in 0 .. n - 1 : k \in S
  BY <1>3
<1>5. QED
  BY <1>4

(***************************************************************************)
(* The parts of a frame                                                    *)
(***************************************************************************)

LEMMA Bytes ==
  /\ 0 \in Byte /\ 1 \in Byte /\ 2 \in Byte /\ Marker \in Byte
  /\ \A n \in Int : n % (2 * Base) \in Byte
  /\ \A b \in Byte : b \in Nat
<1>1. 2 * Base \in Nat /\ 2 * Base > 3
  BY FormatAssumption
<1>2. QED
  BY <1>1 DEF Byte, Marker

LEMMA ChecksumType ==
  ASSUME NEW text \in Seq(Byte) PROVE Checksum(text) \in Byte
<1>1. text \in Seq(Nat)
  BY Bytes
<1>2. SumFunction(text) \in Nat
  BY <1>1, SeqSumNat
<1>3. QED
  BY <1>2, Bytes DEF Checksum

LEMMA SeedType ==
  ASSUME NEW rnd \in Byte, NEW size \in Nat
  PROVE  xor_seed(rnd, size) \in Nat /\ rnd * size \in Nat
<1>1. rnd * size \in Nat
  BY Bytes
<1>2. (rnd * size) % Word \in Nat
  BY <1>1, FormatAssumption
<1>3. QED
  BY <1>1, <1>2, FormatAssumption DEF xor_seed

(* The keystream *)
IsKeys(key, n, seed) ==
  key = [i \in 0 .. n |-> IF i = 0 THEN seed ELSE (key[i - 1] * 2903 + 71) % KeyMod]

Keys(n, seed) == CHOOSE key : IsKeys(key, n, seed)

LEMMA NextKey ==
  ASSUME NEW k \in Nat PROVE (k * 2903 + 71) % KeyMod \in Nat
<1>1. ASSUME NEW x \in Nat PROVE x % KeyMod \in Nat
  <2>1. KeyMod \in Nat \ {0}
    BY FormatAssumption
  <2>2. QED
    BY ONLY <1>1, <2>1
<1>2. k * 2903 + 71 \in Nat
  OBVIOUS
<1>3. QED
  BY <1>1, <1>2

LEMMA KeysType ==
  ASSUME NEW n \in Nat, NEW seed \in Nat
  PROVE  \A i \in 0 .. n : Keys(n, seed)[i] \in Nat
<1> DEFINE D == 0 .. n
           m == [i \in D |-> i]
           Stop == {0}
           val == [i \in D |-> seed]
           next == [i \in D |-> i - 1]
           G == [i \in D |-> [k \in Nat |-> (k * 2903 + 71) % KeyMod]]
<1>1. m \in [D -> 0 .. n] /\ val \in [D -> Nat]
  OBVIOUS
<1>2. G \in [D -> [Nat -> Nat]]
  <2>1. \A k \in Nat : (k * 2903 + 71) % KeyMod \in Nat
    BY NextKey
  <2>2. QED
    BY <2>1
<1>3. Recursive(D, Nat, n, m, Stop, val, next, G)
  <2>1. \A i \in D \ Stop : next[i] \in D /\ m[next[i]] < m[i]
    OBVIOUS
  <2> HIDE DEF D, m, Stop, val, next, G
  <2>2. QED
    BY <1>1, <1>2, <2>1 DEF Recursive
<1>4. PICK f \in [D -> Nat] : Solution(f, D, Stop, val, next, G)
  <2> HIDE DEF D, m, Stop, val, next, G
  <2>1. QED
    BY <1>3, Recursion
<1>5. ASSUME NEW i \in D PROVE f[i] = IF i = 0 THEN seed ELSE (f[i - 1] * 2903 + 71) % KeyMod
  <2> DEFINE Then(k) == (k * 2903 + 71) % KeyMod
  <2>1. f[i] = IF i \in Stop THEN val[i] ELSE G[i][f[next[i]]]
    <3> HIDE DEF D, m, Stop, val, next, G
    <3>1. QED
      BY <1>4 DEF Solution
  <2>2. CASE i = 0
    BY <2>1, <2>2
  <2>3. CASE i # 0
    <3>1. next[i] = i - 1 /\ f[i - 1] \in Nat
      BY <2>3
    <3>2. \A k \in Nat : G[i][k] = Then(k)
      OBVIOUS
    <3>3. i \notin Stop
      BY <2>3
    <3> HIDE DEF G, next, Stop, Then
    <3>4. G[i][f[i - 1]] = Then(f[i - 1])
      BY <3>1, <3>2
    <3>5. f[i] = G[i][f[i - 1]]
      BY <2>1, <3>1, <3>3
    <3>6. QED
      BY <2>3, <3>4, <3>5 DEF Then
  <2>4. QED
    BY <2>2, <2>3
<1>6. IsKeys(f, n, seed)
  BY <1>5 DEF IsKeys
<1>7. IsKeys(Keys(n, seed), n, seed)
  BY <1>6, Zenon DEF Keys
<1> DEFINE K == Keys(n, seed)
<1>8. \A i \in 0 .. n : K[i] = IF i = 0 THEN seed ELSE (K[i - 1] * 2903 + 71) % KeyMod
  BY <1>7 DEF IsKeys
<1>9. \A i \in Nat : i \in {j \in Nat : j <= n => K[j] \in Nat}
  <2> DEFINE S == {j \in Nat : j <= n => K[j] \in Nat}
  <2> HIDE DEF K
  <2>1. 0 \in S
    BY <1>8
  <2>2. ASSUME NEW j \in Nat, j \in S PROVE j + 1 \in S
    <3>1. SUFFICES ASSUME j + 1 <= n PROVE K[j + 1] \in Nat
      OBVIOUS
    <3>2. K[j] \in Nat
      BY <2>2, <3>1
    <3>3. K[j + 1] = (K[j] * 2903 + 71) % KeyMod
      BY <1>8, <3>1
    <3> HIDE DEF S
    <3>4. QED
      BY <3>2, <3>3, NextKey
  <2> HIDE DEF S
  <2>3. \A i \in Nat : i \in S
    BY <2>1, <2>2, NatSetInduction
  <2>4. QED
    BY <2>3 DEF S, K
<1>10. QED
  BY <1>9

LEMMA ObfuscateIs ==
  ASSUME NEW text, NEW seed
  PROVE  Obfuscate(text, seed) =
           [i \in 1 .. Len(text) |-> ByteXor(text[i], Keys(Len(text), seed)[i] % (2 * Base))]
BY DEF Obfuscate, Keys, IsKeys

LEMMA ObfuscateType ==
  ASSUME NEW text \in Seq(Byte), NEW seed \in Nat
  PROVE  Obfuscate(text, seed) \in Seq(Byte) /\ Len(Obfuscate(text, seed)) = Len(text)
<1> DEFINE K == Keys(Len(text), seed)
<1>1. \A i \in 1 .. Len(text) : K[i] % (2 * Base) \in Byte
  <2>1. Len(text) \in Nat /\ \A i \in 0 .. Len(text) : K[i] \in Nat
    BY KeysType
  <2> HIDE DEF K
  <2>2. \A i \in 1 .. Len(text) : K[i] \in Int
    BY <2>1
  <2>3. QED
    BY <2>2, Bytes
<1>2. \A i \in 1 .. Len(text) : ByteXor(text[i], K[i] % (2 * Base)) \in Byte
  BY <1>1, XorAssumption
<1>3. QED
  BY <1>2, ObfuscateIs

(* The keystream taken twice is the payload again. *)
LEMMA ObfuscateTwice ==
  ASSUME NEW text \in Seq(Byte), NEW seed \in Nat
  PROVE  Obfuscate(Obfuscate(text, seed), seed) = text
<1> DEFINE K == Keys(Len(text), seed)
           o == Obfuscate(text, seed)
<1>1. \A i \in 1 .. Len(text) : K[i] % (2 * Base) \in Byte
  <2>1. Len(text) \in Nat /\ \A i \in 0 .. Len(text) : K[i] \in Nat
    BY KeysType
  <2> HIDE DEF K
  <2>2. \A i \in 1 .. Len(text) : K[i] \in Int
    BY <2>1
  <2>3. QED
    BY <2>2, Bytes
<1>2. o \in Seq(Byte) /\ Len(o) = Len(text)
  BY ObfuscateType
<1>3. \A i \in 1 .. Len(text) : o[i] = ByteXor(text[i], K[i] % (2 * Base))
  BY ObfuscateIs
<1>4. Obfuscate(o, seed) = [i \in 1 .. Len(text) |-> ByteXor(o[i], K[i] % (2 * Base))]
  BY <1>2, ObfuscateIs
<1>5. \A i \in 1 .. Len(text) : ByteXor(o[i], K[i] % (2 * Base)) = text[i]
  BY <1>1, <1>3, XorAssumption
<1>6. QED
  BY <1>4, <1>5

LEMMA Division ==
  ASSUME NEW n \in Nat
  PROVE  /\ n \div Base \in Nat /\ n % Base \in 0 .. Base - 1
         /\ n = Base * (n \div Base) + (n % Base)
         /\ n >= Base => n \div Base < n
         /\ n < Base => n % Base = n
         /\ (n % Base) + Base \in Byte
         /\ n < Base => n \in Byte
<1>1. Base \in Nat /\ Base > 1
  BY FormatAssumption
<1>2. n \div Base \in Nat /\ n % Base \in 0 .. Base - 1
  BY <1>1
<1>3. n = Base * (n \div Base) + (n % Base)
  BY <1>1
<1>4. n >= Base => n \div Base < n
  BY <1>1
<1>5. n < Base => n % Base = n
  BY <1>1
<1>6. QED
  BY <1>1, <1>2, <1>3, <1>4, <1>5 DEF Byte

(* The size field *)
IsGroups(groups, size) ==
  groups = [n \in 0 .. size |->
              IF n < Base THEN <<ByteXor(n, SizeMask)>>
              ELSE <<ByteXor((n % Base) + Base, SizeMask)>> \o groups[n \div Base]]

Groups(size) == CHOOSE groups : IsGroups(groups, size)

LEMMA SizeBytesIs == ASSUME NEW size PROVE SizeBytes(size) = Groups(size)[size]
BY DEF SizeBytes, Groups, IsGroups

LEMMA GroupsStep ==
  ASSUME NEW size \in Nat, NEW n \in 0 .. size
  PROVE  Groups(size)[n] =
           IF n < Base THEN <<ByteXor(n, SizeMask)>>
           ELSE <<ByteXor((n % Base) + Base, SizeMask)>> \o Groups(size)[n \div Base]
<1> DEFINE D == 0 .. size
           V == Seq(Byte)
           m == [k \in D |-> k]
           Stop == {k \in D : k < Base}
           val == [k \in D |-> IF k < Base THEN <<ByteXor(k, SizeMask)>> ELSE <<>>]
           next == [k \in D |-> k \div Base]
           G == [k \in D |-> [s \in V |-> <<ByteXor((k % Base) + Base, SizeMask)>> \o s]]
<1>1. m \in [D -> 0 .. size]
  OBVIOUS
<1>2. val \in [D -> V]
  <2>1. ASSUME NEW k \in D, k < Base PROVE <<ByteXor(k, SizeMask)>> \in V
    <3>1. k \in Nat /\ k \in Byte
      BY <2>1, Division
    <3>2. ByteXor(k, SizeMask) \in Byte
      BY <3>1, XorAssumption, FormatAssumption
    <3>3. QED
      BY <3>2
  <2>2. QED
    BY <2>1
<1>3. G \in [D -> [V -> V]]
  <2>1. ASSUME NEW k \in D, NEW s \in V
        PROVE  <<ByteXor((k % Base) + Base, SizeMask)>> \o s \in V
    <3>1. k \in Nat /\ (k % Base) + Base \in Byte
      BY Division
    <3>2. ByteXor((k % Base) + Base, SizeMask) \in Byte
      BY <3>1, XorAssumption, FormatAssumption
    <3>3. <<ByteXor((k % Base) + Base, SizeMask)>> \in V
      BY <3>2
    <3>4. QED
      BY <3>3
  <2>2. QED
    BY <2>1
<1>4. ASSUME NEW k \in D \ Stop PROVE next[k] \in D /\ m[next[k]] < m[k]
  <2>1. k \in Nat /\ k >= Base
    BY FormatAssumption
  <2>2. k \div Base \in Nat /\ k \div Base < k
    BY <2>1, Division
  <2>3. QED
    BY <2>1, <2>2
<1>5. Recursive(D, V, size, m, Stop, val, next, G)
  <2> HIDE DEF D, V, m, Stop, val, next, G
  <2>1. QED
    BY <1>1, <1>2, <1>3, <1>4 DEF Recursive
<1>6. PICK f \in [D -> V] : Solution(f, D, Stop, val, next, G)
  <2> HIDE DEF D, V, m, Stop, val, next, G
  <2>1. QED
    BY <1>5, Recursion
<1>7. ASSUME NEW k \in D
      PROVE  f[k] = IF k < Base THEN <<ByteXor(k, SizeMask)>>
                    ELSE <<ByteXor((k % Base) + Base, SizeMask)>> \o f[k \div Base]
  <2>1. f[k] = IF k \in Stop THEN val[k] ELSE G[k][f[next[k]]]
    <3> HIDE DEF D, V, m, Stop, val, next, G
    <3>1. QED
      BY <1>6 DEF Solution
  <2>2. CASE k < Base
    BY <2>1, <2>2
  <2>3. CASE ~(k < Base)
    <3>1. next[k] = k \div Base /\ k \notin Stop /\ next[k] \in D
      BY <2>3, <1>4
    <3>2. f[k \div Base] \in V
      BY <3>1
    <3>3. \A s \in V : G[k][s] = <<ByteXor((k % Base) + Base, SizeMask)>> \o s
      OBVIOUS
    <3> HIDE DEF G, next, Stop
    <3>4. G[k][f[k \div Base]] = <<ByteXor((k % Base) + Base, SizeMask)>> \o f[k \div Base]
      BY <3>2, <3>3
    <3>5. f[k] = G[k][f[k \div Base]]
      BY <2>1, <3>1
    <3>6. QED
      BY <2>3, <3>4, <3>5
  <2>4. QED
    BY <2>2, <2>3
<1>8. IsGroups(f, size)
  BY <1>7 DEF IsGroups
<1>9. IsGroups(Groups(size), size)
  BY <1>8, Zenon DEF Groups
<1>10. QED
  BY <1>9 DEF IsGroups

LEMMA GroupsType ==
  ASSUME NEW size \in Nat, NEW n \in 0 .. size
  PROVE  Groups(size)[n] \in Seq(Byte) /\ Groups(size)[n] # <<>>
<1> DEFINE g == Groups(size)
           S == {k \in Nat : k <= size => g[k] \in Seq(Byte) /\ g[k] # <<>>}
<1>1. ASSUME NEW k \in Nat, \A j \in 0 .. k - 1 : j \in S PROVE k \in S
  <2>1. SUFFICES ASSUME k <= size PROVE g[k] \in Seq(Byte) /\ g[k] # <<>>
    OBVIOUS
  <2>2. g[k] = IF k < Base THEN <<ByteXor(k, SizeMask)>>
               ELSE <<ByteXor((k % Base) + Base, SizeMask)>> \o g[k \div Base]
    BY <2>1, GroupsStep
  <2> HIDE DEF g
  <2>3. CASE k < Base
    <3>1. ByteXor(k, SizeMask) \in Byte
      BY <2>3, Division, XorAssumption, FormatAssumption
    <3>2. QED
      BY <2>2, <2>3, <3>1
  <2>4. CASE ~(k < Base)
    <3>1. ByteXor((k % Base) + Base, SizeMask) \in Byte
      BY Division, XorAssumption, FormatAssumption
    <3>2. k \div Base \in 0 .. k - 1
      <4>1. k >= Base
        BY <2>4, FormatAssumption
      <4>2. k \div Base \in Nat /\ k \div Base < k
        BY <4>1, Division
      <4>3. QED
        BY <4>2
    <3>3. g[k \div Base] \in Seq(Byte)
      BY <1>1, <2>1, <3>2
    <3>4. QED
      BY <2>2, <2>4, <3>1, <3>3
  <2>5. QED
    BY <2>3, <2>4
<1>2. \A k \in Nat : k \in S
  <2> HIDE DEF S
  <2>1. QED
    BY <1>1, StrongInduction
<1>3. QED
  BY <1>2

LEMMA SizeBytesType ==
  ASSUME NEW size \in Nat
  PROVE  SizeBytes(size) \in Seq(Byte) /\ SizeBytes(size) # <<>>
BY GroupsType, SizeBytesIs

IsSizes(size, b, from, end) ==
  size = [i \in from .. end |->
            (ByteXor(b[i], SizeMask) % Base) + (IF i = end THEN 0 ELSE Base * size[i + 1])]

Sizes(b, from, end) == CHOOSE size : IsSizes(size, b, from, end)

LEMMA SizeOfIs ==
  ASSUME NEW b, NEW from, NEW end PROVE SizeOf(b, from, end) = Sizes(b, from, end)[from]
BY DEF SizeOf, Sizes, IsSizes

LEMMA SizesStep ==
  ASSUME NEW b \in Seq(Byte), NEW from \in Nat \ {0}, NEW end \in Nat,
         from <= end, end <= Len(b)
  PROVE  \A i \in from .. end :
           /\ Sizes(b, from, end)[i] \in Nat
           /\ Sizes(b, from, end)[i] = (ByteXor(b[i], SizeMask) % Base)
                + (IF i = end THEN 0 ELSE Base * Sizes(b, from, end)[i + 1])
<1> DEFINE D == from .. end
           Digit(i) == ByteXor(b[i], SizeMask) % Base
           N == end - from
           m == [i \in D |-> end - i]
           Stop == {end}
           val == [i \in D |-> Digit(i)]
           next == [i \in D |-> i + 1]
           G == [i \in D |-> [k \in Nat |-> Digit(i) + Base * k]]
<1>0. \A i \in D : Digit(i) \in Nat
  <2>1. ASSUME NEW i \in D PROVE ByteXor(b[i], SizeMask) % Base \in Nat
    <3>1. b[i] \in Byte
      OBVIOUS
    <3>2. ByteXor(b[i], SizeMask) \in Nat
      BY <3>1, Bytes, XorAssumption, FormatAssumption
    <3>3. QED
      BY <3>2, FormatAssumption
  <2>2. QED
    BY <2>1
<1> HIDE DEF Digit
<1>1. N \in Nat /\ m \in [D -> 0 .. N]
  OBVIOUS
<1>2. val \in [D -> Nat]
  BY <1>0
<1>3. G \in [D -> [Nat -> Nat]]
  <2>1. \A i \in D : \A k \in Nat : Digit(i) + Base * k \in Nat
    BY <1>0, FormatAssumption
  <2>2. QED
    BY <2>1
<1>4. \A i \in D \ Stop : next[i] \in D /\ m[next[i]] < m[i]
  OBVIOUS
<1>5. Recursive(D, Nat, N, m, Stop, val, next, G)
  <2> HIDE DEF D, N, m, Stop, val, next, G
  <2>1. QED
    BY <1>1, <1>2, <1>3, <1>4 DEF Recursive
<1>6. PICK f \in [D -> Nat] : Solution(f, D, Stop, val, next, G)
  <2> HIDE DEF D, N, m, Stop, val, next, G
  <2>1. QED
    BY <1>5, Recursion
<1>7. ASSUME NEW i \in D
      PROVE  f[i] = Digit(i) + (IF i = end THEN 0 ELSE Base * f[i + 1])
  <2>1. f[i] = IF i \in Stop THEN val[i] ELSE G[i][f[next[i]]]
    <3> HIDE DEF D, m, Stop, val, next, G
    <3>1. QED
      BY <1>6 DEF Solution
  <2>2. CASE i = end
    BY <1>0, <2>1, <2>2
  <2>3. CASE i # end
    <3>1. next[i] = i + 1 /\ i \notin Stop /\ f[i + 1] \in Nat
      BY <2>3
    <3>2. \A k \in Nat : G[i][k] = Digit(i) + Base * k
      OBVIOUS
    <3> HIDE DEF G, next, Stop
    <3>3. G[i][f[i + 1]] = Digit(i) + Base * f[i + 1]
      BY <3>1, <3>2
    <3>4. f[i] = G[i][f[i + 1]]
      BY <2>1, <3>1
    <3>5. QED
      BY <2>3, <3>3, <3>4
  <2>4. QED
    BY <2>2, <2>3
<1>8. IsSizes(f, b, from, end)
  <2>1. f = [i \in from .. end |-> Digit(i) + (IF i = end THEN 0 ELSE Base * f[i + 1])]
    BY <1>7
  <2>2. QED
    BY <2>1 DEF IsSizes, Digit
<1> DEFINE z == Sizes(b, from, end)
<1>9. IsSizes(z, b, from, end)
  BY <1>8, Zenon DEF Sizes
<1> HIDE DEF z
<1>10. \A i \in D : z[i] = Digit(i) + (IF i = end THEN 0 ELSE Base * z[i + 1])
  BY <1>9 DEF IsSizes, Digit
<1> DEFINE S == {k \in Nat : end - k >= from => z[end - k] \in Nat}
<1>11. \A k \in Nat : k \in S
  <2>1. 0 \in S
    <3>1. z[end] = Digit(end) + 0 /\ Digit(end) \in Nat
      BY <1>0, <1>10
    <3>2. end - 0 = end
      OBVIOUS
    <3>3. QED
      BY <3>1, <3>2
  <2>2. ASSUME NEW k \in Nat, k \in S PROVE k + 1 \in S
    <3>1. SUFFICES ASSUME end - (k + 1) >= from PROVE z[end - (k + 1)] \in Nat
      OBVIOUS
    <3> DEFINE i == end - (k + 1)
    <3>2. i \in D /\ i # end /\ i + 1 = end - k
      BY <3>1
    <3>3. z[i + 1] \in Nat
      BY <2>2, <3>2
    <3> HIDE DEF i
    <3>4. z[i] = Digit(i) + Base * z[i + 1] /\ Digit(i) \in Nat
      BY <1>0, <1>10, <3>2
    <3>5. Base * z[i + 1] \in Nat
      BY <3>3, FormatAssumption
    <3>6. z[i] \in Nat
      BY <3>4, <3>5
    <3>7. QED
      BY <3>6 DEF i
  <2>3. QED
    <3> HIDE DEF S
    <3>1. QED
      BY <2>1, <2>2, NatSetInduction
<1>12. ASSUME NEW i \in D PROVE z[i] \in Nat
  <2>1. end - i \in Nat /\ end - (end - i) = i /\ i >= from
    OBVIOUS
  <2>2. end - i \in S
    BY <1>11, <2>1
  <2>3. QED
    BY <2>1, <2>2
<1>13. QED
  BY <1>10, <1>12 DEF z, Digit

LEMMA SizeOfType ==
  ASSUME NEW b \in Seq(Byte), NEW from \in Nat \ {0}, NEW end \in Nat,
         from <= end, end <= Len(b)
  PROVE  SizeOf(b, from, end) \in Nat
<1>1. from \in from .. end
  OBVIOUS
<1>2. Sizes(b, from, end)[from] \in Nat
  BY <1>1, SizesStep
<1>3. QED
  BY <1>2, SizeOfIs

LEMMA ModOnce ==
  ASSUME NEW B \in Nat, B > 1, NEW r \in 0 .. B - 1
  PROVE  (r + B) % B = r
<1>1. r % B = r
  OBVIOUS
<1>2. QED
  BY <1>1

(* The size field for n lies at from .. end of b, and reads as it should. *)
FieldAt(b, from, end, n) ==
  /\ end = from + Len(SizeBytes(n)) - 1 /\ end <= Len(b)
  /\ \A k \in 1 .. Len(SizeBytes(n)) : b[from + k - 1] = SizeBytes(n)[k]

FieldReads(b, from, end, n) ==
  /\ SizeOf(b, from, end) = n
  /\ ByteXor(b[end], SizeMask) < Base
  /\ \A i \in from .. end - 1 : ~(ByteXor(b[i], SizeMask) < Base)

(* A size field reads as the size it was written for, wherever it lies. *)
LEMMA SizeFieldRead ==
  ASSUME NEW b \in Seq(Byte), NEW from \in Nat \ {0}, NEW n \in Nat, NEW end \in Nat,
         FieldAt(b, from, end, n)
  PROVE  FieldReads(b, from, end, n)
<1> DEFINE g == Groups(n)
           z == Sizes(b, from, end)
           Spelt(k, j) == /\ j + Len(g[k]) - 1 = end
                          /\ \A i \in 1 .. Len(g[k]) : b[j + i - 1] = g[k][i]
           Read(k, j) == /\ z[j] = k
                         /\ ByteXor(b[end], SizeMask) < Base
                         /\ \A i \in j .. end - 1 : ~(ByteXor(b[i], SizeMask) < Base)
           S == {k \in Nat : k <= n => \A j \in from .. end : Spelt(k, j) => Read(k, j)}
<1>0. /\ end = from + Len(SizeBytes(n)) - 1 /\ end <= Len(b)
      /\ \A k \in 1 .. Len(SizeBytes(n)) : b[from + k - 1] = SizeBytes(n)[k]
  BY DEF FieldAt
<1>1. end \in Nat /\ from <= end
  <2>1. SizeBytes(n) \in Seq(Byte) /\ SizeBytes(n) # <<>>
    BY SizeBytesType
  <2>2. Len(SizeBytes(n)) \in Nat /\ Len(SizeBytes(n)) > 0
    BY <2>1
  <2>3. QED
    BY <1>0, <2>2
<1>2. \A i \in from .. end : /\ z[i] \in Nat
                            /\ z[i] = (ByteXor(b[i], SizeMask) % Base)
                                   + (IF i = end THEN 0 ELSE Base * z[i + 1])
  <2>1. from <= end /\ end \in Nat /\ end <= Len(b)
    BY <1>0, <1>1
  <2> HIDE DEF z
  <2>2. QED
    BY <2>1, SizesStep DEF z
<1>3. ASSUME NEW k \in Nat, \A j \in 0 .. k - 1 : j \in S,
             k <= n, NEW j \in from .. end, Spelt(k, j)
      PROVE  Read(k, j)
  <2>1. g[k] = IF k < Base THEN <<ByteXor(k, SizeMask)>>
               ELSE <<ByteXor((k % Base) + Base, SizeMask)>> \o g[k \div Base]
    BY <1>3, GroupsStep
  <2> HIDE DEF g, z
  <2>2. CASE k < Base
    <3>1. k \in Byte /\ k % Base = k
      BY <2>2, Division
    <3>2. g[k] = <<ByteXor(k, SizeMask)>>
      BY <2>1, <2>2
    <3>3. j = end
      BY <1>1, <1>3, <3>2
    <3>4. b[j] = ByteXor(k, SizeMask)
      <4>1. b[j + 1 - 1] = g[k][1]
        BY <1>3, <3>2
      <4>2. QED
        BY <3>2, <4>1
    <3>5. ByteXor(b[j], SizeMask) = k
      BY <3>1, <3>4, XorAssumption, FormatAssumption
    <3>6. z[j] = k
      <4>1. z[end] = (ByteXor(b[end], SizeMask) % Base) + 0
        BY <1>1, <1>2
      <4>2. QED
        BY <3>1, <3>3, <3>5, <4>1
    <3>7. QED
      BY <1>1, <2>2, <3>3, <3>5, <3>6
  <2>3. CASE ~(k < Base)
    <3> DEFINE q == k \div Base
               r == k % Base
    <3>1. /\ q \in Nat /\ r \in 0 .. Base - 1 /\ k = Base * q + r
          /\ q < k /\ r + Base \in Byte
      <4>1. k >= Base
        BY <2>3, FormatAssumption
      <4>2. QED
        BY <4>1, Division, FormatAssumption
    <3>2. g[k] = <<ByteXor(r + Base, SizeMask)>> \o g[q]
      BY <2>1, <2>3
    <3>3. g[q] \in Seq(Byte) /\ g[q] # <<>>
      BY <1>3, <3>1, GroupsType DEF g
    <3> HIDE DEF q, r
    <3>4. Len(g[k]) = Len(g[q]) + 1 /\ g[k][1] = ByteXor(r + Base, SizeMask)
      BY <3>2, <3>3
    <3>5. \A i \in 1 .. Len(g[q]) : g[k][i + 1] = g[q][i]
      BY <3>2, <3>3
    <3>6. Len(g[q]) \in Nat /\ Len(g[q]) > 0
      BY <3>3
    <3>7. j # end /\ j + 1 \in from .. end /\ j + 1 + Len(g[q]) - 1 = end
      <4> DEFINE l == Len(g[q])
      <4>1. j \in Nat /\ from <= j /\ j <= end /\ j + (l + 1) - 1 = end
        BY <1>1, <1>3, <3>4
      <4>2. l \in Nat /\ l > 0 /\ end \in Nat /\ from \in Nat
        BY <1>1, <3>6
      <4> HIDE DEF l
      <4>3. j # end /\ j + 1 <= end /\ j + 1 + l - 1 = end
        BY <4>1, <4>2
      <4>4. j + 1 \in from .. end
        BY <4>1, <4>2, <4>3
      <4>5. QED
        BY <4>3, <4>4 DEF l
    <3>8. b[j] = ByteXor(r + Base, SizeMask)
      <4>1. b[j + 1 - 1] = g[k][1]
        BY <1>3, <3>4, <3>6
      <4>2. QED
        BY <3>4, <4>1
    <3>9. Spelt(q, j + 1)
      <4>1. ASSUME NEW i \in 1 .. Len(g[q]) PROVE b[(j + 1) + i - 1] = g[q][i]
        <5>1. i + 1 \in 1 .. Len(g[k]) /\ (j + 1) + i - 1 = j + (i + 1) - 1
          BY <3>4, <3>6
        <5>2. QED
          BY <1>3, <3>5, <5>1
      <4>2. QED
        BY <3>7, <4>1
    <3>10. Read(q, j + 1)
      <4>1. q \in S
        <5>1. q \in 0 .. k - 1
          BY <3>1
        <5> HIDE DEF S
        <5>2. QED
          BY <1>3, <5>1
      <4>2. q <= n /\ q \in Nat
        BY <1>3, <3>1
      <4>3. QED
        BY <3>7, <3>9, <4>1, <4>2
    <3>11. ByteXor(b[j], SizeMask) = r + Base
      BY <3>1, <3>8, XorAssumption, FormatAssumption
    <3>12. (r + Base) % Base = r
      BY <3>1, FormatAssumption, ModOnce
    <3>13. z[j] = r + Base * q
      BY <1>2, <3>7, <3>10, <3>11, <3>12
    <3>14. z[j] = k
      BY <3>1, <3>13, FormatAssumption
    <3>15. ~(ByteXor(b[j], SizeMask) < Base)
      BY <3>1, <3>11, FormatAssumption
    <3>16. \A i \in j .. end - 1 : ~(ByteXor(b[i], SizeMask) < Base)
      <4>1. \A i \in j .. end - 1 : i = j \/ i \in j + 1 .. end - 1
        BY <1>1
      <4>2. QED
        BY <3>10, <3>15, <4>1
    <3>17. QED
      BY <3>10, <3>14, <3>16
  <2>4. QED
    BY <2>2, <2>3
<1>4. n \in S
  <2>1. \A k \in Nat : (\A j \in 0 .. k - 1 : j \in S) => k \in S
    BY <1>3
  <2> HIDE DEF S
  <2>2. QED
    BY <2>1, StrongInduction
<1>5. Spelt(n, from)
  <2>1. SizeBytes(n) = g[n]
    BY SizeBytesIs
  <2>2. QED
    BY <1>0, <2>1
<1>6. Read(n, from)
  <2>1. from \in from .. end /\ n <= n
    BY <1>1
  <2> HIDE DEF Spelt, Read
  <2>2. QED
    BY <1>4, <1>5, <2>1
<1>7. SizeOf(b, from, end) = z[from]
  BY SizeOfIs
<1>8. QED
  BY <1>6, <1>7 DEF FieldReads

LEMMA MinIs ==
  ASSUME NEW S \in SUBSET Nat, S # {}
  PROVE  Min(S) \in S /\ \A y \in S : Min(S) <= y
<1>1. \E x \in S : \A y \in S : x <= y
  <2>1. SUFFICES ASSUME \A x \in S : \E y \in S : ~(x <= y) PROVE FALSE
    OBVIOUS
  <2> DEFINE T == {n \in Nat : n \notin S}
  <2>2. ASSUME NEW n \in Nat, \A k \in 0 .. n - 1 : k \in T PROVE n \in T
    <3>1. SUFFICES ASSUME n \in S PROVE FALSE
      OBVIOUS
    <3>2. PICK y \in S : ~(n <= y)
      BY <2>1, <3>1
    <3>3. y \in 0 .. n - 1
      BY <3>2
    <3>4. QED
      BY <2>2, <3>3
  <2>3. \A n \in Nat : n \in T
    <3> HIDE DEF T
    <3>1. QED
      BY <2>2, StrongInduction
  <2>4. QED
    BY <2>3
<1>2. QED
  BY <1>1 DEF Min

LEMMA MinUnique ==
  ASSUME NEW S \in SUBSET Nat, NEW x \in S, \A y \in S : x <= y
  PROVE  Min(S) = x
<1>1. Min(S) \in S /\ Min(S) <= x /\ Min(S) \in Nat /\ x \in Nat
  BY MinIs
<1>2. x <= Min(S)
  BY <1>1
<1>3. QED
  BY <1>1, <1>2

(***************************************************************************)
(* The walk of truncated_frame_start                                       *)
(***************************************************************************)

Available(b, pos) == Min({3 + MaxGroups, Len(b) - pos})
Ends(b, pos)      == SizeEnds(b, pos + 4, pos + Available(b, pos))
Next1(b, pos)     == Min(Ends(b, pos)) + SizeOf(b, pos + 4, Min(Ends(b, pos)))

WalkStep(walk, b, pos) ==
  IF pos = Len(b) \/ b[pos + 1] # Marker THEN None
  ELSE IF Ends(b, pos) = {} THEN IF Available(b, pos) < 3 + MaxGroups THEN pos ELSE None
  ELSE IF Next1(b, pos) > Len(b) THEN pos ELSE walk[Next1(b, pos)]

IsWalk(walk, b) == walk = [pos \in 0 .. Len(b) |-> WalkStep(walk, b, pos)]

Walks(b) == CHOOSE walk : IsWalk(walk, b)

LEMMA TailIs ==
  ASSUME NEW b
  PROVE  truncated_frame_start(b) = IF HasMagic(b) THEN Walks(b)[Len(Magic)] ELSE None
BY DEF truncated_frame_start, Walks, IsWalk, WalkStep, Next1, Ends, Available

LEMMA AvailableIs ==
  ASSUME NEW b \in Seq(Byte), NEW pos \in 0 .. Len(b)
  PROVE  /\ Available(b, pos) \in Nat
         /\ Available(b, pos) = IF 3 + MaxGroups <= Len(b) - pos THEN 3 + MaxGroups
                                ELSE Len(b) - pos
<1> DEFINE S == {3 + MaxGroups, Len(b) - pos}
<1>1. 3 + MaxGroups \in Nat /\ Len(b) - pos \in Nat
  BY FormatAssumption
<1>2. Min(S) \in S /\ \A y \in S : Min(S) <= y
  BY <1>1, MinIs
<1>3. QED
  BY <1>1, <1>2 DEF Available

(* A size field found ends inside the file, and the next frame is farther. *)
LEMMA NextIs ==
  ASSUME NEW b \in Seq(Byte), NEW pos \in 0 .. Len(b), NEW to \in Nat, to <= Len(b),
         SizeEnds(b, pos + 4, to) # {}
  PROVE  LET end == Min(SizeEnds(b, pos + 4, to))
         IN  /\ end \in pos + 4 .. to /\ ByteXor(b[end], SizeMask) < Base
             /\ \A i \in pos + 4 .. end - 1 : ~(ByteXor(b[i], SizeMask) < Base)
             /\ SizeOf(b, pos + 4, end) \in Nat
<1> DEFINE E == SizeEnds(b, pos + 4, to)
           end == Min(E)
<1>1. E # {} /\ E \in SUBSET Nat /\ \A i \in E : i \in pos + 4 .. to
  BY DEF SizeEnds
<1>2. end \in E /\ \A i \in E : end <= i
  <2> HIDE DEF E
  <2>1. QED
    BY <1>1, MinIs
<1>3. end \in pos + 4 .. to /\ ByteXor(b[end], SizeMask) < Base
  BY <1>2 DEF SizeEnds
<1> HIDE DEF end
<1>4. ASSUME NEW i \in pos + 4 .. end - 1 PROVE ~(ByteXor(b[i], SizeMask) < Base)
  <2>1. i \notin E /\ i \in pos + 4 .. to
    BY <1>2, <1>3
  <2>2. QED
    BY <2>1 DEF SizeEnds
<1>5. SizeOf(b, pos + 4, end) \in Nat
  BY <1>3, SizeOfType
<1>6. QED
  BY <1>3, <1>4, <1>5 DEF end

LEMMA WalkFarther ==
  ASSUME NEW b \in Seq(Byte), NEW pos \in 0 .. Len(b), Ends(b, pos) # {}
  PROVE  /\ Min(Ends(b, pos)) \in pos + 4 .. pos + Available(b, pos)
         /\ Next1(b, pos) \in Nat /\ Next1(b, pos) >= Min(Ends(b, pos))
         /\ Next1(b, pos) > pos
<1> DEFINE to == pos + Available(b, pos)
<1>1. to \in Nat /\ to <= Len(b)
  BY AvailableIs, FormatAssumption
<1>2. Ends(b, pos) = SizeEnds(b, pos + 4, to)
  BY DEF Ends
<1> HIDE DEF to
<1> DEFINE end == Min(Ends(b, pos))
<1>3. end \in pos + 4 .. to /\ SizeOf(b, pos + 4, end) \in Nat
  BY <1>1, <1>2, NextIs
<1> HIDE DEF end
<1>4. QED
  BY <1>3 DEF Next1, end, to

LEMMA WalkEquation ==
  ASSUME NEW b \in Seq(Byte)
  PROVE  \A pos \in 0 .. Len(b) : /\ Walks(b)[pos] \in Int
                                  /\ Walks(b)[pos] = WalkStep(Walks(b), b, pos)
<1> DEFINE D == 0 .. Len(b)
           N == Len(b)
           m == [pos \in D |-> Len(b) - pos]
           On(pos) == /\ ~(pos = Len(b) \/ b[pos + 1] # Marker)
                      /\ Ends(b, pos) # {} /\ ~(Next1(b, pos) > Len(b))
           Stop == {pos \in D : ~On(pos)}
           val == [pos \in D |->
                     IF pos = Len(b) \/ b[pos + 1] # Marker THEN None
                     ELSE IF Ends(b, pos) = {}
                          THEN IF Available(b, pos) < 3 + MaxGroups THEN pos ELSE None
                     ELSE pos]
           next == [pos \in D |-> Next1(b, pos)]
           G == [pos \in D |-> [k \in Int |-> k]]
<1>1. N \in Nat /\ m \in [D -> 0 .. N]
  OBVIOUS
<1>2. val \in [D -> Int] /\ G \in [D -> [Int -> Int]]
  BY DEF None
<1>3. ASSUME NEW pos \in D \ Stop PROVE next[pos] \in D /\ m[next[pos]] < m[pos]
  <2>1. Next1(b, pos) \in Nat /\ Next1(b, pos) > pos /\ ~(Next1(b, pos) > Len(b))
    BY <1>3, WalkFarther
  <2>2. QED
    BY <2>1
<1>4. Recursive(D, Int, N, m, Stop, val, next, G)
  <2> HIDE DEF D, N, m, Stop, val, next, G
  <2>1. QED
    BY <1>1, <1>2, <1>3 DEF Recursive
<1>5. PICK f \in [D -> Int] : Solution(f, D, Stop, val, next, G)
  <2> HIDE DEF D, N, m, Stop, val, next, G
  <2>1. QED
    BY <1>4, Recursion
<1>6. ASSUME NEW pos \in D PROVE f[pos] = WalkStep(f, b, pos)
  <2>1. f[pos] = IF pos \in Stop THEN val[pos] ELSE G[pos][f[next[pos]]]
    <3> HIDE DEF D, m, Stop, val, next, G
    <3>1. QED
      BY <1>5 DEF Solution
  <2>2. CASE ~On(pos)
    <3>1. f[pos] = val[pos]
      BY <2>1, <2>2
    <3>2. QED
      BY <2>2, <3>1 DEF WalkStep
  <2>3. CASE On(pos)
    <3>1. pos \notin Stop /\ next[pos] = Next1(b, pos) /\ next[pos] \in D
      BY <1>3, <2>3
    <3>2. f[next[pos]] \in Int
      BY <3>1
    <3>3. G[pos][f[next[pos]]] = f[next[pos]]
      BY <3>2
    <3> HIDE DEF Stop, G, next
    <3>4. f[pos] = f[Next1(b, pos)]
      BY <2>1, <3>1, <3>3
    <3>5. QED
      BY <2>3, <3>4 DEF WalkStep
  <2>4. QED
    BY <2>2, <2>3
<1>7. IsWalk(f, b)
  BY <1>6 DEF IsWalk
<1> DEFINE w == Walks(b)
<1>8. IsWalk(w, b)
  BY <1>7, Zenon DEF Walks
<1> HIDE DEF w
<1>9. \A pos \in D : w[pos] = WalkStep(w, b, pos)
  BY <1>8 DEF IsWalk
<1> DEFINE S == {k \in Nat : Len(b) - k >= 0 => w[Len(b) - k] \in Int}
<1>10. ASSUME NEW k \in Nat, \A j \in 0 .. k - 1 : j \in S PROVE k \in S
  <2> DEFINE pos == Len(b) - k
  <2>1. SUFFICES ASSUME pos >= 0 PROVE w[pos] \in Int
    OBVIOUS
  <2>2. pos \in D
    BY <2>1
  <2>3. w[pos] = WalkStep(w, b, pos)
    BY <1>9, <2>2
  <2>4. ASSUME On(pos) PROVE w[Next1(b, pos)] \in Int
    <3>1. Next1(b, pos) \in Nat /\ Next1(b, pos) > pos /\ ~(Next1(b, pos) > Len(b))
      BY <2>2, <2>4, WalkFarther
    <3> DEFINE j == Len(b) - Next1(b, pos)
    <3>2. j \in 0 .. k - 1 /\ Len(b) - j = Next1(b, pos)
      BY <3>1
    <3>3. j \in S
      BY <1>10, <3>2
    <3>4. QED
      BY <3>1, <3>2, <3>3
  <2> HIDE DEF pos
  <2>5. QED
    BY <2>2, <2>3, <2>4 DEF WalkStep, None
<1>11. \A k \in Nat : k \in S
  <2> HIDE DEF S
  <2>1. QED
    BY <1>10, StrongInduction
<1>12. ASSUME NEW pos \in D PROVE w[pos] \in Int
  <2>1. Len(b) - pos \in Nat /\ Len(b) - (Len(b) - pos) = pos
    OBVIOUS
  <2>2. Len(b) - pos \in S
    BY <1>11, <2>1
  <2>3. QED
    BY <2>1, <2>2
<1>13. QED
  BY <1>9, <1>12 DEF w

(* A cut lies at or behind the place the walk has reached, inside the file. *)
LEMMA WalkRange ==
  ASSUME NEW b \in Seq(Byte)
  PROVE  \A pos \in 0 .. Len(b) :
           Walks(b)[pos] = None \/ (pos <= Walks(b)[pos] /\ Walks(b)[pos] < Len(b))
<1> DEFINE w == Walks(b)
           Fits(pos) == w[pos] = None \/ (pos <= w[pos] /\ w[pos] < Len(b))
           S == {k \in Nat : Len(b) - k >= 0 => Fits(Len(b) - k)}
<1>1. \A pos \in 0 .. Len(b) : w[pos] \in Int /\ w[pos] = WalkStep(w, b, pos)
  BY WalkEquation
<1> HIDE DEF w
<1>2. ASSUME NEW k \in Nat, \A j \in 0 .. k - 1 : j \in S PROVE k \in S
  <2> DEFINE pos == Len(b) - k
  <2>1. SUFFICES ASSUME pos >= 0 PROVE Fits(pos)
    OBVIOUS
  <2>2. pos \in 0 .. Len(b)
    BY <2>1
  <2>3. w[pos] = WalkStep(w, b, pos)
    BY <1>1, <2>2
  <2>4. CASE pos = Len(b) \/ b[pos + 1] # Marker
    BY <2>3, <2>4 DEF WalkStep
  <2>5. CASE ~(pos = Len(b) \/ b[pos + 1] # Marker)
    <3>1. pos < Len(b)
      BY <2>2, <2>5
    <3>2. CASE Ends(b, pos) = {}
      BY <2>2, <2>3, <2>5, <3>1, <3>2 DEF WalkStep
    <3>3. CASE Ends(b, pos) # {}
      <4>1. Next1(b, pos) \in Nat /\ Next1(b, pos) > pos
        BY <2>2, <3>3, WalkFarther
      <4>2. CASE Next1(b, pos) > Len(b)
        BY <2>2, <2>3, <2>5, <3>1, <3>3, <4>2 DEF WalkStep
      <4>3. CASE ~(Next1(b, pos) > Len(b))
        <5> DEFINE j == Len(b) - Next1(b, pos)
        <5>1. j \in 0 .. k - 1 /\ Len(b) - j = Next1(b, pos)
          BY <4>1, <4>3
        <5>2. Fits(Next1(b, pos))
          <6>1. j \in S
            BY <1>2, <5>1
          <6>2. QED
            BY <4>1, <4>3, <5>1, <6>1
        <5>3. w[pos] = w[Next1(b, pos)]
          BY <2>3, <2>5, <3>3, <4>3 DEF WalkStep
        <5>4. w[Next1(b, pos)] \in Int
          BY <1>1, <4>1, <4>3
        <5> HIDE DEF pos, j
        <5>5. QED
          BY <2>2, <4>1, <5>2, <5>3, <5>4
      <4>4. QED
        BY <4>2, <4>3
    <3>4. QED
      BY <3>2, <3>3
  <2>6. QED
    BY <2>4, <2>5
<1>3. \A k \in Nat : k \in S
  <2> HIDE DEF S
  <2>1. QED
    BY <1>2, StrongInduction
<1>4. ASSUME NEW pos \in 0 .. Len(b) PROVE Fits(pos)
  <2>1. Len(b) - pos \in Nat /\ Len(b) - (Len(b) - pos) = pos
    OBVIOUS
  <2>2. Len(b) - pos \in S
    BY <1>3, <2>1
  <2>3. QED
    BY <2>1, <2>2
<1>5. QED
  BY <1>4 DEF w

(* The file has at pos the head of a frame of n payload bytes. *)
HeadLen(n) == 3 + Len(SizeBytes(n))

Headed(b, pos, n) ==
  /\ pos + HeadLen(n) <= Len(b) /\ b[pos + 1] = Marker
  /\ \A k \in 1 .. Len(SizeBytes(n)) : b[pos + 3 + k] = SizeBytes(n)[k]

LEMMA HeadLenType ==
  ASSUME NEW n \in Nat
  PROVE  /\ HeadLen(n) \in Nat /\ HeadLen(n) > 3 /\ HeadLen(n) = 3 + Len(SizeBytes(n))
         /\ Len(SizeBytes(n)) \in Nat /\ Len(SizeBytes(n)) > 0
<1>1. SizeBytes(n) \in Seq(Byte) /\ SizeBytes(n) # <<>>
  BY SizeBytesType
<1>2. Len(SizeBytes(n)) \in Nat /\ Len(SizeBytes(n)) > 0
  BY <1>1
<1>3. QED
  BY <1>2 DEF HeadLen

LEMMA HeadRead ==
  ASSUME NEW b \in Seq(Byte), NEW pos \in Nat, NEW n \in Nat, Headed(b, pos, n),
         NEW to \in Nat, pos + HeadLen(n) <= to, to <= Len(b)
  PROVE  /\ pos \in 0 .. Len(b) /\ pos # Len(b) /\ b[pos + 1] = Marker
         /\ SizeEnds(b, pos + 4, to) # {}
         /\ Min(SizeEnds(b, pos + 4, to)) = pos + HeadLen(n)
         /\ SizeOf(b, pos + 4, pos + HeadLen(n)) = n
<1> DEFINE s == Len(SizeBytes(n))
           end == pos + HeadLen(n)
           from == pos + 4
<1>1. s \in Nat /\ s > 0 /\ HeadLen(n) = 3 + s
  BY HeadLenType
<1>2. \A k \in 1 .. s : b[from + k - 1] = SizeBytes(n)[k]
  <2>1. ASSUME NEW k \in 1 .. s PROVE b[from + k - 1] = SizeBytes(n)[k]
    <3>1. from + k - 1 = pos + 3 + k
      BY <1>1
    <3>2. b[pos + 3 + k] = SizeBytes(n)[k]
      BY DEF Headed
    <3>3. QED
      BY <3>1, <3>2
  <2>2. QED
    BY <2>1
<1>3. from \in Nat \ {0} /\ end \in Nat /\ end = from + s - 1 /\ end <= Len(b)
  BY <1>1
<1>4. FieldReads(b, from, end, n)
  <2>1. FieldAt(b, from, end, n)
    BY <1>2, <1>3 DEF FieldAt
  <2> HIDE DEF from, end
  <2>2. QED
    BY <1>3, <2>1, SizeFieldRead
<1> DEFINE E == SizeEnds(b, from, to)
<1>5. end \in from .. to
  BY <1>1
<1> HIDE DEF from, end
<1>6. end \in E /\ E \in SUBSET Nat
  BY <1>3, <1>4, <1>5 DEF SizeEnds, FieldReads
<1>7. \A y \in E : end <= y
  <2>1. ASSUME NEW y \in E, y < end PROVE FALSE
    <3>1. y \in from .. end - 1 /\ ByteXor(b[y], SizeMask) < Base
      BY <1>3, <2>1 DEF SizeEnds
    <3>2. QED
      BY <1>4, <3>1 DEF FieldReads
  <2>2. QED
    BY <1>3, <1>6, <2>1
<1>8. Min(E) = end
  <2> HIDE DEF E
  <2>1. QED
    BY <1>6, <1>7, MinUnique
<1>9. pos \in 0 .. Len(b) /\ pos # Len(b) /\ b[pos + 1] = Marker
  BY <1>1 DEF Headed
<1>10. QED
  BY <1>4, <1>6, <1>8, <1>9 DEF from, end, FieldReads

(* The walk steps over a frame, or stops at one that is cut short. *)
LEMMA WalkOver ==
  ASSUME NEW b \in Seq(Byte), NEW pos \in Nat, NEW n \in Nat, Headed(b, pos, n),
         Len(SizeBytes(n)) <= MaxGroups
  PROVE  Walks(b)[pos] = IF pos + HeadLen(n) + n > Len(b) THEN pos
                         ELSE Walks(b)[pos + HeadLen(n) + n]
<1> DEFINE to == pos + Available(b, pos)
<1>1. HeadLen(n) \in Nat /\ HeadLen(n) > 3 /\ HeadLen(n) = 3 + Len(SizeBytes(n))
  BY HeadLenType
<1>2. pos + HeadLen(n) <= Len(b) /\ pos \in 0 .. Len(b)
  BY <1>1 DEF Headed
<1>3. /\ Available(b, pos) \in Nat
      /\ Available(b, pos) = IF 3 + MaxGroups <= Len(b) - pos THEN 3 + MaxGroups
                             ELSE Len(b) - pos
  BY <1>2, AvailableIs
<1>4. to \in Nat /\ to <= Len(b) /\ pos + HeadLen(n) <= to
  BY <1>1, <1>2, <1>3, FormatAssumption
<1> HIDE DEF to
<1>5. /\ pos # Len(b) /\ b[pos + 1] = Marker
      /\ SizeEnds(b, pos + 4, to) # {}
      /\ Min(SizeEnds(b, pos + 4, to)) = pos + HeadLen(n)
      /\ SizeOf(b, pos + 4, pos + HeadLen(n)) = n
  BY <1>4, HeadRead
<1>6. Ends(b, pos) # {} /\ Next1(b, pos) = pos + HeadLen(n) + n
  BY <1>5 DEF Ends, Next1, to
<1>7. Walks(b)[pos] = WalkStep(Walks(b), b, pos)
  BY <1>2, WalkEquation
<1>8. QED
  BY <1>5, <1>6, <1>7 DEF WalkStep

LEMMA FieldGoesOn ==
  ASSUME NEW n \in Nat, NEW k \in 1 .. Len(SizeBytes(n)) - 1
  PROVE  ~(ByteXor(SizeBytes(n)[k], SizeMask) < Base)
<1> DEFINE b == SizeBytes(n)
           from == 1
           end == Len(b)
<1>1. b \in Seq(Byte) /\ end \in Nat /\ Len(b) > 0
  BY SizeBytesType, HeadLenType
<1>2. \A j \in 1 .. Len(SizeBytes(n)) : b[from + j - 1] = SizeBytes(n)[j]
  OBVIOUS
<1>3. end = from + Len(SizeBytes(n)) - 1 /\ end <= Len(b) /\ from \in Nat \ {0}
  BY <1>1
<1>4. FieldAt(b, from, end, n)
  BY <1>2, <1>3 DEF FieldAt
<1>5. FieldReads(b, from, end, n)
  <2> HIDE DEF b, from, end
  <2>1. QED
    BY <1>1, <1>3, <1>4, SizeFieldRead
<1>6. QED
  BY <1>5 DEF FieldReads

(* Only the first len bytes of a frame of n payload bytes are at pos. *)
PartlyHeaded(b, pos, n, len) ==
  /\ len > 0 /\ len < HeadLen(n) + n /\ pos + len <= Len(b) /\ b[pos + 1] = Marker
  /\ \A k \in 1 .. Len(SizeBytes(n)) : 3 + k <= len => b[pos + 3 + k] = SizeBytes(n)[k]

(* Of a torn frame the walk finds the start when nothing follows; when
   something does, it never stops right behind the torn part. *)
LEMMA WalkTorn ==
  ASSUME NEW b \in Seq(Byte), NEW pos \in Nat, NEW n \in Nat, NEW len \in Nat,
         PartlyHeaded(b, pos, n, len), Len(SizeBytes(n)) <= MaxGroups
  PROVE  /\ pos + len = Len(b) => Walks(b)[pos] = pos
         /\ \/ Walks(b)[pos] = None \/ Walks(b)[pos] = pos
            \/ Walks(b)[pos] > pos + len
<1> DEFINE w == Walks(b)
           s == Len(SizeBytes(n))
           h == HeadLen(n)
           Goal == /\ pos + len = Len(b) => w[pos] = pos
                   /\ w[pos] = None \/ w[pos] = pos \/ w[pos] > pos + len
<1>1. h \in Nat /\ h = 3 + s /\ s \in Nat /\ s > 0
  BY HeadLenType
<1>2. len > 0 /\ len < h + n /\ pos + len <= Len(b) /\ b[pos + 1] = Marker
  BY DEF PartlyHeaded
<1>3. pos \in 0 .. Len(b) /\ pos # Len(b)
  BY <1>2
<1>4. w[pos] \in Int /\ w[pos] = WalkStep(w, b, pos)
  BY <1>3, WalkEquation
<1>5. \A q \in 0 .. Len(b) : w[q] = None \/ (q <= w[q] /\ w[q] < Len(b))
  BY WalkRange
<1>6. ASSUME h <= len PROVE Goal
  <2>1. Headed(b, pos, n)
    <3>1. pos + h <= Len(b)
      BY <1>1, <1>2, <1>6
    <3>2. \A k \in 1 .. s : 3 + k <= len
      BY <1>1, <1>6
    <3>3. QED
      BY <1>2, <3>1, <3>2 DEF Headed, PartlyHeaded
  <2>2. w[pos] = IF pos + h + n > Len(b) THEN pos ELSE w[pos + h + n]
    BY <2>1, WalkOver
  <2> HIDE DEF w, h
  <2>3. CASE pos + h + n > Len(b)
    BY <2>2, <2>3
  <2>4. CASE ~(pos + h + n > Len(b))
    <3>1. pos + h + n \in 0 .. Len(b) /\ pos + h + n > pos + len
      BY <1>1, <1>2, <2>4
    <3>2. w[pos] = None \/ pos + h + n <= w[pos]
      BY <1>5, <2>2, <2>4, <3>1
    <3>3. QED
      BY <1>1, <1>2, <1>4, <2>4, <3>1, <3>2
  <2>5. QED
    BY <2>3, <2>4
<1>7. ASSUME len < h PROVE Goal
  <2> DEFINE E == Ends(b, pos)
             end == Min(E)
  <2>1. /\ Available(b, pos) \in Nat
        /\ Available(b, pos) = IF 3 + MaxGroups <= Len(b) - pos THEN 3 + MaxGroups
                               ELSE Len(b) - pos
    BY <1>3, AvailableIs
  <2>2. ASSUME E # {}
        PROVE  end > pos + len /\ Next1(b, pos) \in Nat /\ Next1(b, pos) >= end
               /\ end <= Len(b)
    <3>1. /\ end \in pos + 4 .. pos + Available(b, pos)
          /\ Next1(b, pos) \in Nat /\ Next1(b, pos) >= end
      BY <1>3, <2>2, WalkFarther
    <3>2. end \in E
      <4>1. E \in SUBSET Nat
        BY DEF Ends, SizeEnds
      <4> HIDE DEF E
      <4>2. QED
        BY <2>2, <4>1, MinIs
    <3>3. ByteXor(b[end], SizeMask) < Base
      BY <3>2 DEF Ends, SizeEnds
    <3> HIDE DEF end, E
    <3>4. end > pos + len
      <4>1. SUFFICES ASSUME end <= pos + len PROVE FALSE
        BY <3>1
      <4> DEFINE k == end - pos - 3
      <4>2. k \in 1 .. s - 1 /\ 3 + k <= len /\ pos + 3 + k = end
        BY <1>1, <1>7, <3>1, <4>1
      <4> HIDE DEF k
      <4>3. b[end] = SizeBytes(n)[k]
        BY <1>1, <4>2 DEF PartlyHeaded
      <4>4. QED
        BY <3>3, <4>2, <4>3, FieldGoesOn
    <3>5. end <= Len(b)
      BY <1>3, <2>1, <3>1
    <3>6. QED
      BY <3>1, <3>4, <3>5
  <2>3. CASE E = {}
    <3>1. w[pos] = IF Available(b, pos) < 3 + MaxGroups THEN pos ELSE None
      BY <1>2, <1>3, <1>4, <2>3 DEF WalkStep
    <3>2. pos + len = Len(b) => Available(b, pos) < 3 + MaxGroups
      BY <1>1, <1>7, <2>1, FormatAssumption
    <3>3. QED
      BY <3>1, <3>2
  <2>4. CASE E # {}
    <3>1. w[pos] = IF Next1(b, pos) > Len(b) THEN pos ELSE w[Next1(b, pos)]
      BY <1>2, <1>3, <1>4, <2>4 DEF WalkStep
    <3>2. end > pos + len /\ Next1(b, pos) \in Nat /\ Next1(b, pos) >= end /\ end <= Len(b)
      BY <2>2, <2>4
    <3>3. end \in Nat
      BY <1>3, <2>4, <2>1, WalkFarther
    <3> HIDE DEF w, end
    <3>4. CASE Next1(b, pos) > Len(b)
      BY <1>2, <3>1, <3>2, <3>3, <3>4
    <3>5. CASE ~(Next1(b, pos) > Len(b))
      <4>1. w[Next1(b, pos)] = None \/ Next1(b, pos) <= w[Next1(b, pos)]
        BY <1>5, <3>2, <3>5
      <4>2. QED
        BY <1>2, <1>4, <3>1, <3>2, <3>3, <3>5, <4>1
    <3>6. QED
      BY <3>4, <3>5
  <2>5. QED
    BY <2>3, <2>4
<1>8. QED
  BY <1>1, <1>6, <1>7

(***************************************************************************)
(* Frames in the file                                                      *)
(***************************************************************************)

(* The piece lies in b behind the first at bytes. *)
Lies(b, at, piece) ==
  /\ at + Len(piece) <= Len(b)
  /\ \A k \in 1 .. Len(piece) : b[at + k] = piece[k]

SynthFrame(p) == <<Marker, 1, 2>> \o SizeBytes(Len(p)) \o p

(* What the walk needs to know of a frame: it has the head of n bytes. *)
HasHead(f, n) ==
  /\ f \in Seq(Byte) /\ n \in Nat \ {0} /\ Len(f) = HeadLen(n) + n /\ f[1] = Marker
  /\ Len(SizeBytes(n)) <= MaxGroups
  /\ \A k \in 1 .. Len(SizeBytes(n)) : f[3 + k] = SizeBytes(n)[k]

Joined(g, s, t) ==
  /\ Len(g) = Len(s) + Len(t)
  /\ \A k \in 1 .. Len(s) : g[k] = s[k]
  /\ \A k \in 1 .. Len(t) : g[Len(s) + k] = t[k]

LEMMA Concatenation ==
  ASSUME NEW S, NEW s \in Seq(S), NEW t \in Seq(S)
  PROVE  s \o t \in Seq(S) /\ Joined(s \o t, s, t)
BY DEF Joined

Parts(f, a, c, d, s, t) ==
  /\ f \in Seq(Byte) /\ Len(f) = 3 + Len(s) + Len(t)
  /\ f[1] = a /\ f[2] = c /\ f[3] = d
  /\ \A k \in 1 .. Len(s) : f[3 + k] = s[k]
  /\ \A k \in 1 .. Len(t) : f[3 + Len(s) + k] = t[k]

LEMMA ThreeParts ==
  ASSUME NEW a \in Byte, NEW c \in Byte, NEW d \in Byte, NEW s \in Seq(Byte), NEW t \in Seq(Byte)
  PROVE  Parts(<<a, c, d>> \o s \o t, a, c, d, s, t)
<1> DEFINE h == <<a, c, d>>
           g == h \o s
           f == g \o t
<1>1. h \in Seq(Byte) /\ Len(h) = 3 /\ h[1] = a /\ h[2] = c /\ h[3] = d
  OBVIOUS
<1> HIDE DEF h
<1>2. g \in Seq(Byte) /\ Joined(g, h, s)
  BY <1>1, Concatenation
<1> HIDE DEF g
<1>3. f \in Seq(Byte) /\ Joined(f, g, t)
  BY <1>2, Concatenation
<1> HIDE DEF f
<1>4. Len(s) \in Nat /\ Len(t) \in Nat
  OBVIOUS
<1>5. /\ Len(g) = 3 + Len(s)
      /\ g[1] = a /\ g[2] = c /\ g[3] = d
      /\ \A k \in 1 .. Len(s) : g[3 + k] = s[k]
  BY <1>1, <1>2 DEF Joined
<1>6. \A k \in 1 .. Len(g) : f[k] = g[k]
  BY <1>3 DEF Joined
<1>7. Len(f) = 3 + Len(s) + Len(t) /\ \A k \in 1 .. Len(t) : f[3 + Len(s) + k] = t[k]
  BY <1>3, <1>5 DEF Joined
<1>8. Len(g) >= 3 /\ \A k \in 1 .. Len(s) : 3 + k \in 1 .. Len(g)
  BY <1>4, <1>5
<1>9. QED
  BY <1>3, <1>4, <1>5, <1>6, <1>7, <1>8 DEF Parts, f, g, h

(* A frame of the writer, part by part. *)
Encoded(f, text, rnd) ==
  /\ HasHead(f, Len(text)) /\ f[2] = rnd /\ f[3] = ByteXor(Checksum(text), SumMask)
  /\ \A k \in 1 .. Len(text) :
       f[HeadLen(Len(text)) + k] = Obfuscate(text, xor_seed(rnd, Len(text)))[k]

LEMMA EncodedFrame ==
  ASSUME NEW text \in Payloads, NEW rnd \in Rnds
  PROVE  Encoded(encode_frame(text, rnd), text, rnd)
<1> DEFINE n == Len(text)
           c == ByteXor(Checksum(text), SumMask)
           s == SizeBytes(n)
           o == Obfuscate(text, xor_seed(rnd, n))
           f == encode_frame(text, rnd)
<1>1. text \in Seq(Byte) /\ text # <<>> /\ rnd \in Byte /\ n \in Nat \ {0}
  BY ContentAssumption
<1>2. c \in Byte
  BY <1>1, ChecksumType, XorAssumption, FormatAssumption
<1>3. s \in Seq(Byte) /\ Len(s) <= MaxGroups
  BY <1>1, SizeBytesType, SizeAssumption
<1>4. o \in Seq(Byte) /\ Len(o) = n
  <2>1. xor_seed(rnd, n) \in Nat
    BY <1>1, SeedType
  <2>2. QED
    BY <1>1, <2>1, ObfuscateType
<1>5. f = <<Marker, rnd, c>> \o s \o o
  BY DEF encode_frame, Prefix
<1> HIDE DEF n, c, s, o, f
<1>6. /\ f \in Seq(Byte) /\ Len(f) = 3 + Len(s) + Len(o)
      /\ f[1] = Marker /\ f[2] = rnd /\ f[3] = c
      /\ \A k \in 1 .. Len(s) : f[3 + k] = s[k]
      /\ \A k \in 1 .. Len(o) : f[3 + Len(s) + k] = o[k]
  <2>1. Parts(f, Marker, rnd, c, s, o)
    BY <1>1, <1>2, <1>3, <1>4, <1>5, Bytes, ThreeParts
  <2>2. QED
    BY <2>1 DEF Parts
<1>7. HeadLen(n) = 3 + Len(s)
  BY DEF HeadLen, s
<1>8. HasHead(f, n)
  BY <1>1, <1>3, <1>4, <1>6, <1>7 DEF HasHead, s
<1>9. \A k \in 1 .. n : f[HeadLen(n) + k] = o[k]
  BY <1>4, <1>6, <1>7
<1>10. QED
  BY <1>6, <1>8, <1>9 DEF Encoded, n, c, o, f

LEMMA SynthHead ==
  ASSUME NEW p \in Synthetic
  PROVE  HasHead(SynthFrame(p), Len(p))
<1> DEFINE n == Len(p)
           s == SizeBytes(n)
           f == SynthFrame(p)
<1>1. p \in Seq(Byte) /\ p # <<>> /\ n \in Nat \ {0}
  BY ContentAssumption
<1>2. s \in Seq(Byte) /\ Len(s) <= MaxGroups
  BY <1>1, SizeBytesType, SizeAssumption
<1>3. f = <<Marker, 1, 2>> \o s \o p
  BY DEF SynthFrame
<1> HIDE DEF s, f
<1>4. /\ f \in Seq(Byte) /\ Len(f) = 3 + Len(s) + Len(p)
      /\ f[1] = Marker
      /\ \A k \in 1 .. Len(s) : f[3 + k] = s[k]
  <2>1. Parts(f, Marker, 1, 2, s, p)
    BY <1>1, <1>2, <1>3, Bytes, ThreeParts
  <2>2. QED
    BY <2>1 DEF Parts
<1>5. HeadLen(n) = 3 + Len(s)
  BY DEF HeadLen, s
<1>6. QED
  BY <1>1, <1>2, <1>4, <1>5 DEF HasHead, s, f

LEMMA LiesHeaded ==
  ASSUME NEW b \in Seq(Byte), NEW pos \in Nat, NEW f, NEW n, HasHead(f, n), Lies(b, pos, f)
  PROVE  Headed(b, pos, n) /\ pos + HeadLen(n) + n = pos + Len(f) /\ pos + Len(f) <= Len(b)
<1>1. n \in Nat /\ HeadLen(n) \in Nat /\ HeadLen(n) = 3 + Len(SizeBytes(n)) /\ Len(SizeBytes(n)) \in Nat
  BY HeadLenType DEF HasHead
<1>2. Len(f) = HeadLen(n) + n /\ n > 0 /\ f[1] = Marker
  BY DEF HasHead
<1>3. pos + Len(f) <= Len(b) /\ \A k \in 1 .. Len(f) : b[pos + k] = f[k]
  BY DEF Lies
<1>4. b[pos + 1] = Marker
  BY <1>1, <1>2, <1>3
<1>5. ASSUME NEW k \in 1 .. Len(SizeBytes(n)) PROVE b[pos + 3 + k] = SizeBytes(n)[k]
  <2>1. 3 + k \in 1 .. Len(f) /\ pos + (3 + k) = pos + 3 + k
    BY <1>1, <1>2
  <2>2. b[pos + (3 + k)] = f[3 + k]
    BY <1>3, <2>1
  <2>3. QED
    BY <2>1, <2>2 DEF HasHead
<1>6. QED
  BY <1>1, <1>2, <1>3, <1>4, <1>5 DEF Headed

LEMMA TornHeaded ==
  ASSUME NEW b \in Seq(Byte), NEW pos \in Nat, NEW f, NEW n, HasHead(f, n),
         NEW len \in Nat \ {0}, len < Len(f), Lies(b, pos, SubSeq(f, 1, len))
  PROVE  PartlyHeaded(b, pos, n, len)
<1>1. n \in Nat /\ HeadLen(n) \in Nat /\ HeadLen(n) = 3 + Len(SizeBytes(n)) /\ Len(SizeBytes(n)) \in Nat
  BY HeadLenType DEF HasHead
<1>2. f \in Seq(Byte) /\ Len(f) = HeadLen(n) + n /\ n > 0 /\ f[1] = Marker
  BY DEF HasHead
<1>3. Len(SubSeq(f, 1, len)) = len /\ \A k \in 1 .. len : SubSeq(f, 1, len)[k] = f[k]
  BY <1>2
<1>4. pos + len <= Len(b) /\ \A k \in 1 .. len : b[pos + k] = f[k]
  BY <1>3 DEF Lies
<1>5. ASSUME NEW k \in 1 .. Len(SizeBytes(n)), 3 + k <= len
      PROVE  b[pos + 3 + k] = SizeBytes(n)[k]
  <2>1. 3 + k \in 1 .. len /\ pos + (3 + k) = pos + 3 + k
    BY <1>1, <1>5
  <2>2. b[pos + (3 + k)] = f[3 + k]
    BY <1>4, <2>1
  <2>3. QED
    BY <2>1, <2>2 DEF HasHead
<1>6. QED
  BY <1>1, <1>2, <1>4, <1>5 DEF PartlyHeaded

(***************************************************************************)
(* The inductive invariant: what the history says of the file              *)
(***************************************************************************)

Kinds     == {"whole", "framed", "torn", "stale", "foreign"}
BlockType == [kind : Kinds, at : Nat, len : Nat \ {0}, text : Seq(Byte)]
CheckType == [pc : {"idle", "found", "cutting", "ready"}, len : Nat, cut : Int]

(* The blocks lie one behind the other up to the end of the file. *)
Laid(bs, b) ==
  \A i \in 1 .. Len(bs) :
    bs[i].at + bs[i].len = IF i = Len(bs) THEN Len(b) ELSE bs[i + 1].at

(* The first one lies behind the magic, or is what the path held before. *)
Begun(bs, b) ==
  /\ bs = <<>> => b = <<>> \/ b = Magic
  /\ bs # <<>> =>
       \/ bs[1].at = 0 /\ bs[1].kind \in {"foreign", "stale"}
       \/ bs[1].at = Len(Magic) /\ Lies(b, 0, Magic)

(* The bytes of a block are what its kind says. *)
IsWhole(b, block) ==
  \E text \in Payloads, rnd \in Rnds :
    /\ block.text = text /\ block.len = Len(encode_frame(text, rnd))
    /\ Lies(b, block.at, encode_frame(text, rnd))

IsFramed(b, block) ==
  \E p \in Synthetic :
    block.len = Len(SynthFrame(p)) /\ Lies(b, block.at, SynthFrame(p))

IsTorn(b, block) ==
  \E text \in Payloads, rnd \in Rnds :
    /\ block.len < Len(encode_frame(text, rnd))
    /\ Lies(b, block.at, SubSeq(encode_frame(text, rnd), 1, block.len))

Holds(b, block) ==
  /\ block.kind = "whole"  => IsWhole(b, block)
  /\ block.kind = "framed" => IsFramed(b, block)
  /\ block.kind = "torn"   => IsTorn(b, block)

Recorded(bs, b) ==
  /\ b \in Seq(Byte) /\ bs \in Seq(BlockType)
  /\ Laid(bs, b) /\ Begun(bs, b)
  /\ \A i \in 1 .. Len(bs) : Holds(b, bs[i])

(***************************************************************************)
(* Facts about a file that is as recorded                                  *)
(***************************************************************************)

LEMMA BlockFields ==
  ASSUME NEW block \in BlockType
  PROVE  /\ block.kind \in Kinds /\ block.at \in Nat /\ block.len \in Nat \ {0}
         /\ block.text \in Seq(Byte)
BY DEF BlockType

LEMMA Order ==
  ASSUME NEW b, NEW bs, Recorded(bs, b), NEW j \in 1 .. Len(bs)
  PROVE  /\ bs[j].at + bs[j].len <= Len(b)
         /\ \A i \in 1 .. j : i = j \/ bs[i].at + bs[i].len <= bs[j].at
<1> DEFINE End(i) == bs[i].at + bs[i].len
<1>1. bs \in Seq(BlockType) /\ b \in Seq(Byte) /\ Len(bs) \in Nat /\ Len(b) \in Nat
  BY DEF Recorded
<1>2. ASSUME NEW i \in 1 .. Len(bs) PROVE bs[i].at \in Nat /\ bs[i].len \in Nat \ {0}
  BY <1>1, BlockFields
<1>3. ASSUME NEW i \in 1 .. Len(bs)
      PROVE  End(i) = IF i = Len(bs) THEN Len(b) ELSE bs[i + 1].at
  BY DEF Recorded, Laid
<1> HIDE DEF End
<1>4. ASSUME NEW i \in 1 .. Len(bs)
      PROVE  End(i) = bs[i].at + bs[i].len /\ End(i) \in Nat /\ bs[i].at \in Nat /\ End(i) > bs[i].at
  <2>1. End(i) = bs[i].at + bs[i].len
    BY DEF End
  <2>2. QED
    BY <1>2, <2>1
<1> DEFINE S == {k \in Nat : \A i \in 1 .. Len(bs) : i + k + 1 <= Len(bs) => End(i) <= bs[i + k + 1].at}
<1>5. 0 \in S
  BY <1>1, <1>2, <1>3
<1>6. ASSUME NEW k \in Nat, k \in S PROVE k + 1 \in S
  <2>1. SUFFICES ASSUME NEW i \in 1 .. Len(bs), i + (k + 1) + 1 <= Len(bs)
                 PROVE  End(i) <= bs[i + (k + 1) + 1].at
    OBVIOUS
  <2>2. /\ i + k + 1 \in 1 .. Len(bs) /\ i + k + 2 \in 1 .. Len(bs)
        /\ i + (k + 1) + 1 = i + k + 2 /\ (i + k + 1) + 1 = i + k + 2 /\ i + k + 1 # Len(bs)
    BY <1>1, <2>1
  <2>3. End(i) <= bs[i + k + 1].at
    BY <1>6, <2>2
  <2>4. End(i + k + 1) = bs[i + k + 2].at
    BY <1>3, <2>2
  <2>5. End(i + k + 1) > bs[i + k + 1].at
    BY <1>4, <2>2
  <2>6. End(i) \in Nat /\ bs[i + k + 1].at \in Nat /\ bs[i + k + 2].at \in Nat
    BY <1>4, <2>2
  <2>7. QED
    BY <2>2, <2>3, <2>4, <2>5, <2>6
<1> HIDE DEF S
<1>7. \A k \in Nat : k \in S
  BY <1>5, <1>6, NatSetInduction
<1>8. ASSUME NEW l \in 1 .. Len(bs), NEW i \in 1 .. l, i # l PROVE End(i) <= bs[l].at
  <2>1. l - i - 1 \in Nat /\ i + (l - i - 1) + 1 = l /\ i \in 1 .. Len(bs)
    BY <1>1, <1>8
  <2>2. l - i - 1 \in S
    BY <1>7, <2>1
  <2>3. i + (l - i - 1) + 1 <= Len(bs) => End(i) <= bs[i + (l - i - 1) + 1].at
    BY <2>1, <2>2 DEF S
  <2>4. QED
    BY <2>1, <2>3
<1>9. End(j) <= Len(b)
  <2>1. CASE j = Len(bs)
    BY <1>1, <1>3, <2>1
  <2>2. CASE j # Len(bs)
    <3>1. Len(bs) \in 1 .. Len(bs) /\ j \in 1 .. Len(bs)
      BY <1>1
    <3>2. End(j) <= bs[Len(bs)].at /\ End(Len(bs)) = Len(b)
      BY <1>3, <1>8, <2>2, <3>1
    <3>3. QED
      BY <1>1, <1>4, <3>1, <3>2
  <2>3. QED
    BY <2>1, <2>2
<1>10. QED
  BY <1>4, <1>8, <1>9

LEMMA MagicIs ==
  ASSUME NEW b \in Seq(Byte) PROVE HasMagic(b) <=> Lies(b, 0, Magic)
<1>1. Magic \in Seq(Byte) /\ Len(Magic) \in Nat /\ Len(b) \in Nat
  BY FormatAssumption
<1>2. SubSeq(Magic, 1, Len(Magic)) = Magic
  BY <1>1
<1>3. ASSUME Len(Magic) <= Len(b)
      PROVE  SubSeq(b, 1, Len(Magic)) = Magic <=> \A k \in 1 .. Len(Magic) : b[k] = Magic[k]
  <2> DEFINE t == SubSeq(b, 1, Len(Magic))
  <2>1. t \in Seq(Byte) /\ Len(t) = Len(Magic) /\ \A k \in 1 .. Len(Magic) : t[k] = b[k]
    BY <1>1, <1>3
  <2> HIDE DEF t
  <2>2. (\A k \in 1 .. Len(Magic) : t[k] = Magic[k]) => t = Magic
    BY <1>1, <2>1
  <2>3. t = Magic <=> \A k \in 1 .. Len(Magic) : b[k] = Magic[k]
    BY <2>1, <2>2
  <2>4. QED
    BY <2>3 DEF t
<1>4. \A k \in 1 .. Len(Magic) : 0 + k = k
  BY <1>1
<1>5. 0 + Len(Magic) = Len(Magic)
  BY <1>1
<1>6. QED
  BY <1>2, <1>3, <1>4, <1>5 DEF HasMagic, IsPrefix, Lies

IsFrame(block) == block.kind \in {"whole", "framed"}

LEMMA FrameAt ==
  ASSUME NEW b, NEW block, Holds(b, block), IsFrame(block)
  PROVE  \E f, n : HasHead(f, n) /\ Lies(b, block.at, f) /\ block.len = Len(f)
<1>1. CASE block.kind = "whole"
  BY <1>1, EncodedFrame DEF Holds, IsWhole, Encoded
<1>2. CASE block.kind = "framed"
  BY <1>2, SynthHead DEF Holds, IsFramed
<1>3. QED
  BY <1>1, <1>2 DEF IsFrame

LEMMA FrameWalked ==
  ASSUME NEW b \in Seq(Byte), NEW block \in BlockType, Holds(b, block), IsFrame(block)
  PROVE  Walks(b)[block.at] = Walks(b)[block.at + block.len]
<1>1. PICK f, n : HasHead(f, n) /\ Lies(b, block.at, f) /\ block.len = Len(f)
  BY FrameAt
<1>2. n \in Nat /\ block.at \in Nat /\ Len(SizeBytes(n)) <= MaxGroups
  BY <1>1, BlockFields DEF HasHead
<1>3. /\ Headed(b, block.at, n) /\ block.at + HeadLen(n) + n = block.at + Len(f)
      /\ block.at + Len(f) <= Len(b)
  BY <1>1, <1>2, LiesHeaded
<1>4. Walks(b)[block.at] = IF block.at + HeadLen(n) + n > Len(b) THEN block.at
                           ELSE Walks(b)[block.at + HeadLen(n) + n]
  BY <1>2, <1>3, WalkOver
<1>5. ~(block.at + Len(f) > Len(b))
  <2>1. block.at + Len(f) \in Nat /\ Len(b) \in Nat
    BY <1>1, <1>2, BlockFields
  <2>2. QED
    BY <1>3, <2>1
<1>6. QED
  BY <1>1, <1>3, <1>4, <1>5

AllFramed(bs, i) == \A j \in 1 .. i : IsFrame(bs[j])

(* The walk reaches the end of the frames the file starts with. *)
LEMMA FramesWalked ==
  ASSUME NEW b, NEW bs, Recorded(bs, b), NEW l \in 1 .. Len(bs), AllFramed(bs, l)
  PROVE  /\ HasMagic(b) /\ bs[1].at = Len(Magic)
         /\ Walks(b)[Len(Magic)] = Walks(b)[bs[l].at + bs[l].len]
<1> DEFINE M == Len(Magic)
<1>1. bs \in Seq(BlockType) /\ b \in Seq(Byte) /\ Len(bs) \in Nat
  BY DEF Recorded
<1>2. 1 \in 1 .. l /\ 1 \in 1 .. Len(bs) /\ bs # <<>> /\ l \in Nat
  BY <1>1
<1>3. bs[1].kind \notin {"foreign", "stale"}
  BY <1>2 DEF AllFramed, IsFrame
<1>4. bs[1].at = M /\ Lies(b, 0, Magic)
  BY <1>2, <1>3 DEF Recorded, Begun
<1>5. ASSUME NEW i \in 1 .. l
      PROVE  Walks(b)[bs[i].at] = Walks(b)[bs[i].at + bs[i].len]
  <2>1. i \in 1 .. Len(bs) /\ bs[i] \in BlockType /\ IsFrame(bs[i]) /\ Holds(b, bs[i])
    BY <1>1, <1>2 DEF AllFramed, Recorded
  <2>2. QED
    BY <1>1, <2>1, FrameWalked
<1> DEFINE S == {k \in Nat : k + 1 <= l =>
                   Walks(b)[M] = Walks(b)[bs[k + 1].at + bs[k + 1].len]}
<1> HIDE DEF M
<1>6. 0 \in S
  BY <1>2, <1>4, <1>5
<1>7. ASSUME NEW k \in Nat, k \in S PROVE k + 1 \in S
  <2>1. SUFFICES ASSUME (k + 1) + 1 <= l
                 PROVE  Walks(b)[M] = Walks(b)[bs[(k + 1) + 1].at + bs[(k + 1) + 1].len]
    OBVIOUS
  <2>2. k + 1 \in 1 .. Len(bs) /\ k + 1 # Len(bs) /\ (k + 1) + 1 \in 1 .. l /\ k + 1 <= l
    BY <1>1, <1>2, <2>1
  <2>3. bs[k + 1].at + bs[k + 1].len = bs[(k + 1) + 1].at
    BY <2>2 DEF Recorded, Laid
  <2>4. QED
    BY <1>5, <1>7, <2>2, <2>3
<1> HIDE DEF S
<1>8. l - 1 \in S
  BY <1>2, <1>6, <1>7, NatSetInduction
<1>9. Walks(b)[M] = Walks(b)[bs[l].at + bs[l].len]
  <2>1. l - 1 + 1 = l
    BY <1>2
  <2>2. QED
    BY <1>8, <2>1, <1>2 DEF S
<1>10. QED
  BY <1>1, <1>4, <1>9, MagicIs DEF M

LEMMA WalkAtEnd ==
  ASSUME NEW b \in Seq(Byte) PROVE Walks(b)[Len(b)] = None
<1>1. Len(b) \in 0 .. Len(b)
  OBVIOUS
<1>2. Walks(b)[Len(b)] = WalkStep(Walks(b), b, Len(b))
  BY <1>1, WalkEquation
<1>3. QED
  BY <1>2 DEF WalkStep

(* The walk also reaches the frame behind them, whole or torn. *)
LEMMA WalkedTo ==
  ASSUME NEW b, NEW bs, Recorded(bs, b), NEW l \in 1 .. Len(bs), AllFramed(bs, l - 1),
         bs[l].kind \notin {"foreign", "stale"}
  PROVE  HasMagic(b) /\ truncated_frame_start(b) = Walks(b)[bs[l].at]
<1>1. b \in Seq(Byte) /\ bs \in Seq(BlockType) /\ Len(bs) \in Nat
  BY DEF Recorded
<1>2. CASE l = 1
  <2>1. bs # <<>> /\ bs[1].kind \notin {"foreign", "stale"}
    BY <1>1, <1>2
  <2>2. bs[1].at = Len(Magic) /\ Lies(b, 0, Magic)
    BY <2>1 DEF Recorded, Begun
  <2>3. QED
    BY <1>1, <1>2, <2>2, MagicIs, TailIs
<1>3. CASE l # 1
  <2> DEFINE k == l - 1
  <2>1. k \in 1 .. Len(bs) /\ k # Len(bs) /\ k + 1 = l
    BY <1>1, <1>3
  <2>2. HasMagic(b) /\ Walks(b)[Len(Magic)] = Walks(b)[bs[k].at + bs[k].len]
    <3> HIDE DEF k
    <3>1. AllFramed(bs, k)
      BY DEF k
    <3>2. QED
      BY <2>1, <3>1, FramesWalked
  <2>3. bs[k].at + bs[k].len = bs[k + 1].at
    <3> HIDE DEF k
    <3>1. QED
      BY <2>1 DEF Recorded, Laid
  <2> HIDE DEF k
  <2>4. QED
    BY <2>1, <2>2, <2>3, TailIs
<1>4. QED
  BY <1>2, <1>3

LEMMA FramedTail ==
  ASSUME NEW b, NEW bs, Recorded(bs, b), AllFramed(bs, Len(bs))
  PROVE  truncated_frame_start(b) = None
<1>1. b \in Seq(Byte) /\ bs \in Seq(BlockType) /\ Len(bs) \in Nat
  BY DEF Recorded
<1>2. CASE bs = <<>>
  <2>1. b = <<>> \/ b = Magic
    BY <1>2 DEF Recorded, Begun
  <2>2. CASE b = <<>>
    <3>1. Len(Magic) \in Nat \ {0} /\ Len(b) = 0
      BY <2>2, FormatAssumption
    <3>2. ~HasMagic(b)
      BY <3>1 DEF HasMagic, IsPrefix
    <3>3. QED
      BY <3>2, TailIs
  <2>3. CASE b = Magic
    BY <1>1, <2>3, WalkAtEnd, TailIs
  <2>4. QED
    BY <2>1, <2>2, <2>3
<1>3. CASE bs # <<>>
  <2> DEFINE l == Len(bs)
  <2>1. l \in 1 .. Len(bs)
    BY <1>1, <1>3
  <2>2. bs[l].at + bs[l].len = Len(b)
    BY <2>1 DEF Recorded, Laid
  <2>3. Walks(b)[Len(Magic)] = Walks(b)[bs[l].at + bs[l].len]
    <3>1. AllFramed(bs, l)
      OBVIOUS
    <3> HIDE DEF l
    <3>2. QED
      BY <2>1, <3>1, FramesWalked
  <2> HIDE DEF l
  <2>4. QED
    BY <1>1, <2>2, <2>3, WalkAtEnd, TailIs
<1>4. QED
  BY <1>2, <1>3

LEMMA TornTail ==
  ASSUME NEW b, NEW bs, Recorded(bs, b), NEW l \in 1 .. Len(bs), AllFramed(bs, l - 1),
         bs[l].kind = "torn"
  PROVE  LET cut == truncated_frame_start(b)
             end == bs[l].at + bs[l].len
         IN  /\ l = Len(bs) => cut = bs[l].at
             /\ cut = None \/ cut = bs[l].at \/ cut > end
<1> DEFINE pos == bs[l].at
           len == bs[l].len
<1>1. b \in Seq(Byte) /\ bs[l] \in BlockType /\ pos \in Nat /\ len \in Nat \ {0}
  BY BlockFields DEF Recorded
<1>2. IsTorn(b, bs[l])
  BY DEF Recorded, Holds
<1>3. PICK f, n : HasHead(f, n) /\ len < Len(f) /\ Lies(b, pos, SubSeq(f, 1, len))
  BY <1>2, EncodedFrame DEF IsTorn, Encoded
<1>4. l = Len(bs) => pos + len = Len(b)
  BY DEF Recorded, Laid
<1>5. truncated_frame_start(b) = Walks(b)[pos]
  BY WalkedTo
<1> HIDE DEF pos, len
<1>6. n \in Nat /\ Len(SizeBytes(n)) <= MaxGroups /\ PartlyHeaded(b, pos, n, len)
  BY <1>1, <1>3, TornHeaded DEF HasHead
<1>7. /\ pos + len = Len(b) => Walks(b)[pos] = pos
      /\ Walks(b)[pos] = None \/ Walks(b)[pos] = pos \/ Walks(b)[pos] > pos + len
  BY <1>1, <1>6, WalkTorn
<1>8. QED
  BY <1>4, <1>5, <1>7 DEF pos, len

LEMMA CutBehind ==
  ASSUME NEW b, NEW bs, Recorded(bs, b), NEW l \in 1 .. Len(bs), AllFramed(bs, l)
  PROVE  LET cut == truncated_frame_start(b)
         IN  cut = None \/ cut >= bs[l].at + bs[l].len
<1> DEFINE end == bs[l].at + bs[l].len
<1>1. b \in Seq(Byte) /\ bs[l] \in BlockType /\ end \in Nat
  BY BlockFields DEF Recorded
<1>2. end <= Len(b)
  BY Order
<1>3. truncated_frame_start(b) = Walks(b)[end]
  BY <1>1, FramesWalked, TailIs
<1> HIDE DEF end
<1>4. end \in 0 .. Len(b)
  BY <1>1, <1>2
<1>5. Walks(b)[end] \in Int /\ (Walks(b)[end] = None \/ end <= Walks(b)[end])
  BY <1>1, <1>4, WalkRange, WalkEquation
<1>6. QED
  BY <1>1, <1>3, <1>5 DEF end

(* Wherever it cuts, it cuts behind the magic and inside the file. *)
LEMMA CutInside ==
  ASSUME NEW b \in Seq(Byte), truncated_frame_start(b) # None
  PROVE  LET cut == truncated_frame_start(b)
         IN  cut \in Nat /\ Len(Magic) <= cut /\ cut < Len(b)
<1>1. HasMagic(b) /\ truncated_frame_start(b) = Walks(b)[Len(Magic)]
  BY TailIs
<1>2. Len(Magic) \in 0 .. Len(b)
  BY <1>1, FormatAssumption DEF HasMagic, IsPrefix
<1>3. Walks(b)[Len(Magic)] \in Int
      /\ (Walks(b)[Len(Magic)] = None
            \/ (Len(Magic) <= Walks(b)[Len(Magic)] /\ Walks(b)[Len(Magic)] < Len(b)))
  BY <1>2, WalkRange, WalkEquation
<1>4. QED
  BY <1>1, <1>2, <1>3

(***************************************************************************)
(* What the operations on the file keep as recorded                        *)
(***************************************************************************)

(* The first n bytes of b and c are the same. *)
Agree(b, c, n) == n <= Len(b) /\ n <= Len(c) /\ \A k \in 1 .. n : c[k] = b[k]

LEMMA LiesKept ==
  ASSUME NEW b, NEW c, NEW n \in Nat, Agree(b, c, n), Len(c) \in Nat,
         NEW at \in Nat, NEW f, Len(f) \in Nat, at + Len(f) <= n, Lies(b, at, f)
  PROVE  Lies(c, at, f)
<1>1. ASSUME NEW k \in 1 .. Len(f) PROVE c[at + k] = f[k]
  <2>1. at + k \in 1 .. n
    OBVIOUS
  <2>2. QED
    BY <2>1 DEF Agree, Lies
<1>2. at + Len(f) <= Len(c)
  BY DEF Agree
<1>3. QED
  BY <1>1, <1>2 DEF Lies

LEMMA HoldsKept ==
  ASSUME NEW b, NEW c, NEW n \in Nat, Agree(b, c, n), Len(c) \in Nat,
         NEW block \in BlockType, block.at + block.len <= n, Holds(b, block)
  PROVE  Holds(c, block)
<1> DEFINE at == block.at
           len == block.len
<1>1. at \in Nat /\ len \in Nat \ {0} /\ at + len <= n
  BY BlockFields
<1>2. CASE block.kind = "whole"
  <2>1. PICK text \in Payloads, rnd \in Rnds :
          /\ block.text = text /\ len = Len(encode_frame(text, rnd))
          /\ Lies(b, at, encode_frame(text, rnd))
    BY <1>2 DEF Holds, IsWhole
  <2> DEFINE f == encode_frame(text, rnd)
  <2> HIDE DEF at, len, f
  <2>2. Lies(c, at, f)
    BY <1>1, <2>1, LiesKept DEF f
  <2>3. IsWhole(c, block)
    BY <2>1, <2>2 DEF IsWhole, f, at, len
  <2>4. QED
    BY <1>2, <2>3 DEF Holds
<1>3. CASE block.kind = "framed"
  <2>1. PICK p \in Synthetic : len = Len(SynthFrame(p)) /\ Lies(b, at, SynthFrame(p))
    BY <1>3 DEF Holds, IsFramed
  <2> DEFINE f == SynthFrame(p)
  <2> HIDE DEF at, len, f
  <2>2. Lies(c, at, f)
    BY <1>1, <2>1, LiesKept DEF f
  <2>3. IsFramed(c, block)
    BY <2>1, <2>2 DEF IsFramed, f, at, len
  <2>4. QED
    BY <1>3, <2>3 DEF Holds
<1>4. CASE block.kind = "torn"
  <2>1. PICK text \in Payloads, rnd \in Rnds :
          /\ len < Len(encode_frame(text, rnd))
          /\ Lies(b, at, SubSeq(encode_frame(text, rnd), 1, len))
    BY <1>4 DEF Holds, IsTorn
  <2> DEFINE f == SubSeq(encode_frame(text, rnd), 1, len)
  <2>2. encode_frame(text, rnd) \in Seq(Byte)
    BY EncodedFrame DEF Encoded, HasHead
  <2> HIDE DEF len
  <2>3. Len(f) = len
    BY <1>1, <2>1, <2>2
  <2> HIDE DEF at, f
  <2>4. Lies(c, at, f)
    BY <1>1, <2>1, <2>3, LiesKept DEF f
  <2>5. IsTorn(c, block)
    BY <2>1, <2>4 DEF IsTorn, f, at, len
  <2>6. QED
    BY <1>4, <2>5 DEF Holds
<1>5. CASE block.kind \notin {"whole", "framed", "torn"}
  BY <1>5 DEF Holds
<1>6. QED
  BY <1>2, <1>3, <1>4, <1>5

LEMMA AppendRecorded ==
  ASSUME NEW b, NEW bs, Recorded(bs, b), NEW x \in Seq(Byte), x # <<>>,
         NEW block \in BlockType, block.at = Len(b), block.len = Len(x),
         Holds(b \o x, block),
         bs = <<>> /\ b = <<>> => block.kind \in {"foreign", "stale"}
  PROVE  Recorded(Append(bs, block), b \o x)
<1> DEFINE c == b \o x
           cs == Append(bs, block)
<1>1. b \in Seq(Byte) /\ bs \in Seq(BlockType) /\ Len(b) \in Nat /\ Len(bs) \in Nat
  BY DEF Recorded
<1>2. c \in Seq(Byte) /\ Joined(c, b, x) /\ Len(x) \in Nat
  BY <1>1, Concatenation
<1>3. /\ cs \in Seq(BlockType) /\ Len(cs) = Len(bs) + 1
      /\ \A i \in 1 .. Len(bs) : cs[i] = bs[i]
      /\ cs[Len(bs) + 1] = block
  BY <1>1
<1>4. Holds(c, block)
  OBVIOUS
<1> HIDE DEF c, cs
<1>5. Len(c) = Len(b) + Len(x) /\ Agree(b, c, Len(b))
  BY <1>1, <1>2 DEF Joined, Agree
<1>6. Laid(cs, c)
  <2>1. SUFFICES ASSUME NEW i \in 1 .. Len(cs)
                 PROVE  cs[i].at + cs[i].len = IF i = Len(cs) THEN Len(c) ELSE cs[i + 1].at
    BY DEF Laid
  <2>2. CASE i = Len(bs) + 1
    BY <1>3, <1>5, <2>2
  <2>3. CASE i = Len(bs)
    <3>1. i \in 1 .. Len(bs) /\ i # Len(cs) /\ i + 1 = Len(bs) + 1
      BY <1>1, <1>3, <2>3
    <3>2. bs[i].at + bs[i].len = Len(b)
      BY <2>3, <3>1 DEF Recorded, Laid
    <3>3. QED
      BY <1>3, <3>1, <3>2
  <2>4. CASE i < Len(bs)
    <3>1. i \in 1 .. Len(bs) /\ i + 1 \in 1 .. Len(bs) /\ i # Len(cs) /\ i # Len(bs)
      BY <1>1, <1>3, <2>4
    <3>2. bs[i].at + bs[i].len = bs[i + 1].at
      BY <3>1 DEF Recorded, Laid
    <3>3. QED
      BY <1>3, <3>1, <3>2
  <2>5. QED
    BY <1>1, <1>3, <2>1, <2>2, <2>3, <2>4
<1>7. Begun(cs, c)
  <2>1. cs # <<>>
    BY <1>1, <1>3
  <2>2. CASE bs = <<>>
    <3>1. cs[1] = block
      BY <1>3, <2>2
    <3>2. b = <<>> \/ b = Magic
      BY <2>2 DEF Recorded, Begun
    <3>3. CASE b = <<>>
      BY <2>1, <2>2, <3>1, <3>3 DEF Begun
    <3>4. CASE b = Magic
      <4>1. Lies(c, 0, Magic)
        BY <1>1, <1>2, <1>5, <3>4 DEF Lies, Joined
      <4>2. QED
        BY <2>1, <3>1, <3>4, <4>1 DEF Begun
    <3>5. QED
      BY <3>2, <3>3, <3>4
  <2>3. CASE bs # <<>>
    <3>1. cs[1] = bs[1]
      BY <1>1, <1>3, <2>3
    <3>2. Lies(b, 0, Magic) => Lies(c, 0, Magic)
      <4>1. Len(Magic) \in Nat /\ Len(c) \in Nat
        BY <1>2, FormatAssumption
      <4>2. Lies(b, 0, Magic) => 0 + Len(Magic) <= Len(b)
        BY DEF Lies
      <4>3. QED
        BY <1>1, <1>5, <4>1, <4>2, LiesKept
    <3>3. QED
      BY <2>1, <2>3, <3>1, <3>2 DEF Recorded, Begun
  <2>4. QED
    BY <2>2, <2>3
<1>8. ASSUME NEW i \in 1 .. Len(cs) PROVE Holds(c, cs[i])
  <2>1. CASE i = Len(bs) + 1
    BY <1>3, <1>4, <2>1
  <2>2. CASE i \in 1 .. Len(bs)
    <3>1. bs[i] \in BlockType /\ Holds(b, bs[i]) /\ bs[i].at + bs[i].len <= Len(b)
      BY <1>1, <2>2, Order DEF Recorded
    <3>2. Len(c) \in Nat
      BY <1>2
    <3>3. Holds(c, bs[i])
      BY <1>1, <1>5, <3>1, <3>2, HoldsKept
    <3>4. QED
      BY <1>3, <2>2, <3>3
  <2>3. QED
    BY <1>1, <1>3, <2>1, <2>2
<1>9. QED
  BY <1>2, <1>3, <1>6, <1>7, <1>8 DEF Recorded, c, cs

(* The late write joins the torn or stale block it lands behind. *)
LEMMA MergeRecorded ==
  ASSUME NEW b, NEW bs, Recorded(bs, b), NEW x \in Seq(Byte), x # <<>>, bs # <<>>
  PROVE  LET cs == [bs EXCEPT ![Len(bs)] = Block("stale", @.at, @.len + Len(x), <<>>)]
         IN  /\ Recorded(cs, b \o x) /\ Len(cs) = Len(bs) /\ cs[Len(bs)].kind = "stale"
             /\ \A i \in 1 .. Len(bs) - 1 : cs[i] = bs[i]
<1> DEFINE n == Len(bs)
           c == b \o x
           new == Block("stale", bs[n].at, bs[n].len + Len(x), <<>>)
           cs == [bs EXCEPT ![n] = Block("stale", @.at, @.len + Len(x), <<>>)]
<1>1. b \in Seq(Byte) /\ bs \in Seq(BlockType) /\ Len(b) \in Nat /\ n \in 1 .. Len(bs)
  BY DEF Recorded
<1>2. c \in Seq(Byte) /\ Joined(c, b, x) /\ Len(x) \in Nat \ {0}
  BY <1>1, Concatenation
<1>3. /\ new \in BlockType /\ new.kind = "stale" /\ new.at = bs[n].at
      /\ new.len = bs[n].len + Len(x)
  <2>1. bs[n].at \in Nat /\ bs[n].len + Len(x) \in Nat \ {0}
    BY <1>1, <1>2, BlockFields
  <2> HIDE DEF n
  <2>2. QED
    BY <2>1 DEF Block, BlockType, Kinds
<1>4. DOMAIN bs = 1 .. n /\ n \in Nat
  BY <1>1
<1>5. cs = [i \in 1 .. n |-> IF i = n THEN new ELSE bs[i]]
  <2> HIDE DEF n
  <2>1. QED
    BY <1>1, <1>4
<1> HIDE DEF new, cs, c
<1>6. cs \in Seq(BlockType) /\ Len(cs) = n /\ cs[n] = new /\ \A i \in 1 .. n - 1 : cs[i] = bs[i]
  <2>1. \A i \in 1 .. n : bs[i] \in BlockType
    BY <1>1
  <2> HIDE DEF n
  <2>2. QED
    BY <1>3, <1>4, <1>5, <2>1
<1>7. Len(c) = Len(b) + Len(x) /\ Agree(b, c, Len(b)) /\ Len(c) \in Nat
  BY <1>1, <1>2 DEF Joined, Agree
<1>8. Laid(cs, c)
  <2>1. SUFFICES ASSUME NEW i \in 1 .. Len(cs)
                 PROVE  cs[i].at + cs[i].len = IF i = Len(cs) THEN Len(c) ELSE cs[i + 1].at
    BY DEF Laid
  <2>2. /\ i \in 1 .. Len(bs)
        /\ bs[i].at + bs[i].len = IF i = Len(bs) THEN Len(b) ELSE bs[i + 1].at
    BY <1>6, <2>1 DEF Recorded, Laid
  <2>3. bs[n].at \in Nat /\ bs[n].len \in Nat
    BY <1>1, BlockFields
  <2>4. CASE i = n
    <3>1. cs[i].at = bs[n].at /\ cs[i].len = bs[n].len + Len(x) /\ i = Len(cs)
      BY <1>3, <1>6, <2>4
    <3>2. bs[n].at + bs[n].len = Len(b)
      BY <2>2, <2>4
    <3> DEFINE p == bs[n].at
               q == bs[n].len
    <3>3. p + (q + Len(x)) = Len(c)
      <4>1. p \in Nat /\ q \in Nat /\ p + q = Len(b)
        BY <2>3, <3>2
      <4> HIDE DEF p, q
      <4>2. ASSUME NEW u \in Nat, NEW v \in Nat, NEW w \in Nat PROVE u + (v + w) = (u + v) + w
        OBVIOUS
      <4>3. Len(x) \in Nat /\ Len(c) = Len(b) + Len(x)
        BY <1>2, <1>7
      <4>4. QED
        BY <4>1, <4>2, <4>3
    <3>4. QED
      BY <3>1, <3>3
  <2>5. CASE i # n
    <3>1. i \in 1 .. n - 1 /\ cs[i + 1].at = bs[i + 1].at
      BY <1>1, <1>3, <1>6, <2>2, <2>5
    <3>2. QED
      BY <1>6, <2>2, <2>5, <3>1
  <2>6. QED
    BY <2>4, <2>5
<1>9. Begun(cs, c)
  <2>1. cs # <<>>
    BY <1>4, <1>6
  <2>2. Lies(b, 0, Magic) => Lies(c, 0, Magic)
    <3>1. Len(Magic) \in Nat /\ Len(c) \in Nat
      BY <1>2, FormatAssumption
    <3>2. Lies(b, 0, Magic) => 0 + Len(Magic) <= Len(b)
      BY DEF Lies
    <3>3. QED
      BY <1>1, <1>7, <3>1, <3>2, LiesKept
  <2>3. cs[1].at = bs[1].at /\ (cs[1].kind = bs[1].kind \/ cs[1].kind = "stale")
    BY <1>3, <1>4, <1>1, <1>6
  <2>4. QED
    BY <2>1, <2>2, <2>3 DEF Recorded, Begun
<1>10. ASSUME NEW i \in 1 .. Len(cs) PROVE Holds(c, cs[i])
  <2>1. CASE i = n
    BY <1>3, <1>6, <2>1 DEF Holds
  <2>2. CASE i \in 1 .. n - 1
    <3>1. bs[i] \in BlockType /\ Holds(b, bs[i]) /\ bs[i].at + bs[i].len <= Len(b)
      BY <1>1, <2>2, Order DEF Recorded
    <3>2. Holds(c, bs[i])
      BY <1>1, <1>7, <3>1, HoldsKept
    <3>3. QED
      BY <1>6, <2>2, <3>2
  <2>3. i = n \/ i \in 1 .. n - 1
    <3> HIDE DEF n
    <3>1. QED
      BY <1>4, <1>6
  <2>4. QED
    BY <2>1, <2>2, <2>3
<1>11. Recorded(cs, c)
  BY <1>2, <1>6, <1>8, <1>9, <1>10 DEF Recorded
<1>12. QED
  BY <1>3, <1>6, <1>11 DEF cs, c

(* What is left of the blocks of a file cut to n bytes. *)
CutOf(bs, n) ==
  [i \in {j \in DOMAIN bs : bs[j].at < n} |->
     IF bs[i].at + bs[i].len <= n THEN bs[i]
     ELSE Block("stale", bs[i].at, n - bs[i].at, <<>>)]

(* The first k of them, all but the last as they were. *)
IsCut(cs, bs, n, k) ==
  /\ cs \in Seq(BlockType) /\ Len(cs) = k /\ k \in 0 .. Len(bs)
  /\ \A i \in 1 .. k : bs[i].at < n
  /\ \A i \in 1 .. k - 1 : bs[i].at + bs[i].len <= n
  /\ k < Len(bs) => n <= bs[k + 1].at
  /\ \A i \in 1 .. k : cs[i] = IF bs[i].at + bs[i].len <= n THEN bs[i]
                               ELSE Block("stale", bs[i].at, n - bs[i].at, <<>>)

LEMMA CutOfIs ==
  ASSUME NEW b, NEW bs, Recorded(bs, b), NEW n \in Nat
  PROVE  \E k \in 0 .. Len(bs) : IsCut(CutOf(bs, n), bs, n, k)
<1> DEFINE l == Len(bs)
           Out == {j \in 1 .. l : ~(bs[j].at < n)}
           k == IF Out = {} THEN l ELSE Min(Out) - 1
           cs == CutOf(bs, n)
<1>1. bs \in Seq(BlockType) /\ l \in Nat /\ DOMAIN bs = 1 .. l
  BY DEF Recorded
<1>2. ASSUME NEW i \in 1 .. l PROVE bs[i] \in BlockType /\ bs[i].at \in Nat /\ bs[i].len \in Nat \ {0}
  BY <1>1, BlockFields
<1>3. /\ k \in 0 .. l
      /\ \A i \in 1 .. k : bs[i].at < n
      /\ k < l => ~(bs[k + 1].at < n)
  <2>1. CASE Out = {}
    BY <1>1, <2>1
  <2>2. CASE Out # {}
    <3> DEFINE m == Min(Out)
    <3>1. m \in Out /\ \A y \in Out : m <= y
      <4>1. Out \in SUBSET Nat
        BY <1>1
      <4> HIDE DEF Out
      <4>2. QED
        BY <2>2, <4>1, MinIs
    <3>2. k = m - 1
      BY <2>2
    <3> HIDE DEF m, k
    <3>3. QED
      BY <1>1, <3>1, <3>2
  <2>3. QED
    BY <2>1, <2>2
<1> HIDE DEF k, Out
<1>4. ASSUME NEW i \in 1 .. l PROVE bs[i].at < n <=> i \in 1 .. k
  <2>1. CASE i \in 1 .. k
    BY <1>3, <2>1
  <2>2. CASE i \notin 1 .. k
    <3>1. k < l /\ k + 1 \in 1 .. i /\ k + 1 \in 1 .. l
      BY <1>1, <1>3, <2>2
    <3>2. k + 1 = i \/ bs[k + 1].at + bs[k + 1].len <= bs[i].at
      <4> DEFINE j == k + 1
      <4>1. j \in 1 .. i
        BY <3>1
      <4> HIDE DEF j
      <4>2. j = i \/ bs[j].at + bs[j].len <= bs[i].at
        BY <4>1, Order
      <4>3. QED
        BY <4>2 DEF j
    <3>3. ~(bs[i].at < n)
      BY <1>2, <1>3, <3>1, <3>2
    <3>4. QED
      BY <2>2, <3>3
  <2>3. QED
    BY <2>1, <2>2
<1>5. {j \in DOMAIN bs : bs[j].at < n} = 1 .. k
  BY <1>1, <1>3, <1>4
<1>6. cs = [i \in 1 .. k |-> IF bs[i].at + bs[i].len <= n THEN bs[i]
                             ELSE Block("stale", bs[i].at, n - bs[i].at, <<>>)]
  BY <1>5, Zenon DEF CutOf
<1>7. ASSUME NEW i \in 1 .. k, ~(bs[i].at + bs[i].len <= n)
      PROVE  Block("stale", bs[i].at, n - bs[i].at, <<>>) \in BlockType
  <2>1. bs[i].at \in Nat /\ n - bs[i].at \in Nat \ {0}
    BY <1>1, <1>2, <1>3
  <2>2. QED
    BY <2>1 DEF Block, BlockType, Kinds
<1>8. \A i \in 1 .. k : cs[i] \in BlockType
  BY <1>1, <1>2, <1>3, <1>6, <1>7
<1>9. cs \in Seq(BlockType) /\ Len(cs) = k
  <2>1. k \in Nat
    BY <1>1, <1>3
  <2> HIDE DEF cs
  <2>2. QED
    BY <1>6, <1>8, <2>1
<1>10. \A i \in 1 .. k - 1 : bs[i].at + bs[i].len <= n
  <2>1. SUFFICES ASSUME NEW i \in 1 .. k - 1 PROVE bs[i].at + bs[i].len <= n
    OBVIOUS
  <2>2. i \in 1 .. Len(bs) /\ i # Len(bs) /\ i + 1 \in 1 .. k /\ i + 1 \in 1 .. l
    <3>1. k \in 0 .. l /\ l \in Nat
      BY <1>1, <1>3
    <3> HIDE DEF l
    <3>2. i \in 1 .. l /\ i # l /\ i + 1 \in 1 .. k /\ i + 1 \in 1 .. l
      BY <3>1
    <3>3. QED
      BY <3>2 DEF l
  <2>3. bs[i].at + bs[i].len = bs[i + 1].at
    BY <2>2 DEF Recorded, Laid
  <2>4. bs[i + 1].at \in Nat
    BY <1>2, <2>2
  <2>5. QED
    BY <1>3, <2>2, <2>3, <2>4
<1>11. k < l => n <= bs[k + 1].at
  <2>1. SUFFICES ASSUME k < l PROVE n <= bs[k + 1].at
    OBVIOUS
  <2>2. k + 1 \in 1 .. l
    BY <1>1, <1>3, <2>1
  <2>3. bs[k + 1].at \in Nat
    BY <1>2, <2>2
  <2>4. QED
    BY <1>3, <2>1, <2>3
<1>12. \A i \in 1 .. k : cs[i] = IF bs[i].at + bs[i].len <= n THEN bs[i]
                                 ELSE Block("stale", bs[i].at, n - bs[i].at, <<>>)
  <2> HIDE DEF cs
  <2>1. QED
    BY <1>6
<1>13. IsCut(cs, bs, n, k)
  BY <1>3, <1>9, <1>10, <1>11, <1>12 DEF IsCut
<1>14. QED
  BY <1>3, <1>13

LEMMA CutRecorded ==
  ASSUME NEW b, NEW bs, Recorded(bs, b), NEW n \in Nat, Len(Magic) <= n, n <= Len(b),
         NEW c \in Seq(Byte), Len(c) = n, \A i \in 1 .. n : c[i] = b[i]
  PROVE  Recorded(CutOf(bs, n), c)
<1> DEFINE cs == CutOf(bs, n)
<1>1. /\ b \in Seq(Byte) /\ bs \in Seq(BlockType) /\ Len(b) \in Nat /\ Len(bs) \in Nat
      /\ Magic \in Seq(Byte) /\ Len(Magic) \in Nat \ {0}
  BY FormatAssumption DEF Recorded
<1>2. PICK k \in 0 .. Len(bs) : IsCut(cs, bs, n, k)
  BY CutOfIs
<1> HIDE DEF cs
<1>3. Agree(b, c, n) /\ Len(c) \in Nat
  BY DEF Agree
<1>4. ASSUME NEW i \in 1 .. k
      PROVE  /\ i \in 1 .. Len(bs) /\ bs[i] \in BlockType
             /\ bs[i].at \in Nat /\ bs[i].len \in Nat \ {0} /\ bs[i].at < n
             /\ i < k => bs[i].at + bs[i].len <= n
             /\ cs[i].at = bs[i].at
             /\ bs[i].at + bs[i].len <= n => cs[i] = bs[i]
             /\ ~(bs[i].at + bs[i].len <= n) =>
                  cs[i].len = n - bs[i].at /\ cs[i].kind = "stale"
  <2>1. i \in 1 .. Len(bs) /\ bs[i] \in BlockType
    BY <1>1
  <2>2. bs[i].at \in Nat /\ bs[i].len \in Nat \ {0}
    BY <2>1, BlockFields
  <2>3. bs[i].at < n /\ cs[i] = IF bs[i].at + bs[i].len <= n THEN bs[i]
                                ELSE Block("stale", bs[i].at, n - bs[i].at, <<>>)
    BY <1>2 DEF IsCut
  <2>4. i < k => bs[i].at + bs[i].len <= n
    <3>1. i < k => i \in 1 .. k - 1
      OBVIOUS
    <3>2. QED
      BY <1>2, <3>1 DEF IsCut
  <2>5. QED
    BY <2>1, <2>2, <2>3, <2>4 DEF Block
<1>5. cs \in Seq(BlockType) /\ Len(cs) = k /\ (k < Len(bs) => n <= bs[k + 1].at)
  BY <1>2 DEF IsCut
<1>6. Laid(cs, c)
  <2>1. SUFFICES ASSUME NEW i \in 1 .. k
                 PROVE  cs[i].at + cs[i].len = IF i = k THEN n ELSE cs[i + 1].at
    BY <1>5 DEF Laid
  <2>2. i \in 1 .. Len(bs) /\ bs[i].at + bs[i].len = IF i = Len(bs) THEN Len(b) ELSE bs[i + 1].at
    BY <1>4 DEF Recorded, Laid
  <2>3. CASE i < k
    <3>1. i + 1 \in 1 .. k /\ i # k /\ i # Len(bs)
      BY <2>2, <2>3
    <3>2. cs[i] = bs[i] /\ cs[i + 1].at = bs[i + 1].at
      BY <1>4, <2>3, <3>1
    <3>3. QED
      BY <2>2, <3>1, <3>2
  <2>4. CASE i = k
    <3>1. cs[i].at + cs[i].len = n
      <4> DEFINE at == bs[i].at
                 len == bs[i].len
      <4>1. at \in Nat /\ len \in Nat /\ at < n
        BY <1>4
      <4>2. at + len >= n
        <5>1. CASE i = Len(bs)
          BY <2>2, <5>1
        <5>2. CASE i # Len(bs)
          BY <1>1, <1>5, <2>2, <2>4, <5>2
        <5>3. QED
          BY <5>1, <5>2
      <4>3. CASE at + len <= n
        <5>1. cs[i] = bs[i]
          BY <1>4, <4>3
        <5>2. at + len = n
          <6>1. ASSUME NEW u \in Nat, NEW v \in Nat, u <= v, u >= v PROVE u = v
            BY <6>1
          <6>2. at + len \in Nat
            BY <4>1
          <6> HIDE DEF at, len
          <6>3. QED
            BY <4>2, <4>3, <6>1, <6>2
        <5>3. QED
          BY <5>1, <5>2
      <4>4. CASE ~(at + len <= n)
        <5>1. cs[i].at = at /\ cs[i].len = n - at
          BY <1>4, <4>4
        <5> HIDE DEF at, len
        <5>2. QED
          BY <4>1, <5>1
      <4>5. QED
        BY <4>3, <4>4
    <3>2. QED
      BY <2>4, <3>1
  <2>5. QED
    BY <2>3, <2>4
<1>7. Lies(b, 0, Magic) => Lies(c, 0, Magic)
  BY <1>1, <1>3, LiesKept
<1>8. Begun(cs, c)
  <2>1. CASE k = 0
    <3>1. cs = <<>>
      BY <1>5, <2>1
    <3>2. c = Magic
      <4>1. ASSUME Lies(c, 0, Magic), n = Len(Magic) PROVE c = Magic
        <5>1. \A i \in 1 .. n : c[i] = Magic[i]
          <6>1. \A i \in 1 .. n : 0 + i = i
            OBVIOUS
          <6>2. QED
            BY <4>1, <6>1 DEF Lies
        <5>2. QED
          BY <1>1, <4>1, <5>1
      <4>2. CASE bs = <<>>
        <5>1. b = Magic
          BY <1>1, <4>2 DEF Recorded, Begun
        <5>2. QED
          BY <1>1, <5>1
      <4>3. CASE bs # <<>>
        <5>1. n <= bs[1].at /\ 1 \in 1 .. Len(bs)
          BY <1>1, <1>5, <2>1, <4>3
        <5>2. bs[1].at \in Nat
          BY <1>1, <5>1, BlockFields
        <5>3. bs[1].at = Len(Magic) /\ Lies(b, 0, Magic)
          BY <1>1, <4>3, <5>1 DEF Recorded, Begun
        <5>4. QED
          BY <1>1, <1>7, <4>1, <5>1, <5>3
      <4>4. QED
        BY <4>2, <4>3
    <3>3. QED
      BY <3>1, <3>2 DEF Begun
  <2>2. CASE k # 0
    <3>1. 1 \in 1 .. k /\ cs # <<>> /\ bs # <<>>
      BY <1>1, <1>5, <2>2
    <3>2. cs[1].at = bs[1].at /\ (cs[1].kind = bs[1].kind \/ cs[1].kind = "stale")
      BY <1>4, <3>1
    <3>3. QED
      BY <1>7, <3>1, <3>2 DEF Recorded, Begun
  <2>3. QED
    BY <2>1, <2>2
<1>9. ASSUME NEW i \in 1 .. k PROVE Holds(c, cs[i])
  <2>1. CASE bs[i].at + bs[i].len <= n
    <3>1. bs[i] \in BlockType /\ Holds(b, bs[i]) /\ cs[i] = bs[i]
      BY <1>4, <2>1 DEF Recorded
    <3>2. QED
      BY <1>3, <2>1, <3>1, HoldsKept
  <2>2. CASE ~(bs[i].at + bs[i].len <= n)
    BY <1>4, <2>2 DEF Holds
  <2>3. QED
    BY <2>1, <2>2
<1>10. QED
  BY <1>5, <1>6, <1>8, <1>9 DEF Recorded, cs

(* Blocks that lie in front of the cut are kept. *)
LEMMA CutKeeps ==
  ASSUME NEW b, NEW bs, Recorded(bs, b), NEW n \in Nat,
         NEW i \in 1 .. Len(bs), bs[i].at + bs[i].len <= n
  PROVE  i \in 1 .. Len(CutOf(bs, n)) /\ CutOf(bs, n)[i] = bs[i]
<1> DEFINE cs == CutOf(bs, n)
<1>1. bs \in Seq(BlockType) /\ Len(bs) \in Nat
  BY DEF Recorded
<1>2. PICK k \in 0 .. Len(bs) : IsCut(cs, bs, n, k)
  BY CutOfIs
<1> HIDE DEF cs
<1>3. i \in 1 .. k
  <2>1. SUFFICES ASSUME i \notin 1 .. k PROVE FALSE
    OBVIOUS
  <2> DEFINE j == k + 1
  <2>2. k < Len(bs) /\ j \in 1 .. i /\ j \in 1 .. Len(bs)
    BY <1>1, <2>1
  <2>3. n <= bs[j].at
    BY <1>2, <2>2 DEF IsCut
  <2> HIDE DEF j
  <2>4. j = i \/ bs[j].at + bs[j].len <= bs[i].at
    BY <2>2, Order
  <2>5. /\ bs[j].at \in Nat /\ bs[j].len \in Nat \ {0}
        /\ bs[i].at \in Nat /\ bs[i].len \in Nat \ {0}
    BY <1>1, <2>2, BlockFields
  <2>6. ASSUME NEW u \in Nat, NEW v \in Nat, NEW w \in Nat \ {0}, NEW x \in Nat \ {0},
               n <= u, u = v \/ u + x <= v, v + w <= n
        PROVE  FALSE
    BY <2>6
  <2>7. bs[j].at = bs[i].at \/ bs[j].at + bs[j].len <= bs[i].at
    BY <2>4
  <2>8. QED
    BY <2>3, <2>5, <2>6, <2>7
<1>4. QED
  BY <1>2, <1>3 DEF IsCut, cs

(***************************************************************************)
(* The inductive invariant: the file is as recorded, and the checks cut    *)
(* behind the frames                                                       *)
(***************************************************************************)

(* What a timeout leaves behind: it lands somewhere behind the magic, unless it
   creates the file or writes its magic. *)
Stuck ==
  {w \in Operations : /\ w.op = "write" => Len(Magic) <= w.at
                      /\ w.op \in {"write", "append"} => w.data # <<>>}

Rest ==
  /\ flight \in Seq(Stuck) /\ verified \in BOOLEAN /\ timeouts \in 0 .. MaxTimeouts
  /\ check \in [Checks -> CheckType]

(* A check that has found a cut found it behind the magic, in a short file. *)
Checking(c) == check[c].pc \in {"found", "cutting"}

CutsInRange ==
  \A c \in Checks : Checking(c) =>
    /\ Len(Magic) <= check[c].cut /\ check[c].cut < check[c].len
    /\ check[c].len <= CheckMaxLen

(* The check of the running attempt cuts behind the frames there are: none
   is appended before it ends. *)
CutBehindFrames ==
  Checking("current") =>
    /\ ~verified
    /\ \A i \in 1 .. Len(blocks) :
         AllFramed(blocks, i) => blocks[i].at + blocks[i].len <= check["current"].cut

SafeInv == Recorded(blocks, bytes) /\ Rest /\ CutsInRange /\ CutBehindFrames

LEMMA EmptyFile ==
  ASSUME NEW b, NEW bs, Recorded(bs, b), b = <<>> PROVE bs = <<>>
<1>1. SUFFICES ASSUME bs # <<>> PROVE FALSE
  OBVIOUS
<1>2. bs \in Seq(BlockType) /\ 1 \in 1 .. Len(bs)
  BY <1>1 DEF Recorded
<1>3. bs[1].at \in Nat /\ bs[1].len \in Nat \ {0}
  BY <1>2, BlockFields
<1>4. bs[1].at + bs[1].len <= 0
  BY <1>2, Order
<1>5. QED
  BY <1>3, <1>4

LEMMA StuckIs ==
  ASSUME NEW op \in {"create", "magic", "write", "append"}, NEW at \in Nat, NEW data \in Seq(Byte),
         op = "write" => Len(Magic) <= at, op \in {"write", "append"} => data # <<>>
  PROVE  Operation(op, at, data) \in Stuck
<1> DEFINE w == Operation(op, at, data)
<1>1. w \in Operations /\ w.op = op /\ w.at = at /\ w.data = data
  BY DEF Operation, Operations
<1> HIDE DEF w
<1>2. QED
  BY <1>1 DEF Stuck, w

LEMMA StuckFields ==
  ASSUME NEW w \in Stuck
  PROVE  /\ w.op \in {"create", "magic", "write", "append"} /\ w.at \in Nat /\ w.data \in Seq(Byte)
         /\ w.op = "write" => Len(Magic) <= w.at
         /\ w.op \in {"write", "append"} => w.data # <<>>
BY DEF Stuck, Operations

LEMMA FlightGrows ==
  ASSUME NEW f \in Seq(Stuck), NEW w \in Stuck PROVE Append(f, w) \in Seq(Stuck)
OBVIOUS

LEMMA FlightShrinks ==
  ASSUME NEW S, NEW f \in Seq(S), NEW i \in DOMAIN f
  PROVE  f[i] \in S /\ RemoveAt(f, i) \in Seq(S)
<1>1. i \in 1 .. Len(f) /\ Len(f) \in Nat
  OBVIOUS
<1> DEFINE s == SubSeq(f, 1, i - 1)
           u == SubSeq(f, i + 1, Len(f))
<1>2. s \in Seq(S) /\ u \in Seq(S)
  BY <1>1
<1>3. RemoveAt(f, i) = s \o u
  BY DEF RemoveAt
<1> HIDE DEF s, u
<1>4. s \o u \in Seq(S)
  BY <1>2
<1>5. QED
  BY <1>1, <1>3, <1>4

(* The magic of a new file. *)
LEMMA StartRecorded ==
  ASSUME Recorded(blocks, bytes)
  PROVE  /\ Recorded(blocks, bytes \o Start)
         /\ bytes \o Start \in Seq(Byte) /\ Start \in Seq(Byte)
         /\ ~Creating => Start = <<>> /\ bytes \o Start = bytes
         /\ Creating => bytes = <<>> /\ blocks = <<>> /\ Start = Magic /\ bytes \o Start = Magic
<1>1. bytes \in Seq(Byte) /\ Magic \in Seq(Byte) /\ Magic # <<>>
  BY FormatAssumption DEF Recorded
<1>2. CASE ~Creating
  <2>1. Start = <<>>
    BY <1>2 DEF Start
  <2>2. bytes \o Start = bytes
    BY <1>1, <2>1
  <2>3. QED
    BY <1>1, <1>2, <2>1, <2>2
<1>3. CASE Creating
  <2>1. bytes = <<>> /\ Start = Magic /\ blocks = <<>>
    BY <1>3, EmptyFile DEF Start, Creating
  <2>2. bytes \o Start = Magic
    BY <1>1, <2>1
  <2>3. Recorded(blocks, Magic)
    <3>1. blocks \in Seq(BlockType) /\ Len(blocks) = 0
      BY <2>1
    <3>2. Laid(blocks, Magic) /\ \A i \in 1 .. Len(blocks) : Holds(Magic, blocks[i])
      BY <3>1 DEF Laid
    <3>3. Begun(blocks, Magic)
      BY <2>1 DEF Begun
    <3>4. QED
      BY <1>1, <3>1, <3>2, <3>3 DEF Recorded
  <2>4. QED
    BY <1>1, <1>3, <2>1, <2>2, <2>3
<1>4. QED
  BY <1>2, <1>3

LEMMA AddedIs ==
  ASSUME NEW kind \in Kinds, NEW at \in Nat, NEW len \in Nat \ {0}, NEW text \in Seq(Byte)
  PROVE  LET block == Added(kind, at, len, text)
         IN  /\ block \in BlockType /\ block.at = at /\ block.len = len /\ block.text = text
             /\ block.kind = (IF at = 0 THEN "foreign" ELSE kind)
             /\ at # 0 => block = Block(kind, at, len, text)
<1> DEFINE k == IF at = 0 THEN "foreign" ELSE kind
<1>1. k \in Kinds
  BY DEF Kinds
<1>2. Added(kind, at, len, text) = Block(k, at, len, text)
  BY DEF Added
<1>3. at # 0 => k = kind
  OBVIOUS
<1> HIDE DEF k
<1>4. QED
  BY <1>1, <1>2, <1>3 DEF Block, BlockType, k

LEMMA TornBlock ==
  ASSUME NEW at \in Nat, NEW len \in Nat \ {0}
  PROVE  LET block == Added("torn", at, len, <<>>)
         IN  /\ block \in BlockType /\ block.at = at /\ block.len = len
             /\ block.kind = (IF at = 0 THEN "foreign" ELSE "torn")
             /\ at # 0 => block = Block("torn", at, len, <<>>)
<1> DEFINE kind == "torn"
           text == <<>>
<1>1. kind \in Kinds /\ text \in Seq(Byte)
  BY DEF Kinds
<1> HIDE DEF kind, text
<1>2. LET block == Added(kind, at, len, text)
      IN  /\ block \in BlockType /\ block.at = at /\ block.len = len
          /\ block.kind = (IF at = 0 THEN "foreign" ELSE kind)
          /\ at # 0 => block = Block(kind, at, len, text)
  BY <1>1, AddedIs
<1>3. QED
  BY <1>2 DEF kind, text

LEMMA AppendedLies ==
  ASSUME NEW b \in Seq(Byte), NEW f \in Seq(Byte) PROVE Lies(b \o f, Len(b), f)
<1>1. Joined(b \o f, b, f)
  BY Concatenation
<1>2. QED
  BY <1>1 DEF Joined, Lies

LEMMA FrameBytes ==
  ASSUME NEW text \in Payloads, NEW rnd \in Rnds
  PROVE  /\ encode_frame(text, rnd) \in Seq(Byte) /\ Len(encode_frame(text, rnd)) \in Nat
         /\ Len(encode_frame(text, rnd)) > 4
         /\ text \in Seq(Byte) /\ text # <<>> /\ rnd \in Byte
<1>1. text \in Seq(Byte) /\ text # <<>> /\ rnd \in Byte
  BY ContentAssumption
<1>2. HasHead(encode_frame(text, rnd), Len(text))
  BY EncodedFrame DEF Encoded
<1> DEFINE n == Len(text)
           f == encode_frame(text, rnd)
<1>3. n \in Nat \ {0} /\ f \in Seq(Byte) /\ Len(f) = HeadLen(n) + n
  BY <1>2 DEF HasHead
<1>4. HeadLen(n) \in Nat /\ HeadLen(n) > 3
  BY <1>3, HeadLenType
<1> HIDE DEF n, f
<1>5. Len(f) \in Nat /\ Len(f) > 4
  BY <1>3, <1>4
<1>6. QED
  BY <1>1, <1>3, <1>5 DEF n, f

LEMMA AppendFrameRecorded ==
  ASSUME Recorded(blocks, bytes), AppendFrame PROVE Recorded(blocks', bytes')
<1>1. PICK text \in Payloads, rnd \in Rnds :
        LET frame == encode_frame(text, rnd)
        IN  /\ bytes' = bytes \o Start \o frame
            /\ blocks' = Append(blocks, Added("whole", Len(bytes \o Start), Len(frame), text))
  BY DEF AppendFrame
<1> DEFINE f == encode_frame(text, rnd)
           b == bytes \o Start
           block == Added("whole", Len(b), Len(f), text)
<1>2. Recorded(blocks, b) /\ b \in Seq(Byte) /\ Len(b) \in Nat
  <2>1. Recorded(blocks, b) /\ b \in Seq(Byte)
    BY StartRecorded
  <2> HIDE DEF b
  <2>2. QED
    BY <2>1
<1>3. f \in Seq(Byte) /\ Len(f) \in Nat \ {0} /\ f # <<>> /\ text \in Seq(Byte)
  BY FrameBytes
<1>4. bytes' = b \o f /\ blocks' = Append(blocks, block)
  BY <1>1
<1> HIDE DEF b
<1>6. /\ block \in BlockType /\ block.at = Len(b) /\ block.len = Len(f) /\ block.text = text
      /\ block.kind = (IF Len(b) = 0 THEN "foreign" ELSE "whole")
  <2>1. "whole" \in Kinds
    BY DEF Kinds
  <2>2. QED
    BY <1>2, <1>3, <2>1, AddedIs
<1> HIDE DEF block
<1>5. IsWhole(b \o f, block)
  <2>1. Lies(b \o f, Len(b), f)
    BY <1>2, <1>3, AppendedLies
  <2>2. QED
    BY <1>6, <2>1 DEF IsWhole
<1> HIDE DEF f
<1>7. Holds(b \o f, block)
  BY <1>5, <1>6 DEF Holds
<1>8. Recorded(Append(blocks, block), b \o f)
  BY <1>2, <1>3, <1>6, <1>7, AppendRecorded
<1>9. QED
  BY <1>4, <1>8

(* A torn frame behind what is recorded. *)
LEMMA TornRecorded ==
  ASSUME NEW b, NEW bs, Recorded(bs, b), NEW text \in Payloads, NEW rnd \in Rnds,
         NEW len \in Nat \ {0}, len < Len(encode_frame(text, rnd)), NEW x,
         x = SubSeq(encode_frame(text, rnd), 1, len)
  PROVE  Recorded(Append(bs, Added("torn", Len(b), len, <<>>)), b \o x)
<1> DEFINE f == encode_frame(text, rnd)
           block == Added("torn", Len(b), len, <<>>)
<1>1. f \in Seq(Byte) /\ b \in Seq(Byte)
  BY FrameBytes DEF Recorded
<1>2. x \in Seq(Byte) /\ Len(x) = len /\ x # <<>>
  <2> HIDE DEF f
  <2>1. x = SubSeq(f, 1, len) /\ len < Len(f)
    BY DEF f
  <2>2. x \in Seq(Byte)
    BY <1>1, <2>1
  <2>3. Len(x) = len
    BY <1>1, <2>1
  <2>4. QED
    BY <2>2, <2>3
<1>3. /\ block \in BlockType /\ block.at = Len(b) /\ block.len = len
      /\ block.kind = (IF Len(b) = 0 THEN "foreign" ELSE "torn")
  <2>1. Len(b) \in Nat
    BY <1>1
  <2>2. QED
    BY <2>1, TornBlock
<1>4. Lies(b \o x, Len(b), x)
  BY <1>1, <1>2, AppendedLies
<1> HIDE DEF block
<1>5. IsTorn(b \o x, block)
  BY <1>3, <1>4 DEF IsTorn
<1>6. Holds(b \o x, block)
  BY <1>3, <1>5 DEF Holds
<1>7. bs = <<>> /\ b = <<>> => block.kind \in {"foreign", "stale"}
  BY <1>3
<1>8. QED
  BY <1>2, <1>3, <1>6, <1>7, AppendRecorded DEF block

LEMMA SubSeqJoined ==
  ASSUME NEW s \in Seq(Byte), NEW t \in Seq(Byte), NEW k \in 0 .. Len(s) + Len(t)
  PROVE  /\ k < Len(s) => SubSeq(s \o t, 1, k) = SubSeq(s, 1, k)
         /\ k = Len(s) => SubSeq(s \o t, 1, k) = s
         /\ k > Len(s) => SubSeq(s \o t, 1, k) = s \o SubSeq(t, 1, k - Len(s))
<1> DEFINE g == s \o t
           h == SubSeq(g, 1, k)
<1>1. g \in Seq(Byte) /\ Joined(g, s, t) /\ Len(s) \in Nat /\ Len(t) \in Nat
  BY Concatenation
<1> HIDE DEF g
<1>2. h \in Seq(Byte) /\ Len(h) = k /\ \A i \in 1 .. k : h[i] = g[i]
  BY <1>1 DEF Joined
<1> HIDE DEF h
<1>3. ASSUME k <= Len(s) PROVE h = SubSeq(s, 1, k)
  <2> DEFINE u == SubSeq(s, 1, k)
  <2>1. u \in Seq(Byte) /\ Len(u) = k /\ \A i \in 1 .. k : u[i] = s[i]
    BY <1>1, <1>3
  <2> HIDE DEF u
  <2>2. ASSUME NEW i \in 1 .. k PROVE h[i] = u[i]
    <3>1. i \in 1 .. Len(s)
      BY <1>1, <1>3
    <3>2. g[i] = s[i]
      BY <1>1, <3>1 DEF Joined
    <3>3. QED
      BY <1>2, <2>1, <3>2
  <2>3. \A i \in 1 .. k : h[i] = u[i]
    BY <2>2
  <2>4. h = u
    <3>1. h \in Seq(Byte) /\ u \in Seq(Byte)
      BY <1>2, <2>1
    <3>2. Len(h) = Len(u) /\ \A i \in 1 .. Len(h) : h[i] = u[i]
      BY <1>2, <2>1, <2>3
    <3>3. QED
      BY ONLY <3>1, <3>2, SeqEqual
  <2>5. QED
    BY <2>4 DEF u
<1>4. ASSUME k > Len(s) PROVE h = s \o SubSeq(t, 1, k - Len(s))
  <2> DEFINE u == SubSeq(t, 1, k - Len(s))
             v == s \o u
  <2>1. k - Len(s) \in 1 .. Len(t)
    BY <1>1, <1>4
  <2>2. u \in Seq(Byte) /\ Len(u) = k - Len(s) /\ \A i \in 1 .. k - Len(s) : u[i] = t[i]
    BY <1>1, <2>1
  <2> HIDE DEF u
  <2>3. v \in Seq(Byte) /\ Joined(v, s, u)
    BY <2>2, Concatenation
  <2> HIDE DEF v
  <2>4. Len(v) = k
    BY <1>1, <2>2, <2>3 DEF Joined
  <2>5. ASSUME NEW i \in 1 .. k PROVE h[i] = v[i]
    <3>1. CASE i \in 1 .. Len(s)
      BY <1>1, <1>2, <2>3, <3>1 DEF Joined
    <3>2. CASE i \notin 1 .. Len(s)
      <4> DEFINE j == i - Len(s)
      <4>1. j \in 1 .. k - Len(s) /\ j \in 1 .. Len(t) /\ Len(s) + j = i
        BY <1>1, <2>1, <3>2
      <4> HIDE DEF j
      <4>2. v[Len(s) + j] = u[j] /\ g[Len(s) + j] = t[j] /\ u[j] = t[j]
        BY <1>1, <2>2, <2>3, <4>1 DEF Joined
      <4>3. QED
        BY <1>2, <4>1, <4>2
    <3>3. QED
      BY <3>1, <3>2
  <2>6. h = v
    BY <1>2, <2>3, <2>4, <2>5
  <2>7. QED
    BY <2>6 DEF u, v
<1>5. SubSeq(s, 1, Len(s)) = s
  OBVIOUS
<1>6. /\ k < Len(s) => h = SubSeq(s, 1, k)
      /\ k = Len(s) => h = s
      /\ k > Len(s) => h = s \o SubSeq(t, 1, k - Len(s))
  <2>1. (k < Len(s) => k <= Len(s)) /\ (k = Len(s) => k <= Len(s))
    BY <1>1
  <2>2. QED
    BY <1>3, <1>4, <1>5, <2>1
<1>7. QED
  BY <1>6 DEF g, h

LEMMA Associative ==
  ASSUME NEW s \in Seq(Byte), NEW t \in Seq(Byte), NEW u \in Seq(Byte)
  PROVE  (s \o t) \o u = s \o (t \o u)
BY ConcatAssociative

LEMMA ForeignRecorded ==
  ASSUME NEW x \in Seq(Byte), x # <<>>, NEW k, k = Len(x)
  PROVE  Recorded(<<Block("foreign", 0, k, <<>>)>>, x)
<1> DEFINE block == Block("foreign", 0, k, <<>>)
           bs == <<block>>
<1>1. /\ block \in BlockType /\ block.at = 0 /\ block.len = k /\ block.kind = "foreign"
  <2>1. k \in Nat \ {0}
    OBVIOUS
  <2>2. QED
    BY <2>1 DEF Block, BlockType, Kinds
<1> HIDE DEF block
<1>2. bs \in Seq(BlockType) /\ Len(bs) = 1 /\ bs[1] = block /\ bs # <<>>
  BY <1>1
<1> HIDE DEF bs
<1>3. Laid(bs, x) /\ Begun(bs, x)
  BY <1>1, <1>2 DEF Laid, Begun
<1>4. \A i \in 1 .. Len(bs) : Holds(x, bs[i])
  BY <1>1, <1>2 DEF Holds
<1>5. QED
  BY <1>2, <1>3, <1>4 DEF Recorded, bs, block

LEMMA FrontBytes ==
  ASSUME NEW s \in Seq(Byte), NEW k \in 1 .. Len(s)
  PROVE  SubSeq(s, 1, k) \in Seq(Byte) /\ Len(SubSeq(s, 1, k)) = k /\ SubSeq(s, 1, k) # <<>>
OBVIOUS

LEMMA TearFrameRecorded ==
  ASSUME Recorded(blocks, bytes), TearFrame PROVE Recorded(blocks', bytes')
<1>1. PICK text \in Payloads, rnd \in Rnds :
        LET all == Start \o encode_frame(text, rnd)
        IN  \E k \in 1 .. Len(all) - 1 :
              /\ bytes' = bytes \o SubSeq(all, 1, k)
              /\ blocks' = IF k < Len(Start)
                           THEN <<Block("foreign", 0, k, <<>>)>>
                           ELSE IF k = Len(Start) THEN blocks
                           ELSE Append(blocks, Added("torn", Len(bytes \o Start),
                                                     k - Len(Start), <<>>))
  BY DEF TearFrame
<1> DEFINE f == encode_frame(text, rnd)
           all == Start \o f
<1>2. PICK k \in 1 .. Len(all) - 1 :
              /\ bytes' = bytes \o SubSeq(all, 1, k)
              /\ blocks' = IF k < Len(Start)
                           THEN <<Block("foreign", 0, k, <<>>)>>
                           ELSE IF k = Len(Start) THEN blocks
                           ELSE Append(blocks, Added("torn", Len(bytes \o Start),
                                                     k - Len(Start), <<>>))
  BY <1>1
<1>3. /\ f \in Seq(Byte) /\ Len(f) \in Nat /\ Len(f) > 4 /\ bytes \in Seq(Byte)
      /\ Start \in Seq(Byte) /\ Len(Start) \in Nat
      /\ Recorded(blocks, bytes \o Start)
      /\ bytes = <<>> \/ Start = <<>>
  BY StartRecorded, FrameBytes DEF Recorded
<1> HIDE DEF f
<1>4. Len(all) = Len(Start) + Len(f)
  BY <1>3
<1> HIDE DEF all
<1>5. k \in 0 .. Len(Start) + Len(f) /\ k < Len(Start) + Len(f) /\ k > 0
  BY <1>3, <1>4
<1>6. /\ k < Len(Start) => SubSeq(all, 1, k) = SubSeq(Start, 1, k)
      /\ k = Len(Start) => SubSeq(all, 1, k) = Start
      /\ k > Len(Start) => SubSeq(all, 1, k) = Start \o SubSeq(f, 1, k - Len(Start))
  <2>1. k \in 0 .. Len(Start) + Len(f)
    BY <1>5
  <2>2. f \in Seq(Byte) /\ Start \in Seq(Byte)
    BY <1>3
  <2>3. QED
    BY <2>1, <2>2, SubSeqJoined DEF all
<1>7. CASE k < Len(Start)
  <2> DEFINE x == SubSeq(Start, 1, k)
  <2>1. bytes = <<>>
    BY <1>3, <1>5, <1>7
  <2>2. x \in Seq(Byte) /\ Len(x) = k /\ x # <<>>
    <3>1. Start \in Seq(Byte) /\ k \in 1 .. Len(Start)
      BY <1>3, <1>5, <1>7
    <3>2. QED
      BY <3>1, FrontBytes
  <2>3. bytes' = bytes \o x /\ blocks' = <<Block("foreign", 0, k, <<>>)>>
    BY <1>2, <1>6, <1>7
  <2> HIDE DEF x
  <2>4. bytes' = x
    BY <2>1, <2>2, <2>3
  <2>5. QED
    BY <2>2, <2>3, <2>4, ForeignRecorded
<1>8. CASE k = Len(Start)
  <2>1. ~(k < Len(Start))
    BY <1>3, <1>8
  <2>2. blocks' = blocks /\ bytes' = bytes \o Start
    BY <1>2, <1>6, <1>8, <2>1
  <2>3. QED
    BY <1>3, <2>2
<1>9. CASE k > Len(Start)
  <2> DEFINE len == k - Len(Start)
             x == SubSeq(f, 1, len)
             b == bytes \o Start
  <2>1. len \in Nat \ {0} /\ len < Len(f)
    BY <1>3, <1>5, <1>9
  <2>2. blocks' = Append(blocks, Added("torn", Len(b), len, <<>>))
        /\ bytes' = bytes \o (Start \o x)
    <3>1. ~(k < Len(Start)) /\ ~(k = Len(Start))
      BY <1>3, <1>5, <1>9
    <3>2. QED
      BY <1>2, <1>6, <1>9, <3>1
  <2> HIDE DEF len
  <2>3. x \in Seq(Byte)
    BY <1>3, <2>1
  <2>4. bytes' = b \o x
    <3> HIDE DEF x
    <3>1. bytes \o (Start \o x) = (bytes \o Start) \o x
      BY <1>3, <2>3, Associative
    <3>2. QED
      BY <2>2, <3>1
  <2>5. Recorded(Append(blocks, Added("torn", Len(b), len, <<>>)), b \o x)
    <3> HIDE DEF b
    <3>1. Recorded(blocks, b)
      BY <1>3 DEF b
    <3>2. len < Len(encode_frame(text, rnd)) /\ x = SubSeq(encode_frame(text, rnd), 1, len)
      BY <2>1 DEF f
    <3> HIDE DEF x
    <3>3. QED
      BY <2>1, <3>1, <3>2, TornRecorded
  <2>6. QED
    BY <2>2, <2>4, <2>5
<1>10. QED
  BY <1>3, <1>5, <1>7, <1>8, <1>9

(* What an attempt hands over: the prefix, then the payload. *)
LEMMA TwoWrites ==
  ASSUME NEW text \in Payloads, NEW rnd \in Rnds
  PROVE  LET prefix == Prefix(text, rnd)
             rest   == Obfuscate(text, xor_seed(rnd, Len(text)))
             frame  == encode_frame(text, rnd)
         IN  /\ prefix \in Seq(Byte) /\ prefix # <<>> /\ rest \in Seq(Byte) /\ rest # <<>>
             /\ Len(prefix) \in Nat \ {0} /\ Len(prefix) < Len(frame)
             /\ SubSeq(frame, 1, Len(prefix)) = prefix
<1> DEFINE n == Len(text)
           c == ByteXor(Checksum(text), SumMask)
           s == SizeBytes(n)
           h == <<Marker, rnd, c>>
           p == Prefix(text, rnd)
           o == Obfuscate(text, xor_seed(rnd, n))
           f == encode_frame(text, rnd)
<1>1. text \in Seq(Byte) /\ text # <<>> /\ rnd \in Byte /\ n \in Nat \ {0}
  BY ContentAssumption
<1>2. c \in Byte
  BY <1>1, ChecksumType, XorAssumption, FormatAssumption
<1>3. s \in Seq(Byte)
  BY <1>1, SizeBytesType
<1>4. o \in Seq(Byte) /\ Len(o) = n
  <2>1. xor_seed(rnd, n) \in Nat
    BY <1>1, SeedType
  <2>2. QED
    BY <1>1, <2>1, ObfuscateType
<1>5. p = h \o s /\ f = p \o o
  BY DEF encode_frame, Prefix
<1> HIDE DEF n, c, s, o, f, p
<1>6. h \in Seq(Byte) /\ Len(h) = 3
  BY <1>1, <1>2, Bytes
<1> HIDE DEF h
<1>7. p \in Seq(Byte) /\ Len(p) = 3 + Len(s) /\ Len(s) \in Nat
  <2>1. p \in Seq(Byte) /\ Joined(p, h, s)
    BY <1>3, <1>5, <1>6, Concatenation
  <2>2. QED
    BY <1>3, <1>6, <2>1 DEF Joined
<1>8. Len(p) \in Nat \ {0} /\ p # <<>> /\ o # <<>>
  BY <1>1, <1>4, <1>7
<1>9. Len(f) = Len(p) + Len(o)
  <2>1. Joined(f, p, o)
    BY <1>4, <1>5, <1>7, Concatenation
  <2>2. QED
    BY <2>1 DEF Joined
<1>10. Len(p) < Len(f) /\ Len(p) \in 0 .. Len(p) + Len(o)
  BY <1>1, <1>4, <1>8, <1>9
<1>11. SubSeq(f, 1, Len(p)) = p
  BY <1>4, <1>5, <1>7, <1>10, SubSeqJoined
<1>12. QED
  BY <1>4, <1>7, <1>8, <1>10, <1>11 DEF p, o, f, n

LEMMA TimeOutRecorded ==
  ASSUME Recorded(blocks, bytes), flight \in Seq(Stuck), TimeOut
  PROVE  Recorded(blocks', bytes') /\ flight' \in Seq(Stuck)
<1>1. PICK text \in Payloads, rnd \in Rnds :
        LET prefix == Prefix(text, rnd)
        IN  \/ /\ flight' = Append(flight, Operation("append", 0, prefix))
               /\ UNCHANGED <<bytes, blocks>>
            \/ /\ flight' = Append(flight, Operation("append", 0,
                                             Obfuscate(text, xor_seed(rnd, Len(text)))))
               /\ bytes' = bytes \o prefix
               /\ blocks' = Append(blocks, Added("torn", Len(bytes), Len(prefix), <<>>))
  BY DEF TimeOut, LeavesBehind
<1> DEFINE p == Prefix(text, rnd)
           f == encode_frame(text, rnd)
           o == Obfuscate(text, xor_seed(rnd, Len(text)))
<1>2. /\ p \in Seq(Byte) /\ o \in Seq(Byte) /\ p # <<>> /\ o # <<>>
      /\ Len(p) \in Nat \ {0} /\ Len(p) < Len(f) /\ p = SubSeq(f, 1, Len(p))
  BY TwoWrites
<1>3. Operation("append", 0, p) \in Stuck /\ Operation("append", 0, o) \in Stuck
  <2> HIDE DEF p, o
  <2>1. QED
    BY <1>2, StuckIs
<1>4. Recorded(Append(blocks, Added("torn", Len(bytes), Len(p), <<>>)), bytes \o p)
  <2> HIDE DEF p
  <2>1. QED
    BY <1>2, TornRecorded
<1>5. flight' \in Seq(Stuck)
  <2> DEFINE v == Operation("append", 0, p)
             w == Operation("append", 0, o)
  <2>1. flight' = Append(flight, v) \/ flight' = Append(flight, w)
    BY <1>1
  <2> HIDE DEF v, w
  <2>2. QED
    BY <1>3, <2>1, FlightGrows DEF v, w
<1>6. QED
  BY <1>1, <1>2, <1>4, <1>5

LEMMA TimeOutCreatingRecorded ==
  ASSUME Recorded(blocks, bytes), flight \in Seq(Stuck), TimeOutCreating
  PROVE  /\ Recorded(blocks', bytes') /\ flight' \in Seq(Stuck)
         /\ \/ blocks' = blocks
            \/ \E block \in BlockType : block.at = Len(Magic) /\ blocks' = Append(blocks, block)
<1>1. blocks = <<>> /\ Recorded(blocks, Magic) /\ Magic \in Seq(Byte) /\ Len(Magic) \in Nat \ {0}
  BY StartRecorded, FormatAssumption DEF TimeOutCreating
<1>2. CASE \/ flight' = Append(flight, Operation("create", 0, <<>>)) /\ UNCHANGED <<bytes, blocks>>
           \/ flight' = Append(flight, Operation("magic", 0, Magic)) /\ UNCHANGED <<bytes, blocks>>
  <2>1. Operation("create", 0, <<>>) \in Stuck /\ Operation("magic", 0, Magic) \in Stuck
    <3>1. <<>> \in Seq(Byte)
      OBVIOUS
    <3>2. QED
      BY <1>1, <3>1, StuckIs
  <2>2. flight' \in Seq(Stuck)
    BY <1>2, <2>1, FlightGrows
  <2>3. QED
    BY <1>2, <2>2
<1>3. ASSUME NEW text \in Payloads, NEW rnd \in Rnds,
             LET prefix == Prefix(text, rnd)
             IN  \/ /\ flight' = Append(flight, Operation("write", Len(Magic), prefix))
                    /\ bytes' = Magic /\ UNCHANGED blocks
                 \/ /\ flight' = Append(flight, Operation("write", Len(Magic \o prefix),
                                                  Obfuscate(text, xor_seed(rnd, Len(text)))))
                    /\ bytes' = Magic \o prefix
                    /\ blocks' = <<Block("torn", Len(Magic), Len(prefix), <<>>)>>
      PROVE  /\ Recorded(blocks', bytes') /\ flight' \in Seq(Stuck)
             /\ \/ blocks' = blocks
                \/ \E block \in BlockType : block.at = Len(Magic) /\ blocks' = Append(blocks, block)
  <2> DEFINE p == Prefix(text, rnd)
             f == encode_frame(text, rnd)
             o == Obfuscate(text, xor_seed(rnd, Len(text)))
             at == Len(Magic \o p)
             block == Block("torn", Len(Magic), Len(p), <<>>)
             v == Operation("write", Len(Magic), p)
             w == Operation("write", at, o)
  <2>1. /\ p \in Seq(Byte) /\ o \in Seq(Byte) /\ p # <<>> /\ o # <<>>
        /\ Len(p) \in Nat \ {0} /\ Len(p) < Len(f) /\ p = SubSeq(f, 1, Len(p))
    BY TwoWrites
  <2>2. \/ flight' = Append(flight, v) /\ bytes' = Magic /\ blocks' = blocks
        \/ flight' = Append(flight, w) /\ bytes' = Magic \o p /\ blocks' = <<block>>
    BY <1>3
  <2> HIDE DEF p, o
  <2>3. at \in Nat /\ Len(Magic) <= at
    BY <1>1, <2>1
  <2> HIDE DEF at
  <2>4. v \in Stuck /\ w \in Stuck
    BY <1>1, <2>1, <2>3, StuckIs
  <2> HIDE DEF v, w
  <2>5. flight' \in Seq(Stuck)
    BY <2>2, <2>4, FlightGrows
  <2>6. /\ block \in BlockType /\ block.at = Len(Magic)
        /\ block = Added("torn", Len(Magic), Len(p), <<>>)
    <3>1. Len(Magic) # 0
      BY <1>1
    <3>2. QED
      BY <1>1, <2>1, <3>1, TornBlock
  <2> HIDE DEF block
  <2>7. Recorded(Append(blocks, block), Magic \o p)
    BY <1>1, <2>1, <2>6, TornRecorded
  <2>8. <<block>> = Append(blocks, block)
    BY <1>1
  <2>9. QED
    BY <1>1, <2>2, <2>5, <2>6, <2>7, <2>8
<1>4. QED
  BY <1>2, <1>3 DEF TimeOutCreating, LeavesBehind

(* A stale block lands behind the others, or joins the broken last one. *)
LEMMA StaleRecorded ==
  ASSUME NEW b, NEW bs, Recorded(bs, b), NEW x \in Seq(Byte), x # <<>>
  PROVE  Recorded(Append(bs, Block("stale", Len(b), Len(x), <<>>)), b \o x)
<1> DEFINE block == Block("stale", Len(b), Len(x), <<>>)
<1>1. /\ block \in BlockType /\ block.at = Len(b) /\ block.len = Len(x) /\ block.kind = "stale"
  <2>1. Len(b) \in Nat /\ Len(x) \in Nat \ {0}
    BY DEF Recorded
  <2>2. QED
    BY <2>1 DEF Block, BlockType, Kinds
<1> HIDE DEF block
<1>2. Holds(b \o x, block)
  BY <1>1 DEF Holds
<1>3. QED
  BY <1>1, <1>2, AppendRecorded DEF block

(* Cutting, or lengthening with zeros a file that has become shorter. *)
LEMMA SetLenRecorded ==
  ASSUME Recorded(blocks, bytes), NEW cut \in Nat, Len(Magic) <= cut,
         bytes' = [i \in 1 .. cut |-> IF i <= Len(bytes) THEN bytes[i] ELSE 0],
         blocks' = IF cut <= Len(bytes) THEN CutBlocks(cut)
                   ELSE Append(blocks, Block("stale", Len(bytes), cut - Len(bytes), <<>>))
  PROVE  Recorded(blocks', bytes') /\ bytes' # <<>> /\ Len(bytes') = cut
<1> DEFINE c == [i \in 1 .. cut |-> IF i <= Len(bytes) THEN bytes[i] ELSE 0]
<1>1. bytes \in Seq(Byte) /\ Len(bytes) \in Nat /\ 0 \in Byte /\ Len(Magic) \in Nat \ {0}
  <2>1. Magic \in Seq(Byte) /\ Magic # <<>>
    BY FormatAssumption
  <2>2. Len(Magic) \in Nat \ {0}
    BY <2>1
  <2>3. 0 \in Byte
    BY Bytes
  <2>4. QED
    BY <2>2, <2>3 DEF Recorded
<1>2. c \in Seq(Byte) /\ Len(c) = cut /\ \A i \in 1 .. cut : c[i] = IF i <= Len(bytes) THEN bytes[i] ELSE 0
  <2>1. \A i \in 1 .. cut : (IF i <= Len(bytes) THEN bytes[i] ELSE 0) \in Byte
    BY <1>1
  <2>2. QED
    BY <1>1, <2>1
<1>3. bytes' = c
  OBVIOUS
<1> HIDE DEF c
<1>4. c # <<>>
  BY <1>1, <1>2
<1>5. CASE cut <= Len(bytes)
  <2>1. \A i \in 1 .. cut : c[i] = bytes[i]
    BY <1>1, <1>2, <1>5
  <2>2. Recorded(CutOf(blocks, cut), c)
    BY <1>2, <1>5, <2>1, CutRecorded
  <2>3. blocks' = CutOf(blocks, cut)
    BY <1>5 DEF CutBlocks, CutOf
  <2>4. QED
    BY <1>2, <1>3, <1>4, <2>2, <2>3
<1>6. CASE ~(cut <= Len(bytes))
  <2> DEFINE l == cut - Len(bytes)
             z == [i \in 1 .. l |-> 0]
             d == bytes \o z
  <2>1. l \in Nat \ {0} /\ Len(bytes) + l = cut
    BY <1>1, <1>6
  <2> HIDE DEF l
  <2>2. z \in Seq(Byte) /\ Len(z) = l /\ z # <<>> /\ \A i \in 1 .. l : z[i] = 0
    BY <1>1, <2>1
  <2> HIDE DEF z
  <2>3. d \in Seq(Byte) /\ Joined(d, bytes, z)
    BY <1>1, <2>2, Concatenation
  <2> HIDE DEF d
  <2>4. ASSUME NEW i \in 1 .. cut PROVE c[i] = d[i]
    <3>1. CASE i \in 1 .. Len(bytes)
      BY <1>1, <1>2, <2>3, <3>1 DEF Joined
    <3>2. CASE i \notin 1 .. Len(bytes)
      <4> DEFINE j == i - Len(bytes)
      <4>1. j \in 1 .. l /\ Len(bytes) + j = i /\ ~(i <= Len(bytes))
        BY <1>1, <2>1, <3>2
      <4> HIDE DEF j
      <4>2. d[Len(bytes) + j] = z[j] /\ z[j] = 0
        BY <2>2, <2>3, <4>1 DEF Joined
      <4>3. QED
        BY <1>2, <4>1, <4>2
    <3>3. QED
      BY <3>1, <3>2
  <2>5. c = d
    <3>1. Len(d) = cut
      BY <2>1, <2>2, <2>3 DEF Joined
    <3>2. QED
      BY <1>2, <2>3, <2>4, <3>1
  <2>6. Recorded(Append(blocks, Block("stale", Len(bytes), Len(z), <<>>)), bytes \o z)
    BY <2>2, StaleRecorded
  <2>7. blocks' = Append(blocks, Block("stale", Len(bytes), Len(z), <<>>))
    BY <1>6, <2>2 DEF l
  <2>8. QED
    BY <1>2, <1>3, <1>4, <2>5, <2>6, <2>7 DEF d
<1>7. QED
  BY <1>5, <1>6

LEMMA EmptyRecorded ==
  ASSUME NEW b, b = <<>> \/ b = Magic PROVE Recorded(<<>>, b)
<1> DEFINE bs == <<>>
<1>1. bs \in Seq(BlockType) /\ Len(bs) = 0 /\ bs = <<>> /\ b \in Seq(Byte)
  <2>1. bs \in Seq(BlockType) /\ Len(bs) = 0
    OBVIOUS
  <2>2. Magic \in Seq(Byte) /\ <<>> \in Seq(Byte)
    BY FormatAssumption
  <2>3. QED
    BY <2>1, <2>2
<1> HIDE DEF bs
<1>2. Laid(bs, b) /\ Begun(bs, b) /\ \A i \in 1 .. Len(bs) : Holds(b, bs[i])
  BY <1>1 DEF Laid, Begun
<1>3. QED
  BY <1>1, <1>2 DEF Recorded, bs

LEMMA SynthRecorded ==
  ASSUME NEW p \in Synthetic, NEW b, b = synth_file(p)
  PROVE  Recorded(<<Block("framed", Len(Magic), Len(b) - Len(Magic), <<>>)>>, b)
<1> DEFINE h == <<Marker, 1, 2>>
           s == SizeBytes(Len(p))
           f == SynthFrame(p)
<1>1. Magic \in Seq(Byte) /\ h \in Seq(Byte) /\ s \in Seq(Byte) /\ p \in Seq(Byte)
  <2>1. p \in Seq(Byte) /\ Len(p) \in Nat
    BY ContentAssumption
  <2>2. QED
    BY <2>1, FormatAssumption, Bytes, SizeBytesType
<1>2. b = Magic \o h \o s \o p /\ f = h \o s \o p
  BY DEF synth_file, SynthFrame
<1>3. HasHead(f, Len(p)) /\ f \in Seq(Byte) /\ f # <<>>
  <2>1. HasHead(f, Len(p))
    BY SynthHead
  <2>2. f \in Seq(Byte) /\ Len(p) \in Nat \ {0} /\ Len(f) = HeadLen(Len(p)) + Len(p)
    BY <2>1 DEF HasHead
  <2>3. HeadLen(Len(p)) \in Nat
    BY <2>2, HeadLenType
  <2> HIDE DEF f
  <2>4. QED
    BY <2>1, <2>2, <2>3
<1> HIDE DEF h, s, f
<1>4. b = Magic \o f
  <2>1. h \o s \in Seq(Byte)
    BY <1>1
  <2>2. (Magic \o h) \o s = Magic \o (h \o s)
    BY <1>1, Associative
  <2> DEFINE g == h \o s
  <2> HIDE DEF g
  <2>3. (Magic \o g) \o p = Magic \o (g \o p)
    <3>1. Magic \in Seq(Byte) /\ g \in Seq(Byte) /\ p \in Seq(Byte)
      BY <1>1, <2>1 DEF g
    <3>2. QED
      BY <3>1, Associative
  <2>4. QED
    BY <1>2, <2>2, <2>3 DEF g
<1> DEFINE block == Block("framed", Len(Magic), Len(b) - Len(Magic), <<>>)
<1>5. Len(b) - Len(Magic) = Len(f) /\ Len(f) \in Nat \ {0} /\ Len(Magic) \in Nat
  <2>1. Joined(b, Magic, f) /\ b \in Seq(Byte)
    BY <1>1, <1>3, <1>4, Concatenation
  <2>2. QED
    BY <1>1, <1>3, <2>1 DEF Joined
<1>6. /\ block \in BlockType /\ block.at = Len(Magic) /\ block.len = Len(f)
      /\ block.kind = "framed"
  BY <1>5 DEF Block, BlockType, Kinds
<1> HIDE DEF block
<1>7. Lies(b, Len(Magic), f)
  BY <1>1, <1>3, <1>4, AppendedLies
<1>8. Holds(b, block)
  <2>1. IsFramed(b, block)
    BY <1>6, <1>7 DEF IsFramed, f
  <2>2. QED
    BY <1>6, <2>1 DEF Holds
<1>9. Recorded(Append(<<>>, block), Magic \o f)
  <2> DEFINE bs == <<>>
  <2>1. Recorded(bs, Magic)
    BY EmptyRecorded
  <2>2. Magic # <<>>
    BY FormatAssumption
  <2> HIDE DEF bs
  <2>3. Recorded(Append(bs, block), Magic \o f)
    BY <1>3, <1>4, <1>6, <1>8, <2>1, <2>2, AppendRecorded
  <2>4. QED
    BY <2>3 DEF bs
<1>10. Append(<<>>, block) = <<block>>
  OBVIOUS
<1>11. QED
  BY <1>4, <1>9, <1>10 DEF block

LEMMA InitSafe == Init => SafeInv
<1>1. SUFFICES ASSUME Init PROVE SafeInv
  OBVIOUS
<1>2. Recorded(blocks, bytes)
  <2>1. CASE bytes = <<>> /\ blocks = <<>>
    BY <2>1, EmptyRecorded
  <2>2. CASE bytes \in Strangers /\ blocks = <<Block("foreign", 0, Len(bytes), <<>>)>>
    <3>1. bytes \in Seq(Byte) /\ bytes # <<>>
      BY <2>2, ContentAssumption
    <3>2. QED
      BY <2>2, <3>1, ForeignRecorded
  <2>3. ASSUME NEW p \in Synthetic, bytes = synth_file(p),
               blocks = <<Block("framed", Len(Magic), Len(bytes) - Len(Magic), <<>>)>>
        PROVE  Recorded(blocks, bytes)
    BY <2>3, SynthRecorded
  <2>4. QED
    BY <1>1, <2>1, <2>2, <2>3 DEF Init
<1>3. Rest
  <2>1. flight = <<>> /\ verified = FALSE /\ timeouts = 0 /\ check = [c \in Checks |-> Idle]
    BY <1>1 DEF Init
  <2>2. Idle \in CheckType
    BY DEF Idle, CheckType, None
  <2>3. 0 \in 0 .. MaxTimeouts
    BY FormatAssumption
  <2>4. check \in [Checks -> CheckType]
    BY <2>1, <2>2
  <2>5. <<>> \in Seq(Stuck)
    OBVIOUS
  <2>6. QED
    BY <2>1, <2>3, <2>4, <2>5, Zenon DEF Rest
<1>4. \A c \in Checks : ~Checking(c)
  BY <1>1 DEF Init, Checking, Idle
<1>5. "current" \in Checks
  BY DEF Checks
<1>6. QED
  BY <1>2, <1>3, <1>4, <1>5 DEF SafeInv, CutsInRange, CutBehindFrames

(* No block of cs is new, a stale one excepted. *)
NoneNew(bs, cs) ==
  \A i \in 1 .. Len(cs) : cs[i].kind = "stale" \/ (i \in 1 .. Len(bs) /\ cs[i] = bs[i])

LEMMA FramedBefore ==
  ASSUME NEW bs \in Seq(BlockType), NEW cs \in Seq(BlockType), NoneNew(bs, cs),
         NEW i \in 1 .. Len(cs), AllFramed(cs, i)
  PROVE  i \in 1 .. Len(bs) /\ cs[i] = bs[i] /\ AllFramed(bs, i)
<1>1. ASSUME NEW j \in 1 .. i PROVE j \in 1 .. Len(bs) /\ cs[j] = bs[j]
  <2>1. j \in 1 .. Len(cs) /\ cs[j].kind # "stale"
    BY DEF AllFramed, IsFrame
  <2>2. QED
    BY <2>1 DEF NoneNew
<1>2. i \in 1 .. i
  OBVIOUS
<1>3. QED
  BY <1>1, <1>2 DEF AllFramed

LEMMA StaleIsNoneNew ==
  ASSUME NEW bs \in Seq(BlockType), NEW at, NEW len, NEW text,
         Block("stale", at, len, text) \in BlockType
  PROVE  NoneNew(bs, Append(bs, Block("stale", at, len, text)))
<1> DEFINE block == Block("stale", at, len, text)
           cs == Append(bs, block)
<1>1. block.kind = "stale"
  BY DEF Block
<1> HIDE DEF block
<1>2. /\ Len(cs) = Len(bs) + 1 /\ cs[Len(bs) + 1] = block /\ Len(bs) \in Nat
      /\ \A i \in 1 .. Len(bs) : cs[i] = bs[i]
  OBVIOUS
<1> HIDE DEF cs
<1>3. ASSUME NEW i \in 1 .. Len(cs)
      PROVE cs[i].kind = "stale" \/ (i \in 1 .. Len(bs) /\ cs[i] = bs[i])
  <2>1. i = Len(bs) + 1 \/ i \in 1 .. Len(bs)
    BY <1>2
  <2>2. QED
    BY <1>1, <1>2, <2>1
<1>4. QED
  BY <1>3 DEF NoneNew, cs, block

LEMMA CutNoneNew ==
  ASSUME NEW b, NEW bs, Recorded(bs, b), NEW n \in Nat
  PROVE  NoneNew(bs, CutOf(bs, n)) /\ Len(CutOf(bs, n)) \in 0 .. Len(bs)
<1> DEFINE cs == CutOf(bs, n)
<1>1. bs \in Seq(BlockType) /\ Len(bs) \in Nat
  BY DEF Recorded
<1>2. PICK k \in 0 .. Len(bs) : IsCut(cs, bs, n, k)
  BY CutOfIs
<1> HIDE DEF cs
<1>3. ASSUME NEW i \in 1 .. Len(cs)
      PROVE  cs[i].kind = "stale" \/ (i \in 1 .. Len(bs) /\ cs[i] = bs[i])
  <2>1. Len(cs) = k /\ i \in 1 .. k /\ i \in 1 .. Len(bs)
    BY <1>1, <1>2 DEF IsCut
  <2>2. cs[i] = IF bs[i].at + bs[i].len <= n THEN bs[i]
                ELSE Block("stale", bs[i].at, n - bs[i].at, <<>>)
    BY <1>2, <2>1 DEF IsCut
  <2>3. QED
    BY <2>1, <2>2 DEF Block
<1>4. NoneNew(bs, cs) /\ Len(cs) \in 0 .. Len(bs)
  BY <1>2, <1>3 DEF NoneNew, IsCut
<1>5. QED
  BY <1>4 DEF cs

LEMMA SetLenNoneNew ==
  ASSUME Recorded(blocks, bytes), NEW cut \in Nat,
         blocks' = IF cut <= Len(bytes) THEN CutBlocks(cut)
                   ELSE Append(blocks, Block("stale", Len(bytes), cut - Len(bytes), <<>>))
  PROVE  NoneNew(blocks, blocks')
<1>1. blocks \in Seq(BlockType) /\ bytes \in Seq(Byte) /\ Len(bytes) \in Nat
  BY DEF Recorded
<1>2. CASE cut <= Len(bytes)
  <2>1. blocks' = CutOf(blocks, cut)
    BY <1>2 DEF CutBlocks, CutOf
  <2>2. QED
    BY <2>1, CutNoneNew
<1>3. CASE ~(cut <= Len(bytes))
  <2>1. cut - Len(bytes) \in Nat \ {0}
    BY <1>1, <1>3
  <2>2. Block("stale", Len(bytes), cut - Len(bytes), <<>>) \in BlockType
    BY <1>1, <2>1 DEF Block, BlockType, Kinds
  <2>3. QED
    BY <1>1, <1>3, <2>2, StaleIsNoneNew
<1>4. QED
  BY <1>2, <1>3

(***************************************************************************)
(* What lands late                                                         *)
(***************************************************************************)

(* The first broken block, if it is a frame torn behind whole ones. *)
TornAt(bs, i) == i \in 1 .. Len(bs) /\ AllFramed(bs, i - 1) /\ bs[i].kind = "torn"

(* No block is new, a stale one excepted, and a torn one is not the last. *)
Follows(bs, cs) ==
  /\ NoneNew(bs, cs)
  /\ \A i \in 1 .. Len(cs) : cs[i].kind = "torn" => i < Len(bs) /\ i < Len(cs)

(* The frames a file starts with stay there. *)
KeepsFramed(bs, cs) ==
  \A i \in 1 .. Len(bs) : AllFramed(bs, i) => i \in 1 .. Len(cs) /\ cs[i] = bs[i]

(* Stale bytes make a block of their own, or spoil the broken one they follow. *)
IsWithStale(bs, cs) ==
  /\ bs \in Seq(BlockType) /\ cs \in Seq(BlockType) /\ Len(bs) \in Nat /\ Len(cs) \in Nat \ {0}
  /\ cs[Len(cs)].kind = "stale"
  /\ \A i \in 1 .. Len(cs) - 1 :
       i \in 1 .. Len(bs) /\ cs[i] = bs[i] /\ (bs[i].kind = "torn" => i < Len(bs))
  /\ \A i \in 1 .. Len(bs) : bs[i].kind \notin {"torn", "stale"} => i \in 1 .. Len(cs) - 1

LEMMA WithStaleIs ==
  ASSUME NEW b, NEW bs, Recorded(bs, b), NEW x \in Seq(Byte), x # <<>>
  PROVE  /\ Recorded(WithStale(bs, Len(b), Len(x)), b \o x)
         /\ IsWithStale(bs, WithStale(bs, Len(b), Len(x)))
<1> DEFINE cs == WithStale(bs, Len(b), Len(x))
<1>1. bs \in Seq(BlockType) /\ Len(bs) \in Nat /\ Last(bs) = bs[Len(bs)]
  BY DEF Recorded, Last
<1>2. CASE bs # <<>> /\ Last(bs).kind \in {"torn", "stale"}
  <2> DEFINE ds == [bs EXCEPT ![Len(bs)] = Block("stale", @.at, @.len + Len(x), <<>>)]
  <2>1. cs = ds
    BY <1>2 DEF WithStale
  <2>2. /\ Recorded(ds, b \o x) /\ Len(ds) = Len(bs) /\ ds[Len(bs)].kind = "stale"
        /\ \A i \in 1 .. Len(bs) - 1 : ds[i] = bs[i]
    BY <1>2, MergeRecorded
  <2> HIDE DEF ds, cs
  <2>3. Recorded(cs, b \o x) /\ cs \in Seq(BlockType)
    BY <2>1, <2>2 DEF Recorded
  <2>4. Len(bs) \in Nat \ {0}
    BY <1>1, <1>2
  <2>5. ASSUME NEW i \in 1 .. Len(bs), bs[i].kind \notin {"torn", "stale"}
        PROVE  i \in 1 .. Len(bs) - 1
    <3>1. i # Len(bs)
      BY <1>1, <1>2, <2>5
    <3>2. QED
      BY <1>1, <3>1
  <2>6. IsWithStale(bs, cs)
    BY <1>1, <2>1, <2>2, <2>3, <2>4, <2>5 DEF IsWithStale
  <2>7. QED
    BY <2>3, <2>6 DEF cs
<1>3. CASE ~(bs # <<>> /\ Last(bs).kind \in {"torn", "stale"})
  <2> DEFINE block == Block("stale", Len(b), Len(x), <<>>)
  <2>1. cs = Append(bs, block)
    BY <1>3 DEF WithStale
  <2>2. Recorded(Append(bs, block), b \o x)
    BY StaleRecorded
  <2>3. block.kind = "stale"
    BY DEF Block
  <2> HIDE DEF block, cs
  <2>4. Recorded(cs, b \o x) /\ cs \in Seq(BlockType)
    BY <2>1, <2>2 DEF Recorded
  <2>5. /\ Len(cs) = Len(bs) + 1 /\ cs[Len(bs) + 1] = block
        /\ \A i \in 1 .. Len(bs) : cs[i] = bs[i]
    BY <1>1, <2>1
  <2>6. ASSUME NEW i \in 1 .. Len(bs), bs[i].kind = "torn" PROVE i < Len(bs)
    <3>1. i # Len(bs)
      BY <1>1, <1>3, <2>6
    <3>2. QED
      BY <1>1, <3>1
  <2>7. Len(cs) \in Nat \ {0} /\ Len(cs) - 1 = Len(bs)
    BY <1>1, <2>5
  <2>8. IsWithStale(bs, cs)
    BY <1>1, <2>3, <2>4, <2>5, <2>6, <2>7 DEF IsWithStale
  <2>9. QED
    BY <2>4, <2>8 DEF cs
<1>4. QED
  BY <1>2, <1>3

LEMMA LateAppendIs ==
  ASSUME Recorded(blocks, bytes), NEW data \in Seq(Byte), data # <<>>, LateAppend(data)
  PROVE  /\ Recorded(blocks', bytes') /\ Follows(blocks, blocks') /\ KeepsFramed(blocks, blocks')
         /\ bytes' = bytes \o data
<1>1. bytes' = bytes \o data /\ blocks' = WithStale(blocks, Len(bytes), Len(data))
  BY DEF LateAppend
<1>2. Recorded(blocks', bytes') /\ IsWithStale(blocks, blocks')
  BY <1>1, WithStaleIs
<1>3. ASSUME NEW i \in 1 .. Len(blocks')
      PROVE  \/ i = Len(blocks') /\ blocks'[i].kind = "stale"
             \/ i \in 1 .. Len(blocks') - 1 /\ i < Len(blocks')
  BY <1>2 DEF IsWithStale
<1>4. Follows(blocks, blocks')
  BY <1>2, <1>3 DEF Follows, NoneNew, IsWithStale
<1>5. ASSUME NEW i \in 1 .. Len(blocks), AllFramed(blocks, i)
      PROVE  i \in 1 .. Len(blocks') /\ blocks'[i] = blocks[i]
  <2>1. i \in 1 .. i
    OBVIOUS
  <2>2. blocks[i].kind \notin {"torn", "stale"}
    BY <1>5, <2>1 DEF AllFramed, IsFrame
  <2>3. i \in 1 .. Len(blocks') - 1 /\ Len(blocks') \in Nat
    BY <1>2, <2>2 DEF IsWithStale
  <2>4. i \in 1 .. Len(blocks')
    BY <2>3
  <2>5. QED
    BY <1>2, <2>3, <2>4 DEF IsWithStale
<1>6. QED
  BY <1>1, <1>2, <1>4, <1>5 DEF KeepsFramed

LEMMA LateCreateIs ==
  ASSUME LateCreate PROVE Recorded(blocks', bytes') /\ Follows(blocks, blocks')
<1>1. blocks' = <<>> /\ bytes' = <<>>
  BY DEF LateCreate
<1>2. Len(blocks') = 0
  BY <1>1
<1>3. QED
  BY <1>1, <1>2, EmptyRecorded DEF Follows, NoneNew

LEMMA LateMagicIs ==
  ASSUME Recorded(blocks, bytes), LateMagic
  PROVE  /\ Recorded(blocks', bytes') /\ KeepsFramed(blocks, blocks')
         /\ \/ HasMagic(bytes) /\ bytes' = bytes /\ blocks' = blocks
            \/ ~HasMagic(bytes) /\ Follows(blocks, blocks')
<1>1. CASE HasMagic(bytes)
  BY <1>1 DEF LateMagic, KeepsFramed
<1>2. CASE ~HasMagic(bytes)
  <2> DEFINE rest == SubSeq(bytes, Len(Magic) + 1, Len(bytes))
             none == <<>>
  <2>1. /\ bytes' = Magic \o rest
        /\ blocks' = IF rest = <<>> THEN <<>>
                     ELSE <<Block("stale", Len(Magic), Len(rest), <<>>)>>
    BY <1>2 DEF LateMagic
  <2>2. rest \in Seq(Byte) /\ Magic \in Seq(Byte)
    BY FormatAssumption DEF Recorded
  <2> HIDE DEF rest
  <2>3. Recorded(none, Magic) /\ Len(none) = 0
    BY EmptyRecorded
  <2>4. KeepsFramed(blocks, blocks')
    BY <1>2, FramesWalked DEF KeepsFramed
  <2>5. CASE rest = <<>>
    <3>1. bytes' = Magic /\ blocks' = none
      BY <2>1, <2>2, <2>5
    <3> HIDE DEF none
    <3>2. QED
      BY <1>2, <2>3, <2>4, <3>1 DEF Follows, NoneNew
  <2>6. CASE rest # <<>>
    <3> DEFINE block == Block("stale", Len(Magic), Len(rest), <<>>)
    <3>1. Append(none, block) = <<block>>
      OBVIOUS
    <3> HIDE DEF none
    <3>2. Recorded(Append(none, block), Magic \o rest)
      BY <2>2, <2>3, <2>6, StaleRecorded
    <3>3. block.kind = "stale"
      BY DEF Block
    <3> HIDE DEF block
    <3>4. blocks' = <<block>>
      BY <2>1, <2>6 DEF block
    <3>5. \A i \in 1 .. Len(blocks') : blocks'[i].kind = "stale"
      BY <3>3, <3>4
    <3>6. Follows(blocks, blocks')
      BY <3>5 DEF Follows, NoneNew
    <3>7. QED
      BY <1>2, <2>1, <2>4, <3>1, <3>2, <3>4, <3>6
  <2>7. QED
    BY <2>5, <2>6
<1>3. QED
  BY <1>1, <1>2

LEMMA MaxIs ==
  ASSUME NEW m \in Nat, NEW n \in Nat
  PROVE  /\ Max({m, n}) \in {m, n} /\ m <= Max({m, n}) /\ n <= Max({m, n})
         /\ Min({m, n}) \in {m, n} /\ Min({m, n}) <= m /\ Min({m, n}) <= n
<1>1. \E x \in {m, n} : \A y \in {m, n} : x >= y
  <2>1. m >= n \/ n >= m
    OBVIOUS
  <2>2. QED
    BY <2>1
<1>2. Max({m, n}) \in {m, n} /\ \A y \in {m, n} : Max({m, n}) >= y
  BY <1>1 DEF Max
<1>3. Min({m, n}) \in {m, n} /\ \A y \in {m, n} : Min({m, n}) <= y
  BY MinIs
<1>4. Max({m, n}) \in Nat /\ Max({m, n}) >= m /\ Max({m, n}) >= n
  BY <1>2
<1>5. QED
  BY <1>2, <1>3, <1>4

(* A sequence is its first n elements and the others behind them. *)
LEMMA SplitAt ==
  ASSUME NEW S, NEW b \in Seq(S), NEW n \in 0 .. Len(b)
  PROVE  LET c == [i \in 1 .. n |-> b[i]]
             x == [i \in 1 .. Len(b) - n |-> b[n + i]]
         IN  /\ c \in Seq(S) /\ Len(c) = n /\ x \in Seq(S) /\ Len(x) = Len(b) - n
             /\ \A i \in 1 .. n : c[i] = b[i]
             /\ b = c \o x
<1> DEFINE c == [i \in 1 .. n |-> b[i]]
           x == [i \in 1 .. Len(b) - n |-> b[n + i]]
           d == c \o x
<1>1. Len(b) \in Nat /\ n \in Nat /\ Len(b) - n \in Nat
  OBVIOUS
<1>2. c \in Seq(S) /\ Len(c) = n /\ \A i \in 1 .. n : c[i] = b[i]
  BY <1>1
<1>3. x \in Seq(S) /\ Len(x) = Len(b) - n /\ \A i \in 1 .. Len(b) - n : x[i] = b[n + i]
  BY <1>1
<1> HIDE DEF c, x
<1>4. d \in Seq(S) /\ Joined(d, c, x)
  BY <1>2, <1>3, Concatenation
<1> HIDE DEF d
<1>5. Len(d) = Len(b)
  BY <1>1, <1>2, <1>3, <1>4 DEF Joined
<1>6. ASSUME NEW i \in 1 .. Len(b) PROVE b[i] = d[i]
  <2>1. CASE i \in 1 .. n
    BY <1>2, <1>4, <2>1 DEF Joined
  <2>2. CASE i \notin 1 .. n
    <3> DEFINE j == i - n
    <3>1. j \in 1 .. Len(b) - n /\ n + j = i
      BY <1>1, <2>2
    <3> HIDE DEF j
    <3>2. d[n + j] = x[j] /\ x[j] = b[n + j]
      BY <1>2, <1>3, <1>4, <3>1 DEF Joined
    <3>3. QED
      BY <3>1, <3>2
  <2>3. QED
    BY <2>1, <2>2
<1>7. b = d
  <2>1. Len(b) = Len(d) /\ \A i \in 1 .. Len(b) : b[i] = d[i]
    BY <1>5, <1>6
  <2>2. QED
    BY ONLY <1>4, <2>1, b \in Seq(S), SeqEqual
<1>8. QED
  BY <1>2, <1>3, <1>7 DEF c, x, d

LEMMA LateOverwriteIs ==
  ASSUME Recorded(blocks, bytes), NEW at \in Nat, Len(Magic) <= at,
         NEW data \in Seq(Byte), data # <<>>, LateOverwrite(at, data)
  PROVE  Recorded(blocks', bytes') /\ Follows(blocks, blocks')
<1> DEFINE from == Min({at, Len(bytes)})
           len  == Max({Len(bytes), at + Len(data)})
           kept == IF at <= Len(bytes) THEN CutBlocks(at) ELSE blocks
           b    == [i \in 1 .. len |->
                      IF i \in at + 1 .. at + Len(data) THEN data[i - at]
                      ELSE IF i <= Len(bytes) THEN bytes[i] ELSE 0]
           c    == [i \in 1 .. from |-> b[i]]
           x    == [i \in 1 .. Len(b) - from |-> b[from + i]]
<1>1. bytes' = b /\ blocks' = WithStale(kept, from, len - from)
  BY DEF LateOverwrite
<1>2. /\ bytes \in Seq(Byte) /\ Len(bytes) \in Nat /\ Len(data) \in Nat \ {0} /\ 0 \in Byte
      /\ blocks \in Seq(BlockType) /\ Len(blocks) \in Nat
  <2>1. bytes \in Seq(Byte) /\ blocks \in Seq(BlockType)
    BY DEF Recorded
  <2>2. 0 \in Byte
    BY Bytes
  <2>3. Len(bytes) \in Nat /\ Len(blocks) \in Nat /\ Len(data) \in Nat \ {0}
    BY <2>1
  <2>4. QED
    BY <2>1, <2>2, <2>3
<1>3. /\ from \in {at, Len(bytes)} /\ from <= at /\ from <= Len(bytes)
      /\ len \in {Len(bytes), at + Len(data)} /\ Len(bytes) <= len /\ at + Len(data) <= len
  <2>1. at + Len(data) \in Nat
    BY <1>2
  <2>2. QED
    BY <1>2, <2>1, MaxIs
<1>4. from \in Nat /\ len \in Nat /\ from < len /\ from \in 0 .. len
  BY <1>2, <1>3
<1> HIDE DEF from, len
<1>5. b \in Seq(Byte) /\ Len(b) = len /\ \A i \in 1 .. from : b[i] = bytes[i]
  <2>1. ASSUME NEW i \in 1 .. len
        PROVE  (IF i \in at + 1 .. at + Len(data) THEN data[i - at]
                ELSE IF i <= Len(bytes) THEN bytes[i] ELSE 0) \in Byte
    <3>1. i \in at + 1 .. at + Len(data) => i - at \in 1 .. Len(data)
      BY <1>2, <1>4
    <3>2. i <= Len(bytes) => i \in 1 .. Len(bytes)
      BY <1>2, <1>4
    <3>3. QED
      BY <1>2, <3>1, <3>2
  <2>2. ASSUME NEW i \in 1 .. from
        PROVE  i \in 1 .. len /\ i \notin at + 1 .. at + Len(data) /\ i <= Len(bytes)
    BY <1>2, <1>3, <1>4
  <2>3. QED
    BY <1>4, <2>1, <2>2
<1> HIDE DEF b
<1>6. /\ c \in Seq(Byte) /\ Len(c) = from /\ x \in Seq(Byte) /\ Len(x) = len - from
      /\ \A i \in 1 .. from : c[i] = b[i]
      /\ b = c \o x
  BY <1>4, <1>5, SplitAt
<1> HIDE DEF c, x
<1>7. x # <<>>
  <2>1. Len(x) > 0
    BY <1>4, <1>6
  <2>2. QED
    BY <2>1
<1>8. \A i \in 1 .. from : c[i] = bytes[i]
  BY <1>5, <1>6
<1>9. Recorded(kept, c) /\ NoneNew(blocks, kept) /\ Len(kept) \in 0 .. Len(blocks)
  <2>1. CASE at <= Len(bytes)
    <3>1. from = at
      BY <1>2, <1>3, <2>1
    <3>2. kept = CutOf(blocks, at)
      BY <2>1 DEF CutBlocks, CutOf
    <3>3. Recorded(CutOf(blocks, at), c)
      <4>1. at <= Len(bytes) /\ Len(c) = at /\ \A i \in 1 .. at : c[i] = bytes[i]
        BY <1>6, <1>8, <2>1, <3>1
      <4>2. c \in Seq(Byte)
        BY <1>6
      <4> HIDE DEF from
      <4>3. QED
        BY ONLY <4>1, <4>2, CutRecorded, Recorded(blocks, bytes), at \in Nat, Len(Magic) <= at
    <3>4. QED
      BY <3>2, <3>3, CutNoneNew
  <2>2. CASE ~(at <= Len(bytes))
    <3>1. from = Len(bytes) /\ kept = blocks
      BY <1>2, <1>3, <2>2
    <3>2. c = bytes
      <4>1. Len(c) = Len(bytes) /\ \A i \in 1 .. Len(c) : c[i] = bytes[i]
        BY <1>6, <1>8, <3>1
      <4>2. c \in Seq(Byte) /\ bytes \in Seq(Byte)
        BY <1>2, <1>6
      <4>3. QED
        BY ONLY <4>1, <4>2, SeqEqual
    <3>3. NoneNew(blocks, blocks) /\ Len(blocks) \in 0 .. Len(blocks)
      BY <1>2 DEF NoneNew
    <3>4. QED
      BY <3>1, <3>2, <3>3
  <2>3. QED
    BY <2>1, <2>2
<1> HIDE DEF kept
<1>10. blocks' = WithStale(kept, Len(c), Len(x)) /\ bytes' = c \o x
  BY <1>1, <1>6
<1>11. Recorded(blocks', bytes') /\ IsWithStale(kept, blocks')
  BY <1>6, <1>7, <1>9, <1>10, WithStaleIs
<1>12. ASSUME NEW i \in 1 .. Len(blocks'), blocks'[i].kind # "stale"
       PROVE  /\ i < Len(blocks') /\ i \in 1 .. Len(blocks) /\ blocks'[i] = blocks[i]
              /\ blocks'[i].kind = "torn" => i < Len(blocks)
  <2>1. i \in 1 .. Len(blocks') - 1 /\ i < Len(blocks')
    BY <1>11, <1>12 DEF IsWithStale
  <2>2. i \in 1 .. Len(kept) /\ blocks'[i] = kept[i] /\ (kept[i].kind = "torn" => i < Len(kept))
    BY <1>11, <2>1 DEF IsWithStale
  <2>3. i \in 1 .. Len(blocks) /\ kept[i] = blocks[i]
    BY <1>9, <1>12, <2>2 DEF NoneNew
  <2>4. i < Len(kept) => i < Len(blocks)
    BY <1>2, <1>9, <2>2
  <2>5. QED
    BY <2>1, <2>2, <2>3, <2>4
<1>13. QED
  BY <1>11, <1>12 DEF Follows, NoneNew

LEMMA LateWriteIs ==
  ASSUME SafeInv, LateWrite
  PROVE  /\ flight' \in Seq(Stuck) /\ verified' = verified /\ check' = check /\ timeouts' = timeouts
         /\ Recorded(blocks', bytes')
         /\ (bytes' = bytes /\ blocks' = blocks) \/ Follows(blocks, blocks')
         /\ KeepsFramed(blocks, blocks') \/ LandsInPlace
<1>1. PICK i \in DOMAIN flight :
        LET w == flight[i]
        IN  /\ flight' = RemoveAt(flight, i)
            /\ \/ w.op = "create" /\ LateCreate
               \/ w.op = "magic"  /\ LateMagic
               \/ w.op = "write"  /\ LateOverwrite(w.at, w.data)
               \/ w.op = "append" /\ LateAppend(w.data)
  BY DEF LateWrite
<1>2. /\ Recorded(blocks, bytes) /\ flight \in Seq(Stuck)
      /\ verified' = verified /\ check' = check /\ timeouts' = timeouts
  BY DEF SafeInv, Rest, LateWrite
<1> DEFINE w == flight[i]
<1>3. w \in Stuck /\ flight' \in Seq(Stuck)
  BY <1>1, <1>2, FlightShrinks
<1>4. InPlace(w) => LandsInPlace
  BY <1>1 DEF LandsInPlace
<1>5. /\ w.at \in Nat /\ w.data \in Seq(Byte)
      /\ w.op = "write" => Len(Magic) <= w.at
      /\ w.op \in {"write", "append"} => w.data # <<>>
  BY <1>3, StuckFields
<1>6. \/ w.op = "create" /\ LateCreate
      \/ w.op = "magic"  /\ LateMagic
      \/ w.op = "write"  /\ LateOverwrite(w.at, w.data)
      \/ w.op = "append" /\ LateAppend(w.data)
  BY <1>1
<1> HIDE DEF w
<1>7. CASE w.op = "create" /\ LateCreate
  BY <1>2, <1>3, <1>4, <1>7, LateCreateIs DEF InPlace
<1>8. CASE w.op = "magic" /\ LateMagic
  BY <1>2, <1>3, <1>8, LateMagicIs
<1>9. CASE w.op = "write" /\ LateOverwrite(w.at, w.data)
  BY <1>2, <1>3, <1>4, <1>5, <1>9, LateOverwriteIs DEF InPlace
<1>10. CASE w.op = "append" /\ LateAppend(w.data)
  BY <1>2, <1>3, <1>5, <1>10, LateAppendIs
<1>11. QED
  BY <1>6, <1>7, <1>8, <1>9, <1>10

LEMMA PcChanged ==
  ASSUME NEW r \in CheckType, NEW p \in {"idle", "found", "cutting", "ready"}
  PROVE  LET s == [r EXCEPT !.pc = p]
         IN  s \in CheckType /\ s.pc = p /\ s.len = r.len /\ s.cut = r.cut
BY DEF CheckType

LEMMA CheckFields ==
  ASSUME NEW r \in CheckType
  PROVE  r.pc \in {"idle", "found", "cutting", "ready"} /\ r.len \in Nat /\ r.cut \in Int
BY DEF CheckType

LEMMA NewCheck ==
  ASSUME NEW p \in {"idle", "found", "cutting", "ready"}, NEW len \in Nat, NEW cut \in Int
  PROVE  LET r == [pc |-> p, len |-> len, cut |-> cut]
         IN  r \in CheckType /\ r.pc = p /\ r.len = len /\ r.cut = cut
BY DEF CheckType

LEMMA IdleCheck == Idle \in CheckType /\ Idle.pc = "idle"
BY DEF Idle, CheckType, None

LEMMA EndedIs ==
  ASSUME Rest, NEW c \in Checks
  PROVE  /\ Ended(c) \in CheckType /\ Ended(c).pc \in {"idle", "ready"}
         /\ c = "current" => Ended(c).pc = "ready"
         /\ c # "current" => Ended(c) = Idle
<1>1. check[c] \in CheckType
  BY DEF Rest
<1>2. CASE c = "current"
  <2>1. Ended(c) = [check[c] EXCEPT !.pc = "ready"]
    BY <1>2 DEF Ended
  <2> DEFINE s == [check[c] EXCEPT !.pc = "ready"]
  <2>2. s \in CheckType /\ s.pc = "ready"
    BY <1>1, PcChanged
  <2> HIDE DEF s
  <2>3. Ended(c) \in CheckType /\ Ended(c).pc = "ready"
    BY <2>1, <2>2 DEF s
  <2>4. QED
    BY <1>2, <2>3
<1>3. CASE c # "current"
  BY <1>3, IdleCheck DEF Ended
<1>4. QED
  BY <1>2, <1>3

(* What the actions do to the checks: a step starts one, ends it, or leaves
   it with what it found. *)
Goes(c, d) ==
  /\ check'[d].len = check[c].len /\ check'[d].cut = check[c].cut
  /\ check[c].pc = "cutting" => check'[d].pc = "cutting"

LEMMA RecheckChecks ==
  ASSUME Rest, NEW c \in Checks, Recheck(c)
  PROVE  /\ check' \in [Checks -> CheckType]
         /\ \A d \in Checks : check'[d].pc \in {"found", "cutting"} => Checking(d) /\ Goes(d, d)
         /\ \A d \in Checks \ {c} : check'[d] = check[d]
         /\ check[c].pc = "found" /\ check'[c].pc # "found"
         /\ check'[c].pc = "cutting" => Len(bytes) = check[c].len
         /\ check'[c].pc \in {"ready", "idle"} => Len(bytes) # check[c].len
<1>1. /\ check \in [Checks -> CheckType] /\ check[c].pc = "found"
      /\ check' = [check EXCEPT ![c] = IF Len(bytes) # check[c].len THEN Ended(c)
                                       ELSE [@ EXCEPT !.pc = "cutting"]]
  BY DEF Rest, Recheck
<1> DEFINE r == IF Len(bytes) # check[c].len THEN Ended(c) ELSE [check[c] EXCEPT !.pc = "cutting"]
<1>2. check[c] \in CheckType
  BY <1>1
<1>3. CASE Len(bytes) # check[c].len
  <2>1. r = Ended(c)
    BY <1>3
  <2> HIDE DEF r
  <2>2. r \in CheckType /\ r.pc \in {"idle", "ready"}
    BY <2>1, EndedIs
  <2>3. check' = [check EXCEPT ![c] = r]
    BY <1>1 DEF r
  <2>4. check' \in [Checks -> CheckType] /\ check'[c] = r /\ \A d \in Checks \ {c} : check'[d] = check[d]
    BY <1>1, <2>2, <2>3
  <2>5. QED
    BY <1>1, <1>3, <2>2, <2>4 DEF Goes, Checking
<1>4. CASE Len(bytes) = check[c].len
  <2>1. r = [check[c] EXCEPT !.pc = "cutting"]
    BY <1>4
  <2> HIDE DEF r
  <2>2. r \in CheckType /\ r.pc = "cutting" /\ r.len = check[c].len /\ r.cut = check[c].cut
    BY <1>2, <2>1, PcChanged
  <2>3. check' = [check EXCEPT ![c] = r]
    BY <1>1 DEF r
  <2>4. check' \in [Checks -> CheckType] /\ check'[c] = r /\ \A d \in Checks \ {c} : check'[d] = check[d]
    BY <1>1, <2>2, <2>3
  <2>5. QED
    BY <1>1, <1>4, <2>2, <2>4 DEF Goes, Checking
<1>5. QED
  BY <1>3, <1>4

LEMMA SetLenChecks ==
  ASSUME Rest, NEW c \in Checks, SetLen(c)
  PROVE  /\ check' \in [Checks -> CheckType]
         /\ \A d \in Checks : check'[d].pc \in {"found", "cutting"} => Checking(d) /\ Goes(d, d)
         /\ \A d \in Checks \ {c} : check'[d] = check[d]
         /\ check[c].pc = "cutting" /\ check'[c] = Ended(c)
         /\ check'[c].pc \in {"idle", "ready"} /\ check[c].cut \in Int
<1>1. /\ check \in [Checks -> CheckType] /\ check[c].pc = "cutting"
      /\ check' = [check EXCEPT ![c] = Ended(c)]
  BY DEF Rest, SetLen
<1>2. Ended(c) \in CheckType /\ Ended(c).pc \in {"idle", "ready"}
  BY EndedIs
<1>3. /\ check' \in [Checks -> CheckType] /\ check'[c] = Ended(c)
      /\ \A d \in Checks \ {c} : check'[d] = check[d]
  BY <1>1, <1>2
<1>4. check[c].cut \in Int
  BY <1>1, CheckFields
<1>5. QED
  BY <1>1, <1>2, <1>3, <1>4 DEF Goes, Checking

LEMMA OverChecks ==
  ASSUME Rest, NEW ok \in BOOLEAN, Over(ok)
  PROVE  /\ check' \in [Checks -> CheckType] /\ verified' \in BOOLEAN
         /\ check'["current"].pc = "idle" /\ check'["abandoned"] = check["abandoned"]
<1>1. check \in [Checks -> CheckType] /\ check' = [check EXCEPT !["current"] = Idle]
  BY DEF Rest, Over
<1>2. "current" \in Checks /\ "abandoned" \in Checks /\ "current" # "abandoned"
  BY DEF Checks
<1>3. QED
  BY <1>1, <1>2, IdleCheck DEF Over

LEMMA WalkChecks ==
  ASSUME Rest, bytes \in Seq(Byte), Walk
  PROVE  LET cut == truncated_frame_start(bytes)
             r   == check'["current"]
         IN  /\ check' \in [Checks -> CheckType] /\ check'["abandoned"] = check["abandoned"]
             /\ \/ r.pc = "ready" /\ (Len(bytes) > CheckMaxLen \/ cut = None)
                \/ r.pc = "found" /\ ~(Len(bytes) > CheckMaxLen) /\ cut # None
                   /\ r.len = Len(bytes) /\ r.cut = cut
<1> DEFINE cut == truncated_frame_start(bytes)
           ready == [pc |-> "ready", len |-> Len(bytes), cut |-> None]
           found == [pc |-> "found", len |-> Len(bytes), cut |-> cut]
           r == IF Len(bytes) > CheckMaxLen \/ cut = None THEN ready ELSE found
<1>1. check \in [Checks -> CheckType] /\ check' = [check EXCEPT !["current"] = r]
  BY DEF Rest, Walk
<1>2. "current" \in Checks /\ "abandoned" \in Checks /\ "current" # "abandoned"
  BY DEF Checks
<1>3. Len(bytes) \in Nat /\ None \in Int
  BY DEF None
<1>4. CASE Len(bytes) > CheckMaxLen \/ cut = None
  <2>1. ready \in CheckType /\ ready.pc = "ready"
    BY <1>3, NewCheck
  <2>2. r = ready
    BY <1>4
  <2> HIDE DEF r, ready
  <2>3. check' \in [Checks -> CheckType] /\ check'["current"] = ready
        /\ check'["abandoned"] = check["abandoned"]
    BY <1>1, <1>2, <2>1, <2>2
  <2>4. QED
    BY <1>4, <2>1, <2>3
<1>5. CASE ~(Len(bytes) > CheckMaxLen \/ cut = None)
  <2>1. cut \in Int
    <3>1. cut # None
      BY <1>5
    <3>2. cut \in Nat
      BY <3>1, CutInside
    <3>3. QED
      BY <3>2
  <2>2. found \in CheckType /\ found.pc = "found" /\ found.len = Len(bytes) /\ found.cut = cut
    <3> HIDE DEF cut
    <3>1. QED
      BY <1>3, <2>1, NewCheck
  <2>3. r = found
    BY <1>5
  <2> HIDE DEF r, found
  <2>4. check' \in [Checks -> CheckType] /\ check'["current"] = found
        /\ check'["abandoned"] = check["abandoned"]
    BY <1>1, <1>2, <2>2, <2>3
  <2>5. QED
    BY <1>5, <2>2, <2>4
<1>6. QED
  BY <1>4, <1>5

(* A step in which no check finds a cut keeps the cuts in range. *)
LEMMA RangeKept ==
  ASSUME CutsInRange,
         \A c \in Checks : check'[c].pc \in {"found", "cutting"} =>
           \E d \in Checks : Checking(d) /\ check'[c].len = check[d].len /\ check'[c].cut = check[d].cut
  PROVE  CutsInRange'
<1>1. SUFFICES ASSUME NEW c \in Checks, check'[c].pc \in {"found", "cutting"}
               PROVE  /\ Len(Magic) <= check'[c].cut /\ check'[c].cut < check'[c].len
                      /\ check'[c].len <= CheckMaxLen
  BY DEF CutsInRange, Checking
<1>2. PICK d \in Checks : Checking(d) /\ check'[c].len = check[d].len /\ check'[c].cut = check[d].cut
  BY <1>1
<1>3. /\ Len(Magic) <= check[d].cut /\ check[d].cut < check[d].len
      /\ check[d].len <= CheckMaxLen
  BY <1>2 DEF CutsInRange
<1>4. QED
  BY <1>2, <1>3

(* A step that brings no new frame, while the check of the running attempt
   goes on, keeps its cut behind the frames. *)
LEMMA BehindKept ==
  ASSUME CutBehindFrames, Checking("current"), Goes("current", "current"),
         blocks \in Seq(BlockType), blocks' \in Seq(BlockType), NoneNew(blocks, blocks'),
         verified' = verified
  PROVE  CutBehindFrames'
<1>1. ASSUME NEW i \in 1 .. Len(blocks'), AllFramed(blocks', i)
      PROVE  blocks'[i].at + blocks'[i].len <= check'["current"].cut
  <2>1. i \in 1 .. Len(blocks) /\ blocks'[i] = blocks[i] /\ AllFramed(blocks, i)
    BY <1>1, FramedBefore
  <2>2. blocks[i].at + blocks[i].len <= check["current"].cut
    BY <2>1 DEF CutBehindFrames
  <2>3. QED
    BY <2>1, <2>2 DEF Goes
<1>2. ~verified'
  BY DEF CutBehindFrames
<1>3. QED
  BY <1>1, <1>2 DEF CutBehindFrames

LEMMA NotChecking ==
  ASSUME check'["current"].pc \in {"idle", "ready"} PROVE CutBehindFrames'
BY DEF CutBehindFrames, Checking

LEMMA SafeWalk ==
  ASSUME SafeInv, Walk PROVE SafeInv'
<1> DEFINE cut == truncated_frame_start(bytes)
           r == check'["current"]
<1>1. /\ Recorded(blocks, bytes) /\ Rest /\ CutsInRange /\ bytes \in Seq(Byte)
      /\ bytes # <<>> /\ verified = FALSE
      /\ bytes' = bytes /\ blocks' = blocks /\ flight' = flight
      /\ verified' = verified /\ timeouts' = timeouts
  BY DEF SafeInv, Walk, Recorded, Rest
<1>2. /\ check' \in [Checks -> CheckType] /\ check'["abandoned"] = check["abandoned"]
      /\ \/ r.pc = "ready" /\ (Len(bytes) > CheckMaxLen \/ cut = None)
         \/ r.pc = "found" /\ ~(Len(bytes) > CheckMaxLen) /\ cut # None
            /\ r.len = Len(bytes) /\ r.cut = cut
  BY <1>1, WalkChecks
<1> HIDE DEF cut, r
<1>3. Recorded(blocks', bytes') /\ Rest'
  BY <1>1, <1>2 DEF Rest
<1>4. CASE r.pc = "ready"
  <2>1. CutBehindFrames'
    BY <1>4, NotChecking DEF r
  <2>2. \A c \in Checks : check'[c].pc \in {"found", "cutting"} => check'[c] = check[c]
    BY <1>2, <1>4 DEF Checks, r
  <2>3. CutsInRange'
    BY <1>1, <2>2, RangeKept DEF Checking
  <2>4. QED
    BY <1>3, <2>1, <2>3 DEF SafeInv
<1>5. CASE r.pc # "ready"
  <2>1. /\ ~(Len(bytes) > CheckMaxLen) /\ cut # None
        /\ r.len = Len(bytes) /\ r.cut = cut
    BY <1>2, <1>5
  <2>2. cut \in Nat /\ Len(Magic) <= cut /\ cut < Len(bytes)
    BY <1>1, <2>1, CutInside DEF cut
  <2>3. Len(bytes) <= CheckMaxLen
    <3>1. Len(bytes) \in Nat /\ CheckMaxLen \in Nat
      BY <1>1, FormatAssumption
    <3>2. QED
      BY <2>1, <3>1
  <2>4. ASSUME NEW c \in Checks, check'[c].pc \in {"found", "cutting"}
        PROVE  /\ Len(Magic) <= check'[c].cut /\ check'[c].cut < check'[c].len
               /\ check'[c].len <= CheckMaxLen
    <3>1. CASE c = "current"
      BY <2>1, <2>2, <2>3, <3>1 DEF r
    <3>2. CASE c = "abandoned"
      <4>1. check'[c] = check[c] /\ Checking(c)
        BY <1>2, <2>4, <3>2 DEF Checking
      <4>2. QED
        BY <1>1, <4>1 DEF CutsInRange
    <3>3. QED
      BY <3>1, <3>2 DEF Checks
  <2>5. CutsInRange'
    BY <2>4 DEF CutsInRange, Checking
  <2>6. ASSUME NEW i \in 1 .. Len(blocks), AllFramed(blocks, i)
        PROVE  blocks[i].at + blocks[i].len <= r.cut
    <3>1. cut >= blocks[i].at + blocks[i].len
      BY <1>1, <2>1, <2>6, CutBehind DEF cut
    <3>2. blocks[i].at \in Nat /\ blocks[i].len \in Nat
      BY <1>1, BlockFields DEF Recorded
    <3>3. QED
      BY <2>1, <2>2, <3>1, <3>2
  <2>7. CutBehindFrames'
    BY <1>1, <2>6 DEF CutBehindFrames, r
  <2>8. QED
    BY <1>3, <2>5, <2>7 DEF SafeInv
<1>6. QED
  BY <1>4, <1>5

LEMMA SafeRecheck ==
  ASSUME SafeInv, NEW c \in Checks, Recheck(c) PROVE SafeInv'
<1>1. /\ Recorded(blocks, bytes) /\ Rest /\ CutsInRange /\ CutBehindFrames
      /\ bytes' = bytes /\ blocks' = blocks /\ flight' = flight
      /\ verified' = verified /\ timeouts' = timeouts
  BY DEF SafeInv, Recheck
<1>2. /\ check' \in [Checks -> CheckType]
      /\ \A d \in Checks : check'[d].pc \in {"found", "cutting"} => Checking(d) /\ Goes(d, d)
  BY <1>1, RecheckChecks
<1>3. Recorded(blocks', bytes') /\ Rest'
  BY <1>1, <1>2 DEF Rest
<1>4. CutsInRange'
  BY <1>1, <1>2, RangeKept DEF Goes
<1>5. CutBehindFrames'
  <2>1. "current" \in Checks
    BY DEF Checks
  <2>2. CASE check'["current"].pc \in {"found", "cutting"}
    <3>1. Checking("current") /\ Goes("current", "current")
      BY <1>2, <2>1, <2>2
    <3>2. NoneNew(blocks, blocks') /\ blocks \in Seq(BlockType) /\ blocks' \in Seq(BlockType)
      BY <1>1 DEF NoneNew, Recorded
    <3>3. QED
      BY <1>1, <3>1, <3>2, BehindKept
  <2>3. CASE check'["current"].pc \notin {"found", "cutting"}
    BY <2>3 DEF CutBehindFrames, Checking
  <2>4. QED
    BY <2>2, <2>3
<1>6. QED
  BY <1>3, <1>4, <1>5 DEF SafeInv

LEMMA SetLenFile ==
  ASSUME SafeInv, NEW c \in Checks, SetLen(c)
  PROVE  LET cut == check[c].cut
         IN  /\ cut \in Nat /\ Len(Magic) <= cut /\ cut < check[c].len /\ check[c].len <= CheckMaxLen
             /\ Recorded(blocks', bytes') /\ bytes' # <<>> /\ Len(bytes') = cut
             /\ blocks' = IF cut <= Len(bytes) THEN CutBlocks(cut)
                          ELSE Append(blocks, Block("stale", Len(bytes), cut - Len(bytes), <<>>))
             /\ NoneNew(blocks, blocks')
<1> DEFINE cut == check[c].cut
<1>1. /\ bytes' = [i \in 1 .. cut |-> IF i <= Len(bytes) THEN bytes[i] ELSE 0]
      /\ blocks' = IF cut <= Len(bytes) THEN CutBlocks(cut)
                   ELSE Append(blocks, Block("stale", Len(bytes), cut - Len(bytes), <<>>))
  BY DEF SetLen
<1>2. Rest /\ Recorded(blocks, bytes) /\ CutsInRange
  BY DEF SafeInv
<1>3. Checking(c) /\ cut \in Int
  BY <1>2, SetLenChecks DEF Checking
<1>4. Len(Magic) <= cut /\ cut < check[c].len /\ check[c].len <= CheckMaxLen
  BY <1>2, <1>3 DEF CutsInRange
<1>5. cut \in Nat
  <2>1. Len(Magic) \in Nat
    BY FormatAssumption
  <2> HIDE DEF cut
  <2>2. QED
    BY <1>3, <1>4, <2>1
<1> HIDE DEF cut
<1>6. Recorded(blocks', bytes') /\ bytes' # <<>> /\ Len(bytes') = cut
  BY <1>1, <1>2, <1>4, <1>5, SetLenRecorded
<1>7. NoneNew(blocks, blocks')
  BY <1>1, <1>2, <1>5, SetLenNoneNew
<1>8. QED
  BY <1>1, <1>4, <1>5, <1>6, <1>7 DEF cut

LEMMA SafeSetLen ==
  ASSUME SafeInv, NEW c \in Checks, SetLen(c) PROVE SafeInv'
<1>1. /\ Recorded(blocks, bytes) /\ Rest /\ CutsInRange /\ CutBehindFrames
      /\ flight' = flight /\ verified' = verified /\ timeouts' = timeouts
  BY DEF SafeInv, SetLen
<1>2. /\ check' \in [Checks -> CheckType]
      /\ \A d \in Checks : check'[d].pc \in {"found", "cutting"} => Checking(d) /\ Goes(d, d)
  BY <1>1, SetLenChecks
<1>3. Recorded(blocks', bytes') /\ bytes' # <<>> /\ NoneNew(blocks, blocks')
  BY SetLenFile
<1>4. Rest'
  BY <1>1, <1>2 DEF Rest
<1>5. CutsInRange'
  BY <1>1, <1>2, RangeKept DEF Goes
<1>6. CutBehindFrames'
  <2>1. "current" \in Checks
    BY DEF Checks
  <2>2. CASE check'["current"].pc \in {"found", "cutting"}
    <3>1. Checking("current") /\ Goes("current", "current")
      BY <1>2, <2>1, <2>2
    <3>2. blocks \in Seq(BlockType) /\ blocks' \in Seq(BlockType)
      BY <1>1, <1>3 DEF Recorded
    <3>3. QED
      BY <1>1, <1>3, <3>1, <3>2, BehindKept
  <2>3. CASE check'["current"].pc \notin {"found", "cutting"}
    BY <2>3 DEF CutBehindFrames, Checking
  <2>4. QED
    BY <2>2, <2>3
<1>7. QED
  BY <1>3, <1>4, <1>5, <1>6 DEF SafeInv

(* The end of an attempt. *)
LEMMA SafeOver ==
  ASSUME SafeInv, NEW ok \in BOOLEAN, Over(ok), Recorded(blocks', bytes'),
         flight' \in Seq(Stuck), timeouts' \in 0 .. MaxTimeouts
  PROVE  SafeInv'
<1>1. Rest /\ CutsInRange
  BY DEF SafeInv
<1>2. /\ check' \in [Checks -> CheckType] /\ verified' \in BOOLEAN
      /\ check'["current"].pc = "idle" /\ check'["abandoned"] = check["abandoned"]
  BY <1>1, OverChecks
<1>3. Rest'
  BY <1>2 DEF Rest
<1>4. CutsInRange'
  <2>1. \A c \in Checks : check'[c].pc \in {"found", "cutting"} => check'[c] = check[c]
    BY <1>2 DEF Checks
  <2>2. QED
    BY <1>1, <2>1, RangeKept DEF Checking
<1>5. CutBehindFrames'
  BY <1>2, NotChecking
<1>6. QED
  BY <1>3, <1>4, <1>5 DEF SafeInv

LEMMA SafeAppendFrame ==
  ASSUME SafeInv, AppendFrame PROVE SafeInv'
<1>1. Recorded(blocks', bytes')
  BY AppendFrameRecorded DEF SafeInv
<1>2. Over(TRUE) /\ flight' = flight /\ timeouts' = timeouts
  BY DEF AppendFrame
<1>3. flight' \in Seq(Stuck) /\ timeouts' \in 0 .. MaxTimeouts
  BY <1>2 DEF SafeInv, Rest
<1>4. QED
  BY <1>1, <1>2, <1>3, SafeOver

LEMMA SafeTearFrame ==
  ASSUME SafeInv, TearFrame PROVE SafeInv'
<1>1. Recorded(blocks', bytes')
  BY TearFrameRecorded DEF SafeInv
<1>2. Over(FALSE) /\ flight' = flight /\ timeouts' = timeouts
  BY DEF TearFrame
<1>3. flight' \in Seq(Stuck) /\ timeouts' \in 0 .. MaxTimeouts
  BY <1>2 DEF SafeInv, Rest
<1>4. QED
  BY <1>1, <1>2, <1>3, SafeOver

LEMMA SafeLeft ==
  ASSUME SafeInv, NEW w, LeavesBehind(w), Recorded(blocks', bytes'), flight' \in Seq(Stuck)
  PROVE  SafeInv'
<1>1. Over(FALSE) /\ timeouts < MaxTimeouts /\ timeouts' = timeouts + 1
  BY DEF LeavesBehind
<1>2. timeouts' \in 0 .. MaxTimeouts
  <2>1. timeouts \in 0 .. MaxTimeouts /\ MaxTimeouts \in Nat
    BY FormatAssumption DEF SafeInv, Rest
  <2>2. QED
    BY <1>1, <2>1
<1>3. QED
  BY <1>1, <1>2, SafeOver

LEMMA SafeTimeOut ==
  ASSUME SafeInv, TimeOut PROVE SafeInv'
<1>1. Recorded(blocks', bytes') /\ flight' \in Seq(Stuck)
  BY TimeOutRecorded DEF SafeInv, Rest
<1>2. \E w : LeavesBehind(w)
  BY DEF TimeOut
<1>3. QED
  BY <1>1, <1>2, SafeLeft

LEMMA SafeTimeOutCreating ==
  ASSUME SafeInv, TimeOutCreating PROVE SafeInv'
<1>1. Recorded(blocks', bytes') /\ flight' \in Seq(Stuck)
  BY TimeOutCreatingRecorded DEF SafeInv, Rest
<1>2. \E w : LeavesBehind(w)
  BY DEF TimeOutCreating
<1>3. QED
  BY <1>1, <1>2, SafeLeft

LEMMA SafeLateWrite ==
  ASSUME SafeInv, LateWrite PROVE SafeInv'
<1>1. Rest /\ CutsInRange /\ CutBehindFrames /\ Recorded(blocks, bytes)
  BY DEF SafeInv
<1>2. /\ flight' \in Seq(Stuck) /\ verified' = verified /\ check' = check /\ timeouts' = timeouts
      /\ Recorded(blocks', bytes')
      /\ blocks' = blocks \/ Follows(blocks, blocks')
  BY LateWriteIs
<1>3. NoneNew(blocks, blocks')
  BY <1>2 DEF Follows, NoneNew
<1>4. Rest'
  BY <1>1, <1>2 DEF Rest
<1>5. CutsInRange'
  BY <1>1, <1>2 DEF CutsInRange, Checking
<1>6. CutBehindFrames'
  <2>1. CASE Checking("current")
    <3>1. blocks \in Seq(BlockType) /\ blocks' \in Seq(BlockType)
      BY <1>1, <1>2 DEF Recorded
    <3>2. QED
      BY <1>1, <1>2, <1>3, <2>1, <3>1, BehindKept DEF Goes
  <2>2. CASE ~Checking("current")
    BY <1>2, <2>2 DEF CutBehindFrames, Checking
  <2>3. QED
    BY <2>1, <2>2
<1>7. QED
  BY <1>2, <1>4, <1>5, <1>6 DEF SafeInv

LEMMA SafeAbandon ==
  ASSUME SafeInv, Abandon PROVE SafeInv'
<1>1. /\ Recorded(blocks, bytes) /\ Rest /\ CutsInRange
      /\ bytes' = bytes /\ blocks' = blocks /\ flight' = flight /\ verified' = FALSE
  BY DEF SafeInv, Abandon
<1>2. /\ check \in [Checks -> CheckType] /\ "current" \in Checks /\ "abandoned" \in Checks
      /\ "current" # "abandoned" /\ Idle \in CheckType /\ Idle.pc = "idle"
  BY <1>1, IdleCheck DEF Rest, Checks
<1>3. timeouts' \in 0 .. MaxTimeouts
  <2>1. timeouts \in 0 .. MaxTimeouts /\ MaxTimeouts \in Nat
    BY <1>1, FormatAssumption DEF Rest
  <2>2. timeouts' = timeouts \/ (timeouts < MaxTimeouts /\ timeouts' = timeouts + 1)
    BY DEF Abandon
  <2>3. QED
    BY <2>1, <2>2
<1>4. /\ check' \in [Checks -> CheckType] /\ check'["current"] = Idle
      /\ \/ check'["abandoned"] = check["current"]
         \/ check'["abandoned"] = check["abandoned"]
  <2>1. CASE check' = [current |-> Idle, abandoned |-> check["current"]]
    <3>1. Checks = {"current", "abandoned"}
      BY DEF Checks
    <3>2. check["current"] \in CheckType
      BY <1>2
    <3>3. check'["current"] = Idle /\ check'["abandoned"] = check["current"]
      BY <2>1
    <3>4. check' = [d \in Checks |-> IF d = "current" THEN Idle ELSE check["current"]]
      BY <2>1, <3>1
    <3>5. check' \in [Checks -> CheckType]
      BY <1>2, <3>2, <3>4
    <3>6. QED
      BY <3>3, <3>5
  <2>2. CASE check' = [check EXCEPT !["current"] = Idle]
    BY <1>2, <2>2
  <2>3. QED
    BY <2>1, <2>2 DEF Abandon
<1>5. Rest'
  BY <1>1, <1>3, <1>4 DEF Rest
<1>6. CutsInRange'
  <2>1. ASSUME NEW c \in Checks, check'[c].pc \in {"found", "cutting"}
        PROVE  \E d \in Checks : Checking(d) /\ check'[c].len = check[d].len
                                 /\ check'[c].cut = check[d].cut
    <3>1. c = "abandoned"
      BY <1>2, <1>4, <2>1 DEF Checks
    <3>2. QED
      BY <1>2, <1>4, <2>1, <3>1 DEF Checking
  <2>2. QED
    BY <1>1, <2>1, RangeKept
<1>7. CutBehindFrames'
  BY <1>2, <1>4, NotChecking
<1>8. QED
  BY <1>1, <1>5, <1>6, <1>7 DEF SafeInv

LEMMA SafeRestart ==
  ASSUME SafeInv, Restart PROVE SafeInv'
<1>1. /\ Recorded(blocks, bytes) /\ Rest
      /\ bytes' = bytes /\ blocks' = blocks /\ flight' = <<>> /\ verified' = FALSE
      /\ timeouts' = timeouts /\ check' = [c \in Checks |-> Idle]
  BY DEF SafeInv, Restart
<1>2. check' \in [Checks -> CheckType] /\ \A c \in Checks : check'[c].pc = "idle"
  BY <1>1, IdleCheck
<1>3. Rest'
  <2>1. <<>> \in Seq(Stuck)
    OBVIOUS
  <2>2. QED
    BY <1>1, <1>2, <2>1 DEF Rest
<1>4. CutsInRange' /\ CutBehindFrames'
  <2>1. "current" \in Checks
    BY DEF Checks
  <2>2. QED
    BY <1>2, <2>1 DEF CutsInRange, CutBehindFrames, Checking
<1>5. QED
  BY <1>1, <1>3, <1>4 DEF SafeInv

LEMMA SafeStep ==
  ASSUME SafeInv, [Next]_vars PROVE SafeInv'
<1>1. CASE Walk
  BY <1>1, SafeWalk
<1>2. ASSUME NEW c \in Checks, Recheck(c) PROVE SafeInv'
  BY <1>2, SafeRecheck
<1>3. ASSUME NEW c \in Checks, SetLen(c) PROVE SafeInv'
  BY <1>3, SafeSetLen
<1>4. CASE AppendFrame
  BY <1>4, SafeAppendFrame
<1>5. CASE TearFrame
  BY <1>5, SafeTearFrame
<1>6. CASE TimeOut
  BY <1>6, SafeTimeOut
<1>7. CASE LateWrite
  BY <1>7, SafeLateWrite
<1>12. CASE TimeOutCreating
  BY <1>12, SafeTimeOutCreating
<1>8. CASE Abandon
  BY <1>8, SafeAbandon
<1>9. CASE Restart
  BY <1>9, SafeRestart
<1>10. CASE UNCHANGED vars
  BY <1>10 DEF vars, SafeInv, Rest, CutsInRange, CutBehindFrames, Checking
<1>11. QED
  BY <1>1, <1>2, <1>3, <1>4, <1>5, <1>6, <1>7, <1>8, <1>9, <1>10, <1>12 DEF Next

LEMMA Safe == Spec => []SafeInv
<1>1. Init => SafeInv
  BY InitSafe
<1>2. SafeInv /\ [Next]_vars => SafeInv'
  BY SafeStep
<1>3. QED
  BY <1>1, <1>2, PTL DEF Spec

(***************************************************************************)
(* The theorems                                                            *)
(***************************************************************************)

LEMMA FramedIs ==
  ASSUME NEW i PROVE Framed(i) <=> AllFramed(blocks, i)
BY DEF Framed, AllFramed, IsFrame

(* The history variable that LiveFrameIsLeft looks at. *)
LEMMA HistoryType == Spec => [](overtaken \in BOOLEAN)
<1>1. Init => overtaken \in BOOLEAN
  BY DEF Init
<1>2. overtaken \in BOOLEAN /\ [Next]_vars => (overtaken \in BOOLEAN)'
  <2>1. SUFFICES ASSUME overtaken \in BOOLEAN, [Next]_vars PROVE overtaken' \in BOOLEAN
    OBVIOUS
  <2>2. ASSUME NEW unseen, Overtakes(unseen) PROVE overtaken' \in BOOLEAN
    BY <2>2 DEF Overtakes
  <2>3. ASSUME Walk PROVE overtaken' \in BOOLEAN
    BY <2>3 DEF Walk
  <2>4. ASSUME UNCHANGED overtaken PROVE overtaken' \in BOOLEAN
    BY <2>1, <2>4
  <2>5. ASSUME NEW c \in Checks, Recheck(c) \/ SetLen(c) PROVE overtaken' \in BOOLEAN
    BY <2>2, <2>5 DEF Recheck, SetLen
  <2>6. ASSUME AppendFrame \/ TearFrame \/ TimeOut \/ TimeOutCreating PROVE overtaken' \in BOOLEAN
    BY <2>2, <2>6 DEF AppendFrame, TearFrame, TimeOut, TimeOutCreating, LeavesBehind, Over
  <2>7. ASSUME LateWrite \/ Abandon \/ Restart PROVE overtaken' \in BOOLEAN
    BY <2>2, <2>7 DEF LateWrite, Abandon, Restart
  <2>8. QED
    BY <2>1, <2>3, <2>4, <2>5, <2>6, <2>7 DEF Next, vars
<1>3. QED
  BY <1>1, <1>2, PTL DEF Spec

(* Every variable holds a value of its type, and the blocks of the history lie
   one behind the other up to the end of the file, whatever write_to_file, its
   late writes and its tail checks do in whatever order. *)
THEOREM TypeCorrect == Spec => []TypeOK
<1>1. SafeInv /\ overtaken \in BOOLEAN => TypeOK
  <2>1. SUFFICES ASSUME SafeInv, overtaken \in BOOLEAN PROVE TypeOK
    OBVIOUS
  <2>2. Recorded(blocks, bytes) /\ Rest
    BY <2>1 DEF SafeInv
  <2>3. ASSUME NEW i \in DOMAIN blocks
        PROVE  /\ blocks[i].kind \in {"whole", "framed", "torn", "stale", "foreign"}
               /\ blocks[i].at + blocks[i].len =
                    IF i = Len(blocks) THEN Len(bytes) ELSE blocks[i + 1].at
    <3>1. blocks \in Seq(BlockType) /\ i \in 1 .. Len(blocks)
      BY <2>2 DEF Recorded
    <3>2. blocks[i].kind \in Kinds
      BY <3>1, BlockFields
    <3>3. QED
      BY <2>2, <3>1, <3>2 DEF Recorded, Laid, Kinds
  <2>4. ASSUME NEW c \in Checks PROVE check[c].pc \in {"idle", "found", "cutting", "ready"}
    BY <2>2, CheckFields DEF Rest
  <2>5. flight \in Seq(Operations)
    <3>1. flight \in Seq(Stuck) /\ \A w \in Stuck : w \in Operations
      BY <2>2 DEF Rest, Stuck
    <3>2. \A i \in 1 .. Len(flight) : flight[i] \in Operations
      BY <3>1
    <3>3. QED
      BY <3>1, <3>2
  <2>6. QED
    BY <2>1, <2>2, <2>3, <2>4, <2>5 DEF TypeOK, Recorded, Rest
<1>2. QED
  BY <1>1, Safe, HistoryType, PTL

(* truncated_frame_start finds no cut in a file of whole frames, the start of
   a frame torn off at the end, and never an offset inside the whole frames a
   file starts with, for every format and every payload. *)
THEOREM TailIsFound == Spec => []TailFound
<1>1. SafeInv => TailFound
  <2> DEFINE cut == truncated_frame_start(bytes)
             n   == Len(blocks)
  <2>1. SUFFICES ASSUME SafeInv PROVE TailFound
    OBVIOUS
  <2>2. Recorded(blocks, bytes) /\ blocks \in Seq(BlockType) /\ n \in Nat
    BY <2>1 DEF SafeInv, Recorded
  <2>3. Framed(n) => cut = None
    BY <2>2, FramedTail, FramedIs
  <2>4. n > 0 /\ Framed(n - 1) /\ blocks[n].kind = "torn" => cut = blocks[n].at
    <3>1. n > 0 => n \in 1 .. Len(blocks)
      BY <2>2
    <3> HIDE DEF n
    <3>2. AllFramed(blocks, n - 1) /\ n \in 1 .. Len(blocks) /\ blocks[n].kind = "torn" /\ n = Len(blocks)
            => cut = blocks[n].at
      BY <2>2, TornTail
    <3>3. QED
      BY <3>1, <3>2, FramedIs DEF n
  <2>5. ASSUME NEW i \in 1 .. n, Framed(i) PROVE cut = None \/ cut >= blocks[i].at + blocks[i].len
    BY <2>2, <2>5, CutBehind, FramedIs
  <2>6. QED
    BY <2>3, <2>4, <2>5 DEF TailFound
<1>2. QED
  BY <1>1, Safe, PTL

(* An attempt adds a block behind the file, and behind the magic of a new one. *)
Behind(block) == block \in BlockType /\ block.at = Len(bytes \o Start)

LEMMA AddedBehind ==
  ASSUME Recorded(blocks, bytes), NEW kind \in Kinds, NEW len \in Nat \ {0}, NEW text \in Seq(Byte)
  PROVE  LET block == Added(kind, Len(bytes \o Start), len, text)
         IN  Behind(block) /\ block.kind \in {kind, "foreign"}
<1>1. bytes \o Start \in Seq(Byte)
  BY StartRecorded
<1> DEFINE at == Len(bytes \o Start)
<1>2. at \in Nat
  BY <1>1
<1> HIDE DEF at
<1> DEFINE block == Added(kind, at, len, text)
<1>3. block \in BlockType /\ block.at = at /\ block.kind = (IF at = 0 THEN "foreign" ELSE kind)
  BY <1>2, AddedIs
<1> HIDE DEF block
<1>4. Behind(block) /\ block.kind \in {kind, "foreign"}
  BY <1>3 DEF Behind, at
<1>5. QED
  BY <1>4 DEF block, at

LEMMA AppendShape ==
  ASSUME Recorded(blocks, bytes), AppendFrame
  PROVE  \E block : Behind(block) /\ block.kind # "torn" /\ blocks' = Append(blocks, block)
<1>1. PICK text \in Payloads, rnd \in Rnds :
        LET frame == encode_frame(text, rnd)
        IN  blocks' = Append(blocks, Added("whole", Len(bytes \o Start), Len(frame), text))
  BY DEF AppendFrame
<1> DEFINE len == Len(encode_frame(text, rnd))
           block == Added("whole", Len(bytes \o Start), len, text)
<1>2. len \in Nat \ {0} /\ text \in Seq(Byte) /\ "whole" \in Kinds
  BY FrameBytes DEF Kinds
<1>3. blocks' = Append(blocks, block)
  BY <1>1
<1> HIDE DEF len
<1>4. Behind(block) /\ block.kind \in {"whole", "foreign"}
  BY <1>2, AddedBehind
<1> HIDE DEF block
<1>5. QED
  BY <1>3, <1>4

LEMMA TearShape ==
  ASSUME Recorded(blocks, bytes), TearFrame
  PROVE  \/ blocks = <<>> /\ (blocks' = <<>> \/ \E k : blocks' = <<Block("foreign", 0, k, <<>>)>>)
         \/ \E block : Behind(block) /\ blocks' = Append(blocks, block)
<1>1. \E k \in Nat \ {0} :
        blocks' = IF k < Len(Start) THEN <<Block("foreign", 0, k, <<>>)>>
                  ELSE IF k = Len(Start) THEN blocks
                  ELSE Append(blocks, Added("torn", Len(bytes \o Start), k - Len(Start), <<>>))
  <2>1. PICK text \in Payloads, rnd \in Rnds :
          \E k \in 1 .. Len(Start \o encode_frame(text, rnd)) - 1 :
            blocks' = IF k < Len(Start) THEN <<Block("foreign", 0, k, <<>>)>>
                      ELSE IF k = Len(Start) THEN blocks
                      ELSE Append(blocks, Added("torn", Len(bytes \o Start), k - Len(Start), <<>>))
    BY DEF TearFrame
  <2>2. \A m : \A k \in 1 .. m : k \in Nat \ {0}
    OBVIOUS
  <2>3. QED
    BY <2>1, <2>2
<1>2. PICK k \in Nat \ {0} :
        blocks' = IF k < Len(Start) THEN <<Block("foreign", 0, k, <<>>)>>
                  ELSE IF k = Len(Start) THEN blocks
                  ELSE Append(blocks, Added("torn", Len(bytes \o Start), k - Len(Start), <<>>))
  BY <1>1
<1>3. /\ bytes \o Start \in Seq(Byte) /\ Len(bytes \o Start) \in Nat
      /\ Start \in Seq(Byte) /\ Len(Start) \in Nat
      /\ Start # <<>> => blocks = <<>>
  BY StartRecorded
<1>4. CASE k < Len(Start)
  <2>1. Start # <<>>
    BY <1>2, <1>4
  <2>2. blocks = <<>>
    BY <1>3, <2>1
  <2>3. QED
    BY <1>2, <1>4, <2>2
<1>5. CASE k = Len(Start)
  <2>1. Start # <<>> /\ ~(k < Len(Start))
    BY <1>2, <1>3, <1>5
  <2>2. blocks = <<>> /\ blocks' = blocks
    BY <1>2, <1>3, <1>5, <2>1
  <2>3. QED
    BY <2>2
<1>6. CASE k > Len(Start)
  <2> DEFINE len == k - Len(Start)
             block == Added("torn", Len(bytes \o Start), len, <<>>)
  <2>1. len \in Nat \ {0} /\ ~(k < Len(Start)) /\ k # Len(Start)
    BY <1>2, <1>3, <1>6
  <2>2. blocks' = Append(blocks, block)
    BY <1>2, <2>1
  <2> HIDE DEF len
  <2>3. Behind(block)
    <3>1. "torn" \in Kinds /\ <<>> \in Seq(Byte)
      BY DEF Kinds
    <3>2. QED
      BY <2>1, <3>1, AddedBehind
  <2> HIDE DEF block
  <2>4. QED
    BY <2>2, <2>3
<1>7. QED
  <2>1. Len(Start) \in Nat
    BY <1>3
  <2>2. k < Len(Start) \/ k = Len(Start) \/ k > Len(Start)
    BY <2>1
  <2>3. QED
    BY <1>4, <1>5, <1>6, <2>2

LEMMA TimeOutShape ==
  ASSUME Recorded(blocks, bytes), TimeOut
  PROVE  \/ blocks' = blocks
         \/ \E block : Behind(block) /\ blocks' = Append(blocks, block)
<1>1. PICK text \in Payloads, rnd \in Rnds :
        \/ blocks' = blocks
        \/ blocks' = Append(blocks, Added("torn", Len(bytes), Len(Prefix(text, rnd)), <<>>))
  BY DEF TimeOut
<1> DEFINE len == Len(Prefix(text, rnd))
           block == Added("torn", Len(bytes \o Start), len, <<>>)
<1>2. len \in Nat \ {0} /\ "torn" \in Kinds /\ <<>> \in Seq(Byte)
  BY TwoWrites DEF Kinds
<1>3. bytes \o Start = bytes
  BY StartRecorded DEF TimeOut
<1>4. blocks' = blocks \/ blocks' = Append(blocks, block)
  BY <1>1, <1>3
<1> HIDE DEF len
<1>5. Behind(block)
  BY <1>2, AddedBehind
<1> HIDE DEF block
<1>6. QED
  BY <1>4, <1>5

LEMMA TimeOutCreatingShape ==
  ASSUME Recorded(blocks, bytes), flight \in Seq(Stuck), TimeOutCreating
  PROVE  \/ blocks' = blocks
         \/ \E block : Behind(block) /\ blocks' = Append(blocks, block)
<1>1. bytes \o Start = Magic
  BY StartRecorded DEF TimeOutCreating
<1>2. QED
  BY <1>1, TimeOutCreatingRecorded DEF Behind

(* Of the frames a file starts with, a step loses none: the check of the
   running attempt cuts behind them.  Only work left behind may: a check given
   up after it had seen the length unchanged, which cuts what was appended
   since, and what goes over the file in place. *)
LEMMA KeepsFrames ==
  ASSUME SafeInv, [Next]_vars, NEW i \in 1 .. Len(blocks), AllFramed(blocks, i)
  PROVE  \/ i \in 1 .. Len(blocks') /\ blocks'[i] = blocks[i]
         \/ GivenUpCheckEnds \/ LandsInPlace
<1>1. /\ Recorded(blocks, bytes) /\ blocks \in Seq(BlockType) /\ Len(blocks) \in Nat
      /\ Rest /\ CutBehindFrames
  BY DEF SafeInv, Recorded
<1> DEFINE Kept == i \in 1 .. Len(blocks') /\ blocks'[i] = blocks[i]
           Goal == Kept \/ GivenUpCheckEnds \/ LandsInPlace
<1>2. ASSUME NEW block \in BlockType, blocks' = Append(blocks, block) PROVE Kept
  BY <1>1, <1>2
<1>3. ASSUME blocks' = blocks PROVE Kept
  BY <1>3
<1>4. CASE Walk \/ Abandon \/ Restart \/ UNCHANGED vars
  BY <1>3, <1>4 DEF Walk, Abandon, Restart, vars
<1>5. ASSUME NEW c \in Checks, Recheck(c) PROVE Kept
  BY <1>3, <1>5 DEF Recheck
<1>6. ASSUME NEW c \in Checks, SetLen(c) PROVE Goal
  <2> DEFINE cut == check[c].cut
  <2>1. /\ cut \in Nat
        /\ blocks' = IF cut <= Len(bytes) THEN CutBlocks(cut)
                     ELSE Append(blocks, Block("stale", Len(bytes), cut - Len(bytes), <<>>))
    BY <1>6, SetLenFile
  <2>2. CASE c = "current"
    <3>1. blocks[i].at + blocks[i].len <= cut
      <4>1. Checking("current")
        BY <1>6, <2>2 DEF SetLen, Checking
      <4>2. QED
        BY <1>1, <2>2, <4>1 DEF CutBehindFrames
    <3> HIDE DEF cut
    <3>2. CASE cut <= Len(bytes)
      <4>1. blocks' = CutOf(blocks, cut)
        BY <2>1, <3>2 DEF CutBlocks, CutOf
      <4>2. QED
        BY <1>1, <2>1, <3>1, <4>1, CutKeeps
    <3>3. CASE ~(cut <= Len(bytes))
      <4>1. bytes \in Seq(Byte) /\ Len(bytes) \in Nat /\ cut - Len(bytes) \in Nat \ {0}
        BY <1>1, <2>1, <3>3 DEF Recorded
      <4>2. Block("stale", Len(bytes), cut - Len(bytes), <<>>) \in BlockType
        BY <4>1 DEF Block, BlockType, Kinds
      <4>3. QED
        BY <1>2, <2>1, <3>3, <4>2
    <3>4. QED
      BY <3>2, <3>3
  <2>3. CASE c # "current"
    <3>1. c = "abandoned"
      BY <2>3 DEF Checks
    <3>2. check[c].pc = "cutting" /\ check'[c] = Ended(c) /\ Ended(c) = Idle
      BY <1>1, <1>6, <2>3, SetLenChecks, EndedIs
    <3>3. QED
      BY <3>1, <3>2, IdleCheck DEF GivenUpCheckEnds
  <2>4. QED
    BY <2>2, <2>3
<1>7. CASE AppendFrame
  BY <1>1, <1>2, <1>7, AppendShape DEF Behind
<1>8. CASE TearFrame
  <2>1. CASE blocks = <<>>
    BY <2>1
  <2>2. CASE blocks # <<>>
    BY <1>1, <1>2, <1>8, <2>2, TearShape DEF Behind
  <2>3. QED
    BY <2>1, <2>2
<1>9. CASE TimeOut
  BY <1>1, <1>2, <1>3, <1>9, TimeOutShape DEF Behind
<1>10. CASE TimeOutCreating
  BY <1>1, <1>2, <1>3, <1>10, TimeOutCreatingShape DEF Behind, Rest
<1>11. CASE LateWrite
  BY <1>11, LateWriteIs DEF KeepsFramed
<1>12. QED
  BY <1>4, <1>5, <1>6, <1>7, <1>8, <1>9, <1>10, <1>11 DEF Next

(* A frame that is confirmed, all in front of it being whole, is lost only to
   work that an attempt left behind: to a tail check given up between its
   second look and its set_len, or to the File::create or a write of an attempt
   that created the file (cut_interrupted_tail_up_to and write_to_file leave no
   other way). *)
THEOREM FramesAreKept == Spec => CutLosesNothing
<1> DEFINE A == \A i \in DOMAIN blocks :
                  Framed(i) /\ ~(i \in DOMAIN blocks' /\ blocks'[i] = blocks[i])
                    => GivenUpCheckEnds \/ LandsInPlace
<1>1. SafeInv /\ SafeInv' /\ [Next]_vars => A
  <2>1. SUFFICES ASSUME SafeInv, SafeInv', [Next]_vars, NEW i \in DOMAIN blocks, Framed(i),
                        ~(i \in DOMAIN blocks' /\ blocks'[i] = blocks[i])
                 PROVE  GivenUpCheckEnds \/ LandsInPlace
    OBVIOUS
  <2>2. blocks \in Seq(BlockType) /\ blocks' \in Seq(BlockType)
    BY <2>1 DEF SafeInv, Recorded
  <2>3. DOMAIN blocks = 1 .. Len(blocks) /\ DOMAIN blocks' = 1 .. Len(blocks')
    BY <2>2
  <2>4. AllFramed(blocks, i)
    BY <2>1, FramedIs
  <2>5. QED
    BY <2>1, <2>3, <2>4, KeepsFrames
<1>2. A => [A]_vars
  OBVIOUS
<1>3. QED
  BY <1>1, <1>2, Safe, PTL DEF Spec, CutLosesNothing

(***************************************************************************)
(* A torn frame stays the last block unless stale work follows it          *)
(***************************************************************************)

OnlyLast(bs) ==
  \A i \in 1 .. Len(bs) - 1 : TornAt(bs, i) =>
    bs[i + 1].kind = "stale" \/ bs[i + 1].at > CheckMaxLen

EndOf(bs, i) == bs[i].at + bs[i].len

(* An attempt appends behind a torn frame only in a file too long to check. *)
AppendsBehindNone ==
  verified \/ check["current"].pc = "ready" =>
    \A i \in 1 .. Len(blocks) : TornAt(blocks, i) =>
      i < Len(blocks) \/ Len(bytes) > CheckMaxLen

(* The running check sees the length change when what it found torn is not
   the end any more. *)
SeesTheTorn ==
  check["current"].pc = "found" =>
    \A i \in 1 .. Len(blocks) : TornAt(blocks, i) /\ i = Len(blocks) =>
      check["current"].len = Len(bytes)

(* It cuts the torn frame off, or has walked past it. *)
CutsTheTorn ==
  Checking("current") =>
    \A i \in 1 .. Len(blocks) : TornAt(blocks, i) =>
      \/ check["current"].cut <= blocks[i].at
      \/ check["current"].cut > EndOf(blocks, i) /\ i < Len(blocks)

(* A check given up never cuts right behind a torn frame that something
   follows: it would be the end of the file again, unseen. *)
AbandonedCutsElsewhere ==
  Checking("abandoned") =>
    \A i \in 1 .. Len(blocks) : TornAt(blocks, i) /\ i < Len(blocks) =>
      check["abandoned"].cut # EndOf(blocks, i)

TornInv ==
  /\ OnlyLast(blocks) /\ AppendsBehindNone /\ SeesTheTorn
  /\ CutsTheTorn /\ AbandonedCutsElsewhere

LEMMA TornBefore ==
  ASSUME NEW bs \in Seq(BlockType), NEW cs \in Seq(BlockType), NoneNew(bs, cs),
         NEW i, TornAt(cs, i)
  PROVE  TornAt(bs, i) /\ cs[i] = bs[i] /\ i \in 1 .. Len(bs) /\ i \in 1 .. Len(cs)
<1>1. i \in 1 .. Len(cs) /\ AllFramed(cs, i - 1) /\ cs[i].kind = "torn"
  BY DEF TornAt
<1>2. i \in 1 .. Len(bs) /\ cs[i] = bs[i]
  BY <1>1 DEF NoneNew
<1>3. ASSUME NEW j \in 1 .. i - 1 PROVE IsFrame(bs[j])
  <2>1. j \in 1 .. Len(cs) /\ IsFrame(cs[j])
    BY <1>1 DEF AllFramed
  <2>2. cs[j] = bs[j]
    BY <2>1 DEF IsFrame, NoneNew
  <2>3. QED
    BY <2>1, <2>2
<1>4. QED
  BY <1>1, <1>2, <1>3 DEF TornAt, AllFramed

LEMMA OnlyLastKept ==
  ASSUME NEW bs \in Seq(BlockType), NEW cs \in Seq(BlockType), NoneNew(bs, cs), OnlyLast(bs)
  PROVE  OnlyLast(cs)
<1>1. SUFFICES ASSUME NEW i \in 1 .. Len(cs) - 1, TornAt(cs, i), cs[i + 1].kind # "stale"
               PROVE  cs[i + 1].at > CheckMaxLen
  BY DEF OnlyLast
<1>2. TornAt(bs, i)
  BY <1>1, TornBefore
<1>3. i + 1 \in 1 .. Len(cs)
  OBVIOUS
<1>4. i + 1 \in 1 .. Len(bs) /\ cs[i + 1] = bs[i + 1]
  BY <1>1, <1>3 DEF NoneNew
<1>5. i \in 1 .. Len(bs) - 1
  BY <1>4
<1>6. QED
  BY <1>1, <1>2, <1>4, <1>5 DEF OnlyLast

LEMMA BlockEnd ==
  ASSUME NEW b, NEW bs, Recorded(bs, b), NEW i \in 1 .. Len(bs)
  PROVE  /\ bs[i].at \in Nat /\ bs[i].len \in Nat \ {0} /\ bs[i].at < EndOf(bs, i)
         /\ EndOf(bs, i) \in Nat /\ EndOf(bs, i) <= Len(b) /\ Len(b) \in Nat /\ Len(bs) \in Nat
         /\ i = Len(bs) => EndOf(bs, i) = Len(b)
         /\ i # Len(bs) => i + 1 \in 1 .. Len(bs) /\ EndOf(bs, i) = bs[i + 1].at
<1>1. b \in Seq(Byte) /\ bs \in Seq(BlockType)
  BY DEF Recorded
<1>2. bs[i].at \in Nat /\ bs[i].len \in Nat \ {0}
  BY <1>1, BlockFields
<1>3. bs[i].at + bs[i].len <= Len(b)
  BY Order
<1>4. bs[i].at + bs[i].len = IF i = Len(bs) THEN Len(b) ELSE bs[i + 1].at
  BY DEF Recorded, Laid
<1>5. i # Len(bs) => i + 1 \in 1 .. Len(bs)
  BY <1>1
<1>6. bs[i].at < bs[i].at + bs[i].len /\ bs[i].at + bs[i].len \in Nat
  BY <1>2
<1>7. QED
  BY <1>1, <1>2, <1>3, <1>4, <1>5, <1>6 DEF EndOf

(* What an attempt appends follows a torn frame only in a long file. *)
LEMMA TornAppend ==
  ASSUME SafeInv, TornInv, MayAppend, NEW block, Behind(block), blocks' = Append(blocks, block),
         check'["abandoned"] = check["abandoned"]
  PROVE  OnlyLast(blocks') /\ AbandonedCutsElsewhere'
<1>1. /\ Recorded(blocks, bytes) /\ blocks \in Seq(BlockType) /\ bytes \in Seq(Byte)
      /\ Len(blocks) \in Nat /\ Len(bytes) \in Nat /\ CutsInRange /\ Rest /\ block \in BlockType
  BY DEF SafeInv, Recorded, Behind
<1>2. /\ Len(blocks') = Len(blocks) + 1 /\ blocks'[Len(blocks) + 1] = block
      /\ \A i \in 1 .. Len(blocks) : blocks'[i] = blocks[i]
  BY <1>1
<1>3. ASSUME NEW i \in 1 .. Len(blocks), TornAt(blocks', i)
      PROVE  TornAt(blocks, i) /\ EndOf(blocks', i) = EndOf(blocks, i)
  <2>1. \A j \in 1 .. i - 1 : j \in 1 .. Len(blocks)
    BY <1>1
  <2>2. QED
    BY <1>2, <1>3, <2>1 DEF TornAt, AllFramed, EndOf
<1>4. ASSUME NEW i \in 1 .. Len(blocks), i = Len(blocks), TornAt(blocks, i)
      PROVE  Len(bytes) > CheckMaxLen /\ block.at = Len(bytes) /\ EndOf(blocks, i) = Len(bytes)
  <2>1. EndOf(blocks, i) = Len(bytes) /\ EndOf(blocks, i) > 0
    <3>1. /\ EndOf(blocks, i) = Len(bytes) /\ EndOf(blocks, i) \in Nat
          /\ blocks[i].at \in Nat /\ blocks[i].at < EndOf(blocks, i)
      BY <1>1, <1>4, BlockEnd
    <3>2. QED
      BY <3>1
  <2>2. ~Creating
    BY <2>1 DEF Creating
  <2>3. bytes \o Start = bytes
    BY <1>1, <2>2, StartRecorded
  <2>4. verified \/ check["current"].pc = "ready"
    BY <2>2 DEF MayAppend
  <2>5. i < Len(blocks) \/ Len(bytes) > CheckMaxLen
    BY <1>4, <2>4 DEF TornInv, AppendsBehindNone
  <2>6. ~(i < Len(blocks))
    BY <1>1, <1>4
  <2>7. QED
    BY <2>1, <2>3, <2>5, <2>6 DEF Behind
<1>5. OnlyLast(blocks')
  <2>1. SUFFICES ASSUME NEW i \in 1 .. Len(blocks') - 1, TornAt(blocks', i)
                 PROVE  blocks'[i + 1].kind = "stale" \/ blocks'[i + 1].at > CheckMaxLen
    BY DEF OnlyLast
  <2>2. i \in 1 .. Len(blocks)
    BY <1>1, <1>2
  <2>3. TornAt(blocks, i)
    BY <1>3, <2>1, <2>2
  <2>4. CASE i = Len(blocks)
    BY <1>2, <1>4, <2>2, <2>3, <2>4
  <2>5. CASE i # Len(blocks)
    <3>1. i \in 1 .. Len(blocks) - 1 /\ i + 1 \in 1 .. Len(blocks)
      BY <1>1, <2>2, <2>5
    <3>2. QED
      BY <1>2, <2>3, <3>1 DEF TornInv, OnlyLast
  <2>6. QED
    BY <2>4, <2>5
<1>6. AbandonedCutsElsewhere'
  <2>1. SUFFICES ASSUME check'["abandoned"].pc \in {"found", "cutting"},
                        NEW i \in 1 .. Len(blocks'), TornAt(blocks', i), i < Len(blocks')
                 PROVE  check'["abandoned"].cut # EndOf(blocks', i)
    BY DEF AbandonedCutsElsewhere, Checking
  <2>2. i \in 1 .. Len(blocks)
    BY <1>1, <1>2, <2>1
  <2>3. TornAt(blocks, i) /\ EndOf(blocks', i) = EndOf(blocks, i)
    BY <1>3, <2>1, <2>2
  <2>4. Checking("abandoned")
    BY <2>1 DEF Checking
  <2>5. CASE i = Len(blocks)
    <3>1. Len(bytes) > CheckMaxLen /\ EndOf(blocks, i) = Len(bytes)
      BY <1>4, <2>2, <2>3, <2>5
    <3>2. "abandoned" \in Checks
      BY DEF Checks
    <3>3. check["abandoned"] \in CheckType
      BY <1>1, <3>2 DEF Rest
    <3>4. check["abandoned"].len \in Nat /\ check["abandoned"].cut \in Int
      BY <3>3, CheckFields
    <3>5. check["abandoned"].cut < check["abandoned"].len /\ check["abandoned"].len <= CheckMaxLen
      BY <1>1, <2>4, <3>2 DEF CutsInRange
    <3>6. CheckMaxLen \in Nat
      BY FormatAssumption
    <3>7. check["abandoned"].cut # Len(bytes)
      BY <1>1, <3>1, <3>4, <3>5, <3>6
    <3>8. QED
      BY <2>3, <3>1, <3>7
  <2>6. CASE i # Len(blocks)
    <3>1. i < Len(blocks)
      BY <1>1, <2>2, <2>6
    <3>2. QED
      BY <2>2, <2>3, <2>4, <3>1 DEF TornInv, AbandonedCutsElsewhere
  <2>7. QED
    BY <2>5, <2>6
<1>7. QED
  BY <1>5, <1>6

(* While nothing changes in the file and for the check given up. *)
LEMMA TornSame ==
  ASSUME TornInv, bytes' = bytes, blocks' = blocks,
         check'["abandoned"].pc \in {"found", "cutting"} =>
           Checking("abandoned") /\ check'["abandoned"].cut = check["abandoned"].cut
  PROVE  OnlyLast(blocks') /\ AbandonedCutsElsewhere'
BY DEF TornInv, AbandonedCutsElsewhere, Checking

LEMMA TornIdle ==
  ASSUME check'["current"].pc = "idle", verified' = FALSE
  PROVE  AppendsBehindNone' /\ SeesTheTorn' /\ CutsTheTorn'
BY DEF AppendsBehindNone, SeesTheTorn, CutsTheTorn, Checking

LEMMA TornWalk ==
  ASSUME SafeInv, TornInv, Walk PROVE TornInv'
<1> DEFINE cut == truncated_frame_start(bytes)
           r == check'["current"]
<1>1. /\ Recorded(blocks, bytes) /\ Rest /\ bytes \in Seq(Byte) /\ Len(blocks) \in Nat
      /\ bytes' = bytes /\ blocks' = blocks /\ verified' = FALSE
  BY DEF SafeInv, Walk, Recorded
<1>2. /\ check'["abandoned"] = check["abandoned"]
      /\ \/ r.pc = "ready" /\ (Len(bytes) > CheckMaxLen \/ cut = None)
         \/ r.pc = "found" /\ ~(Len(bytes) > CheckMaxLen) /\ cut # None
            /\ r.len = Len(bytes) /\ r.cut = cut
  BY <1>1, WalkChecks
<1>3. OnlyLast(blocks') /\ AbandonedCutsElsewhere'
  BY <1>1, <1>2, TornSame DEF Checking
<1>4. ASSUME NEW i \in 1 .. Len(blocks), TornAt(blocks, i)
      PROVE  /\ i = Len(blocks) => cut = blocks[i].at
             /\ cut = None \/ cut = blocks[i].at \/ cut > EndOf(blocks, i)
             /\ blocks[i].at \in Nat /\ blocks[i].at < EndOf(blocks, i) /\ EndOf(blocks, i) \in Nat
             /\ cut # None => cut \in Nat
  <2>1. AllFramed(blocks, i - 1) /\ blocks[i].kind = "torn"
    BY <1>4 DEF TornAt
  <2>2. /\ i = Len(blocks) => cut = blocks[i].at
        /\ cut = None \/ cut = blocks[i].at \/ cut > EndOf(blocks, i)
    BY <1>1, <2>1, TornTail DEF EndOf
  <2>3. cut # None => cut \in Nat
    BY <1>1, CutInside
  <2>4. QED
    BY <1>1, <2>2, <2>3, BlockEnd
<1> HIDE DEF cut, r
<1>5. AppendsBehindNone'
  <2>1. SUFFICES ASSUME r.pc = "ready", NEW i \in 1 .. Len(blocks), TornAt(blocks, i)
                 PROVE  i < Len(blocks) \/ Len(bytes) > CheckMaxLen
    BY <1>1 DEF AppendsBehindNone, r
  <2>2. Len(bytes) > CheckMaxLen \/ cut = None
    BY <1>2, <2>1
  <2>3. i # Len(blocks) \/ cut # None
    BY <1>4, <2>1 DEF None
  <2>4. i # Len(blocks) => i < Len(blocks)
    BY <1>1
  <2>5. QED
    BY <2>2, <2>3, <2>4
<1>6. SeesTheTorn'
  BY <1>1, <1>2 DEF SeesTheTorn, r
<1>7. CutsTheTorn'
  <2>1. SUFFICES ASSUME r.pc \in {"found", "cutting"}, NEW i \in 1 .. Len(blocks), TornAt(blocks, i)
                 PROVE  \/ r.cut <= blocks[i].at
                        \/ r.cut > EndOf(blocks, i) /\ i < Len(blocks)
    BY <1>1 DEF CutsTheTorn, Checking, EndOf, r
  <2>2. cut # None /\ r.cut = cut
    BY <1>2, <2>1
  <2>3. /\ i = Len(blocks) => cut = blocks[i].at
        /\ cut = blocks[i].at \/ cut > EndOf(blocks, i)
        /\ blocks[i].at \in Nat
    BY <1>4, <2>1, <2>2
  <2>4. CASE cut = blocks[i].at
    BY <2>2, <2>3, <2>4
  <2>5. CASE cut # blocks[i].at
    BY <1>1, <2>2, <2>3, <2>5
  <2>6. QED
    BY <2>4, <2>5
<1>8. QED
  BY <1>3, <1>5, <1>6, <1>7, <1>1 DEF TornInv

LEMMA TornRecheck ==
  ASSUME SafeInv, TornInv, NEW c \in Checks, Recheck(c) PROVE TornInv'
<1>1. /\ Rest /\ bytes' = bytes /\ blocks' = blocks /\ verified' = verified
      /\ "current" \in Checks /\ "abandoned" \in Checks
  BY DEF SafeInv, Recheck, Checks
<1>2. /\ \A d \in Checks : check'[d].pc \in {"found", "cutting"} => Checking(d) /\ Goes(d, d)
      /\ \A d \in Checks \ {c} : check'[d] = check[d]
      /\ check[c].pc = "found" /\ check'[c].pc # "found"
      /\ check'[c].pc \in {"ready", "idle"} => Len(bytes) # check[c].len
  BY <1>1, RecheckChecks
<1>3. OnlyLast(blocks') /\ AbandonedCutsElsewhere'
  BY <1>1, <1>2, TornSame DEF Goes
<1>4. AppendsBehindNone'
  <2>1. SUFFICES ASSUME verified \/ check'["current"].pc = "ready",
                        NEW i \in 1 .. Len(blocks), TornAt(blocks, i)
                 PROVE  i < Len(blocks) \/ Len(bytes) > CheckMaxLen
    BY <1>1 DEF AppendsBehindNone
  <2>2. CASE verified \/ check["current"].pc = "ready"
    BY <2>1, <2>2 DEF TornInv, AppendsBehindNone
  <2>3. CASE ~(verified \/ check["current"].pc = "ready")
    <3>1. c = "current"
      BY <1>1, <1>2, <2>1, <2>3
    <3>2. i # Len(blocks)
      BY <1>2, <2>1, <2>3, <3>1 DEF TornInv, SeesTheTorn
    <3>3. Len(blocks) \in Nat
      BY DEF SafeInv, Recorded
    <3>4. QED
      BY <3>2, <3>3
  <2>4. QED
    BY <2>2, <2>3
<1>5. SeesTheTorn'
  <2>1. SUFFICES ASSUME check'["current"].pc = "found" PROVE SeesTheTorn'
    BY DEF SeesTheTorn
  <2>2. check'["current"] = check["current"]
    BY <1>1, <1>2, <2>1
  <2>3. QED
    BY <1>1, <2>2 DEF TornInv, SeesTheTorn
<1>6. CutsTheTorn'
  <2>1. SUFFICES ASSUME check'["current"].pc \in {"found", "cutting"} PROVE CutsTheTorn'
    BY DEF CutsTheTorn, Checking
  <2>2. Checking("current") /\ check'["current"].cut = check["current"].cut
    BY <1>1, <1>2, <2>1 DEF Goes
  <2>3. QED
    BY <1>1, <2>2 DEF TornInv, CutsTheTorn
<1>7. QED
  BY <1>3, <1>4, <1>5, <1>6 DEF TornInv

LEMMA TornSetLen ==
  ASSUME SafeInv, TornInv, NEW c \in Checks, SetLen(c) PROVE TornInv'
<1> DEFINE cut == check[c].cut
<1>1. /\ Rest /\ Recorded(blocks, bytes) /\ verified' = verified
      /\ "current" \in Checks /\ "abandoned" \in Checks
  BY DEF SafeInv, SetLen, Checks
<1>2. /\ cut \in Nat /\ Recorded(blocks', bytes') /\ Len(bytes') = cut
      /\ NoneNew(blocks, blocks') /\ blocks \in Seq(BlockType) /\ blocks' \in Seq(BlockType)
  BY <1>1, SetLenFile DEF Recorded
<1>3. /\ \A d \in Checks \ {c} : check'[d] = check[d]
      /\ check[c].pc = "cutting" /\ check'[c] = Ended(c) /\ check'[c].pc \in {"idle", "ready"}
  BY <1>1, SetLenChecks
<1>4. OnlyLast(blocks')
  BY <1>2, OnlyLastKept DEF TornInv
<1>5. ASSUME NEW i, TornAt(blocks', i)
      PROVE  /\ i \in 1 .. Len(blocks) /\ i \in 1 .. Len(blocks')
             /\ TornAt(blocks, i) /\ blocks'[i] = blocks[i] /\ EndOf(blocks', i) = EndOf(blocks, i)
             /\ blocks[i].at \in Nat /\ blocks[i].at < EndOf(blocks, i) /\ EndOf(blocks, i) \in Nat
             /\ EndOf(blocks, i) <= cut
             /\ i # Len(blocks') => i < Len(blocks')
             /\ i = Len(blocks') => EndOf(blocks, i) = cut
             /\ i # Len(blocks) => i < Len(blocks)
             /\ i = Len(blocks) => EndOf(blocks, i) = Len(bytes)
  <2>1. /\ TornAt(blocks, i) /\ blocks'[i] = blocks[i]
        /\ i \in 1 .. Len(blocks) /\ i \in 1 .. Len(blocks')
    BY <1>2, <1>5, TornBefore
  <2>2. EndOf(blocks', i) = EndOf(blocks, i)
    BY <2>1 DEF EndOf
  <2>3. /\ blocks[i].at \in Nat /\ blocks[i].at < EndOf(blocks, i) /\ EndOf(blocks, i) \in Nat
        /\ i = Len(blocks) => EndOf(blocks, i) = Len(bytes)
    BY <1>1, <2>1, BlockEnd
  <2>4. EndOf(blocks', i) <= cut /\ (i = Len(blocks') => EndOf(blocks', i) = cut)
    BY <1>2, <2>1, BlockEnd
  <2>5. /\ i # Len(blocks') => i < Len(blocks')
        /\ i # Len(blocks) => i < Len(blocks)
    BY <1>2, <2>1
  <2>6. QED
    BY <2>1, <2>2, <2>3, <2>4, <2>5
<1>6. CASE c = "current"
  <2>1. check'["current"].pc = "ready" /\ check'["abandoned"] = check["abandoned"]
    BY <1>1, <1>3, <1>6, EndedIs
  <2>2. ASSUME NEW i, TornAt(blocks', i) PROVE i < Len(blocks) /\ i < Len(blocks')
    <3>1. Checking("current")
      BY <1>3, <1>6 DEF Checking
    <3>2. cut <= blocks[i].at \/ (cut > EndOf(blocks, i) /\ i < Len(blocks))
      BY <1>5, <1>6, <2>2, <3>1 DEF TornInv, CutsTheTorn
    <3>3. /\ blocks[i].at \in Nat /\ blocks[i].at < EndOf(blocks, i) /\ EndOf(blocks, i) \in Nat
          /\ EndOf(blocks, i) <= cut
      BY <1>5, <2>2
    <3>4. cut > EndOf(blocks, i) /\ i < Len(blocks)
      <4>1. ~(cut <= blocks[i].at)
        BY <1>2, <3>3
      <4>2. QED
        BY <3>2, <4>1
    <3>5. EndOf(blocks, i) # cut
      BY <1>2, <3>3, <3>4
    <3>6. QED
      BY <1>5, <2>2, <3>4, <3>5
  <2>3. AppendsBehindNone' /\ SeesTheTorn' /\ CutsTheTorn'
    BY <2>1, <2>2 DEF AppendsBehindNone, SeesTheTorn, CutsTheTorn, Checking
  <2>4. AbandonedCutsElsewhere'
    <3>1. SUFFICES ASSUME check'["abandoned"].pc \in {"found", "cutting"}, NEW i, TornAt(blocks', i)
                   PROVE  check'["abandoned"].cut # EndOf(blocks', i)
      BY DEF AbandonedCutsElsewhere, Checking
    <3>2. Checking("abandoned")
      BY <2>1, <3>1 DEF Checking
    <3>3. QED
      BY <1>5, <2>1, <2>2, <3>1, <3>2 DEF TornInv, AbandonedCutsElsewhere
  <2>5. QED
    BY <1>4, <2>3, <2>4 DEF TornInv
<1>7. CASE c = "abandoned"
  <2>1. check'["abandoned"].pc = "idle" /\ check'["current"] = check["current"]
    BY <1>1, <1>3, <1>7, EndedIs, IdleCheck
  <2>2. AbandonedCutsElsewhere'
    BY <2>1 DEF AbandonedCutsElsewhere, Checking
  <2>3. ASSUME NEW i, TornAt(blocks', i)
        PROVE  i < Len(blocks') \/ (i = Len(blocks) /\ Len(bytes') = Len(bytes))
    <3>1. SUFFICES ASSUME i = Len(blocks')
                   PROVE  i = Len(blocks) /\ Len(bytes') = Len(bytes)
      BY <1>5, <2>3
    <3>2. EndOf(blocks, i) = cut /\ TornAt(blocks, i) /\ i \in 1 .. Len(blocks)
      BY <1>5, <2>3, <3>1
    <3>3. Checking("abandoned")
      BY <1>3, <1>7 DEF Checking
    <3>4. ~(i < Len(blocks))
      BY <1>7, <3>2, <3>3 DEF TornInv, AbandonedCutsElsewhere
    <3>5. i = Len(blocks) /\ EndOf(blocks, i) = Len(bytes)
      BY <1>5, <2>3, <3>4
    <3>6. QED
      BY <1>2, <3>2, <3>5
  <2>4. AppendsBehindNone'
    <3>1. SUFFICES ASSUME verified \/ check["current"].pc = "ready", NEW i, TornAt(blocks', i),
                          ~(i < Len(blocks'))
                   PROVE  Len(bytes') > CheckMaxLen
      BY <1>1, <2>1 DEF AppendsBehindNone
    <3>2. i = Len(blocks) /\ Len(bytes') = Len(bytes)
      BY <2>3, <3>1
    <3>3. i \in 1 .. Len(blocks) /\ TornAt(blocks, i)
      BY <1>5, <3>1
    <3>4. ~(i < Len(blocks))
      BY <3>2, <3>3
    <3>5. QED
      BY <3>1, <3>2, <3>3, <3>4 DEF TornInv, AppendsBehindNone
  <2>5. SeesTheTorn'
    <3>1. SUFFICES ASSUME check["current"].pc = "found", NEW i, TornAt(blocks', i),
                          i = Len(blocks')
                   PROVE  check["current"].len = Len(bytes')
      BY <2>1 DEF SeesTheTorn
    <3>2. ~(i < Len(blocks'))
      BY <1>5, <3>1
    <3>3. i = Len(blocks) /\ Len(bytes') = Len(bytes)
      BY <2>3, <3>1, <3>2
    <3>4. i \in 1 .. Len(blocks) /\ TornAt(blocks, i)
      BY <1>5, <3>1
    <3>5. QED
      BY <3>1, <3>3, <3>4 DEF TornInv, SeesTheTorn
  <2>6. CutsTheTorn'
    <3>1. SUFFICES ASSUME Checking("current"), NEW i, TornAt(blocks', i)
                   PROVE  \/ check["current"].cut <= blocks'[i].at
                          \/ check["current"].cut > EndOf(blocks', i) /\ i < Len(blocks')
      BY <2>1 DEF CutsTheTorn, Checking
    <3>2. /\ i \in 1 .. Len(blocks) /\ TornAt(blocks, i)
          /\ blocks'[i] = blocks[i] /\ EndOf(blocks', i) = EndOf(blocks, i)
      BY <1>5, <3>1
    <3>3. \/ check["current"].cut <= blocks[i].at
          \/ check["current"].cut > EndOf(blocks, i) /\ i < Len(blocks)
      BY <3>1, <3>2 DEF TornInv, CutsTheTorn
    <3>4. i < Len(blocks) => i < Len(blocks')
      BY <2>3, <3>1, <3>2
    <3>5. QED
      BY <3>2, <3>3, <3>4
  <2>7. QED
    BY <1>4, <2>2, <2>4, <2>5, <2>6 DEF TornInv
<1>8. QED
  BY <1>6, <1>7 DEF Checks

LEMMA TornLateWrite ==
  ASSUME SafeInv, TornInv, LateWrite PROVE TornInv'
<1>1. /\ Recorded(blocks, bytes) /\ blocks \in Seq(BlockType)
      /\ verified' = verified /\ check' = check
      /\ Recorded(blocks', bytes') /\ blocks' \in Seq(BlockType)
      /\ (bytes' = bytes /\ blocks' = blocks) \/ Follows(blocks, blocks')
  BY LateWriteIs DEF SafeInv, Recorded
<1>2. CASE bytes' = bytes /\ blocks' = blocks
  BY <1>1, <1>2 DEF TornInv, AppendsBehindNone, SeesTheTorn, CutsTheTorn,
                    AbandonedCutsElsewhere, Checking
<1>3. CASE Follows(blocks, blocks')
  <2>1. OnlyLast(blocks')
    BY <1>1, <1>3, OnlyLastKept DEF Follows, TornInv
  <2>2. ASSUME NEW i, TornAt(blocks', i)
        PROVE  /\ i \in 1 .. Len(blocks) /\ i \in 1 .. Len(blocks')
               /\ TornAt(blocks, i) /\ blocks'[i] = blocks[i] /\ EndOf(blocks', i) = EndOf(blocks, i)
               /\ i < Len(blocks) /\ i < Len(blocks')
    <3>1. /\ TornAt(blocks, i) /\ blocks'[i] = blocks[i]
          /\ i \in 1 .. Len(blocks) /\ i \in 1 .. Len(blocks')
      BY <1>1, <1>3, <2>2, TornBefore DEF Follows
    <3>2. EndOf(blocks', i) = EndOf(blocks, i)
      BY <3>1 DEF EndOf
    <3>3. i < Len(blocks) /\ i < Len(blocks')
      BY <1>3, <2>2, <3>1 DEF Follows, TornAt
    <3>4. QED
      BY <3>1, <3>2, <3>3
  <2>3. AppendsBehindNone'
    BY <2>2 DEF AppendsBehindNone
  <2>4. SeesTheTorn'
    <3>1. SUFFICES ASSUME NEW i, TornAt(blocks', i), i = Len(blocks') PROVE FALSE
      BY DEF SeesTheTorn
    <3>2. i < Len(blocks') /\ i \in 1 .. Len(blocks')
      BY <2>2, <3>1
    <3>3. QED
      BY <3>1, <3>2
  <2>5. CutsTheTorn'
    <3>1. SUFFICES ASSUME Checking("current"), NEW i, TornAt(blocks', i)
                   PROVE  \/ check["current"].cut <= blocks'[i].at
                          \/ check["current"].cut > EndOf(blocks', i) /\ i < Len(blocks')
      BY <1>1 DEF CutsTheTorn, Checking
    <3>2. QED
      BY <2>2, <3>1 DEF TornInv, CutsTheTorn
  <2>6. AbandonedCutsElsewhere'
    <3>1. SUFFICES ASSUME Checking("abandoned"), NEW i, TornAt(blocks', i)
                   PROVE  check["abandoned"].cut # EndOf(blocks', i)
      BY <1>1 DEF AbandonedCutsElsewhere, Checking
    <3>2. QED
      BY <2>2, <3>1 DEF TornInv, AbandonedCutsElsewhere
  <2>7. QED
    BY <2>1, <2>3, <2>4, <2>5, <2>6 DEF TornInv
<1>4. QED
  BY <1>1, <1>2, <1>3

LEMMA TornAbandon ==
  ASSUME SafeInv, TornInv, Abandon PROVE TornInv'
<1>1. /\ Recorded(blocks, bytes) /\ Rest
      /\ bytes' = bytes /\ blocks' = blocks /\ verified' = FALSE
  BY DEF SafeInv, Abandon
<1>2. OnlyLast(blocks')
  BY <1>1 DEF TornInv
<1>3. CASE /\ check["current"].pc \in {"found", "cutting"}
           /\ check' = [current |-> Idle, abandoned |-> check["current"]]
  <2>1. check'["current"].pc = "idle" /\ check'["abandoned"] = check["current"]
    BY <1>3, IdleCheck
  <2>2. AbandonedCutsElsewhere'
    <3>1. SUFFICES ASSUME NEW i \in 1 .. Len(blocks), TornAt(blocks, i)
                   PROVE  check["current"].cut # EndOf(blocks, i)
      BY <1>1, <2>1 DEF AbandonedCutsElsewhere, EndOf
    <3>2. \/ check["current"].cut <= blocks[i].at
          \/ check["current"].cut > EndOf(blocks, i)
      BY <1>3, <3>1 DEF TornInv, CutsTheTorn, Checking
    <3>3. /\ blocks[i].at \in Nat /\ EndOf(blocks, i) \in Nat /\ blocks[i].at < EndOf(blocks, i)
      BY <1>1, <3>1, BlockEnd
    <3>4. check["current"].cut \in Int
      <4>1. check["current"] \in CheckType
        BY <1>1 DEF Rest, Checks
      <4>2. QED
        BY <4>1, CheckFields
    <3>5. QED
      BY <3>2, <3>3, <3>4
  <2>3. QED
    BY <1>1, <1>2, <2>1, <2>2, TornIdle DEF TornInv
<1>4. CASE check' = [check EXCEPT !["current"] = Idle]
  <2>1. check'["current"].pc = "idle" /\ check'["abandoned"] = check["abandoned"]
    BY <1>1, <1>4, IdleCheck DEF Rest, Checks
  <2>2. AbandonedCutsElsewhere'
    BY <1>1, <2>1, TornSame DEF Checking
  <2>3. QED
    BY <1>1, <1>2, <2>1, <2>2, TornIdle DEF TornInv
<1>5. QED
  BY <1>3, <1>4 DEF Abandon

LEMMA TornRestart ==
  ASSUME SafeInv, TornInv, Restart PROVE TornInv'
<1>1. /\ bytes' = bytes /\ blocks' = blocks /\ verified' = FALSE
      /\ \A c \in Checks : check'[c].pc = "idle"
  BY IdleCheck DEF Restart
<1>2. check'["current"].pc = "idle" /\ check'["abandoned"].pc = "idle"
  BY <1>1 DEF Checks
<1>3. OnlyLast(blocks') /\ AbandonedCutsElsewhere'
  BY <1>1, <1>2, TornSame
<1>4. QED
  BY <1>1, <1>2, <1>3, TornIdle DEF TornInv

LEMMA TornAppendFrame ==
  ASSUME SafeInv, TornInv, AppendFrame PROVE TornInv'
<1>1. /\ Recorded(blocks, bytes) /\ Rest /\ MayAppend /\ Over(TRUE)
      /\ blocks \in Seq(BlockType) /\ Len(blocks) \in Nat
  <2>1. Recorded(blocks, bytes) /\ Rest /\ MayAppend /\ Over(TRUE)
    BY DEF SafeInv, AppendFrame
  <2>2. blocks \in Seq(BlockType)
    BY <2>1 DEF Recorded
  <2>3. Len(blocks) \in Nat
    BY <2>2
  <2>4. QED
    BY <2>1, <2>2, <2>3
<1>2. check'["current"].pc = "idle" /\ check'["abandoned"] = check["abandoned"]
  BY <1>1, OverChecks
<1>3. PICK block : Behind(block) /\ block.kind # "torn" /\ blocks' = Append(blocks, block)
  BY <1>1, AppendShape
<1>6. OnlyLast(blocks') /\ AbandonedCutsElsewhere'
  BY <1>1, <1>2, <1>3, TornAppend
<1>7. AppendsBehindNone'
  <2>1. SUFFICES ASSUME NEW i \in 1 .. Len(blocks'), TornAt(blocks', i) PROVE i < Len(blocks')
    BY DEF AppendsBehindNone
  <2>2. Len(blocks') = Len(blocks) + 1 /\ blocks'[Len(blocks) + 1].kind # "torn"
    BY <1>1, <1>3 DEF Behind
  <2>3. i # Len(blocks')
    BY <2>1, <2>2 DEF TornAt
  <2>4. QED
    BY <1>1, <2>2, <2>3
<1>8. SeesTheTorn' /\ CutsTheTorn'
  BY <1>2 DEF SeesTheTorn, CutsTheTorn, Checking
<1>9. QED
  BY <1>6, <1>7, <1>8 DEF TornInv

LEMMA TornTearFrame ==
  ASSUME SafeInv, TornInv, TearFrame PROVE TornInv'
<1>1. Recorded(blocks, bytes) /\ Rest /\ MayAppend /\ Over(FALSE)
  BY DEF SafeInv, TearFrame
<1>2. /\ check'["current"].pc = "idle" /\ check'["abandoned"] = check["abandoned"]
      /\ verified' = FALSE
  BY <1>1, OverChecks DEF Over
<1>3. OnlyLast(blocks') /\ AbandonedCutsElsewhere'
  <2>1. CASE blocks' = <<>> \/ \E k : blocks' = <<Block("foreign", 0, k, <<>>)>>
    <3>1. ASSUME NEW i PROVE ~TornAt(blocks', i)
      <4>1. CASE blocks' = <<>>
        BY <4>1 DEF TornAt
      <4>2. CASE \E k : blocks' = <<Block("foreign", 0, k, <<>>)>>
        <5>1. PICK k : blocks' = <<Block("foreign", 0, k, <<>>)>>
          BY <4>2
        <5> DEFINE block == Block("foreign", 0, k, <<>>)
        <5>2. block.kind = "foreign"
          BY DEF Block
        <5> HIDE DEF block
        <5>3. blocks' = <<block>>
          BY <5>1 DEF block
        <5>4. QED
          BY <5>2, <5>3 DEF TornAt
      <4>3. QED
        BY <2>1, <4>1, <4>2
    <3>2. QED
      BY <3>1 DEF OnlyLast, AbandonedCutsElsewhere
  <2>2. CASE \E block : Behind(block) /\ blocks' = Append(blocks, block)
    <3>1. PICK block : Behind(block) /\ blocks' = Append(blocks, block)
      BY <2>2
    <3>2. QED
      BY <1>1, <1>2, <3>1, TornAppend
  <2>3. QED
    BY <1>1, <2>1, <2>2, TearShape
<1>4. QED
  BY <1>2, <1>3, TornIdle DEF TornInv

LEMMA TornLeft ==
  ASSUME SafeInv, TornInv, MayAppend, NEW w, LeavesBehind(w),
         \/ blocks' = blocks
         \/ \E block : Behind(block) /\ blocks' = Append(blocks, block)
  PROVE  TornInv'
<1>1. Rest /\ Over(FALSE)
  BY DEF SafeInv, LeavesBehind
<1>2. /\ check'["current"].pc = "idle" /\ check'["abandoned"] = check["abandoned"]
      /\ verified' = FALSE
  BY <1>1, OverChecks DEF Over
<1>3. OnlyLast(blocks') /\ AbandonedCutsElsewhere'
  <2>1. CASE blocks' = blocks
    BY <1>2, <2>1 DEF TornInv, AbandonedCutsElsewhere, Checking
  <2>2. CASE \E block : Behind(block) /\ blocks' = Append(blocks, block)
    <3>1. PICK block : Behind(block) /\ blocks' = Append(blocks, block)
      BY <2>2
    <3>2. QED
      BY <1>1, <1>2, <3>1, TornAppend
  <2>3. QED
    BY <2>1, <2>2
<1>4. QED
  BY <1>2, <1>3, TornIdle DEF TornInv

LEMMA TornTimeOut ==
  ASSUME SafeInv, TornInv, TimeOut PROVE TornInv'
<1>1. MayAppend /\ \E w : LeavesBehind(w)
  BY DEF TimeOut
<1>2. \/ blocks' = blocks
      \/ \E block : Behind(block) /\ blocks' = Append(blocks, block)
  BY TimeOutShape DEF SafeInv
<1>3. QED
  BY <1>1, <1>2, TornLeft

LEMMA TornTimeOutCreating ==
  ASSUME SafeInv, TornInv, TimeOutCreating PROVE TornInv'
<1>1. MayAppend /\ \E w : LeavesBehind(w)
  BY DEF TimeOutCreating
<1>2. \/ blocks' = blocks
      \/ \E block : Behind(block) /\ blocks' = Append(blocks, block)
  BY TimeOutCreatingShape DEF SafeInv, Rest
<1>3. QED
  BY <1>1, <1>2, TornLeft

LEMMA TornStep ==
  ASSUME SafeInv, TornInv, [Next]_vars PROVE TornInv'
<1>1. CASE Walk
  BY <1>1, TornWalk
<1>2. ASSUME NEW c \in Checks, Recheck(c) PROVE TornInv'
  BY <1>2, TornRecheck
<1>3. ASSUME NEW c \in Checks, SetLen(c) PROVE TornInv'
  BY <1>3, TornSetLen
<1>4. CASE AppendFrame
  BY <1>4, TornAppendFrame
<1>5. CASE TearFrame
  BY <1>5, TornTearFrame
<1>6. CASE TimeOut
  BY <1>6, TornTimeOut
<1>7. CASE LateWrite
  BY <1>7, TornLateWrite
<1>12. CASE TimeOutCreating
  BY <1>12, TornTimeOutCreating
<1>8. CASE Abandon
  BY <1>8, TornAbandon
<1>9. CASE Restart
  BY <1>9, TornRestart
<1>10. CASE UNCHANGED vars
  BY <1>10 DEF vars, TornInv, AppendsBehindNone, SeesTheTorn, CutsTheTorn,
               AbandonedCutsElsewhere, Checking
<1>11. QED
  BY <1>1, <1>2, <1>3, <1>4, <1>5, <1>6, <1>7, <1>8, <1>9, <1>10, <1>12 DEF Next

LEMMA TornInit == Init => TornInv
<1>1. SUFFICES ASSUME Init PROVE TornInv
  OBVIOUS
<1>2. /\ \A c \in Checks : check[c].pc = "idle"
      /\ verified = FALSE
  BY <1>1, IdleCheck DEF Init
<1>3. check["current"].pc = "idle" /\ check["abandoned"].pc = "idle"
  BY <1>2 DEF Checks
<1>4. ASSUME NEW kind \in {"foreign", "framed"}, NEW at, NEW len,
             blocks = <<Block(kind, at, len, <<>>)>>
      PROVE  OnlyLast(blocks)
  <2> DEFINE block == Block(kind, at, len, <<>>)
  <2> HIDE DEF block
  <2>1. blocks = <<block>>
    BY <1>4 DEF block
  <2>2. Len(blocks) = 1
    BY <2>1
  <2>3. QED
    BY <2>2 DEF OnlyLast
<1>5. OnlyLast(blocks)
  <2>1. CASE blocks = <<>>
    BY <2>1 DEF OnlyLast
  <2>2. QED
    BY <1>1, <1>4, <2>1 DEF Init
<1>6. QED
  BY <1>2, <1>3, <1>5 DEF TornInv, AppendsBehindNone, SeesTheTorn, CutsTheTorn,
                          AbandonedCutsElsewhere, Checking

(* In a file short enough to be checked, a frame torn behind whole ones stays
   the last block unless stale work follows it: write_to_file cuts it before it
   appends, and neither a late write nor a check given up undoes that. *)
THEOREM TornIsCut == Spec => []TornOnlyLast
<1>1. Init => SafeInv /\ TornInv
  BY InitSafe, TornInit
<1>2. SafeInv /\ TornInv /\ [Next]_vars => (SafeInv /\ TornInv)'
  BY SafeStep, TornStep
<1>3. SafeInv /\ TornInv => TornOnlyLast
  <2>1. SUFFICES ASSUME SafeInv, TornInv, NEW i \in 1 .. Len(blocks) - 1,
                        Framed(i - 1), blocks[i].kind = "torn"
                 PROVE  blocks[i + 1].kind = "stale" \/ blocks[i + 1].at > CheckMaxLen
    BY DEF TornOnlyLast
  <2>2. Len(blocks) \in Nat
    BY <2>1 DEF SafeInv, Recorded
  <2>3. TornAt(blocks, i)
    BY <2>1, <2>2, FramedIs DEF TornAt
  <2>4. QED
    BY <2>1, <2>3 DEF TornInv, OnlyLast
<1>4. QED
  BY <1>1, <1>2, <1>3, PTL DEF Spec

(***************************************************************************)
(* What a reader makes of the file                                         *)
(***************************************************************************)

REnds(b, pos) == SizeEnds(b, pos + 4, Len(b))
ReadStops(b, pos) ==
  \/ pos = Len(b) \/ b[pos + 1] # Marker
  \/ REnds(b, pos) = {} \/ NextFrame(b, pos) > Len(b)
  \/ Checksum(TextAt(b, pos)) # ByteXor(b[pos + 3], SumMask)

ReadStep(read, b, pos) ==
  IF Readable(b, pos) THEN <<TextAt(b, pos)>> \o read[NextFrame(b, pos)] ELSE <<>>

IsRead(read, b) == read = [pos \in 0 .. Len(b) |-> ReadStep(read, b, pos)]

Reads(b) == CHOOSE read : IsRead(read, b)

LEMMA ReadFarther ==
  ASSUME NEW b \in Seq(Byte), NEW pos \in 0 .. Len(b), REnds(b, pos) # {}
  PROVE  /\ PayloadAt(b, pos) \in pos + 4 .. Len(b) /\ NextFrame(b, pos) \in Nat
         /\ NextFrame(b, pos) >= PayloadAt(b, pos) /\ NextFrame(b, pos) > pos
<1>1. Len(b) \in Nat /\ Len(b) <= Len(b) /\ SizeEnds(b, pos + 4, Len(b)) # {}
  BY DEF REnds
<1> DEFINE end == PayloadAt(b, pos)
<1>2. end \in pos + 4 .. Len(b) /\ SizeOf(b, pos + 4, end) \in Nat
  BY <1>1, NextIs DEF PayloadAt, REnds
<1> HIDE DEF end
<1>3. end + SizeOf(b, pos + 4, end) \in Nat /\ end + SizeOf(b, pos + 4, end) >= end /\ end > pos
  BY <1>2
<1>4. QED
  BY <1>2, <1>3 DEF NextFrame, end

(* Where a reader does not stop it reads a frame. *)
LEMMA StopsIs ==
  ASSUME NEW b \in Seq(Byte), NEW pos \in 0 .. Len(b)
  PROVE  ReadStops(b, pos) <=> ~Readable(b, pos)
<1>1. pos = Len(b) \/ pos < Len(b)
  OBVIOUS
<1>2. REnds(b, pos) # {} => (NextFrame(b, pos) > Len(b) <=> ~(NextFrame(b, pos) <= Len(b)))
  BY ReadFarther
<1>3. REnds(b, pos) = SizeEnds(b, pos + 4, Len(b))
  BY DEF REnds
<1>4. ~(Len(b) < Len(b))
  OBVIOUS
<1>5. QED
  BY <1>1, <1>2, <1>3, <1>4 DEF ReadStops, Readable

LEMMA RecoveredIs ==
  ASSUME NEW b
  PROVE  Recovered(b) = IF HasMagic(b) THEN Reads(b)[Len(Magic)] ELSE <<>>
BY DEF Recovered, Reads, IsRead, ReadStep

CountStops(b, pos) ==
  pos = Len(b) \/ b[pos + 1] # Marker \/ REnds(b, pos) = {}

CountStep(count, b, pos) ==
  IF CountStops(b, pos) THEN 0
  ELSE 1 + (IF NextFrame(b, pos) > Len(b) THEN 0 ELSE count[NextFrame(b, pos)])

IsCount(count, b) == count = [pos \in 0 .. Len(b) |-> CountStep(count, b, pos)]

Counts(b) == CHOOSE count : IsCount(count, b)

LEMMA CountIs ==
  ASSUME NEW b PROVE count_frames(b) = Counts(b)[Len(Magic)]
BY DEF count_frames, Counts, IsCount, CountStep, CountStops, NextFrame, PayloadAt, REnds

LEMMA ReadTextType ==
  ASSUME NEW b \in Seq(Byte), NEW pos \in 0 .. Len(b), REnds(b, pos) # {},
         ~(NextFrame(b, pos) > Len(b))
  PROVE  TextAt(b, pos) \in Seq(Byte)
<1> DEFINE e == PayloadAt(b, pos)
           x == NextFrame(b, pos)
<1>1. e \in pos + 4 .. Len(b) /\ x \in Nat /\ x >= e /\ x <= Len(b)
  BY ReadFarther
<1> HIDE DEF e, x
<1>2. SubSeq(b, e + 1, x) \in Seq(Byte)
  BY <1>1
<1>3. (b[pos + 2] * (x - e)) % KeyMod \in Nat
  <2>1. b[pos + 2] \in Byte
    BY <1>1
  <2>2. b[pos + 2] \in Nat /\ x - e \in Nat
    BY <1>1, <2>1, Bytes
  <2>3. ASSUME NEW u \in Nat, NEW v \in Nat PROVE (u * v) % KeyMod \in Nat
    <3>1. u * v \in Nat
      OBVIOUS
    <3>2. QED
      BY <3>1, FormatAssumption
  <2>4. QED
    BY <2>2, <2>3
<1>4. QED
  BY <1>2, <1>3, ObfuscateType DEF TextAt, SeedProduct, e, x

LEMMA ReadEquation ==
  ASSUME NEW b \in Seq(Byte)
  PROVE  \A pos \in 0 .. Len(b) : /\ Reads(b)[pos] \in Seq(Seq(Byte))
                                  /\ Reads(b)[pos] = ReadStep(Reads(b), b, pos)
<1> DEFINE D == 0 .. Len(b)
           V == Seq(Seq(Byte))
           N == Len(b)
           m == [pos \in D |-> Len(b) - pos]
           Stop == {pos \in D : ~Readable(b, pos)}
           val == [pos \in D |-> <<>>]
           next == [pos \in D |-> NextFrame(b, pos)]
           G == [pos \in D |-> IF pos \in Stop THEN [s \in V |-> s]
                               ELSE [s \in V |-> <<TextAt(b, pos)>> \o s]]
<1>0. ASSUME NEW pos \in D, Readable(b, pos)
      PROVE  /\ NextFrame(b, pos) \in D /\ NextFrame(b, pos) > pos /\ TextAt(b, pos) \in Seq(Byte)
             /\ \A s \in V : <<TextAt(b, pos)>> \o s \in V
  <2>0. ~ReadStops(b, pos)
    BY <1>0, StopsIs
  <2>1. REnds(b, pos) # {} /\ ~(NextFrame(b, pos) > Len(b))
    BY <2>0 DEF ReadStops
  <2>2. NextFrame(b, pos) \in Nat /\ NextFrame(b, pos) > pos
    BY <2>1, ReadFarther
  <2>3. TextAt(b, pos) \in Seq(Byte)
    BY <2>1, ReadTextType
  <2>4. <<TextAt(b, pos)>> \in V
    BY <2>3
  <2>5. QED
    BY <2>1, <2>2, <2>3, <2>4, Concatenation
<1>1. N \in Nat /\ m \in [D -> 0 .. N] /\ val \in [D -> V]
  OBVIOUS
<1>2. G \in [D -> [V -> V]]
  <2>1. ASSUME NEW pos \in D PROVE G[pos] \in [V -> V]
    <3>1. CASE pos \in Stop
      BY <3>1
    <3>2. CASE pos \notin Stop
      <4>1. \A s \in V : <<TextAt(b, pos)>> \o s \in V
        BY <1>0, <3>2
      <4>2. G[pos] = [s \in V |-> <<TextAt(b, pos)>> \o s]
        BY <3>2
      <4> HIDE DEF G, V
      <4>3. QED
        BY <4>1, <4>2
    <3>3. QED
      BY <3>1, <3>2
  <2> HIDE DEF V
  <2>2. QED
    BY <2>1
<1>3. ASSUME NEW pos \in D \ Stop PROVE next[pos] \in D /\ m[next[pos]] < m[pos]
  <2>1. NextFrame(b, pos) \in D /\ NextFrame(b, pos) > pos
    BY <1>0, <1>3
  <2>2. QED
    BY <2>1
<1>4. Recursive(D, V, N, m, Stop, val, next, G)
  <2> HIDE DEF D, V, N, m, Stop, val, next, G
  <2>1. QED
    BY <1>1, <1>2, <1>3 DEF Recursive
<1>5. PICK f \in [D -> V] : Solution(f, D, Stop, val, next, G)
  <2> HIDE DEF D, V, N, m, Stop, val, next, G
  <2>1. QED
    BY <1>4, Recursion
<1>6. ASSUME NEW pos \in D PROVE f[pos] = ReadStep(f, b, pos)
  <2>1. f[pos] = IF pos \in Stop THEN val[pos] ELSE G[pos][f[next[pos]]]
    <3> HIDE DEF D, V, m, Stop, val, next, G
    <3>1. QED
      BY <1>5 DEF Solution
  <2>2. CASE ~Readable(b, pos)
    <3>1. pos \in Stop /\ val[pos] = <<>>
      BY <2>2
    <3> HIDE DEF Stop, val, G, next
    <3>2. QED
      BY <2>1, <2>2, <3>1 DEF ReadStep
  <2>3. CASE Readable(b, pos)
    <3>1. pos \notin Stop /\ next[pos] = NextFrame(b, pos) /\ next[pos] \in D
      BY <1>0, <2>3
    <3> HIDE DEF V
    <3>2. f[next[pos]] \in V
      BY <3>1
    <3>3. G[pos] = [s \in V |-> <<TextAt(b, pos)>> \o s]
      BY <3>1
    <3> HIDE DEF Stop, G, next
    <3>4. G[pos][f[next[pos]]] = <<TextAt(b, pos)>> \o f[next[pos]]
      BY <3>2, <3>3
    <3>5. f[pos] = <<TextAt(b, pos)>> \o f[NextFrame(b, pos)]
      BY <2>1, <3>1, <3>4
    <3>6. QED
      BY <2>3, <3>5 DEF ReadStep
  <2>4. QED
    BY <2>2, <2>3
<1>7. IsRead(f, b)
  BY <1>6 DEF IsRead
<1> DEFINE w == Reads(b)
<1>8. IsRead(w, b)
  BY <1>7, Zenon DEF Reads
<1> HIDE DEF w
<1>9. \A pos \in D : w[pos] = ReadStep(w, b, pos)
  BY <1>8 DEF IsRead
<1> DEFINE S == {k \in Nat : Len(b) - k >= 0 => w[Len(b) - k] \in V}
<1>10. ASSUME NEW k \in Nat, \A j \in 0 .. k - 1 : j \in S PROVE k \in S
  <2> DEFINE pos == Len(b) - k
  <2>1. SUFFICES ASSUME pos >= 0 PROVE w[pos] \in V
    OBVIOUS
  <2>2. pos \in D
    BY <2>1
  <2>3. w[pos] = ReadStep(w, b, pos)
    BY <1>9, <2>2
  <2>4. ASSUME Readable(b, pos) PROVE <<TextAt(b, pos)>> \o w[NextFrame(b, pos)] \in V
    <3>0. NextFrame(b, pos) \in D /\ NextFrame(b, pos) > pos
      BY <1>0, <2>2, <2>4
    <3> DEFINE j == Len(b) - NextFrame(b, pos)
    <3>1. j \in 0 .. k - 1 /\ Len(b) - j = NextFrame(b, pos)
      BY <3>0
    <3>2. j \in S
      BY <1>10, <3>1
    <3>3. w[NextFrame(b, pos)] \in V
      BY <3>0, <3>1, <3>2
    <3> HIDE DEF V, pos
    <3>4. QED
      BY <1>0, <2>2, <2>4, <3>3
  <2>5. <<>> \in V
    OBVIOUS
  <2> HIDE DEF pos, V
  <2>6. QED
    BY <2>3, <2>4, <2>5 DEF ReadStep
<1>11. \A k \in Nat : k \in S
  <2> HIDE DEF S
  <2>1. QED
    BY <1>10, StrongInduction
<1>12. ASSUME NEW pos \in D PROVE w[pos] \in V
  <2>1. Len(b) - pos \in Nat /\ Len(b) - (Len(b) - pos) = pos
    OBVIOUS
  <2>2. Len(b) - pos \in S
    BY <1>11, <2>1
  <2> HIDE DEF V
  <2>3. QED
    BY <2>1, <2>2
<1>13. QED
  BY <1>9, <1>12 DEF w

LEMMA CountEquation ==
  ASSUME NEW b \in Seq(Byte)
  PROVE  \A pos \in 0 .. Len(b) : /\ Counts(b)[pos] \in Nat
                                  /\ Counts(b)[pos] = CountStep(Counts(b), b, pos)
<1> DEFINE D == 0 .. Len(b)
           N == Len(b)
           On(pos) == ~CountStops(b, pos) /\ ~(NextFrame(b, pos) > Len(b))
           m == [pos \in D |-> Len(b) - pos]
           Stop == {pos \in D : ~On(pos)}
           val == [pos \in D |-> IF CountStops(b, pos) THEN 0 ELSE 1]
           next == [pos \in D |-> NextFrame(b, pos)]
           G == [pos \in D |-> [k \in Nat |-> 1 + k]]
<1>0. ASSUME NEW pos \in D, On(pos)
      PROVE  NextFrame(b, pos) \in D /\ NextFrame(b, pos) > pos
  <2>1. REnds(b, pos) # {} /\ ~(NextFrame(b, pos) > Len(b))
    BY <1>0 DEF CountStops
  <2>2. NextFrame(b, pos) \in Nat /\ NextFrame(b, pos) > pos
    BY <2>1, ReadFarther
  <2>3. QED
    BY <2>1, <2>2
<1> HIDE DEF On
<1>1. N \in Nat /\ m \in [D -> 0 .. N] /\ val \in [D -> Nat]
  OBVIOUS
<1>2. G \in [D -> [Nat -> Nat]]
  OBVIOUS
<1>3. ASSUME NEW pos \in D \ Stop PROVE next[pos] \in D /\ m[next[pos]] < m[pos]
  <2>1. NextFrame(b, pos) \in D /\ NextFrame(b, pos) > pos
    BY <1>0, <1>3
  <2>2. QED
    BY <2>1
<1>4. Recursive(D, Nat, N, m, Stop, val, next, G)
  <2> HIDE DEF D, N, m, Stop, val, next, G
  <2>1. QED
    BY <1>1, <1>2, <1>3 DEF Recursive
<1>5. PICK f \in [D -> Nat] : Solution(f, D, Stop, val, next, G)
  <2> HIDE DEF D, N, m, Stop, val, next, G
  <2>1. QED
    BY <1>4, Recursion
<1>6. ASSUME NEW pos \in D PROVE f[pos] = CountStep(f, b, pos)
  <2>1. f[pos] = IF pos \in Stop THEN val[pos] ELSE G[pos][f[next[pos]]]
    <3> HIDE DEF D, m, Stop, val, next, G
    <3>1. QED
      BY <1>5 DEF Solution
  <2>2. CASE ~On(pos)
    <3>1. f[pos] = IF CountStops(b, pos) THEN 0 ELSE 1
      BY <2>1, <2>2
    <3>2. QED
      BY <2>2, <3>1 DEF CountStep, On
  <2>3. CASE On(pos)
    <3>1. pos \notin Stop /\ next[pos] = NextFrame(b, pos) /\ next[pos] \in D
      BY <1>0, <2>3
    <3>2. f[next[pos]] \in Nat
      BY <3>1
    <3>3. G[pos][f[next[pos]]] = 1 + f[next[pos]]
      BY <3>2
    <3> HIDE DEF Stop, G, next
    <3>4. f[pos] = 1 + f[NextFrame(b, pos)]
      BY <2>1, <3>1, <3>3
    <3>5. QED
      BY <2>3, <3>4 DEF CountStep, On
  <2>4. QED
    BY <2>2, <2>3
<1>7. IsCount(f, b)
  BY <1>6 DEF IsCount
<1> DEFINE w == Counts(b)
<1>8. IsCount(w, b)
  BY <1>7, Zenon DEF Counts
<1> HIDE DEF w
<1>9. \A pos \in D : w[pos] = CountStep(w, b, pos)
  BY <1>8 DEF IsCount
<1> DEFINE S == {k \in Nat : Len(b) - k >= 0 => w[Len(b) - k] \in Nat}
<1>10. ASSUME NEW k \in Nat, \A j \in 0 .. k - 1 : j \in S PROVE k \in S
  <2> DEFINE pos == Len(b) - k
  <2>1. SUFFICES ASSUME pos >= 0 PROVE w[pos] \in Nat
    OBVIOUS
  <2>2. pos \in D
    BY <2>1
  <2>3. w[pos] = CountStep(w, b, pos)
    BY <1>9, <2>2
  <2>4. ASSUME On(pos) PROVE w[NextFrame(b, pos)] \in Nat
    <3>0. NextFrame(b, pos) \in D /\ NextFrame(b, pos) > pos
      BY <1>0, <2>2, <2>4
    <3> DEFINE j == Len(b) - NextFrame(b, pos)
    <3>1. j \in 0 .. k - 1 /\ Len(b) - j = NextFrame(b, pos)
      BY <3>0
    <3>2. j \in S
      BY <1>10, <3>1
    <3>3. QED
      BY <3>0, <3>1, <3>2
  <2> HIDE DEF pos
  <2>5. QED
    BY <2>3, <2>4 DEF CountStep, On
<1>11. \A k \in Nat : k \in S
  <2> HIDE DEF S
  <2>1. QED
    BY <1>10, StrongInduction
<1>12. ASSUME NEW pos \in D PROVE w[pos] \in Nat
  <2>1. Len(b) - pos \in Nat /\ Len(b) - (Len(b) - pos) = pos
    OBVIOUS
  <2>2. Len(b) - pos \in S
    BY <1>11, <2>1
  <2>3. QED
    BY <2>1, <2>2
<1>13. QED
  BY <1>9, <1>12 DEF w
(* How far the tests' decoder gets. *)
Decodes(b, pos) == Readable(b, pos) /\ SeedProduct(b, pos) < Word

StopStep(stop, b, pos) == IF Decodes(b, pos) THEN stop[NextFrame(b, pos)] ELSE pos

IsStop(stop, b) == stop = [pos \in 0 .. Len(b) |-> StopStep(stop, b, pos)]

Stops(b) == CHOOSE stop : IsStop(stop, b)

LEMMA DecodeIs ==
  ASSUME NEW b
  PROVE  decode_oplog_file(b)
           = IF HasMagic(b) /\ Stops(b)[Len(Magic)] = Len(b) THEN {Recovered(b)} ELSE {}
BY DEF decode_oplog_file, Stops, IsStop, StopStep, Decodes

LEMMA StopEquation ==
  ASSUME NEW b \in Seq(Byte)
  PROVE  \A pos \in 0 .. Len(b) : Stops(b)[pos] = StopStep(Stops(b), b, pos)
<1> DEFINE D == 0 .. Len(b)
           N == Len(b)
           m == [pos \in D |-> Len(b) - pos]
           Stop == {pos \in D : ~Decodes(b, pos)}
           val == [pos \in D |-> pos]
           next == [pos \in D |-> NextFrame(b, pos)]
           G == [pos \in D |-> [k \in Nat |-> k]]
<1>0. ASSUME NEW pos \in D, Decodes(b, pos)
      PROVE  NextFrame(b, pos) \in D /\ NextFrame(b, pos) > pos
  <2>0. ~ReadStops(b, pos)
    BY <1>0, StopsIs DEF Decodes
  <2>1. REnds(b, pos) # {} /\ ~(NextFrame(b, pos) > Len(b))
    BY <2>0 DEF ReadStops
  <2>2. NextFrame(b, pos) \in Nat /\ NextFrame(b, pos) > pos
    BY <2>1, ReadFarther
  <2>3. QED
    BY <2>1, <2>2
<1>1. N \in Nat /\ m \in [D -> 0 .. N] /\ val \in [D -> Nat]
  OBVIOUS
<1>2. G \in [D -> [Nat -> Nat]]
  OBVIOUS
<1>3. ASSUME NEW pos \in D \ Stop PROVE next[pos] \in D /\ m[next[pos]] < m[pos]
  <2>1. NextFrame(b, pos) \in D /\ NextFrame(b, pos) > pos
    BY <1>0, <1>3
  <2>2. QED
    BY <2>1
<1>4. Recursive(D, Nat, N, m, Stop, val, next, G)
  <2> HIDE DEF D, N, m, Stop, val, next, G
  <2>1. QED
    BY <1>1, <1>2, <1>3 DEF Recursive
<1>5. PICK f \in [D -> Nat] : Solution(f, D, Stop, val, next, G)
  <2> HIDE DEF D, N, m, Stop, val, next, G
  <2>1. QED
    BY <1>4, Recursion
<1>6. ASSUME NEW pos \in D PROVE f[pos] = StopStep(f, b, pos)
  <2>1. f[pos] = IF pos \in Stop THEN val[pos] ELSE G[pos][f[next[pos]]]
    <3> HIDE DEF D, m, Stop, val, next, G
    <3>1. QED
      BY <1>5 DEF Solution
  <2>2. CASE ~Decodes(b, pos)
    BY <2>1, <2>2 DEF StopStep
  <2>3. CASE Decodes(b, pos)
    <3>1. pos \notin Stop /\ next[pos] = NextFrame(b, pos) /\ next[pos] \in D
      BY <1>0, <2>3
    <3>2. f[next[pos]] \in Nat
      BY <3>1
    <3>3. G[pos][f[next[pos]]] = f[next[pos]]
      BY <3>2
    <3> HIDE DEF Stop, G, next
    <3>4. QED
      BY <2>1, <2>3, <3>1, <3>3 DEF StopStep
  <2>4. QED
    BY <2>2, <2>3
<1>7. IsStop(f, b)
  BY <1>6 DEF IsStop
<1> DEFINE w == Stops(b)
<1>8. IsStop(w, b)
  BY <1>7, Zenon DEF Stops
<1> HIDE DEF w
<1>9. \A pos \in D : w[pos] = StopStep(w, b, pos)
  BY <1>8 DEF IsStop
<1>10. QED
  BY <1>9 DEF w

(* The wrapped product of the writer's seed and the full one of the reader's
   are the same behind the mask. *)
LEMMA RemainderUnique ==
  ASSUME NEW K \in Nat \ {0}, NEW p \in Int, NEW q \in Int,
         NEW d \in 0 .. K - 1, NEW e \in 0 .. K - 1, K * p + d = K * q + e
  PROVE  d = e
<1>1. ASSUME NEW x \in Int, NEW y \in Int, x > y PROVE K * x >= K * y + K
  <2>1. x - y - 1 \in Nat /\ x = y + 1 + (x - y - 1)
    BY <1>1
  <2>2. ASSUME NEW z \in Nat PROVE K * (y + 1 + z) >= K * y + K
    <3>1. K * (y + 1 + z) = K * y + K + K * z
      OBVIOUS
    <3>2. K * z >= 0 /\ K * z \in Int /\ K * y \in Int
      OBVIOUS
    <3>3. QED
      BY <3>1, <3>2
  <2>3. K * (y + 1 + (x - y - 1)) >= K * y + K
    BY <2>1, <2>2
  <2>4. QED
    BY <2>1, <2>3
<1>2. K * p \in Int /\ K * q \in Int
  OBVIOUS
<1>3. CASE p > q
  <2>1. K * p >= K * q + K
    BY <1>1, <1>3
  <2>2. QED
    BY <1>2, <2>1
<1>4. CASE q > p
  <2>1. K * q >= K * p + K
    BY <1>1, <1>4
  <2>2. QED
    BY <1>2, <2>1
<1>5. CASE p = q
  BY <1>2, <1>5
<1>6. QED
  BY <1>3, <1>4, <1>5

LEMMA Remainder ==
  ASSUME NEW K \in Nat \ {0}, NEW x \in Nat
  PROVE  \E q \in Nat : x = K * q + (x % K) /\ x % K \in 0 .. K - 1
<1>1. x \div K \in Nat /\ x % K \in 0 .. K - 1 /\ x = K * (x \div K) + (x % K)
  OBVIOUS
<1>2. QED
  BY <1>1

LEMMA SeedsAgree ==
  ASSUME NEW x \in Nat PROVE (x % Word) % KeyMod = x % KeyMod
<1> DEFINE r == x % Word
           d == r % KeyMod
           e == x % KeyMod
<1>1. KeyMod \in Nat \ {0} /\ Word \in Nat \ {0} /\ Word % KeyMod = 0
  BY FormatAssumption
<1>2. PICK a \in Nat : x = Word * a + r /\ r \in 0 .. Word - 1
  BY <1>1, Remainder
<1>3. r \in Nat
  BY <1>1, <1>2
<1>4. PICK g \in Nat : Word = KeyMod * g + (Word % KeyMod)
  BY <1>1, Remainder
<1> HIDE DEF r
<1>5. PICK c \in Nat : r = KeyMod * c + d /\ d \in 0 .. KeyMod - 1
  BY <1>1, <1>3, Remainder
<1>6. PICK h \in Nat : x = KeyMod * h + e /\ e \in 0 .. KeyMod - 1
  BY <1>1, Remainder
<1> HIDE DEF d, e
<1>7. Word = KeyMod * g
  <2>1. ASSUME NEW k \in Nat, NEW u \in Nat PROVE k * u + 0 = k * u
    OBVIOUS
  <2>2. KeyMod * g + 0 = KeyMod * g
    BY <1>1, <2>1
  <2>3. QED
    BY <1>1, <1>4, <2>2
<1>8. x = KeyMod * (g * a + c) + d
  <2>1. ASSUME NEW k \in Nat, NEW u \in Nat, NEW v \in Nat, NEW w \in Nat, NEW z \in Nat
        PROVE  (k * u) * v + (k * w + z) = k * (u * v + w) + z
    OBVIOUS
  <2>2. (KeyMod * g) * a + (KeyMod * c + d) = KeyMod * (g * a + c) + d
    <3>1. KeyMod \in Nat /\ d \in Nat
      BY <1>1, <1>5
    <3>2. QED
      BY <2>1, <3>1
  <2>3. QED
    BY <1>2, <1>5, <1>7, <2>2
<1>9. g * a + c \in Int /\ h \in Int
  OBVIOUS
<1> DEFINE p == g * a + c
<1> HIDE DEF p
<1>10. KeyMod * p + d = KeyMod * h + e /\ p \in Int
  BY <1>6, <1>8, <1>9 DEF p
<1>11. d = e
  BY <1>1, <1>5, <1>6, <1>9, <1>10, RemainderUnique
<1>12. QED
  BY <1>11 DEF d, e, r

(* A frame of the writer is read as its payload, wherever it lies. *)
LEMMA EncodedRead ==
  ASSUME NEW b \in Seq(Byte), NEW pos \in Nat, NEW text \in Payloads, NEW rnd \in Rnds,
         Lies(b, pos, encode_frame(text, rnd))
  PROVE  /\ pos \in 0 .. Len(b) /\ Readable(b, pos) /\ TextAt(b, pos) = text
         /\ SeedProduct(b, pos) = rnd * Len(text)
         /\ NextFrame(b, pos) = pos + Len(encode_frame(text, rnd))
<1> DEFINE f == encode_frame(text, rnd)
           n == Len(text)
           h == HeadLen(n)
           e == pos + h
           o == Obfuscate(text, xor_seed(rnd, n))
<1>1. text \in Seq(Byte) /\ n \in Nat \ {0} /\ rnd \in Byte /\ rnd \in Nat
  BY ContentAssumption, Bytes
<1>2. Encoded(f, text, rnd)
  BY EncodedFrame
<1>3. HasHead(f, n) /\ f[2] = rnd /\ f[3] = ByteXor(Checksum(text), SumMask)
  BY <1>2 DEF Encoded
<1>4. \A k \in 1 .. n : f[h + k] = o[k]
  BY <1>2 DEF Encoded
<1>5. h \in Nat /\ h > 3
  BY <1>1, HeadLenType
<1> HIDE DEF f, h, n, e
<1>6. f \in Seq(Byte) /\ Len(f) = h + n
  BY <1>3 DEF HasHead, h
<1>7. pos + Len(f) <= Len(b) /\ \A k \in 1 .. Len(f) : b[pos + k] = f[k]
  BY DEF Lies, f
<1>8. Headed(b, pos, n)
  <2>1. Lies(b, pos, f)
    BY DEF f
  <2>2. QED
    BY <1>3, <2>1, LiesHeaded
<1>9. e \in Nat /\ e <= Len(b) /\ e + n = pos + Len(f) /\ e + n <= Len(b) /\ Len(b) \in Nat
  BY <1>1, <1>5, <1>6, <1>7 DEF e
<1>10. /\ pos \in 0 .. Len(b) /\ pos # Len(b) /\ b[pos + 1] = Marker
       /\ SizeEnds(b, pos + 4, Len(b)) # {}
       /\ Min(SizeEnds(b, pos + 4, Len(b))) = e
       /\ SizeOf(b, pos + 4, e) = n
  <2>1. pos + HeadLen(n) <= Len(b) /\ Len(b) <= Len(b)
    BY <1>9 DEF e, h
  <2>2. QED
    BY <1>1, <1>8, <1>9, <2>1, HeadRead DEF e, h
<1>11. REnds(b, pos) # {} /\ PayloadAt(b, pos) = e
  BY <1>10 DEF REnds, PayloadAt
<1>12. NextFrame(b, pos) = e + n
  BY <1>10, <1>11 DEF NextFrame
<1>13. b[pos + 2] = rnd /\ b[pos + 3] = ByteXor(Checksum(text), SumMask)
  <2>1. 2 \in 1 .. Len(f) /\ 3 \in 1 .. Len(f)
    BY <1>1, <1>5, <1>6
  <2>2. QED
    BY <1>3, <1>7, <2>1
<1>14. xor_seed(rnd, n) \in Nat /\ rnd * n \in Nat
  BY <1>1, SeedType
<1>15. o \in Seq(Byte) /\ Len(o) = n
  <2>1. Len(text) = n
    BY DEF n
  <2>2. QED
    BY <1>1, <1>14, <2>1, ObfuscateType
<1>16. SubSeq(b, e + 1, e + n) = o
  <2> DEFINE s == SubSeq(b, e + 1, e + n)
  <2>1. s \in Seq(Byte) /\ Len(s) = n /\ \A k \in 1 .. n : s[k] = b[e + k]
    BY <1>1, <1>9
  <2>2. ASSUME NEW k \in 1 .. n PROVE b[e + k] = o[k]
    <3>1. h + k \in 1 .. Len(f) /\ e + k = pos + (h + k)
      BY <1>1, <1>5, <1>6 DEF e
    <3>2. QED
      BY <1>4, <1>7, <3>1
  <2> HIDE DEF s, o
  <2>3. \A k \in 1 .. n : s[k] = o[k]
    BY <2>1, <2>2
  <2>4. s = o
    BY <1>15, <2>1, <2>3
  <2>5. QED
    BY <2>4 DEF s
<1>17. (rnd * n) % KeyMod = xor_seed(rnd, n)
  BY <1>14, SeedsAgree DEF xor_seed
<1>23. SeedProduct(b, pos) = rnd * n
  <2>1. (e + n) - e = n
    BY <1>1, <1>9
  <2>2. QED
    BY <1>11, <1>12, <1>13, <2>1 DEF SeedProduct
<1>18. TextAt(b, pos) = text
  <2>1. (e + n) - e = n
    BY <1>1, <1>9
  <2> HIDE DEF o
  <2>2. TextAt(b, pos) = Obfuscate(o, xor_seed(rnd, n))
    BY <1>11, <1>16, <1>17, <1>23, <1>12 DEF TextAt
  <2>3. Obfuscate(o, xor_seed(rnd, n)) = text
    BY <1>1, <1>14, ObfuscateTwice DEF o
  <2>4. QED
    BY <2>2, <2>3
<1>19. ~(NextFrame(b, pos) > Len(b))
  BY <1>1, <1>9, <1>12
<1>20. Checksum(text) = ByteXor(b[pos + 3], SumMask)
  <2>1. Checksum(text) \in Byte /\ SumMask \in Byte
    BY <1>1, ChecksumType, FormatAssumption
  <2>2. QED
    BY <1>13, <2>1, XorAssumption
<1>21. ~ReadStops(b, pos)
  BY <1>10, <1>11, <1>18, <1>19, <1>20 DEF ReadStops
<1>22. QED
  BY <1>9, <1>10, <1>12, <1>18, <1>21, <1>23, StopsIs DEF f, n

LEMMA FrameRead ==
  ASSUME NEW b \in Seq(Byte), NEW block \in BlockType, Holds(b, block), block.kind = "whole"
  PROVE  Reads(b)[block.at] = <<block.text>> \o Reads(b)[block.at + block.len]
<1>1. PICK text \in Payloads, rnd \in Rnds :
        /\ block.text = text /\ block.len = Len(encode_frame(text, rnd))
        /\ Lies(b, block.at, encode_frame(text, rnd))
  BY DEF Holds, IsWhole
<1>2. block.at \in Nat
  BY BlockFields
<1>3. /\ block.at \in 0 .. Len(b) /\ Readable(b, block.at) /\ TextAt(b, block.at) = text
      /\ NextFrame(b, block.at) = block.at + Len(encode_frame(text, rnd))
  BY <1>1, <1>2, EncodedRead
<1>4. Reads(b)[block.at] = ReadStep(Reads(b), b, block.at)
  BY <1>3, ReadEquation
<1>5. QED
  BY <1>1, <1>3, <1>4 DEF ReadStep

LEMMA ReadAtEnd ==
  ASSUME NEW b \in Seq(Byte) PROVE Reads(b)[Len(b)] = <<>>
<1>1. Len(b) \in 0 .. Len(b)
  OBVIOUS
<1>2. Reads(b)[Len(b)] = ReadStep(Reads(b), b, Len(b))
  BY <1>1, ReadEquation
<1>3. QED
  BY <1>1, <1>2, StopsIs DEF ReadStep, ReadStops

Associates(s, t, u) == (s \o t) \o u = s \o (t \o u)

LEMMA SeqAssociative ==
  ASSUME NEW S, NEW s \in Seq(S), NEW t \in Seq(S), NEW u \in Seq(S)
  PROVE  Associates(s, t, u)
BY ConcatAssociative DEF Associates

LEMMA TextsAssociative ==
  ASSUME NEW s \in Seq(Seq(Byte)), NEW t \in Seq(Seq(Byte)), NEW u \in Seq(Seq(Byte))
  PROVE  Associates(s, t, u)
BY SeqAssociative

(* The payloads of the first i blocks. *)
Texts(bs, i) == [j \in 1 .. i |-> bs[j].text]
AllWhole(bs, i) == \A j \in 1 .. i : bs[j].kind = "whole"

LEMMA TextsGrow ==
  ASSUME NEW bs \in Seq(BlockType), NEW i \in Nat, i + 1 <= Len(bs)
  PROVE  /\ Texts(bs, i) \in Seq(Seq(Byte)) /\ Len(Texts(bs, i)) = i
         /\ <<bs[i + 1].text>> \in Seq(Seq(Byte))
         /\ Texts(bs, i + 1) = Texts(bs, i) \o <<bs[i + 1].text>>
<1>1. \A j \in 1 .. i + 1 : bs[j].text \in Seq(Byte)
  <2>1. \A j \in 1 .. i + 1 : bs[j] \in BlockType
    OBVIOUS
  <2>2. QED
    BY <2>1, BlockFields
<1> DEFINE S == Seq(Byte)
           s == Texts(bs, i)
           x == bs[i + 1].text
           t == Texts(bs, i + 1)
<1>2. s \in Seq(S) /\ Len(s) = i /\ \A j \in 1 .. i : s[j] = bs[j].text
  BY <1>1 DEF Texts
<1>3. t \in Seq(S) /\ Len(t) = i + 1 /\ \A j \in 1 .. i + 1 : t[j] = bs[j].text
  BY <1>1 DEF Texts
<1>4. x \in S
  BY <1>1
<1> HIDE DEF S, s, t, x
<1>5. <<x>> \in Seq(S) /\ Len(<<x>>) = 1 /\ <<x>>[1] = x
  BY <1>4
<1>6. s \o <<x>> \in Seq(S) /\ Len(s \o <<x>>) = i + 1
      /\ \A j \in 1 .. i + 1 : (s \o <<x>>)[j] = IF j <= i THEN s[j] ELSE x
  BY <1>2, <1>4
<1>7. ASSUME NEW j \in 1 .. i + 1 PROVE t[j] = (s \o <<x>>)[j]
  <2>1. t[j] = bs[j].text /\ (s \o <<x>>)[j] = IF j <= i THEN s[j] ELSE x
    BY <1>3, <1>6
  <2>2. CASE j <= i
    <3>1. j \in 1 .. i
      BY <2>2
    <3>2. s[j] = bs[j].text
      BY <1>2, <3>1
    <3>3. QED
      BY <2>1, <2>2, <3>2
  <2>3. CASE ~(j <= i)
    <3>1. j = i + 1
      BY <2>3
    <3>2. QED
      BY <2>1, <2>3, <3>1 DEF x
  <2>4. QED
    BY <2>2, <2>3
<1>8. t = s \o <<x>>
  <2> DEFINE u == s \o <<x>>
  <2> HIDE DEF u
  <2>1. QED
    BY <1>3, <1>6, <1>7 DEF u
<1>9. QED
  BY <1>2, <1>5, <1>8 DEF s, t, x, S

(* A reader gets as far as the end of the whole frames the file starts with. *)
LEMMA FramesRead ==
  ASSUME NEW b, NEW bs, Recorded(bs, b), NEW l \in 1 .. Len(bs), AllWhole(bs, l)
  PROVE  /\ HasMagic(b)
         /\ Reads(b)[Len(Magic)] = Texts(bs, l) \o Reads(b)[bs[l].at + bs[l].len]
         /\ bs[l].at + bs[l].len \in 0 .. Len(b)
<1> DEFINE M == Len(Magic)
           R(i) == Reads(b)[bs[i].at + bs[i].len]
<1>1. bs \in Seq(BlockType) /\ b \in Seq(Byte) /\ Len(bs) \in Nat /\ Len(b) \in Nat
  BY DEF Recorded
<1>2. 1 \in 1 .. l /\ 1 \in 1 .. Len(bs) /\ l \in Nat /\ l <= Len(bs)
  BY <1>1
<1>3. HasMagic(b) /\ bs[1].at = M
  <2>1. AllFramed(bs, l)
    BY DEF AllWhole, AllFramed, IsFrame
  <2>2. QED
    BY <2>1, FramesWalked
<1>4. ASSUME NEW i \in 1 .. l
      PROVE  /\ bs[i].at + bs[i].len \in 0 .. Len(b)
             /\ Reads(b)[bs[i].at] = <<bs[i].text>> \o R(i)
             /\ R(i) \in Seq(Seq(Byte))
  <2>1. i \in 1 .. Len(bs) /\ bs[i] \in BlockType /\ bs[i].kind = "whole" /\ Holds(b, bs[i])
    BY <1>1, <1>2 DEF AllWhole, Recorded
  <2>2. bs[i].at + bs[i].len <= Len(b) /\ bs[i].at \in Nat /\ bs[i].len \in Nat
    BY <2>1, Order, BlockFields
  <2>3. bs[i].at + bs[i].len \in 0 .. Len(b)
    BY <1>1, <2>2
  <2>4. QED
    BY <1>1, <2>1, <2>3, FrameRead, ReadEquation
<1> HIDE DEF R, M
<1> DEFINE S == {k \in Nat : k + 1 <= l => Reads(b)[M] = Texts(bs, k + 1) \o R(k + 1)}
<1>5. 0 \in S
  <2>1. Texts(bs, 0 + 1) = Texts(bs, 0) \o <<bs[0 + 1].text>>
    BY <1>1, <1>2, TextsGrow
  <2>2. Texts(bs, 0) = <<>>
    BY DEF Texts
  <2>3. <<bs[1].text>> \in Seq(Seq(Byte))
    <3>1. 0 + 1 <= Len(bs) /\ 0 \in Nat /\ 0 + 1 = 1
      BY <1>1, <1>2
    <3>2. <<bs[0 + 1].text>> \in Seq(Seq(Byte))
      BY <1>1, <3>1, TextsGrow
    <3>3. QED
      BY <3>1, <3>2
  <2>4. Texts(bs, 1) = <<bs[1].text>>
    <3> DEFINE x == <<bs[1].text>>
    <3>1. Texts(bs, 1) = <<>> \o x
      BY <2>1, <2>2
    <3> HIDE DEF x
    <3>2. <<>> \o x = x
      BY <2>3 DEF x
    <3>3. QED
      BY <3>1, <3>2 DEF x
  <2>5. Reads(b)[M] = Texts(bs, 1) \o R(1)
    BY <1>2, <1>3, <1>4, <2>4
  <2>6. QED
    BY <2>5
<1>6. ASSUME NEW k \in Nat, k \in S PROVE k + 1 \in S
  <2>1. SUFFICES ASSUME (k + 1) + 1 <= l
                 PROVE  Reads(b)[M] = Texts(bs, (k + 1) + 1) \o R((k + 1) + 1)
    OBVIOUS
  <2> DEFINE i == k + 1
             j == i + 1
             x == <<bs[j].text>>
  <2>2. i \in Nat /\ i \in 1 .. l /\ i \in 1 .. Len(bs) /\ i # Len(bs) /\ j \in 1 .. l /\ i <= l /\ j <= Len(bs)
    BY <1>1, <1>2, <2>1
  <2>3. bs[i].at + bs[i].len = bs[j].at
    BY <2>2 DEF Recorded, Laid
  <2>4. Reads(b)[M] = Texts(bs, i) \o R(i)
    BY <1>6, <2>2
  <2>5. R(i) = x \o R(j) /\ R(j) \in Seq(Seq(Byte))
    BY <1>4, <2>2, <2>3 DEF R
  <2>6. Texts(bs, i) \in Seq(Seq(Byte)) /\ x \in Seq(Seq(Byte)) /\ Texts(bs, j) = Texts(bs, i) \o x
    BY <1>1, <2>2, TextsGrow
  <2> HIDE DEF i, j, x
  <2>7. Texts(bs, i) \o (x \o R(j)) = (Texts(bs, i) \o x) \o R(j)
    BY <2>5, <2>6, TextsAssociative DEF Associates
  <2>8. Reads(b)[M] = Texts(bs, j) \o R(j)
    BY <2>4, <2>5, <2>6, <2>7
  <2>9. QED
    BY <2>8 DEF j, i
<1> HIDE DEF S
<1>7. l - 1 \in S
  BY <1>2, <1>5, <1>6, NatSetInduction
<1>8. Reads(b)[M] = Texts(bs, l) \o R(l)
  <2>1. l - 1 + 1 = l
    BY <1>2
  <2>2. QED
    BY <1>2, <1>7, <2>1 DEF S
<1>9. l \in 1 .. l
  BY <1>2
<1>10. QED
  BY <1>3, <1>4, <1>8, <1>9 DEF R, M

(* The benchmarks count a frame for each block. *)
LEMMA FrameCounted ==
  ASSUME NEW b \in Seq(Byte), NEW block \in BlockType, Holds(b, block), IsFrame(block)
  PROVE  /\ block.at + block.len \in 0 .. Len(b)
         /\ Counts(b)[block.at] = 1 + Counts(b)[block.at + block.len]
<1>1. PICK f, n : HasHead(f, n) /\ Lies(b, block.at, f) /\ block.len = Len(f)
  BY FrameAt
<1>2. n \in Nat /\ block.at \in Nat /\ block.len \in Nat /\ Len(b) \in Nat
  BY <1>1, BlockFields DEF HasHead
<1> DEFINE pos == block.at
<1>3. /\ Headed(b, pos, n) /\ pos + HeadLen(n) + n = pos + Len(f)
      /\ pos + Len(f) <= Len(b)
  BY <1>1, <1>2, LiesHeaded
<1>4. HeadLen(n) \in Nat
  BY <1>2, HeadLenType
<1> HIDE DEF pos
<1>5. pos + HeadLen(n) <= Len(b) /\ pos + HeadLen(n) \in Nat /\ pos \in Nat
  <2>1. pos \in Nat
    BY <1>2 DEF pos
  <2>2. QED
    BY <1>2, <1>3, <1>4, <2>1
<1>6. /\ pos \in 0 .. Len(b) /\ pos # Len(b) /\ b[pos + 1] = Marker
      /\ SizeEnds(b, pos + 4, Len(b)) # {}
      /\ Min(SizeEnds(b, pos + 4, Len(b))) = pos + HeadLen(n)
      /\ SizeOf(b, pos + 4, pos + HeadLen(n)) = n
  <2>1. Len(b) <= Len(b)
    BY <1>2
  <2>2. QED
    BY <1>2, <1>3, <1>5, <2>1, HeadRead
<1>7. ~CountStops(b, pos) /\ NextFrame(b, pos) = pos + HeadLen(n) + n
  BY <1>6 DEF CountStops, REnds, NextFrame, PayloadAt
<1>8. Counts(b)[pos] = CountStep(Counts(b), b, pos)
  BY <1>6, CountEquation
<1>9. NextFrame(b, pos) = pos + block.len /\ pos + block.len \in 0 .. Len(b) /\ ~(NextFrame(b, pos) > Len(b))
  BY <1>1, <1>2, <1>3, <1>5, <1>7
<1>10. QED
  BY <1>7, <1>8, <1>9 DEF CountStep, pos

LEMMA FramesCounted ==
  ASSUME NEW b, NEW bs, Recorded(bs, b), bs # <<>>, AllFramed(bs, Len(bs))
  PROVE  count_frames(b) = Len(bs)
<1> DEFINE l == Len(bs)
           M == Len(Magic)
           R(i) == Counts(b)[bs[i].at + bs[i].len]
<1>1. bs \in Seq(BlockType) /\ b \in Seq(Byte) /\ l \in Nat /\ Len(b) \in Nat /\ l >= 1
  BY DEF Recorded
<1>2. 1 \in 1 .. l /\ l \in 1 .. l
  BY <1>1
<1>3. bs[1].at = M
  BY <1>2, FramesWalked
<1>4. ASSUME NEW i \in 1 .. l PROVE Counts(b)[bs[i].at] = 1 + R(i) /\ R(i) \in Nat
  <2>1. bs[i] \in BlockType /\ IsFrame(bs[i]) /\ Holds(b, bs[i])
    BY <1>1 DEF AllFramed, Recorded
  <2>2. QED
    BY <1>1, <2>1, FrameCounted, CountEquation
<1>5. ASSUME NEW i \in 1 .. l, i # l PROVE Counts(b)[bs[i + 1].at] = R(i)
  BY <1>5 DEF Recorded, Laid
<1>6. R(l) = 0
  <2>1. bs[l].at + bs[l].len = Len(b)
    BY <1>2 DEF Recorded, Laid
  <2>2. Len(b) \in 0 .. Len(b)
    BY <1>1
  <2>3. Counts(b)[Len(b)] = CountStep(Counts(b), b, Len(b))
    BY <1>1, <2>2, CountEquation
  <2>4. QED
    BY <2>1, <2>3 DEF CountStep, CountStops
<1> HIDE DEF R, M
<1> DEFINE S == {k \in Nat : k + 1 <= l => Counts(b)[M] = (k + 1) + R(k + 1)}
<1>7. 0 \in S
  BY <1>2, <1>3, <1>4
<1>8. ASSUME NEW k \in Nat, k \in S PROVE k + 1 \in S
  <2>1. SUFFICES ASSUME (k + 1) + 1 <= l
                 PROVE  Counts(b)[M] = ((k + 1) + 1) + R((k + 1) + 1)
    OBVIOUS
  <2>2. k + 1 \in 1 .. l /\ k + 1 # l /\ (k + 1) + 1 \in 1 .. l /\ k + 1 <= l
    BY <1>1, <2>1
  <2>3. R(k + 1) = 1 + R((k + 1) + 1) /\ R((k + 1) + 1) \in Nat
    BY <1>4, <1>5, <2>2
  <2>4. Counts(b)[M] = (k + 1) + R(k + 1)
    BY <1>8, <2>2
  <2>5. QED
    BY <2>3, <2>4
<1> HIDE DEF S
<1>9. l - 1 \in S
  <2>1. \A k \in Nat : k \in S
    BY <1>7, <1>8, NatSetInduction
  <2>2. QED
    BY <1>1, <2>1
<1>10. Counts(b)[M] = l
  <2>1. l - 1 + 1 = l
    BY <1>1
  <2>2. QED
    BY <1>1, <1>6, <1>9, <2>1 DEF S
<1>11. QED
  BY <1>10, CountIs DEF M

(* A payload whose seed needs no more than a word, whatever the random byte. *)
Fits(text) == (2 * Base - 1) * Len(text) < Word

LEMMA SeedFits ==
  ASSUME NEW text \in Seq(Byte), NEW rnd \in Byte, Fits(text)
  PROVE  rnd * Len(text) < Word
<1>1. ASSUME NEW m \in Nat, NEW r \in Nat, NEW n \in Nat, r <= m PROVE r * n <= m * n
  <2>1. (m - r) * n \in Nat /\ m - r \in Nat
    BY <1>1
  <2>2. m * n = r * n + (m - r) * n
    OBVIOUS
  <2>3. r * n \in Nat
    OBVIOUS
  <2>4. QED
    BY <2>1, <2>2, <2>3
<1>2. Base \in Nat /\ Base > 1 /\ Word \in Nat
  BY FormatAssumption
<1>3. 2 * Base - 1 \in Nat /\ rnd \in Nat /\ rnd <= 2 * Base - 1
  BY <1>2 DEF Byte
<1> DEFINE m == 2 * Base - 1
           n == Len(text)
<1>4. n \in Nat /\ m \in Nat /\ rnd <= m /\ m * n < Word
  BY <1>3 DEF Fits
<1> HIDE DEF m, n
<1>5. rnd * n <= m * n
  BY <1>1, <1>3, <1>4
<1>6. rnd * n \in Nat /\ m * n \in Nat
  BY <1>3, <1>4
<1>7. QED
  BY <1>2, <1>4, <1>5, <1>6 DEF n

LEMMA FrameDecoded ==
  ASSUME NEW b \in Seq(Byte), NEW block \in BlockType, Holds(b, block), block.kind = "whole",
         Fits(block.text)
  PROVE  Stops(b)[block.at] = Stops(b)[block.at + block.len]
<1>1. PICK text \in Payloads, rnd \in Rnds :
        /\ block.text = text /\ block.len = Len(encode_frame(text, rnd))
        /\ Lies(b, block.at, encode_frame(text, rnd))
  BY DEF Holds, IsWhole
<1>2. block.at \in Nat
  BY BlockFields
<1>3. /\ block.at \in 0 .. Len(b) /\ Readable(b, block.at)
      /\ SeedProduct(b, block.at) = rnd * Len(text)
      /\ NextFrame(b, block.at) = block.at + Len(encode_frame(text, rnd))
  BY <1>1, <1>2, EncodedRead
<1>4. rnd * Len(text) < Word
  BY <1>1, SeedFits, ContentAssumption
<1>5. Stops(b)[block.at] = StopStep(Stops(b), b, block.at)
  BY <1>3, StopEquation
<1>6. QED
  BY <1>1, <1>3, <1>4, <1>5 DEF StopStep, Decodes

(* The tests' decoder gets to the end of a file of whole frames. *)
LEMMA FramesDecoded ==
  ASSUME NEW b, NEW bs, Recorded(bs, b), bs # <<>>, AllWhole(bs, Len(bs)),
         \A i \in 1 .. Len(bs) : Fits(bs[i].text)
  PROVE  Stops(b)[Len(Magic)] = Len(b)
<1> DEFINE l == Len(bs)
           M == Len(Magic)
           R(i) == Stops(b)[bs[i].at + bs[i].len]
<1>1. bs \in Seq(BlockType) /\ b \in Seq(Byte) /\ l \in Nat /\ Len(b) \in Nat /\ l >= 1
  BY DEF Recorded
<1>2. 1 \in 1 .. l /\ l \in 1 .. l
  BY <1>1
<1>3. bs[1].at = M
  <2>1. AllFramed(bs, l)
    BY DEF AllWhole, AllFramed, IsFrame
  <2>2. QED
    BY <1>2, <2>1, FramesWalked
<1>4. ASSUME NEW i \in 1 .. l PROVE Stops(b)[bs[i].at] = R(i)
  <2>1. bs[i] \in BlockType /\ bs[i].kind = "whole" /\ Holds(b, bs[i]) /\ Fits(bs[i].text)
    BY <1>1 DEF AllWhole, Recorded
  <2>2. QED
    BY <1>1, <2>1, FrameDecoded
<1>5. ASSUME NEW i \in 1 .. l, i # l PROVE Stops(b)[bs[i + 1].at] = R(i)
  BY <1>5 DEF Recorded, Laid
<1>6. R(l) = Len(b)
  <2>1. bs[l].at + bs[l].len = Len(b)
    BY <1>2 DEF Recorded, Laid
  <2>2. Len(b) \in 0 .. Len(b) /\ ~(Len(b) < Len(b))
    BY <1>1
  <2>3. Stops(b)[Len(b)] = StopStep(Stops(b), b, Len(b))
    BY <1>1, <2>2, StopEquation
  <2>4. QED
    BY <2>1, <2>2, <2>3 DEF StopStep, Decodes, Readable
<1> HIDE DEF R, M
<1> DEFINE S == {k \in Nat : k + 1 <= l => Stops(b)[M] = R(k + 1)}
<1>7. 0 \in S
  BY <1>2, <1>3, <1>4
<1>8. ASSUME NEW k \in Nat, k \in S PROVE k + 1 \in S
  <2>1. SUFFICES ASSUME (k + 1) + 1 <= l
                 PROVE  Stops(b)[M] = R((k + 1) + 1)
    OBVIOUS
  <2>2. k + 1 \in 1 .. l /\ k + 1 # l /\ (k + 1) + 1 \in 1 .. l /\ k + 1 <= l
    BY <1>1, <2>1
  <2>3. R(k + 1) = R((k + 1) + 1)
    BY <1>4, <1>5, <2>2
  <2>4. Stops(b)[M] = R(k + 1)
    BY <1>8, <2>2
  <2>5. QED
    BY <2>3, <2>4
<1> HIDE DEF S
<1>9. l - 1 \in S
  <2>1. \A k \in Nat : k \in S
    BY <1>7, <1>8, NatSetInduction
  <2>2. QED
    BY <1>1, <2>1
<1>10. Stops(b)[M] = R(l)
  <2>1. l - 1 + 1 = l
    BY <1>1
  <2>2. QED
    BY <1>1, <1>9, <2>1 DEF S
<1>11. QED
  BY <1>6, <1>10 DEF M

LEMMA WholeIs ==
  ASSUME NEW i PROVE Whole(i) <=> AllWhole(blocks, i)
BY DEF Whole, AllWhole

LEMMA PrefixOf ==
  ASSUME NEW S, NEW s \in Seq(S), NEW t \in Seq(S) PROVE IsPrefix(s, s \o t)
<1> DEFINE g == s \o t
           u == SubSeq(g, 1, Len(s))
<1>1. g \in Seq(S) /\ Joined(g, s, t)
  BY Concatenation
<1> HIDE DEF g
<1>2. Len(s) \in Nat /\ Len(t) \in Nat /\ Len(g) = Len(s) + Len(t)
  BY <1>1 DEF Joined
<1>3. Len(s) <= Len(g)
  BY <1>2
<1>4. u \in Seq(S) /\ Len(u) = Len(s) /\ \A k \in 1 .. Len(s) : u[k] = g[k]
  BY <1>1, <1>2, <1>3
<1>5. \A k \in 1 .. Len(s) : u[k] = s[k]
  BY <1>1, <1>4 DEF Joined
<1> HIDE DEF u
<1>6. u = s
  BY <1>4, <1>5
<1>7. SubSeq(s, 1, Len(s)) = s
  BY <1>2
<1>8. QED
  BY <1>3, <1>6, <1>7 DEF IsPrefix, u, g

(* What a successful attempt wrote in front of the first broken block comes
   back from the file exactly as it was encoded, for every payload, random
   byte, base, mask and width of the seed's product (encode_frame, xor_seed and
   the documented reader); the decoder of the tests gets through a file of whole
   frames with the same result while no seed's product exceeds a word; and the
   benchmarks' count_frames counts the frames. *)
THEOREM WrittenIsReadBack == Spec => []WrittenIsRead
<1>1. SafeInv => WrittenIsRead
  <2> DEFINE n     == Len(blocks)
             texts == [i \in DOMAIN blocks |-> blocks[i].text]
             read  == Recovered(bytes)
  <2>1. SUFFICES ASSUME SafeInv PROVE WrittenIsRead
    OBVIOUS
  <2>2. Recorded(blocks, bytes) /\ blocks \in Seq(BlockType) /\ n \in Nat /\ bytes \in Seq(Byte)
    BY <2>1 DEF SafeInv, Recorded
  <2>3. texts = Texts(blocks, n)
    BY <2>2 DEF Texts
  <2>4. ASSUME NEW i \in 1 .. n, AllWhole(blocks, i)
        PROVE  /\ Texts(blocks, i) \in Seq(Seq(Byte)) /\ SubSeq(texts, 1, i) = Texts(blocks, i)
               /\ Reads(bytes)[blocks[i].at + blocks[i].len] \in Seq(Seq(Byte))
               /\ read = Texts(blocks, i) \o Reads(bytes)[blocks[i].at + blocks[i].len]
    <3>1. \A j \in 1 .. n : blocks[j].text \in Seq(Byte)
      BY <2>2, BlockFields
    <3>2. Texts(blocks, i) \in Seq(Seq(Byte)) /\ Len(Texts(blocks, i)) = i
      BY <2>2, <3>1 DEF Texts
    <3>3. SubSeq(texts, 1, i) = Texts(blocks, i)
      <4>1. texts \in Seq(Seq(Byte)) /\ Len(texts) = n
        BY <2>2, <3>1
      <4>2. \A j \in 1 .. i : texts[j] = Texts(blocks, i)[j]
        BY <2>2 DEF Texts
      <4> DEFINE s == SubSeq(texts, 1, i)
                 t == Texts(blocks, i)
      <4> HIDE DEF texts, n
      <4>3. s \in Seq(Seq(Byte)) /\ Len(s) = i /\ \A j \in 1 .. i : s[j] = texts[j]
        BY <2>2, <4>1
      <4> HIDE DEF s, t
      <4>4. t \in Seq(Seq(Byte)) /\ Len(t) = i /\ \A j \in 1 .. i : s[j] = t[j]
        BY <3>2, <4>2, <4>3 DEF t
      <4>5. s = t
        BY <4>3, <4>4
      <4>6. QED
        BY <4>5 DEF s, t
    <3>4. /\ HasMagic(bytes) /\ blocks[i].at + blocks[i].len \in 0 .. Len(bytes)
          /\ Reads(bytes)[Len(Magic)]
               = Texts(blocks, i) \o Reads(bytes)[blocks[i].at + blocks[i].len]
      BY <2>2, <2>4, FramesRead
    <3>5. read = Reads(bytes)[Len(Magic)]
      BY <3>4, RecoveredIs
    <3>6. Reads(bytes)[blocks[i].at + blocks[i].len] \in Seq(Seq(Byte))
      BY <2>2, <3>4, ReadEquation
    <3>7. QED
      BY <3>2, <3>3, <3>4, <3>5, <3>6
  <2>5. ASSUME NEW i \in DOMAIN blocks, Whole(i) PROVE IsPrefix(SubSeq(texts, 1, i), read)
    <3>1. i \in 1 .. n /\ AllWhole(blocks, i)
      BY <2>2, <2>5, WholeIs
    <3>2. QED
      BY <2>4, <3>1, PrefixOf
  <2>6. ASSUME Whole(n) PROVE read = texts
    <3>1. CASE n = 0
      <4>1. blocks = <<>> /\ texts = <<>>
        BY <2>2, <3>1
      <4>2. bytes = <<>> \/ bytes = Magic
        BY <2>2, <4>1 DEF Recorded, Begun
      <4>3. CASE bytes = <<>>
        <5>1. ~HasMagic(bytes)
          <6>1. Len(Magic) > 0 /\ Len(Magic) \in Nat
            BY FormatAssumption
          <6>2. Len(bytes) = 0
            BY <4>3
          <6>3. ~(Len(Magic) <= Len(bytes))
            BY <6>1, <6>2
          <6>4. QED
            BY <6>3 DEF HasMagic, IsPrefix
        <5>2. QED
          BY <4>1, <5>1, RecoveredIs
      <4>4. CASE bytes = Magic
        <5>1. Reads(bytes)[Len(Magic)] = <<>>
          BY <2>2, <4>4, ReadAtEnd
        <5>2. QED
          BY <4>1, <5>1, RecoveredIs
      <4>5. QED
        BY <4>2, <4>3, <4>4
    <3>2. CASE n # 0
      <4>1. n \in 1 .. n /\ AllWhole(blocks, n)
        BY <2>2, <2>6, <3>2, WholeIs
      <4>2. blocks[n].at + blocks[n].len = Len(bytes)
        BY <2>2, <4>1 DEF Recorded, Laid
      <4>3. read = Texts(blocks, n) \o <<>> /\ Texts(blocks, n) \in Seq(Seq(Byte))
        <5>1. Reads(bytes)[Len(bytes)] = <<>>
          BY <2>2, ReadAtEnd
        <5>2. QED
          BY <2>4, <4>1, <4>2, <5>1
      <4> DEFINE t == Texts(blocks, n)
      <4> HIDE DEF t
      <4>4. t \in Seq(Seq(Byte)) => t \o <<>> = t
        OBVIOUS
      <4>5. QED
        BY <2>3, <4>3, <4>4 DEF t
    <3>3. QED
      BY <3>1, <3>2
  <2>7. blocks # <<>> /\ Framed(n) => count_frames(bytes) = n
    BY <2>2, FramesCounted, FramedIs
  <2>9. ASSUME Whole(n), blocks # <<>>,
               \A i \in DOMAIN texts : (2 * Base - 1) * Len(texts[i]) < Word
        PROVE  decode_oplog_file(bytes) = {texts}
    <3>1. AllWhole(blocks, n) /\ n \in 1 .. n
      BY <2>2, <2>9, WholeIs
    <3>2. ASSUME NEW i \in 1 .. n PROVE Fits(blocks[i].text)
      <4>1. i \in DOMAIN texts /\ texts[i] = blocks[i].text
        BY <2>2
      <4>2. (2 * Base - 1) * Len(texts[i]) < Word
        BY <2>9, <4>1
      <4> HIDE DEF texts, n
      <4>3. QED
        BY <4>1, <4>2 DEF Fits
    <3>3. Stops(bytes)[Len(Magic)] = Len(bytes)
      BY <2>2, <2>9, <3>1, <3>2, FramesDecoded
    <3>4. HasMagic(bytes)
      BY <2>2, <3>1, FramesRead
    <3>5. read = texts
      BY <2>6, <2>9
    <3> HIDE DEF texts
    <3>6. QED
      BY <3>3, <3>4, <3>5, DecodeIs
  <2> HIDE DEF read, texts
  <2>8. QED
    BY <2>5, <2>6, <2>7, <2>9 DEF WrittenIsRead, texts, read
<1>2. QED
  BY <1>1, Safe, PTL
(***************************************************************************)
(* What the walk cuts no reader could use                                  *)
(***************************************************************************)

LEMMA FirstEnd ==
  ASSUME NEW b, NEW from \in Nat, NEW to \in Nat, NEW end \in from .. to,
         ByteXor(b[end], SizeMask) < Base,
         \A i \in from .. end - 1 : ~(ByteXor(b[i], SizeMask) < Base)
  PROVE  SizeEnds(b, from, to) # {} /\ Min(SizeEnds(b, from, to)) = end
<1> DEFINE E == SizeEnds(b, from, to)
<1>1. end \in E /\ E \in SUBSET Nat
  BY DEF SizeEnds
<1>2. \A y \in E : end <= y
  <2>1. ASSUME NEW y \in E, y < end PROVE FALSE
    <3>1. y \in from .. end - 1 /\ ByteXor(b[y], SizeMask) < Base
      BY <2>1 DEF SizeEnds
    <3>2. QED
      BY <3>1
  <2>2. QED
    BY <1>1, <2>1
<1> HIDE DEF E
<1>3. Min(E) = end
  BY <1>1, <1>2, MinUnique
<1>4. QED
  BY <1>1, <1>3 DEF E

(* Bytes from .. end are the same in b and c. *)
Same(b, c, from, end) == \A i \in from .. end : b[i] = c[i]

LEMMA SizeOfSame ==
  ASSUME NEW b \in Seq(Byte), NEW c \in Seq(Byte), NEW from \in Nat \ {0}, NEW end \in Nat,
         from <= end, end <= Len(b), end <= Len(c), Same(b, c, from, end)
  PROVE  SizeOf(b, from, end) = SizeOf(c, from, end)
<1> DEFINE y == Sizes(b, from, end)
           z == Sizes(c, from, end)
           Digit(i) == ByteXor(b[i], SizeMask) % Base
           S == {k \in Nat : end - k >= from => y[end - k] = z[end - k]}
<1>1. \A i \in from .. end :
        y[i] = (ByteXor(b[i], SizeMask) % Base) + (IF i = end THEN 0 ELSE Base * y[i + 1])
  BY SizesStep
<1>2. \A i \in from .. end :
        z[i] = (ByteXor(c[i], SizeMask) % Base) + (IF i = end THEN 0 ELSE Base * z[i + 1])
  BY SizesStep
<1> HIDE DEF y, z
<1>3. ASSUME NEW i \in from .. end, i # end => y[i + 1] = z[i + 1] PROVE y[i] = z[i]
  <2>1. b[i] = c[i]
    BY DEF Same
  <2>2. (ByteXor(b[i], SizeMask) % Base) = (ByteXor(c[i], SizeMask) % Base)
    BY <2>1
  <2>3. (IF i = end THEN 0 ELSE Base * y[i + 1]) = (IF i = end THEN 0 ELSE Base * z[i + 1])
    BY <1>3
  <2>4. QED
    BY <1>1, <1>2, <2>2, <2>3
<1>4. 0 \in S
  <2>1. end \in from .. end /\ end - 0 = end
    OBVIOUS
  <2>2. y[end] = z[end]
    BY <1>3, <2>1
  <2>3. QED
    BY <2>1, <2>2
<1>5. ASSUME NEW k \in Nat, k \in S PROVE k + 1 \in S
  <2>1. SUFFICES ASSUME end - (k + 1) >= from PROVE y[end - (k + 1)] = z[end - (k + 1)]
    OBVIOUS
  <2>2. end - (k + 1) \in from .. end /\ (end - (k + 1)) + 1 = end - k /\ end - k >= from
    BY <2>1
  <2>3. y[end - k] = z[end - k]
    BY <1>5, <2>2
  <2>4. QED
    BY <1>3, <2>2, <2>3
<1> HIDE DEF S
<1>6. end - from \in S
  <2>1. \A k \in Nat : k \in S
    BY <1>4, <1>5, NatSetInduction
  <2>2. end - from \in Nat
    OBVIOUS
  <2>3. QED
    BY <2>1, <2>2
<1>7. end - (end - from) = from /\ end - from \in Nat
  OBVIOUS
<1>8. y[from] = z[from]
  BY <1>6, <1>7 DEF S
<1>9. QED
  BY <1>8, SizeOfIs DEF y, z

(* Where the walk finds the end of a size field, a reader finds it too. *)
LEMMA EndsAgree ==
  ASSUME NEW b \in Seq(Byte), NEW pos \in 0 .. Len(b), Ends(b, pos) # {}
  PROVE  /\ REnds(b, pos) # {} /\ PayloadAt(b, pos) = Min(Ends(b, pos))
         /\ NextFrame(b, pos) = Next1(b, pos)
<1> DEFINE to == pos + Available(b, pos)
           end == Min(Ends(b, pos))
<1>1. to \in Nat /\ to <= Len(b) /\ Len(b) \in Nat /\ pos + 4 \in Nat
  <2>1. /\ Available(b, pos) \in Nat
        /\ Available(b, pos) = IF 3 + MaxGroups <= Len(b) - pos THEN 3 + MaxGroups
                              ELSE Len(b) - pos
    BY AvailableIs
  <2>2. pos \in Nat /\ pos <= Len(b) /\ Len(b) \in Nat /\ MaxGroups \in Nat
    BY FormatAssumption
  <2>3. QED
    BY <2>1, <2>2
<1>2. Ends(b, pos) = SizeEnds(b, pos + 4, to)
  BY DEF Ends
<1> HIDE DEF to
<1>3. /\ end \in pos + 4 .. to /\ ByteXor(b[end], SizeMask) < Base
      /\ \A i \in pos + 4 .. end - 1 : ~(ByteXor(b[i], SizeMask) < Base)
  BY <1>1, <1>2, NextIs
<1> HIDE DEF end
<1>4. end \in pos + 4 .. Len(b)
  BY <1>1, <1>3
<1>5. SizeEnds(b, pos + 4, Len(b)) # {} /\ Min(SizeEnds(b, pos + 4, Len(b))) = end
  BY <1>1, <1>3, <1>4, FirstEnd
<1>6. REnds(b, pos) # {} /\ PayloadAt(b, pos) = end
  BY <1>5 DEF REnds, PayloadAt
<1>7. NextFrame(b, pos) = Next1(b, pos)
  BY <1>6 DEF NextFrame, Next1, end
<1>8. QED
  BY <1>6, <1>7 DEF end

(* At the place of the cut a reader stops. *)
LEMMA CutStopsReader ==
  ASSUME NEW b \in Seq(Byte), NEW pos \in 0 .. Len(b), Walks(b)[pos] = pos
  PROVE  ReadStops(b, pos)
<1> DEFINE w == Walks(b)
<1>1. w[pos] = WalkStep(w, b, pos)
  BY WalkEquation
<1>2. None # pos
  BY DEF None
<1>3. SUFFICES ASSUME pos # Len(b), b[pos + 1] = Marker PROVE ReadStops(b, pos)
  BY DEF ReadStops
<1>4. CASE Ends(b, pos) = {}
  <2>1. Available(b, pos) < 3 + MaxGroups
    <3>1. w[pos] = IF Available(b, pos) < 3 + MaxGroups THEN pos ELSE None
      BY <1>1, <1>3, <1>4 DEF WalkStep
    <3>2. QED
      BY <1>2, <3>1
  <2>2. pos + Available(b, pos) = Len(b)
    BY <2>1, AvailableIs, FormatAssumption
  <2>3. REnds(b, pos) = {}
    BY <1>4, <2>2 DEF REnds, Ends
  <2>4. QED
    BY <2>3 DEF ReadStops
<1>5. CASE Ends(b, pos) # {}
  <2>1. NextFrame(b, pos) = Next1(b, pos)
    BY <1>5, EndsAgree
  <2>2. Next1(b, pos) \in Nat /\ Next1(b, pos) > pos
    BY <1>5, WalkFarther
  <2>3. Next1(b, pos) > Len(b)
    <3>1. SUFFICES ASSUME ~(Next1(b, pos) > Len(b)) PROVE FALSE
      OBVIOUS
    <3>2. w[pos] = w[Next1(b, pos)]
      BY <1>1, <1>3, <1>5, <3>1 DEF WalkStep
    <3>3. Next1(b, pos) \in 0 .. Len(b)
      BY <2>2, <3>1
    <3>4. w[Next1(b, pos)] = None \/ Next1(b, pos) <= w[Next1(b, pos)]
      BY <3>3, WalkRange
    <3> HIDE DEF w
    <3>5. w[pos] = pos
      BY DEF w
    <3>6. QED
      BY <1>2, <2>2, <3>2, <3>4, <3>5
  <2>4. QED
    BY <2>1, <2>3 DEF ReadStops
<1>6. QED
  BY <1>4, <1>5

(* In front of the cut a reader does the same in what is left. *)
ReadsOn(b, c, cut, pos) ==
  /\ ReadStops(b, pos) <=> ReadStops(c, pos)
  /\ TextAt(b, pos) = TextAt(c, pos) /\ NextFrame(b, pos) = NextFrame(c, pos)
  /\ NextFrame(b, pos) \in 0 .. cut /\ NextFrame(b, pos) > pos
  /\ Walks(b)[NextFrame(b, pos)] = cut

LEMMA ReadsTheSame ==
  ASSUME NEW b \in Seq(Byte), NEW cut \in 0 .. Len(b), NEW c, c = SubSeq(b, 1, cut),
         NEW pos \in 0 .. cut, pos # cut, Walks(b)[pos] = cut
  PROVE  ReadsOn(b, c, cut, pos)
<1> DEFINE w == Walks(b)
           end == Min(Ends(b, pos))
           next == Next1(b, pos)
           from == pos + 4
<1>1. c \in Seq(Byte) /\ Len(c) = cut /\ Len(b) \in Nat /\ \A i \in 1 .. cut : c[i] = b[i]
  OBVIOUS
<1>2. pos \in 0 .. Len(b) /\ w[pos] = WalkStep(w, b, pos) /\ None # cut
  <2>1. pos \in 0 .. Len(b)
    OBVIOUS
  <2>2. QED
    BY <2>1, WalkEquation DEF None
<1>3. w[pos] = cut
  OBVIOUS
<1> HIDE DEF w
<1>4. pos # Len(b) /\ b[pos + 1] = Marker /\ Ends(b, pos) # {} /\ ~(next > Len(b)) /\ w[next] = cut
  BY <1>2, <1>3 DEF WalkStep
<1>5. end \in from .. pos + Available(b, pos) /\ next \in Nat /\ next >= end /\ next > pos
  BY <1>2, <1>4, WalkFarther
<1>6. /\ REnds(b, pos) # {} /\ PayloadAt(b, pos) = end /\ NextFrame(b, pos) = next
  BY <1>2, <1>4, EndsAgree
<1>7. next \in 0 .. Len(b)
  BY <1>1, <1>4, <1>5
<1>8. next <= cut
  <2>1. w[next] = None \/ next <= w[next]
    BY <1>7, WalkRange DEF w
  <2>2. QED
    BY <1>2, <1>4, <2>1
<1>9. end \in Nat /\ from \in Nat \ {0} /\ from <= end /\ end <= cut /\ end <= Len(b)
  BY <1>1, <1>2, <1>5, <1>8, AvailableIs
<1> DEFINE to == pos + Available(b, pos)
<1>10. /\ ByteXor(b[end], SizeMask) < Base
       /\ \A i \in from .. end - 1 : ~(ByteXor(b[i], SizeMask) < Base)
  <2>1. to \in Nat /\ to <= Len(b)
    <3>1. /\ Available(b, pos) \in Nat
          /\ Available(b, pos) = IF 3 + MaxGroups <= Len(b) - pos THEN 3 + MaxGroups
                                ELSE Len(b) - pos
      BY <1>2, AvailableIs
    <3>2. pos \in Nat /\ pos <= Len(b) /\ MaxGroups \in Nat
      BY <1>1, <1>2, FormatAssumption
    <3>3. QED
      BY <1>1, <3>1, <3>2
  <2>2. Ends(b, pos) = SizeEnds(b, pos + 4, to)
    BY DEF Ends
  <2> HIDE DEF to
  <2>3. QED
    BY <1>2, <1>4, <2>1, <2>2, NextIs
<1> HIDE DEF end, next, from, to
<1>11. Same(b, c, from, end)
  BY <1>1, <1>9 DEF Same
<1>12. REnds(c, pos) # {} /\ PayloadAt(c, pos) = end
  <2>1. /\ ByteXor(c[end], SizeMask) < Base
        /\ \A i \in from .. end - 1 : ~(ByteXor(c[i], SizeMask) < Base)
    <3>1. \A i \in from .. end : b[i] = c[i]
      BY <1>11 DEF Same
    <3>2. end \in from .. end /\ \A i \in from .. end - 1 : i \in from .. end
      BY <1>9
    <3>3. QED
      BY <1>10, <3>1, <3>2
  <2>2. end \in from .. cut /\ cut \in Nat
    BY <1>9
  <2>3. SizeEnds(c, from, cut) # {} /\ Min(SizeEnds(c, from, cut)) = end
    BY <1>9, <2>1, <2>2, FirstEnd
  <2>4. QED
    BY <1>1, <2>3 DEF REnds, PayloadAt, from
<1>13. NextFrame(c, pos) = next
  <2>1. SizeOf(b, from, end) = SizeOf(c, from, end)
    <3>1. end <= Len(c) /\ c \in Seq(Byte)
      BY <1>1, <1>9
    <3>2. end \in Nat /\ from \in Nat \ {0} /\ from <= end /\ end <= Len(b)
      BY <1>9
    <3>3. b \in Seq(Byte)
      OBVIOUS
    <3>4. QED
      BY ONLY <1>11, <3>1, <3>2, <3>3, SizeOfSame
  <2>2. NextFrame(c, pos) = end + SizeOf(c, from, end)
    BY <1>12 DEF NextFrame, from
  <2>3. next = end + SizeOf(b, from, end)
    BY DEF next, Next1, end, from
  <2>4. QED
    BY <2>1, <2>2, <2>3
<1>14. c[pos + 1] = b[pos + 1] /\ c[pos + 2] = b[pos + 2] /\ c[pos + 3] = b[pos + 3]
  <2>1. pos + 1 \in 1 .. cut /\ pos + 2 \in 1 .. cut /\ pos + 3 \in 1 .. cut
    BY <1>9 DEF from
  <2>2. QED
    BY <1>1, <2>1
<1>15. SubSeq(b, end + 1, next) = SubSeq(c, end + 1, next)
  <2>1. end + 1 \in 1 .. cut + 1 /\ next <= cut /\ next <= Len(b) /\ next >= end
    BY <1>1, <1>5, <1>7, <1>8, <1>9
  <2>2. SubSeq(b, end + 1, next) = [i \in 1 .. next - end |-> b[end + i]]
    BY <1>1, <1>7, <1>9, <2>1
  <2>3. SubSeq(c, end + 1, next) = [i \in 1 .. next - end |-> c[end + i]]
    BY <1>1, <1>7, <1>9, <2>1
  <2>4. \A i \in 1 .. next - end : b[end + i] = c[end + i]
    BY <1>1, <1>7, <1>9, <2>1
  <2>5. QED
    BY <2>2, <2>3, <2>4
<1>16. TextAt(b, pos) = TextAt(c, pos)
  BY <1>6, <1>12, <1>13, <1>14, <1>15 DEF TextAt, SeedProduct
<1>17. ReadStops(b, pos) <=> Checksum(TextAt(b, pos)) # ByteXor(b[pos + 3], SumMask)
  BY <1>4, <1>6 DEF ReadStops
<1>18. ReadStops(c, pos) <=> Checksum(TextAt(c, pos)) # ByteXor(c[pos + 3], SumMask)
  <2>1. pos # Len(c) /\ ~(next > Len(c))
    BY <1>1, <1>7, <1>8
  <2>2. QED
    BY <1>4, <1>12, <1>13, <1>14, <2>1 DEF ReadStops
<1>19. next \in 0 .. cut
  BY <1>7, <1>8
<1>20. QED
  BY <1>4, <1>5, <1>6, <1>13, <1>14, <1>16, <1>17, <1>18, <1>19 DEF w, ReadsOn

(* Whatever a file holds - frames, a torn tail, a stranger's bytes - cutting it
   where truncated_frame_start says takes nothing from a reader: it goes by
   the layout alone, and the reader also by seeds and checksums, but both
   stop at the same frame or the reader before. *)
THEOREM CutTakesNothingReadable ==
  ASSUME NEW b \in Seq(Byte), truncated_frame_start(b) # None
  PROVE  Recovered(SubSeq(b, 1, truncated_frame_start(b))) = Recovered(b)
<1> DEFINE w   == Walks(b)
           M   == Len(Magic)
           cut == truncated_frame_start(b)
           c   == SubSeq(b, 1, cut)
<1>1. HasMagic(b) /\ cut = w[M]
  BY TailIs
<1>2. M \in Nat /\ M \in 0 .. Len(b) /\ Magic \in Seq(Byte) /\ Len(b) \in Nat
  <2>1. M <= Len(b)
    BY <1>1 DEF HasMagic, IsPrefix
  <2>2. QED
    BY <2>1, FormatAssumption
<1>3. cut \in 0 .. Len(b) /\ M <= cut /\ cut # None
  <2>1. w[M] = None \/ (M <= w[M] /\ w[M] < Len(b))
    BY <1>2, WalkRange
  <2>2. w[M] \in Int
    BY <1>2, WalkEquation
  <2> HIDE DEF w, cut
  <2>3. cut # None
    BY DEF cut
  <2>4. QED
    BY <1>1, <1>2, <2>1, <2>2, <2>3
<1> HIDE DEF cut
<1>4. c \in Seq(Byte) /\ Len(c) = cut /\ \A i \in 1 .. cut : c[i] = b[i]
  BY <1>3
<1>5. HasMagic(c)
  <2>1. Lies(b, 0, Magic)
    BY <1>1, MagicIs
  <2>2. Lies(c, 0, Magic)
    <3>1. \A k \in 1 .. M : 0 + k \in 1 .. cut
      BY <1>2, <1>3
    <3>2. 0 + M <= cut
      BY <1>2, <1>3
    <3> HIDE DEF c
    <3>3. QED
      BY <1>4, <2>1, <3>1, <3>2 DEF Lies
  <2>3. QED
    BY <1>4, <2>2, MagicIs
<1> DEFINE S == {k \in Nat : cut - k >= 0 /\ w[cut - k] = cut =>
                               Reads(c)[cut - k] = Reads(b)[cut - k]}
<1> HIDE DEF c
<1>6. ASSUME NEW k \in Nat, \A j \in 0 .. k - 1 : j \in S PROVE k \in S
  <2> DEFINE pos == cut - k
  <2>1. SUFFICES ASSUME pos >= 0, w[pos] = cut PROVE Reads(c)[pos] = Reads(b)[pos]
    OBVIOUS
  <2>2. pos \in 0 .. cut /\ pos \in 0 .. Len(b) /\ pos \in 0 .. Len(c)
    BY <1>3, <1>4, <2>1
  <2>3. Reads(b)[pos] = ReadStep(Reads(b), b, pos) /\ Reads(c)[pos] = ReadStep(Reads(c), c, pos)
    BY <1>4, <2>2, ReadEquation
  <2>4. CASE pos = cut
    <3>1. ReadStops(b, pos)
      <4>1. Walks(b)[pos] = pos
        BY <2>1, <2>4
      <4> HIDE DEF pos
      <4>2. QED
        BY <2>2, <4>1, CutStopsReader
    <3>2. ReadStops(c, pos)
      BY <1>4, <2>4 DEF ReadStops
    <3> HIDE DEF pos
    <3>3. QED
      BY <2>2, <2>3, <3>1, <3>2, <1>4, StopsIs DEF ReadStep
  <2>5. CASE pos # cut
    <3> DEFINE next == NextFrame(b, pos)
    <3>1. /\ ReadStops(b, pos) <=> ReadStops(c, pos)
          /\ TextAt(b, pos) = TextAt(c, pos) /\ NextFrame(c, pos) = next
          /\ next \in 0 .. cut /\ next > pos /\ w[next] = cut
      <4>1. Walks(b)[pos] = cut /\ c = SubSeq(b, 1, cut)
        BY <2>1 DEF c
      <4> HIDE DEF pos
      <4>2. ReadsOn(b, c, cut, pos)
        BY <1>3, <2>2, <2>5, <4>1, ReadsTheSame
      <4>3. QED
        BY <4>2 DEF ReadsOn
    <3> HIDE DEF next, w
    <3>2. Reads(c)[next] = Reads(b)[next]
      <4>1. cut - next \in 0 .. k - 1 /\ cut - (cut - next) = next
        BY <1>3, <3>1
      <4>2. cut - next \in S
        BY <1>6, <4>1
      <4>3. QED
        BY <3>1, <4>1, <4>2
    <3> HIDE DEF pos
    <3>3. QED
      BY <2>2, <2>3, <3>1, <3>2, <1>4, StopsIs DEF ReadStep, next
  <2>6. QED
    BY <2>4, <2>5
<1> HIDE DEF S
<1>7. cut - M \in S /\ cut - (cut - M) = M /\ cut - M >= 0
  <2>1. cut - M \in Nat /\ cut - (cut - M) = M
    BY <1>2, <1>3
  <2>2. \A k \in Nat : k \in S
    BY <1>6, StrongInduction
  <2>3. QED
    BY <2>1, <2>2
<1>8. Reads(c)[M] = Reads(b)[M]
  BY <1>1, <1>2, <1>7 DEF S
<1>9. Recovered(c) = Recovered(b)
  BY <1>1, <1>5, <1>8, RecoveredIs
<1>10. QED
  BY <1>9 DEF c, cut

(***************************************************************************)
(* The running check cuts only what no reader could use                    *)
(***************************************************************************)

(* What the running check has walked is still what the file starts with, unless
   the history says that it has been overtaken: a late write in front of the
   second look only adds to the file, and attempts wait for the check. *)
FileGrowsOnly ==
  Checking("current") /\ ~overtaken =>
    LET len == check["current"].len
        cut == truncated_frame_start(SubSeq(bytes, 1, len))
    IN  /\ len \in 0 .. Len(bytes) /\ cut # None /\ cut = check["current"].cut
        /\ check["current"].pc = "cutting" => Len(bytes) = len

LEMMA GrowsWalk ==
  ASSUME SafeInv, Walk PROVE FileGrowsOnly'
<1> DEFINE cut == truncated_frame_start(bytes)
           r   == check'["current"]
<1>1. bytes \in Seq(Byte) /\ bytes' = bytes /\ Rest
  BY DEF SafeInv, Recorded, Walk
<1>2. \/ r.pc = "ready"
      \/ r.pc = "found" /\ cut # None /\ r.len = Len(bytes) /\ r.cut = cut
  BY <1>1, WalkChecks
<1>3. SubSeq(bytes, 1, Len(bytes)) = bytes
  BY <1>1
<1>4. Len(bytes) \in 0 .. Len(bytes)
  BY <1>1
<1> HIDE DEF cut
<1>5. QED
  BY <1>1, <1>2, <1>3, <1>4 DEF FileGrowsOnly, Checking, cut

(* A file whose beginning has the magic has it. *)
LEMMA MagicOfPrefix ==
  ASSUME NEW b \in Seq(Byte), NEW n \in 0 .. Len(b), HasMagic(SubSeq(b, 1, n))
  PROVE  HasMagic(b)
<1> DEFINE s == SubSeq(b, 1, n)
           m == Len(Magic)
<1>1. s \in Seq(Byte) /\ Len(s) = n /\ \A k \in 1 .. n : s[k] = b[k]
  OBVIOUS
<1>2. m \in Nat /\ Len(b) \in Nat
  BY FormatAssumption
<1> HIDE DEF s, m
<1>3. Lies(s, 0, Magic)
  BY <1>1, MagicIs DEF s
<1>4. 0 + m <= n /\ \A k \in 1 .. m : s[0 + k] = Magic[k]
  BY <1>1, <1>3 DEF Lies, m
<1>5. ASSUME NEW k \in 1 .. m PROVE b[0 + k] = Magic[k]
  <2>1. 0 + k \in 1 .. n
    BY <1>2, <1>4
  <2>2. QED
    BY <1>1, <1>4, <2>1
<1>6. 0 + m <= Len(b)
  BY <1>2, <1>4
<1>7. Lies(b, 0, Magic)
  BY <1>5, <1>6 DEF Lies, m
<1>8. QED
  BY <1>7, MagicIs

LEMMA GrowsLateWrite ==
  ASSUME SafeInv, FileGrowsOnly, LateWrite PROVE FileGrowsOnly'
<1>1. PICK i \in DOMAIN flight :
        LET w == flight[i]
        IN  /\ \/ w.op = "create" /\ LateCreate
               \/ w.op = "magic"  /\ LateMagic
               \/ w.op = "write"  /\ LateOverwrite(w.at, w.data)
               \/ w.op = "append" /\ LateAppend(w.data)
            /\ Overtakes(InPlace(w) \/ check["current"].pc = "cutting")
  BY DEF LateWrite
<1> DEFINE w   == flight[i]
           len == check["current"].len
           s   == SubSeq(bytes, 1, len)
<1>2. /\ Recorded(blocks, bytes) /\ bytes \in Seq(Byte) /\ check' = check
      /\ flight \in Seq(Stuck)
  BY DEF SafeInv, Recorded, Rest, LateWrite
<1>3. w \in Stuck
  BY <1>2
<1> HIDE DEF w
<1>4. SUFFICES ASSUME Checking("current"), ~overtaken' PROVE FileGrowsOnly'
  BY <1>2 DEF FileGrowsOnly, Checking
<1>5. ~overtaken /\ ~InPlace(w) /\ check["current"].pc # "cutting"
  BY <1>1, <1>2, <1>4 DEF Overtakes, Checking, w
<1>6. /\ len \in 0 .. Len(bytes) /\ truncated_frame_start(s) # None
      /\ truncated_frame_start(s) = check["current"].cut
  BY <1>4, <1>5 DEF FileGrowsOnly
<1> HIDE DEF len
<1>7. \/ w.op = "magic" /\ LateMagic
      \/ w.op = "append" /\ LateAppend(w.data)
  BY <1>1, <1>5 DEF InPlace, w
<1>8. len \in 0 .. Len(bytes') /\ SubSeq(bytes', 1, len) = s
  <2>1. CASE w.op = "magic" /\ LateMagic
    <3>1. HasMagic(s)
      BY <1>6, TailIs
    <3>2. HasMagic(bytes)
      BY <1>2, <1>6, <3>1, MagicOfPrefix
    <3>3. bytes' = bytes
      BY <1>2, <2>1, <3>2, LateMagicIs
    <3>4. QED
      BY <1>6, <3>3
  <2>2. CASE w.op = "append" /\ LateAppend(w.data)
    <3> DEFINE d == w.data
               c == bytes'
    <3>1. d \in Seq(Byte) /\ d # <<>>
      BY <1>3, <2>2, StuckFields
    <3>2. c = bytes \o d
      BY <1>2, <2>2, <3>1, LateAppendIs
    <3> HIDE DEF d, c
    <3>3. /\ Len(bytes) \in Nat /\ Len(d) \in Nat /\ c \in Seq(Byte)
          /\ Len(c) = Len(bytes) + Len(d) /\ \A k \in 1 .. Len(bytes) : c[k] = bytes[k]
      BY <1>2, <3>1, <3>2
    <3>4. len \in 0 .. Len(c)
      BY <1>6, <3>3
    <3>5. SubSeq(c, 1, len) = s
      BY <1>2, <1>6, <3>3, <3>4
    <3>6. QED
      BY <3>4, <3>5 DEF c
  <2>3. QED
    BY <1>7, <2>1, <2>2
<1> HIDE DEF s
<1>9. QED
  BY <1>2, <1>5, <1>6, <1>8 DEF FileGrowsOnly, Checking, len

LEMMA GivenUpEnds ==
  ASSUME Rest, Abandon \/ Restart PROVE check'["current"] = Idle
<1>1. check \in [Checks -> CheckType] /\ "current" \in Checks
  BY DEF Rest, Checks
<1>2. CASE Restart
  <2>1. check' = [c \in Checks |-> Idle]
    BY <1>2 DEF Restart
  <2>2. QED
    BY <1>1, <2>1
<1>3. CASE Abandon
  <2>1. \/ check' = [current |-> Idle, abandoned |-> check["current"]]
        \/ check' = [check EXCEPT !["current"] = Idle]
    BY <1>3 DEF Abandon
  <2>2. CASE check' = [current |-> Idle, abandoned |-> check["current"]]
    BY <2>2
  <2>3. CASE check' = [check EXCEPT !["current"] = Idle]
    BY <1>1, <2>3
  <2>4. QED
    BY <2>1, <2>2, <2>3
<1>4. QED
  BY <1>2, <1>3

LEMMA GrowsStep ==
  ASSUME SafeInv, FileGrowsOnly, [Next]_vars PROVE FileGrowsOnly'
<1>1. Rest /\ "current" \in Checks
  BY DEF SafeInv, Checks
<1>2. ASSUME ~(check'["current"].pc \in {"found", "cutting"}) PROVE FileGrowsOnly'
  BY <1>2 DEF FileGrowsOnly, Checking
<1>3. ASSUME bytes' = bytes, check'["current"] = check["current"],
             overtaken' = overtaken \/ Overtakes(FALSE)
      PROVE  FileGrowsOnly'
  BY <1>3 DEF FileGrowsOnly, Checking, Overtakes
<1>4. CASE Walk
  BY <1>4, GrowsWalk
<1>5. ASSUME NEW c \in Checks, Recheck(c) PROVE FileGrowsOnly'
  <2>1. /\ check[c].pc = "found" /\ \A d \in Checks \ {c} : check'[d] = check[d]
        /\ check'[c].pc = "cutting" => Len(bytes) = check[c].len
        /\ check'[c].pc \in {"found", "cutting"} => Goes(c, c)
        /\ check'[c].pc # "found"
    BY <1>1, <1>5, RecheckChecks
  <2>2. bytes' = bytes /\ Overtakes(FALSE)
    BY <1>5 DEF Recheck
  <2>3. CASE c = "current"
    <3>1. SUFFICES ASSUME check'["current"].pc \in {"found", "cutting"}, ~overtaken'
                   PROVE  FileGrowsOnly'
      BY DEF FileGrowsOnly, Checking
    <3>2. ~overtaken /\ Checking("current")
      BY <2>1, <2>2, <2>3, <3>1 DEF Overtakes, Checking
    <3>3. /\ check'["current"].len = check["current"].len
          /\ check'["current"].cut = check["current"].cut
          /\ Len(bytes) = check["current"].len
      BY <2>1, <2>3, <3>1 DEF Goes
    <3>4. QED
      BY <2>2, <3>2, <3>3 DEF FileGrowsOnly
  <2>4. CASE c # "current"
    <3>1. check'["current"] = check["current"]
      BY <1>1, <2>1, <2>4
    <3>2. QED
      BY <1>3, <2>2, <3>1
  <2>5. QED
    BY <2>3, <2>4
<1>6. ASSUME NEW c \in Checks, SetLen(c) PROVE FileGrowsOnly'
  <2>1. check'[c].pc \in {"idle", "ready"} /\ Overtakes(c = "abandoned")
    BY <1>1, <1>6, SetLenChecks DEF SetLen
  <2>2. CASE c = "current"
    BY <1>2, <2>1, <2>2
  <2>3. CASE c # "current"
    <3>1. c = "abandoned"
      BY <2>3 DEF Checks
    <3>2. check'["current"].pc \in {"found", "cutting"} => overtaken'
      BY <2>1, <3>1 DEF Overtakes
    <3>3. QED
      BY <3>2 DEF FileGrowsOnly, Checking
  <2>4. QED
    BY <2>2, <2>3
<1>7. ASSUME NEW ok \in BOOLEAN, Over(ok) PROVE FileGrowsOnly'
  <2>1. check'["current"].pc = "idle"
    BY <1>1, <1>7, OverChecks
  <2>2. QED
    BY <1>2, <2>1
<1>8. CASE AppendFrame \/ TearFrame \/ TimeOut \/ TimeOutCreating
  BY <1>7, <1>8 DEF AppendFrame, TearFrame, TimeOut, TimeOutCreating, LeavesBehind
<1>9. CASE LateWrite
  BY <1>9, GrowsLateWrite
<1>10. CASE Abandon \/ Restart
  <2>1. check'["current"] = Idle
    BY <1>1, <1>10, GivenUpEnds
  <2>2. QED
    BY <1>2, <2>1, IdleCheck
<1>11. CASE UNCHANGED vars
  BY <1>3, <1>11 DEF vars
<1>12. QED
  BY <1>4, <1>5, <1>6, <1>8, <1>9, <1>10, <1>11 DEF Next

(* The check of the running attempt cuts only what no reader could use, a frame
   that a late write has completed since the walk included: with the length it
   noted, the file is the one it walked.  It is said of the cut itself, and of a
   check that has not been overtaken: by a late write between the second look at
   the length and the cut, by a check given up that cuts the same file, or by the
   File::create or a write in place of an attempt that made it. *)
THEOREM LiveFramesAreLeft == Spec => LiveFrameIsLeft
<1> DEFINE A == check["current"].pc = "cutting" /\ check'["current"].pc = "ready" /\ ~overtaken
                  => Recovered(bytes') = Recovered(bytes)
<1>1. Init => SafeInv /\ FileGrowsOnly
  <2>1. Init => check["current"].pc = "idle"
    BY IdleCheck DEF Init, Checks
  <2>2. QED
    BY <2>1, InitSafe DEF FileGrowsOnly, Checking
<1>2. SafeInv /\ FileGrowsOnly /\ [Next]_vars => (SafeInv /\ FileGrowsOnly)'
  BY SafeStep, GrowsStep
<1>3. SafeInv /\ FileGrowsOnly /\ [Next]_vars => A
  <2>1. SUFFICES ASSUME SafeInv, FileGrowsOnly, [Next]_vars, check["current"].pc = "cutting",
                        check'["current"].pc = "ready", ~overtaken
                 PROVE  Recovered(bytes') = Recovered(bytes)
    OBVIOUS
  <2>2. Rest /\ bytes \in Seq(Byte) /\ "current" \in Checks
    BY <2>1 DEF SafeInv, Recorded, Checks
  <2> DEFINE len == check["current"].len
             cut == check["current"].cut
  <2>3. /\ len = Len(bytes) /\ cut = truncated_frame_start(SubSeq(bytes, 1, len))
        /\ truncated_frame_start(SubSeq(bytes, 1, len)) # None
    BY <2>1 DEF FileGrowsOnly, Checking
  <2> HIDE DEF len, cut
  <2>4. SubSeq(bytes, 1, len) = bytes
    BY <2>2, <2>3
  <2>5. truncated_frame_start(bytes) # None /\ cut = truncated_frame_start(bytes)
    BY <2>3, <2>4
  <2>6. SetLen("current")
    <3>1. ASSUME NEW c \in Checks, Recheck(c) PROVE FALSE
      <4>1. check[c].pc = "found" /\ \A d \in Checks \ {c} : check'[d] = check[d]
        BY <2>2, <3>1, RecheckChecks
      <4>2. QED
        BY <2>1, <2>2, <4>1
    <3>2. ASSUME NEW c \in Checks, SetLen(c), c # "current" PROVE FALSE
      <4>1. \A d \in Checks \ {c} : check'[d] = check[d]
        BY <2>2, <3>2, SetLenChecks
      <4>2. QED
        BY <2>1, <2>2, <3>2, <4>1
    <3>3. ASSUME Walk PROVE FALSE
      BY <2>1, <3>3 DEF Walk
    <3>4. ASSUME NEW ok \in BOOLEAN, Over(ok) PROVE FALSE
      BY <2>1, <2>2, <3>4, OverChecks
    <3>5. ~(AppendFrame \/ TearFrame \/ TimeOut \/ TimeOutCreating)
      BY <3>4 DEF AppendFrame, TearFrame, TimeOut, TimeOutCreating, LeavesBehind
    <3>6. ~(LateWrite \/ UNCHANGED vars)
      BY <2>1 DEF LateWrite, vars
    <3>7. ASSUME Abandon \/ Restart PROVE FALSE
      <4>1. check'["current"] = Idle
        BY <2>2, <3>7, GivenUpEnds
      <4>2. QED
        BY <2>1, <4>1, IdleCheck
    <3>8. QED
      BY <2>1, <3>1, <3>2, <3>3, <3>5, <3>6, <3>7 DEF Next
  <2>7. bytes' = [i \in 1 .. cut |-> IF i <= Len(bytes) THEN bytes[i] ELSE 0]
    BY <2>6 DEF SetLen, cut
  <2>8. cut \in Nat /\ cut < Len(bytes) /\ Len(bytes) \in Nat
    BY <2>2, <2>5, CutInside
  <2>9. bytes' = SubSeq(bytes, 1, cut)
    <3>1. SubSeq(bytes, 1, cut) = [i \in 1 .. cut |-> bytes[i]]
      BY <2>2, <2>8
    <3>2. \A i \in 1 .. cut : i <= Len(bytes)
      BY <2>8
    <3>3. QED
      BY <2>7, <3>1, <3>2
  <2>10. QED
    BY <2>2, <2>5, <2>9, CutTakesNothingReadable
<1>4. A => [A]_vars
  OBVIOUS
<1>5. QED
  BY <1>1, <1>2, <1>3, <1>4, PTL DEF Spec, LiveFrameIsLeft

==============================================================================
