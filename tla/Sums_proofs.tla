---------------------------- MODULE Sums_proofs ----------------------------
(***************************************************************************)
(* Facts about the sums of the community module Functions.  Functions      *)
(* defines a sum by recursion over a set; here it is first shown to be the *)
(* number of tokens, f[x] of them for each x, and every other fact is then *)
(* one about the size of a finite set.                                     *)
(***************************************************************************)
EXTENDS Integers, FiniteSets, Sequences, Functions, FiniteSetTheorems, WellFoundedInduction, TLAPS

(* Induction on a finite set, with the induction hypothesis as a set. *)
LEMMA SetInduction ==
  ASSUME NEW S, IsFiniteSet(S),
         NEW P, {} \in P,
         \A T \in SUBSET S : \A x \in S \ T : T \in P => T \cup {x} \in P
  PROVE  S \in P
<1> SUFFICES ASSUME S \notin P PROVE FALSE
  OBVIOUS
<1> DEFINE Bad == {T \in FiniteSubsetsOf(S) : T \notin P}
<1>1. S \in Bad
  BY FS_FiniteSubsetsOfFinite
<1>2. PICK T \in Bad : \A U \in Bad : ~(<<U, T>> \in StrictSubsetOrdering(S))
  <2>1. IsWellFoundedOn(StrictSubsetOrdering(S), FiniteSubsetsOf(S))
    BY FS_StrictSubsetOrderingWellFounded
  <2> QED
    BY <1>1, <2>1, WFMin
<1>3. T \in SUBSET S /\ T # {} /\ T \notin P
  BY FS_FiniteSubsetsOfFinite
<1>4. PICK x \in T : TRUE
  BY <1>3
<1>5. T \ {x} \in P
  <2>1. T \ {x} \in FiniteSubsetsOf(S)
    BY <1>3, FS_FiniteSubsetsOfFinite
  <2>2. <<T \ {x}, T>> \in StrictSubsetOrdering(S)
    BY <1>3, <1>4 DEF StrictSubsetOrdering
  <2> QED
    BY <1>2, <2>1, <2>2
<1>6. (T \ {x}) \cup {x} = T
  BY <1>4
<1> QED
  BY <1>3, <1>4, <1>5, <1>6

----------------------------------------------------------------------------
(* A sum is a number of tokens *)

Tokens(f, S) == UNION {{x} \X (1..f[x]) : x \in S}

(* One step of the recursion by which SumFunctionOnSet is defined. *)
SumStep(iter, f, s) == IF s = {} THEN 0 ELSE LET x == CHOOSE x \in s : TRUE IN f[x] + iter[s \ {x}]

(* One more element brings its tokens with it. *)
LEMMA TokensAdd ==
  ASSUME NEW f, NEW S, IsFiniteSet(Tokens(f, S)), NEW x, x \notin S, f[x] \in Nat
  PROVE  /\ IsFiniteSet(Tokens(f, S \cup {x}))
         /\ Cardinality(Tokens(f, S \cup {x})) = Cardinality(Tokens(f, S)) + f[x]
<1> DEFINE R == {x} \X (1..f[x])
<1>1. Tokens(f, S \cup {x}) = Tokens(f, S) \cup R /\ Tokens(f, S) \cap R = {}
  BY DEF Tokens
<1>2. IsFiniteSet(R) /\ Cardinality(R) = f[x]
  <2>1. IsFiniteSet(1..f[x]) /\ Cardinality(1..f[x]) = f[x]
    <3>1. /\ IsFiniteSet(1..f[x])
          /\ Cardinality(1..f[x]) = IF 1 > f[x] THEN 0 ELSE f[x] - 1 + 1
      <4>1. 1 \in Int /\ f[x] \in Int
        OBVIOUS
      <4>2. QED
        BY <4>1, FS_Interval
    <3>2. QED
      BY <3>1
  <2>2. IsFiniteSet({x}) /\ Cardinality({x}) = 1
    BY FS_Singleton
  <2>3. IsFiniteSet(R) /\ Cardinality(R) = Cardinality({x}) * Cardinality(1..f[x])
    BY <2>1, <2>2, FS_Product
  <2> QED
    BY <2>1, <2>2, <2>3
<1>3. Cardinality(Tokens(f, S)) \in Nat
  BY FS_CardinalityType
<1> HIDE DEF R
<1>4. /\ IsFiniteSet(Tokens(f, S) \cup R)
      /\ Cardinality(Tokens(f, S) \cup R) = Cardinality(Tokens(f, S)) + f[x] - Cardinality({})
  BY <1>1, <1>2, FS_Union
<1>5. Cardinality({}) = 0
  BY FS_EmptySet
<1>6. Cardinality(Tokens(f, S) \cup R) = Cardinality(Tokens(f, S)) + f[x]
  BY <1>3, <1>4, <1>5
<1> QED
  BY <1>1, <1>4, <1>6

(* Finitely many elements have finitely many tokens. *)
LEMMA TokensFinite ==
  ASSUME NEW S, IsFiniteSet(S), NEW f, \A x \in S : f[x] \in Nat
  PROVE  IsFiniteSet(Tokens(f, S)) /\ Cardinality(Tokens(f, S)) \in Nat
<1> DEFINE P == {T \in SUBSET S : IsFiniteSet(Tokens(f, T))}
<1>1. {} \in P
  BY FS_EmptySet DEF Tokens
<1>2. ASSUME NEW T \in SUBSET S, NEW x \in S \ T, T \in P
      PROVE  T \cup {x} \in P
  BY <1>2, TokensAdd
<1>3. S \in P
  <2> HIDE DEF P
  <2> QED BY <1>1, <1>2, SetInduction
<1> QED
  BY <1>3, FS_CardinalityType

(* The recursion has a solution, the number of tokens, so the one CHOOSE takes
   is a solution; and two solutions agree on every finite set, by induction on
   the set. *)
LEMMA SumIsCount ==
  ASSUME NEW S, IsFiniteSet(S), NEW f, \A x \in S : f[x] \in Nat
  PROVE  SumFunctionOnSet(f, S) = Cardinality(Tokens(f, S))
<1> DEFINE h == [s \in SUBSET S |-> Cardinality(Tokens(f, s))]
           Sum(iter) == iter = [s \in SUBSET S |-> SumStep(iter, f, s)]
           sum == CHOOSE iter : Sum(iter)
<1>1. ASSUME NEW s \in SUBSET S, s # {}
      PROVE  LET x == CHOOSE x \in s : TRUE
             IN  x \in s /\ Cardinality(Tokens(f, s)) = f[x] + Cardinality(Tokens(f, s \ {x}))
  <2> DEFINE x == CHOOSE x \in s : TRUE
  <2>1. x \in s
    BY <1>1
  <2> HIDE DEF x
  <2>2. IsFiniteSet(s \ {x}) /\ \A y \in s \ {x} : f[y] \in Nat
    BY FS_Subset
  <2>3. IsFiniteSet(Tokens(f, s \ {x})) /\ Cardinality(Tokens(f, s \ {x})) \in Nat
    BY <2>2, TokensFinite
  <2>4. f[x] \in Nat /\ x \notin s \ {x}
    BY <2>1
  <2>5. Cardinality(Tokens(f, (s \ {x}) \cup {x})) = Cardinality(Tokens(f, s \ {x})) + f[x]
    BY <2>3, <2>4, TokensAdd
  <2>6. (s \ {x}) \cup {x} = s
    BY <2>1
  <2>7. x \in s /\ Cardinality(Tokens(f, s)) = f[x] + Cardinality(Tokens(f, s \ {x}))
    <3>1. Tokens(f, (s \ {x}) \cup {x}) = Tokens(f, s)
      BY <2>6
    <3> HIDE DEF h
    <3>2. Cardinality(Tokens(f, s)) = Cardinality(Tokens(f, s \ {x})) + f[x]
      BY <2>5, <3>1
    <3> QED
      BY <2>1, <2>3, <2>4, <3>2
  <2> QED
    BY <2>7 DEF x
<1>2. Sum(h)
  <2>1. ASSUME NEW s \in SUBSET S PROVE Cardinality(Tokens(f, s)) = SumStep(h, f, s)
    <3>1. CASE s = {}
      BY <3>1, FS_EmptySet DEF Tokens, SumStep
    <3>2. CASE s # {}
      BY <3>2, <1>1 DEF SumStep
    <3> QED
      BY <3>1, <3>2
  <2> QED
    BY <2>1
<1>3. Sum(sum)
  <2> HIDE DEF Sum, h
  <2> QED BY <1>2, Zenon
<1>4. SumFunctionOnSet(f, S) = sum[S]
  BY DEF SumFunctionOnSet, FoldFunctionOnSet, MapThenFoldSet, SumStep
<1> HIDE DEF sum
<1> DEFINE P == {T \in SUBSET S : sum[T] = h[T]}
<1>5. S \in P
  <2>0. \A T \in SUBSET S : sum[T] = SumStep(sum, f, T)
    BY <1>3
  <2> DEFINE Bad == {T \in FiniteSubsetsOf(S) : T \notin P}
  <2> SUFFICES ASSUME Bad # {} PROVE FALSE
    BY FS_FiniteSubsetsOfFinite
  <2>1. PICK T \in Bad : \A U \in Bad : ~(<<U, T>> \in StrictSubsetOrdering(S))
    <3>1. IsWellFoundedOn(StrictSubsetOrdering(S), FiniteSubsetsOf(S))
      BY FS_StrictSubsetOrderingWellFounded
    <3> QED
      BY <3>1, WFMin
  <2>2. T \in SUBSET S /\ sum[T] # h[T]
    BY FS_FiniteSubsetsOfFinite
  <2>3. T # {}
    <3>1. Tokens(f, {}) = {}
      BY DEF Tokens
    <3>2. {} \in SUBSET S /\ h[{}] = 0
      BY <3>1, FS_EmptySet
    <3>3. sum[{}] = 0
      BY <2>0, <3>2 DEF SumStep
    <3>4. QED
      BY <2>2, <3>2, <3>3
  <2> DEFINE x == CHOOSE x \in T : TRUE
  <2>4. x \in T /\ h[T] = f[x] + h[T \ {x}]
    BY <1>1, <2>2, <2>3
  <2>5. sum[T] = f[x] + sum[T \ {x}]
    BY <2>0, <2>2, <2>3 DEF SumStep
  <2> HIDE DEF x
  <2>6. <<T \ {x}, T>> \in StrictSubsetOrdering(S)
    BY <2>2, <2>4 DEF StrictSubsetOrdering
  <2>7. T \ {x} \in FiniteSubsetsOf(S)
    BY <2>2, FS_FiniteSubsetsOfFinite
  <2>8. sum[T \ {x}] = h[T \ {x}]
    BY <2>1, <2>2, <2>6, <2>7
  <2> QED
    BY <2>2, <2>4, <2>5, <2>8
<1> QED
  BY <1>4, <1>5

----------------------------------------------------------------------------
(* Sums over finite sets *)

LEMMA SumNat ==
  ASSUME NEW S, IsFiniteSet(S), NEW f, \A x \in S : f[x] \in Nat
  PROVE  SumFunctionOnSet(f, S) \in Nat
BY SumIsCount, TokensFinite

(* A sum depends only on the values it adds. *)
LEMMA SumSame ==
  ASSUME NEW S, IsFiniteSet(S), NEW f, NEW g, \A x \in S : f[x] \in Nat /\ g[x] = f[x]
  PROVE  SumFunctionOnSet(g, S) = SumFunctionOnSet(f, S)
<1>1. Tokens(g, S) = Tokens(f, S)
  BY DEF Tokens
<1>2. \A x \in S : g[x] \in Nat
  OBVIOUS
<1>3. SumFunctionOnSet(f, S) = Cardinality(Tokens(f, S))
  BY SumIsCount
<1>4. SumFunctionOnSet(g, S) = Cardinality(Tokens(g, S))
  BY <1>2, SumIsCount
<1> QED
  BY <1>1, <1>3, <1>4

LEMMA SumUnion ==
  ASSUME NEW S, IsFiniteSet(S), NEW T, IsFiniteSet(T), S \cap T = {},
         NEW f, \A x \in S \cup T : f[x] \in Nat
  PROVE  SumFunctionOnSet(f, S \cup T) = SumFunctionOnSet(f, S) + SumFunctionOnSet(f, T)
<1>1. Tokens(f, S \cup T) = Tokens(f, S) \cup Tokens(f, T) /\ Tokens(f, S) \cap Tokens(f, T) = {}
  BY DEF Tokens
<1>2. IsFiniteSet(Tokens(f, S)) /\ Cardinality(Tokens(f, S)) \in Nat
  BY TokensFinite
<1>3. IsFiniteSet(Tokens(f, T)) /\ Cardinality(Tokens(f, T)) \in Nat
  BY TokensFinite
<1>4. Cardinality(Tokens(f, S) \cup Tokens(f, T))
        = Cardinality(Tokens(f, S)) + Cardinality(Tokens(f, T)) - Cardinality({})
  BY <1>1, <1>2, <1>3, FS_Union
<1>5. Cardinality({}) = 0
  BY FS_EmptySet
<1>6. Cardinality(Tokens(f, S \cup T)) = Cardinality(Tokens(f, S)) + Cardinality(Tokens(f, T))
  <2>1. Cardinality(Tokens(f, S \cup T)) = Cardinality(Tokens(f, S) \cup Tokens(f, T))
    BY <1>1
  <2> QED
    BY <1>2, <1>3, <1>4, <1>5, <2>1
<1>7. SumFunctionOnSet(f, S \cup T) = Cardinality(Tokens(f, S \cup T))
  <2>1. IsFiniteSet(S \cup T)
    BY FS_Union
  <2> QED
    BY <2>1, SumIsCount
<1>8. SumFunctionOnSet(f, S) = Cardinality(Tokens(f, S))
  BY SumIsCount
<1>9. SumFunctionOnSet(f, T) = Cardinality(Tokens(f, T))
  BY SumIsCount
<1> QED
  BY <1>6, <1>7, <1>8, <1>9

LEMMA SumEmpty ==
  ASSUME NEW f
  PROVE  SumFunctionOnSet(f, {}) = 0
<1>1. SumFunctionOnSet(f, {}) = Cardinality(Tokens(f, {}))
  BY FS_EmptySet, SumIsCount
<1>2. Tokens(f, {}) = {}
  BY DEF Tokens
<1> QED
  BY <1>1, <1>2, FS_EmptySet

LEMMA SumZero ==
  ASSUME NEW S, IsFiniteSet(S), NEW f, \A x \in S : f[x] = 0
  PROVE  SumFunctionOnSet(f, S) = 0
<1>1. Tokens(f, S) = {}
  BY DEF Tokens
<1>2. SumFunctionOnSet(f, S) = Cardinality(Tokens(f, S))
  BY SumIsCount
<1> QED
  BY <1>1, <1>2, FS_EmptySet

(* Any one element can be added last. *)
LEMMA SumPick ==
  ASSUME NEW S, IsFiniteSet(S), NEW f, \A x \in S : f[x] \in Nat, NEW x \in S
  PROVE  /\ SumFunctionOnSet(f, S \ {x}) \in Nat
         /\ SumFunctionOnSet(f, S) = f[x] + SumFunctionOnSet(f, S \ {x})
<1>1. IsFiniteSet(S \ {x}) /\ \A y \in S \ {x} : f[y] \in Nat
  BY FS_Subset
<1>2. IsFiniteSet(Tokens(f, S \ {x})) /\ Cardinality(Tokens(f, S \ {x})) \in Nat
  BY <1>1, TokensFinite
<1>3. Cardinality(Tokens(f, (S \ {x}) \cup {x})) = Cardinality(Tokens(f, S \ {x})) + f[x]
  <2>1. f[x] \in Nat /\ x \notin S \ {x}
    OBVIOUS
  <2> QED
    BY <1>2, <2>1, TokensAdd
<1>4. (S \ {x}) \cup {x} = S
  OBVIOUS
<1>5. SumFunctionOnSet(f, S) = Cardinality(Tokens(f, S))
  BY SumIsCount
<1>6. SumFunctionOnSet(f, S \ {x}) = Cardinality(Tokens(f, S \ {x}))
  BY <1>1, SumIsCount
<1>7. f[x] \in Nat
  OBVIOUS
<1>8. Tokens(f, (S \ {x}) \cup {x}) = Tokens(f, S)
  BY <1>4
<1>9. Cardinality(Tokens(f, S)) = Cardinality(Tokens(f, S \ {x})) + f[x]
  BY <1>3, <1>8
<1> QED
  BY <1>2, <1>5, <1>6, <1>7, <1>9

(* One value that changes changes the sum by as much. *)
LEMMA SumUpdate ==
  ASSUME NEW S, IsFiniteSet(S), NEW f \in [S -> Nat], NEW g \in [S -> Nat], NEW x \in S,
         \A y \in S \ {x} : g[y] = f[y]
  PROVE  SumFunction(g) = SumFunction(f) + g[x] - f[x]
<1>1. SumFunctionOnSet(f, S \ {x}) \in Nat /\ SumFunctionOnSet(f, S) = f[x] + SumFunctionOnSet(f, S \ {x})
  BY SumPick
<1>2. SumFunctionOnSet(g, S) = g[x] + SumFunctionOnSet(g, S \ {x})
  BY SumPick
<1>3. SumFunctionOnSet(g, S \ {x}) = SumFunctionOnSet(f, S \ {x})
  BY FS_Subset, SumSame
<1>4. SumFunction(f) = SumFunctionOnSet(f, S) /\ SumFunction(g) = SumFunctionOnSet(g, S)
  BY DEF SumFunction
<1>5. f[x] \in Nat /\ g[x] \in Nat
  OBVIOUS
<1> QED
  BY <1>1, <1>2, <1>3, <1>4, <1>5

----------------------------------------------------------------------------
(* Sums over sequences *)

LEMMA SeqSumNat ==
  ASSUME NEW w \in Seq(Nat)
  PROVE  SumFunction(w) \in Nat
<1>1. DOMAIN w = 1..Len(w) /\ \A i \in DOMAIN w : w[i] \in Nat
  OBVIOUS
<1>2. IsFiniteSet(DOMAIN w)
  BY <1>1, FS_Interval
<1> QED
  BY <1>1, <1>2, SumNat DEF SumFunction

LEMMA SeqSumEmpty == SumFunction(<<>>) = 0
BY SumEmpty DEF SumFunction

(* An element at the end adds its value. *)
LEMMA SeqSumAppend ==
  ASSUME NEW w \in Seq(Nat), NEW v \in Nat
  PROVE  SumFunction(Append(w, v)) = SumFunction(w) + v
<1> DEFINE a == Append(w, v)
           n == Len(w)
<1>1. /\ DOMAIN w = 1..n /\ DOMAIN a = 1..(n + 1) /\ n \in Nat
      /\ a[n + 1] = v /\ \A i \in 1..n : a[i] = w[i] /\ w[i] \in Nat
      /\ \A i \in 1..(n + 1) : a[i] \in Nat
  OBVIOUS
<1> HIDE DEF a, n
<1>2. IsFiniteSet(1..(n + 1)) /\ IsFiniteSet(1..n)
  BY <1>1, FS_Interval
<1>3. /\ SumFunctionOnSet(a, (1..(n + 1)) \ {n + 1}) \in Nat
      /\ SumFunctionOnSet(a, 1..(n + 1)) = a[n + 1] + SumFunctionOnSet(a, (1..(n + 1)) \ {n + 1})
  <2>1. n + 1 \in 1..(n + 1)
    BY <1>1
  <2> QED
    BY <1>1, <1>2, <2>1, SumPick
<1>4. (1..(n + 1)) \ {n + 1} = 1..n
  BY <1>1
<1>5. SumFunctionOnSet(a, 1..n) = SumFunctionOnSet(w, 1..n)
  BY <1>1, <1>2, SumSame
<1>6. SumFunctionOnSet(a, 1..(n + 1)) = v + SumFunctionOnSet(w, 1..n) /\ SumFunctionOnSet(w, 1..n) \in Nat
  BY <1>1, <1>3, <1>4, <1>5
<1>7. SumFunction(a) = SumFunctionOnSet(a, 1..(n + 1)) /\ SumFunction(w) = SumFunctionOnSet(w, 1..n)
  BY <1>1 DEF SumFunction
<1>8. SumFunction(a) = SumFunction(w) + v
  BY <1>6, <1>7
<1> QED
  BY <1>8 DEF a

(* A sum does not depend on what the elements are called. *)
LEMMA SumShifted ==
  ASSUME NEW S, IsFiniteSet(S), NEW T, NEW b \in Bijection(S, T),
         NEW f, \A x \in S : f[x] \in Nat,
         NEW g, \A x \in S : g[b[x]] = f[x]
  PROVE  SumFunctionOnSet(g, T) = SumFunctionOnSet(f, S)
<1>1. /\ b \in [S -> T] /\ \A x, y \in S : b[x] = b[y] => x = y
      /\ \A t \in T : \E x \in S : b[x] = t
  BY DEF Bijection, Injection, Surjection, IsInjective
<1>2. IsFiniteSet(T)
  BY FS_Bijection DEF ExistsBijection
<1>3. \A t \in T : g[t] \in Nat
  BY <1>1
<1> DEFINE F == [t \in Tokens(f, S) |-> <<b[t[1]], t[2]>>]
<1>4. F \in Bijection(Tokens(f, S), Tokens(g, T))
  <2>1. \A t \in Tokens(f, S) : t[1] \in S /\ t[2] \in 1..f[t[1]] /\ t = <<t[1], t[2]>>
    BY DEF Tokens
  <2>2. ASSUME NEW t \in Tokens(f, S) PROVE F[t] \in Tokens(g, T)
    BY <1>1, <2>1 DEF Tokens
  <2>3. ASSUME NEW s \in Tokens(f, S), NEW t \in Tokens(f, S), F[s] = F[t] PROVE s = t
    BY <1>1, <2>1, <2>3
  <2>4. ASSUME NEW u \in Tokens(g, T) PROVE \E t \in Tokens(f, S) : F[t] = u
    <3>1. u[1] \in T /\ u[2] \in 1..g[u[1]] /\ u = <<u[1], u[2]>>
      BY DEF Tokens
    <3>2. PICK x \in S : b[x] = u[1]
      BY <1>1, <3>1
    <3>3. <<x, u[2]>> \in Tokens(f, S)
      BY <3>1, <3>2 DEF Tokens
    <3>4. F[<<x, u[2]>>] = u
      BY <3>1, <3>2, <3>3
    <3> QED
      BY <3>3, <3>4
  <2> QED
    BY <2>2, <2>3, <2>4 DEF Bijection, Injection, Surjection, IsInjective
<1> HIDE DEF F
<1>5. IsFiniteSet(Tokens(f, S))
  BY TokensFinite
<1>6. Cardinality(Tokens(g, T)) = Cardinality(Tokens(f, S))
  BY <1>4, <1>5, FS_Bijection DEF ExistsBijection
<1>7. SumFunctionOnSet(f, S) = Cardinality(Tokens(f, S))
  BY SumIsCount
<1>8. SumFunctionOnSet(g, T) = Cardinality(Tokens(g, T))
  BY <1>2, <1>3, SumIsCount
<1> QED
  BY <1>6, <1>7, <1>8

(* A sequence cut in two: the sum of it is the sum of both parts. *)
LEMMA SeqSumSplit ==
  ASSUME NEW w \in Seq(Nat), NEW k \in 0..Len(w)
  PROVE  SumFunction(w) = SumFunction(SubSeq(w, 1, k)) + SumFunction(SubSeq(w, k + 1, Len(w)))
<1> DEFINE n == Len(w)
           u == SubSeq(w, 1, k)
           v == SubSeq(w, k + 1, n)
<1>1. n \in Nat /\ k \in Nat /\ k <= n /\ DOMAIN w = 1..n /\ \A i \in 1..n : w[i] \in Nat
  OBVIOUS
<1>2. u \in Seq(Nat) /\ DOMAIN u = 1..k /\ \A i \in 1..k : u[i] = w[i]
  OBVIOUS
<1>3. v \in Seq(Nat) /\ DOMAIN v = 1..(n - k) /\ \A i \in 1..(n - k) : v[i] = w[k + i]
  OBVIOUS
<1>4. \A i \in 1..(n - k) : v[i] \in Nat
  BY <1>1, <1>3
<1> HIDE DEF n, u, v
<1>5. IsFiniteSet(1..k) /\ IsFiniteSet((k + 1)..n) /\ IsFiniteSet(1..(n - k))
  <2>1. k + 1 \in Int /\ n - k \in Int /\ n \in Int /\ k \in Int
    BY <1>1
  <2> QED
    BY <2>1, FS_Interval
<1>6. SumFunctionOnSet(w, 1..n) = SumFunctionOnSet(w, 1..k) + SumFunctionOnSet(w, (k + 1)..n)
  <2>1. (1..k) \cup ((k + 1)..n) = 1..n /\ (1..k) \cap ((k + 1)..n) = {}
    BY <1>1
  <2>2. SumFunctionOnSet(w, (1..k) \cup ((k + 1)..n)) = SumFunctionOnSet(w, 1..k) + SumFunctionOnSet(w, (k + 1)..n)
    BY <1>1, <1>5, <2>1, SumUnion
  <2> QED
    BY <2>1, <2>2
<1>7. SumFunctionOnSet(u, 1..k) = SumFunctionOnSet(w, 1..k)
  BY <1>1, <1>2, <1>5, SumSame
<1>8. SumFunctionOnSet(w, (k + 1)..n) = SumFunctionOnSet(v, 1..(n - k))
  <2> DEFINE b == [i \in 1..(n - k) |-> k + i]
  <2>1. b \in Bijection(1..(n - k), (k + 1)..n)
    <3>1. \A i \in 1..(n - k) : b[i] \in (k + 1)..n
      BY <1>1
    <3>2. \A i, j \in 1..(n - k) : b[i] = b[j] => i = j
      BY <1>1
    <3>3. \A j \in (k + 1)..n : j - k \in 1..(n - k) /\ b[j - k] = j
      BY <1>1
    <3> QED
      BY <3>1, <3>2, <3>3 DEF Bijection, Injection, Surjection, IsInjective
  <2>2. \A i \in 1..(n - k) : w[b[i]] = v[i]
    BY <1>3
  <2> DEFINE S == 1..(n - k)
             T == (k + 1)..n
  <2>3. /\ IsFiniteSet(S) /\ b \in Bijection(S, T)
        /\ \A i \in S : v[i] \in Nat
        /\ \A i \in S : w[b[i]] = v[i]
    BY <1>5, <1>4, <2>1, <2>2
  <2> HIDE DEF b, S, T
  <2>4. SumFunctionOnSet(w, T) = SumFunctionOnSet(v, S)
    BY <2>3, SumShifted
  <2> QED
    BY <2>4 DEF S, T
<1>9. SumFunction(w) = SumFunctionOnSet(w, 1..n)
  BY <1>1 DEF SumFunction
<1>10. SumFunction(u) = SumFunctionOnSet(u, 1..k) /\ SumFunction(v) = SumFunctionOnSet(v, 1..(n - k))
  BY <1>2, <1>3 DEF SumFunction
<1>11. SumFunction(w) = SumFunction(u) + SumFunction(v)
  BY <1>6, <1>7, <1>8, <1>9, <1>10
<1> QED
  BY <1>11 DEF n, u, v
=============================================================================
