----------------------------- MODULE Recursion -----------------------------
(***************************************************************************)
(* Induction over numbers and sequences, and functions defined by          *)
(* recursion over 0 .. N, in a form whose hypotheses are about sets.  The  *)
(* proofs about the logger and the metrics rest on it.                     *)
(***************************************************************************)
EXTENDS Integers, Sequences, SequenceTheorems, WellFoundedInduction, NaturalsInduction, TLAPS

\* Induction over the numbers: a set of numbers that has 0 and the successor of
\* each of its elements has them all.
LEMMA SetInduction ==
  ASSUME NEW S \in SUBSET Nat, 0 \in S, \A n \in S : n + 1 \in S
  PROVE  S = Nat
<1> SUFFICES ASSUME Nat \ S # {} PROVE FALSE
  OBVIOUS
<1>1. IsWellFoundedOn(OpToRel(<, Nat), Nat)
  BY NatLessThanWellFounded
<1>2. PICK x \in Nat \ S : \A y \in Nat \ S : ~ (<<y, x>> \in OpToRel(<, Nat))
  BY <1>1, WFMin, Zenon
<1>3. \A y \in Nat \ S : ~ (y < x)
  BY <1>2 DEF OpToRel
<1>4. x # 0 /\ x - 1 \in Nat
  OBVIOUS
<1>5. x - 1 \in S
  BY <1>3, <1>4
<1>6. (x - 1) + 1 \in S
  BY <1>5
<1> QED BY <1>6, <1>4

\* A set of numbers that is not empty has a least element.
LEMMA LeastExists ==
  ASSUME NEW S \in SUBSET Nat, S # {}
  PROVE  \E m \in S : \A n \in S : m <= n
<1>1. PICK x \in S : \A y \in S : ~ (<<y, x>> \in OpToRel(<, Nat))
  <2>1. IsWellFoundedOn(OpToRel(<, Nat), Nat)
    BY NatLessThanWellFounded
  <2> QED BY <2>1, WFMin, Zenon
<1>2. \A y \in S : ~ (y < x)
  BY <1>1 DEF OpToRel
<1> QED BY <1>2

\* Induction over the sequences: a set of sequences that has the empty one and
\* the extensions of each of its elements has them all.
LEMMA SeqInduction ==
  ASSUME NEW X, NEW S \in SUBSET Seq(X), <<>> \in S,
         \A s \in S, e \in X : Append(s, e) \in S
  PROVE  S = Seq(X)
<1> DEFINE L == {n \in Nat : \A s \in Seq(X) : Len(s) = n => s \in S}
<1>1. 0 \in L
  <2>1. \A s \in Seq(X) : Len(s) = 0 => s = <<>>
    BY EmptySeq
  <2> QED BY <2>1
<1>2. ASSUME NEW n \in L PROVE n + 1 \in L
  <2>1. ASSUME NEW s \in Seq(X), Len(s) = n + 1 PROVE s \in S
    <3>0. s # <<>>
      BY <2>1
    <3>1. PICK f \in Seq(X), e \in X : s = Append(f, e)
      BY <3>0, SequenceEmptyOrAppend
    <3>2. Len(f) = n
      BY <2>1, <3>1, AppendProperties
    <3> QED BY <3>1, <3>2
  <2> QED BY <2>1
<1> HIDE DEF L
<1>3. L = Nat
  <2>1. L \in SUBSET Nat
    BY DEF L
  <2> QED BY <2>1, <1>1, <1>2, SetInduction
<1>4. ASSUME NEW s \in Seq(X) PROVE s \in S
  <2>1. Len(s) \in L
    BY <1>3
  <2> QED BY <2>1 DEF L
<1> QED BY <1>4

\* f is defined by recursion up to N: a at 0, then step.
Recursive(f, N, V, a, step) ==
    f \in [0 .. N -> V] /\ f[0] = a /\ \A i \in 1 .. N : f[i] = step[<<i, f[i - 1]>>]

\* A function defined by recursion from a with step exists.
LEMMA RecursionExists ==
  ASSUME NEW N \in Nat, NEW V, NEW a \in V, NEW step \in [(1 .. N) \X V -> V]
  PROVE  \E f : Recursive(f, N, V, a, step)
<1> DEFINE P(n) == \E f \in [0 .. n -> V] :
                       f[0] = a /\ \A i \in 1 .. n : f[i] = step[<<i, f[i - 1]>>]
           S == {n \in Nat : n <= N => P(n)}
<1>1. 0 \in S
  <2>1. [i \in 0 .. 0 |-> a] \in [0 .. 0 -> V] /\ [i \in 0 .. 0 |-> a][0] = a
    OBVIOUS
  <2>2. 1 .. 0 = {}
    OBVIOUS
  <2> QED BY <2>1, <2>2
<1>2. ASSUME NEW n \in S PROVE n + 1 \in S
  <2>1. n \in Nat
    OBVIOUS
  <2>2. ASSUME n + 1 <= N PROVE P(n + 1)
    <3>1. PICK f \in [0 .. n -> V] : f[0] = a /\ \A i \in 1 .. n : f[i] = step[<<i, f[i - 1]>>]
      BY <2>1, <2>2
    <3> DEFINE g == [i \in 0 .. n + 1 |-> IF i = n + 1 THEN step[<<n + 1, f[n]>>] ELSE f[i]]
    <3>2. f[n] \in V /\ n + 1 \in 1 .. N
      BY <2>1, <2>2
    <3>3. step[<<n + 1, f[n]>>] \in V
      BY <3>2
    <3>4. \A i \in 0 .. n : g[i] = f[i]
      BY <2>1
    <3>5. g \in [0 .. n + 1 -> V]
      BY <2>1, <3>1, <3>3
    <3>6. g[0] = a
      BY <2>1, <3>1, <3>4
    <3>7. g[n + 1] = step[<<n + 1, f[n]>>] /\ g[n] = f[n]
      BY <2>1
    <3> HIDE DEF g
    <3>8. ASSUME NEW i \in 1 .. n + 1 PROVE g[i] = step[<<i, g[i - 1]>>]
      <4>1. CASE i = n + 1
        BY <2>1, <3>7, <4>1
      <4>2. CASE i # n + 1
        <5>1. i \in 1 .. n /\ i - 1 \in 0 .. n /\ i \in 0 .. n
          BY <2>1, <4>2
        <5> QED BY <3>1, <3>4, <5>1
      <4> QED BY <4>1, <4>2
    <3> QED BY <3>5, <3>6, <3>8
  <2> QED BY <2>1, <2>2
<1> HIDE DEF S
<1>3. S = Nat
  <2>1. S \in SUBSET Nat
    BY DEF S
  <2> QED BY <1>1, <1>2, <2>1, SetInduction
<1>4. N \in S
  BY <1>3
<1>5. P(N)
  <2>1. N <= N
    OBVIOUS
  <2> HIDE DEF P
  <2> QED BY <1>4, <2>1 DEF S
<1> QED BY <1>5 DEF Recursive

\* A function that steps from a as long as it stays in V is defined by that
\* recursion.
LEMMA RecursionIs ==
  ASSUME NEW N \in Nat, NEW V, NEW a \in V, NEW step \in [(1 .. N) \X V -> V],
         NEW r, r = [k \in 0 .. N |-> r[k]], r[0] = a,
         \A k \in 1 .. N : r[k - 1] \in V => r[k] = step[<<k, r[k - 1]>>]
  PROVE  Recursive(r, N, V, a, step)
<1> DEFINE S == {k \in Nat : k <= N => r[k] \in V}
<1>1. 0 \in S
  OBVIOUS
<1>2. ASSUME NEW k \in S PROVE k + 1 \in S
  <2>1. CASE k + 1 <= N
    <3>1. k \in Nat /\ k + 1 \in 1 .. N /\ (k + 1) - 1 = k /\ r[k] \in V
      BY <2>1
    <3>2. r[k + 1] = step[<<k + 1, r[k]>>]
      BY <3>1
    <3>3. step[<<k + 1, r[k]>>] \in V
      BY <3>1
    <3> QED BY <3>1, <3>2, <3>3
  <2> QED BY <2>1
<1>3. S = Nat
  <2> HIDE DEF S
  <2>1. S \in SUBSET Nat
    BY DEF S
  <2> QED BY <1>1, <1>2, <2>1, SetInduction
<1>4. ASSUME NEW k \in 0 .. N PROVE r[k] \in V
  <2>1. k \in Nat /\ k <= N
    OBVIOUS
  <2>2. k \in S
    <3> HIDE DEF S
    <3> QED BY <1>3, <2>1
  <2> QED BY <2>1, <2>2
<1>5. r \in [0 .. N -> V]
  BY <1>4
<1>6. \A k \in 1 .. N : r[k - 1] \in V
  BY <1>4
<1> QED BY <1>5, <1>6 DEF Recursive
=============================================================================
