---------------------------- MODULE LoggerProofs ----------------------------
(***************************************************************************)
(* Proofs about Logger and LogFile, for any producers, sizes and bounds:   *)
(* no record is lost, doubled or reordered; the spare buffers suffice; and *)
(* the link is never stale; and, at the end, about FileUtil: descriptors   *)
(* and locks have one owner each.                                          *)
(***************************************************************************)
EXTENDS Logger, FileUtil, Recursion, FiniteSetTheorems

-----------------------------------------------------------------------------
(* Flatten and Without *)

\* The function Flatten is defined with.
Joins(s) == CHOOSE c : c = [k \in 0 .. Len(s) |-> IF k = 0 THEN <<>> ELSE c[k - 1] \o s[k]]

\* Flatten is what its recursion says.
LEMMA JoinsDef ==
  ASSUME NEW T, NEW s \in Seq(Seq(T))
  PROVE  /\ Flatten(s) = Joins(s)[Len(s)]
         /\ Joins(s) \in [0 .. Len(s) -> Seq(T)]
         /\ Joins(s)[0] = <<>>
         /\ \A k \in 1 .. Len(s) : Joins(s)[k] = Joins(s)[k - 1] \o s[k]
<1> DEFINE N == Len(s)
           V == Seq(T)
           a == <<>>
           step == [x \in (1 .. N) \X V |-> x[2] \o s[x[1]]]
<1>1. N \in Nat /\ \A k \in 1 .. N : s[k] \in V
  OBVIOUS
<1>2. step \in [(1 .. N) \X V -> V]
  BY <1>1
<1>3. \A k \in 1 .. N, q \in V : step[<<k, q>>] = q \o s[k]
  BY <1>1
<1>4. a \in V
  OBVIOUS
<1> HIDE DEF N, V, step, a
<1>5. PICK f : Recursive(f, N, V, a, step)
  BY <1>1, <1>2, <1>4, RecursionExists
<1>6. f \in [0 .. N -> V] /\ f[0] = a /\ \A k \in 1 .. N : f[k] = step[<<k, f[k - 1]>>]
  BY <1>5 DEF Recursive
<1>7. \A k \in 1 .. N : f[k] = f[k - 1] \o s[k]
  <2> TAKE k \in 1 .. N
  <2>1. k - 1 \in 0 .. N
    BY <1>1
  <2>2. f[k - 1] \in V
    BY <1>6, <2>1
  <2> QED BY <1>3, <1>6, <2>2
<1>8. f = [k \in 0 .. N |-> IF k = 0 THEN <<>> ELSE f[k - 1] \o s[k]]
  <2>1. ASSUME NEW k \in 0 .. N PROVE f[k] = IF k = 0 THEN <<>> ELSE f[k - 1] \o s[k]
    <3>1. k # 0 => k \in 1 .. N
      BY <1>1
    <3> QED BY <1>6, <1>7, <3>1 DEF a
  <2> QED BY <2>1, <1>6
<1>9. Joins(s) = [k \in 0 .. N |-> IF k = 0 THEN <<>> ELSE Joins(s)[k - 1] \o s[k]]
  BY <1>8, Zenon DEF Joins, N
<1>10. Flatten(s) = Joins(s)[Len(s)]
  BY DEF Flatten, Joins
<1> HIDE DEF Joins
<1> DEFINE J == Joins(s)
<1> HIDE DEF J
<1>11. DOMAIN J = 0 .. N /\ J[0] = <<>> /\ \A k \in 1 .. N : J[k] = J[k - 1] \o s[k]
  <2>1. J = [k \in 0 .. N |-> IF k = 0 THEN <<>> ELSE J[k - 1] \o s[k]]
    BY <1>9 DEF J
  <2>2. 0 \in 0 .. N /\ \A k \in 1 .. N : k \in 0 .. N /\ k # 0
    BY <1>1
  <2> QED BY <2>1, <2>2
<1> DEFINE S == {n \in Nat : n <= N => J[n] \in V}
<1>12. 0 \in S
  BY <1>4, <1>11 DEF a
<1>13. ASSUME NEW n \in S PROVE n + 1 \in S
  <2>1. CASE n + 1 <= N
    <3>1. n + 1 \in 1 .. N /\ (n + 1) - 1 = n /\ J[n] \in V
      BY <2>1, <1>1
    <3>2. J[n + 1] = J[n] \o s[n + 1] /\ s[n + 1] \in V
      BY <3>1, <1>1, <1>11
    <3>3. J[n + 1] \in V
      BY <3>1, <3>2 DEF V
    <3> QED BY <3>3
  <2> QED BY <2>1
<1>14. S = Nat
  <2> HIDE DEF S
  <2>1. S \in SUBSET Nat
    BY DEF S
  <2> QED BY <1>12, <1>13, <2>1, SetInduction
<1>15. \A n \in 0 .. N : J[n] \in V
  BY <1>14, <1>1
<1>16. J \in [0 .. N -> V]
  <2>1. J = [n \in 0 .. N |-> J[n]]
    BY <1>9, <1>11 DEF J
  <2> QED BY <2>1, <1>15
<1> QED BY <1>10, <1>11, <1>16 DEF J, N, V

\* What flattening an extended sequence of sequences adds.
LEMMA FlattenAppend ==
  ASSUME NEW T, NEW s \in Seq(Seq(T)), NEW e \in Seq(T)
  PROVE  Flatten(s) \in Seq(T) /\ Flatten(Append(s, e)) = Flatten(s) \o e
<1> DEFINE N == Len(s)
           u == Append(s, e)
           J == Joins(s)
           K == Joins(u)
<1>1. N \in Nat /\ u \in Seq(Seq(T)) /\ Len(u) = N + 1 /\ u[N + 1] = e /\ \A k \in 1 .. N : u[k] = s[k]
  OBVIOUS
<1>2. /\ Flatten(s) = J[N] /\ J \in [0 .. N -> Seq(T)] /\ J[0] = <<>>
      /\ \A k \in 1 .. N : J[k] = J[k - 1] \o s[k]
  BY JoinsDef
<1> HIDE DEF u
<1>3. /\ Flatten(u) = K[N + 1] /\ K[0] = <<>>
      /\ \A k \in 1 .. N + 1 : K[k] = K[k - 1] \o u[k]
  BY <1>1, JoinsDef
<1> HIDE DEF J, K, N
<1> DEFINE S == {n \in Nat : n <= N => K[n] = J[n]}
<1>4. 0 \in S
  BY <1>2, <1>3
<1>5. ASSUME NEW n \in S PROVE n + 1 \in S
  <2>1. CASE n + 1 <= N
    <3>1. n + 1 \in 1 .. N /\ n + 1 \in 1 .. N + 1 /\ (n + 1) - 1 = n /\ K[n] = J[n]
      BY <2>1, <1>1
    <3>2. J[n + 1] = J[n] \o s[n + 1]
      BY <3>1, <1>2
    <3>3. K[n + 1] = K[n] \o u[n + 1] /\ u[n + 1] = s[n + 1]
      BY <3>1, <1>1, <1>3
    <3>4. K[n + 1] = J[n + 1]
      BY <3>1, <3>2, <3>3
    <3> QED BY <3>4
  <2> QED BY <2>1
<1> HIDE DEF S
<1>6. S = Nat
  <2>1. S \in SUBSET Nat
    BY DEF S
  <2> QED BY <1>4, <1>5, <2>1, SetInduction
<1>7. K[N] = J[N]
  BY <1>1, <1>6 DEF S
<1>8. K[N + 1] = K[N] \o e
  <2>1. N + 1 \in 1 .. N + 1 /\ (N + 1) - 1 = N
    BY <1>1
  <2> QED BY <2>1, <1>1, <1>3
<1> QED BY <1>1, <1>2, <1>3, <1>7, <1>8 DEF u

\* Nothing flattens to nothing, and a single sequence to itself.
LEMMA FlattenSmall ==
  /\ Flatten(<<>>) = <<>>
  /\ \A T : \A e \in Seq(T) : Flatten(<<e>>) = e
<1>1. Flatten(<<>>) = <<>>
  <2>1. <<>> \in Seq(Seq({}))
    OBVIOUS
  <2>2. Flatten(<<>>) = Joins(<<>>)[Len(<<>>)] /\ Joins(<<>>)[0] = <<>>
    BY <2>1, JoinsDef
  <2>3. Len(<<>>) = 0
    OBVIOUS
  <2> QED BY <2>2, <2>3
<1>2. ASSUME NEW T, NEW e \in Seq(T) PROVE Flatten(<<e>>) = e
  <2>1. <<>> \in Seq(Seq(T)) /\ <<e>> = Append(<<>>, e)
    OBVIOUS
  <2>2. Flatten(<<e>>) = Flatten(<<>>) \o e
    BY <2>1, FlattenAppend
  <2> QED BY <2>2, <1>1, ConcatEmptySeq
<1> QED BY <1>1, <1>2

\* Concatenation is associative.
LEMMA Regroup ==
  \A T : \A e \in Seq(T) : \A a, b \in Seq(T) : (a \o b) \o e = a \o (b \o e)
<1> SUFFICES ASSUME NEW T, NEW e \in Seq(T), NEW a \in Seq(T), NEW b \in Seq(T)
             PROVE  (a \o b) \o e = a \o (b \o e)
  OBVIOUS
<1> QED BY ConcatAssociative

\* Flatten distributes over concatenation.
LEMMA FlattenConcat ==
  ASSUME NEW T, NEW s \in Seq(Seq(T)), NEW u \in Seq(Seq(T))
  PROVE  Flatten(s \o u) = Flatten(s) \o Flatten(u)
<1> DEFINE S == {v \in Seq(Seq(T)) : Flatten(s \o v) = Flatten(s) \o Flatten(v)}
<1>0. \A v \in Seq(Seq(T)) : Flatten(v) \in Seq(T)
  <2>1. <<>> \in Seq(T)
    OBVIOUS
  <2> QED BY <2>1, FlattenAppend
<1>1. <<>> \in S
  <2>1. s \o <<>> = s /\ Flatten(s) \o <<>> = Flatten(s)
    BY <1>0, ConcatEmptySeq
  <2>2. Flatten(<<>>) = <<>> /\ <<>> \in Seq(Seq(T))
    BY FlattenSmall
  <2> QED BY <2>1, <2>2
<1>2. ASSUME NEW v \in S, NEW e \in Seq(T) PROVE Append(v, e) \in S
  <2>1. v \in Seq(Seq(T)) /\ s \o v \in Seq(Seq(T)) /\ Append(v, e) \in Seq(Seq(T))
    OBVIOUS
  <2>2. s \o Append(v, e) = Append(s \o v, e)
    <3>1. Append(v, e) = v \o <<e>> /\ Append(s \o v, e) = (s \o v) \o <<e>> /\ <<e>> \in Seq(Seq(T))
      BY <2>1, AppendIsConcat
    <3> QED BY <3>1, <2>1, ConcatAssociative
  <2>3. Flatten(s \o Append(v, e)) = (Flatten(s) \o Flatten(v)) \o e
    BY <2>1, <2>2, FlattenAppend
  <2>4. Flatten(Append(v, e)) = Flatten(v) \o e
    BY <2>1, FlattenAppend
  <2>5. (Flatten(s) \o Flatten(v)) \o e = Flatten(s) \o (Flatten(v) \o e)
    <3>1. Flatten(s) \in Seq(T) /\ Flatten(v) \in Seq(T)
      BY <1>0, <2>1
    <3>2. \A a, b \in Seq(T) : (a \o b) \o e = a \o (b \o e)
      BY Regroup
    <3> QED BY <3>1, <3>2
  <2> QED BY <2>1, <2>3, <2>4, <2>5
<1> HIDE DEF S
<1>3. S = Seq(Seq(T))
  <2>1. S \in SUBSET Seq(Seq(T))
    BY DEF S
  <2> QED BY <2>1, <1>1, <1>2, SeqInduction
<1> QED BY <1>3 DEF S

\* What Without keeps of one element.
Keep(e, R) == IF e \in R THEN <<>> ELSE <<e>>

\* What Without keeps of an extended sequence.
LEMMA WithoutAppend ==
  ASSUME NEW T, NEW s \in Seq(T), NEW e \in T, NEW R
  PROVE  /\ Without(s, R) \in Seq(T)
         /\ Without(Append(s, e), R) = Without(s, R) \o Keep(e, R)
<1> DEFINE P(d) == [k \in 1 .. Len(d) |-> IF d[k] \in R THEN <<>> ELSE <<d[k]>>]
           u == Append(s, e)
           x == IF e \in R THEN <<>> ELSE <<e>>
<1>1. P(s) \in Seq(Seq(T)) /\ Len(P(s)) = Len(s) /\ x \in Seq(T)
  OBVIOUS
<1>2. P(u) \in Seq(Seq(T)) /\ Len(P(u)) = Len(s) + 1
  <2>1. u \in Seq(T) /\ Len(u) = Len(s) + 1
    OBVIOUS
  <2> HIDE DEF u
  <2> QED BY <2>1
<1>3. \A k \in 1 .. Len(s) : P(u)[k] = P(s)[k]
  OBVIOUS
<1>4. P(u)[Len(s) + 1] = x
  OBVIOUS
<1>5. Append(P(s), x) \in Seq(Seq(T)) /\ Len(Append(P(s), x)) = Len(s) + 1
  <2> HIDE DEF x, P
  <2> QED BY <1>1
<1>6. \A k \in 1 .. Len(s) + 1 : Append(P(s), x)[k] = P(u)[k]
  <2> HIDE DEF x, P, u
  <2>1. \A k \in 1 .. Len(s) : Append(P(s), x)[k] = P(s)[k]
    BY <1>1
  <2>2. Append(P(s), x)[Len(s) + 1] = x
    BY <1>1
  <2>3. Len(s) \in Nat /\ \A k \in 1 .. Len(s) + 1 : k \in 1 .. Len(s) \/ k = Len(s) + 1
    OBVIOUS
  <2> QED BY <2>1, <2>2, <2>3, <1>3, <1>4
<1>7. P(u) = Append(P(s), x)
  <2> HIDE DEF P, u, x
  <2> QED BY <1>2, <1>5, <1>6, SeqEqual
<1>8. Without(s, R) = Flatten(P(s)) /\ Without(u, R) = Flatten(P(u))
  BY DEF Without
<1>9. Flatten(P(s)) \in Seq(T) /\ Flatten(Append(P(s), x)) = Flatten(P(s)) \o x
  <2> HIDE DEF P, x
  <2> QED BY <1>1, FlattenAppend
<1> QED BY <1>7, <1>8, <1>9 DEF Keep

\* Nothing is left of nothing.
LEMMA WithoutEmpty == \A R : Without(<<>>, R) = <<>>
<1> TAKE R
<1>1. [k \in 1 .. Len(<<>>) |-> IF <<>>[k] \in R THEN <<>> ELSE <<<<>>[k]>>] = <<>>
  OBVIOUS
<1> QED BY <1>1, FlattenSmall DEF Without

\* A sequence less a set is a sequence.
LEMMA WithoutType == ASSUME NEW T, NEW s \in Seq(T), NEW R PROVE Without(s, R) \in Seq(T)
<1>1. CASE s = <<>>
  BY <1>1, WithoutEmpty
<1>2. CASE s # <<>>
  <2>1. s[1] \in T
    BY <1>2
  <2> QED BY <2>1, WithoutAppend
<1> QED BY <1>1, <1>2

\* Without distributes over concatenation.
LEMMA WithoutConcat ==
  ASSUME NEW T, NEW s \in Seq(T), NEW u \in Seq(T), NEW R
  PROVE  Without(s \o u, R) = Without(s, R) \o Without(u, R)
<1> DEFINE S == {v \in Seq(T) : Without(s \o v, R) = Without(s, R) \o Without(v, R)}
<1>1. <<>> \in S
  <2>1. s \o <<>> = s /\ Without(s, R) \o <<>> = Without(s, R) /\ <<>> \in Seq(T)
    BY WithoutType, ConcatEmptySeq
  <2> QED BY <2>1, WithoutEmpty
<1>2. ASSUME NEW v \in S, NEW e \in T PROVE Append(v, e) \in S
  <2> DEFINE x == Keep(e, R)
  <2>1. v \in Seq(T) /\ s \o v \in Seq(T) /\ Append(v, e) \in Seq(T) /\ x \in Seq(T)
    BY DEF Keep
  <2>2. s \o Append(v, e) = Append(s \o v, e)
    <3>1. Append(v, e) = v \o <<e>> /\ Append(s \o v, e) = (s \o v) \o <<e>> /\ <<e>> \in Seq(T)
      BY <2>1, AppendIsConcat
    <3> QED BY <3>1, <2>1, ConcatAssociative
  <2>3. Without(s \o Append(v, e), R) = (Without(s, R) \o Without(v, R)) \o x
    <3>1. Without(Append(s \o v, e), R) = Without(s \o v, R) \o x
      BY <2>1, WithoutAppend, Zenon
    <3>2. Without(s \o v, R) = Without(s, R) \o Without(v, R)
      OBVIOUS
    <3> QED BY <2>2, <3>1, <3>2
  <2>4. Without(Append(v, e), R) = Without(v, R) \o x
    BY <2>1, WithoutAppend
  <2> HIDE DEF x
  <2>5. (Without(s, R) \o Without(v, R)) \o x = Without(s, R) \o (Without(v, R) \o x)
    BY <2>1, WithoutType, ConcatAssociative
  <2> QED BY <2>1, <2>3, <2>4, <2>5
<1> HIDE DEF S
<1>3. S = Seq(T)
  <2>1. S \in SUBSET Seq(T)
    BY DEF S
  <2> QED BY <2>1, <1>1, <1>2, SeqInduction
<1> QED BY <1>3 DEF S

\* What is left of one element.
LEMMA WithoutOne ==
  ASSUME NEW T, NEW e \in T, NEW R
  PROVE  Without(<<e>>, R) = Keep(e, R)
<1>1. <<>> \in Seq(T) /\ <<e>> = Append(<<>>, e)
  OBVIOUS
<1>2. Without(Append(<<>>, e), R) = Without(<<>>, R) \o Keep(e, R)
  BY <1>1, WithoutAppend, Zenon
<1>3. Without(<<e>>, R) = <<>> \o Keep(e, R)
  BY <1>1, <1>2, WithoutEmpty, Zenon
<1>4. Keep(e, R) \in Seq(T)
  BY DEF Keep
<1> QED BY <1>3, <1>4, ConcatEmptySeq

\* Leaving out one set and then another is leaving out both.
LEMMA WithoutTwice ==
  ASSUME NEW T, NEW s \in Seq(T), NEW R, NEW D
  PROVE  Without(Without(s, R), D) = Without(s, R \cup D)
<1> DEFINE S == {v \in Seq(T) : Without(Without(v, R), D) = Without(v, R \cup D)}
<1>1. <<>> \in S
  BY WithoutEmpty
<1>2. ASSUME NEW v \in S, NEW e \in T PROVE Append(v, e) \in S
  <2>1. v \in Seq(T) /\ Append(v, e) \in Seq(T) /\ Without(v, R) \in Seq(T)
    BY WithoutType
  <2>0. Without(Without(v, R), D) = Without(v, R \cup D)
    OBVIOUS
  <2>x. SUFFICES Without(Without(Append(v, e), R), D) = Without(Append(v, e), R \cup D)
    BY <2>1
  <2> HIDE DEF S
  <2>2. Without(Append(v, e), R) = Without(v, R) \o Keep(e, R)
    BY <2>1, WithoutAppend
  <2>3. Without(Append(v, e), R \cup D) =
           Without(v, R \cup D) \o Keep(e, R \cup D)
    <3> DEFINE U == R \cup D
    <3> HIDE DEF U
    <3>1. Without(Append(v, e), U) = Without(v, U) \o Keep(e, U)
      BY <2>1, WithoutAppend
    <3> QED BY <3>1 DEF U
  <2>4. CASE e \in R
    <3>1. Without(Append(v, e), R) = Without(v, R)
      BY <2>1, <2>2, <2>4, ConcatEmptySeq DEF Keep
    <3>2. Without(Append(v, e), R \cup D) = Without(v, R \cup D)
      BY <2>1, <2>3, <2>4, WithoutType, ConcatEmptySeq DEF Keep
    <3> QED BY <2>0, <3>1, <3>2
  <2>5. CASE e \notin R
    <3>1. <<e>> \in Seq(T)
      OBVIOUS
    <3>2. Without(Without(Append(v, e), R), D) = Without(Without(v, R), D) \o Without(<<e>>, D)
      <4>1. Without(Append(v, e), R) = Without(v, R) \o <<e>>
        BY <2>2, <2>5 DEF Keep
      <4> DEFINE w == <<e>>
      <4> HIDE DEF w
      <4>0. w \in Seq(T)
        BY <3>1 DEF w
      <4> DEFINE x == Without(v, R)
      <4>3. x \in Seq(T)
        BY <2>1
      <4> HIDE DEF x
      <4>4. Without(x \o w, D) = Without(x, D) \o Without(w, D)
        BY <4>0, <4>3, WithoutConcat
      <4>2. Without(Without(v, R) \o w, D) = Without(Without(v, R), D) \o Without(w, D)
        BY <4>4 DEF x
      <4> QED BY <4>1, <4>2 DEF w
    <3>3. Without(<<e>>, D) = Keep(e, R \cup D)
      BY <2>5, WithoutOne DEF Keep
    <3> QED BY <2>0, <2>3, <3>2, <3>3
  <2> QED BY <2>4, <2>5
<1> HIDE DEF S
<1>3. S = Seq(T)
  <2>1. S \in SUBSET Seq(T)
    BY DEF S
  <2> QED BY <2>1, <1>1, <1>2, SeqInduction
<1> QED BY <1>3 DEF S

\* The elements that are left are those that are not in the set.
LEMMA WithoutRange ==
  ASSUME NEW T, NEW s \in Seq(T), NEW R
  PROVE  /\ Range(Without(s, R)) = Range(s) \ R
         /\ Range(s) \cap R = {} => Without(s, R) = s
         /\ Range(s) \subseteq R => Without(s, R) = <<>>
<1> DEFINE Good(v) == /\ Range(Without(v, R)) = Range(v) \ R
                      /\ Range(v) \cap R = {} => Without(v, R) = v
                      /\ Range(v) \subseteq R => Without(v, R) = <<>>
           S == {v \in Seq(T) : Good(v)}
<1>1. <<>> \in S
  <2>1. Range(<<>>) = {} /\ <<>> \in Seq(T)
    BY DEF Range
  <2> QED BY <2>1, WithoutEmpty
<1>2. ASSUME NEW v \in S, NEW e \in T PROVE Append(v, e) \in S
  <2>1. v \in Seq(T) /\ Append(v, e) \in Seq(T) /\ Without(v, R) \in Seq(T) /\ <<e>> \in Seq(T)
    BY WithoutType
  <2>0. Good(v)
    OBVIOUS
  <2>x. SUFFICES Good(Append(v, e))
    BY <2>1
  <2> HIDE DEF S, Good
  <2>2. Append(v, e) = v \o <<e>> /\ Range(<<e>>) = {e}
    BY <2>1, AppendIsConcat DEF Range
  <2>3. Range(Append(v, e)) = Range(v) \cup {e}
    <3> DEFINE w == <<e>>
    <3> HIDE DEF w
    <3>1. w \in Seq(T) /\ Append(v, e) = v \o w /\ Range(w) = {e}
      BY <2>1, <2>2 DEF w
    <3>2. Range(v \o w) = Range(v) \cup Range(w)
      BY <2>1, <3>1, RangeConcatenation
    <3> QED BY <3>1, <3>2
  <2>4. CASE e \in R
    <3>1. Without(Append(v, e), R) = Without(v, R)
      <4>1. Without(Append(v, e), R) = Without(v, R) \o Keep(e, R)
        BY <2>1, WithoutAppend
      <4> QED BY <2>1, <2>4, <4>1, ConcatEmptySeq DEF Keep
    <3> QED BY <2>0, <2>3, <2>4, <3>1 DEF Good
  <2>5. CASE e \notin R
    <3>1. Without(Append(v, e), R) = Without(v, R) \o <<e>>
      <4>1. Without(Append(v, e), R) = Without(v, R) \o Keep(e, R)
        BY <2>1, WithoutAppend
      <4> QED BY <2>5, <4>1 DEF Keep
    <3>2. Range(Without(Append(v, e), R)) = Range(Without(v, R)) \cup {e}
      <4> DEFINE w == <<e>>
      <4> HIDE DEF w
      <4>1. w \in Seq(T) /\ Without(Append(v, e), R) = Without(v, R) \o w /\ Range(w) = {e}
        BY <2>1, <2>2, <3>1 DEF w
      <4>2. Range(Without(v, R) \o w) = Range(Without(v, R)) \cup Range(w)
        BY <2>1, <4>1, RangeConcatenation
      <4> QED BY <4>1, <4>2
    <3> QED BY <2>0, <2>2, <2>3, <2>5, <3>1, <3>2 DEF Good
  <2> QED BY <2>4, <2>5
<1> HIDE DEF S, Good
<1>3. S = Seq(T)
  <2>1. S \in SUBSET Seq(T)
    BY DEF S
  <2> QED BY <2>1, <1>1, <1>2, SeqInduction
<1> QED BY <1>3 DEF S, Good

-----------------------------------------------------------------------------
(* What is on its way accounts for what was logged *)

\* No element occurs twice.
Distinct(s) == \A j, k \in 1 .. Len(s) : s[j] = s[k] => j = k

\* A path, less the notices N, is what was logged, less what was lost; and no
\* record is on it twice.
Accounts(path, logged, missing, N) ==
    Without(path, N) = Without(logged, missing) /\ Distinct(Without(path, N))

\* Three parts of a path.
Join3(s, u, v) == (s \o u) \o v

\* Without distributes over the concatenation of three parts.
LEMMA WithoutConcat3 ==
  ASSUME NEW T, NEW s \in Seq(T), NEW u \in Seq(T), NEW v \in Seq(T), NEW R
  PROVE  Without(Join3(s, u, v), R) = Join3(Without(s, R), Without(u, R), Without(v, R))
<1> DEFINE su == s \o u
<1>1. su \in Seq(T)
  OBVIOUS
<1>2. Without(s \o u, R) = Without(s, R) \o Without(u, R)
  BY WithoutConcat
<1> HIDE DEF su
<1>3. Without(su \o v, R) = Without(su, R) \o Without(v, R)
  BY <1>1, WithoutConcat
<1> QED BY <1>2, <1>3 DEF su, Join3

\* A part of the path that is dropped is lost, and nothing else is.
LEMMA DropPart ==
  ASSUME NEW T, NEW A \in Seq(T), NEW X \in Seq(T), NEW B \in Seq(T), NEW L \in Seq(T),
         NEW R, NEW N, Accounts(Join3(A, X, B), L, R, N)
  PROVE  Accounts(A \o B, L, R \cup Range(X), N)
<1> DEFINE D == Range(X)
           a == Without(A, N)
           x == Without(X, N)
           b == Without(B, N)
           W == (a \o x) \o b
           ax == a \o x
<1> HIDE DEF D
<1>1. a \in Seq(T) /\ x \in Seq(T) /\ b \in Seq(T)
  BY WithoutType
<1>3. Without(Join3(A, X, B), N) = W
  <2>1. Without(Join3(A, X, B), N) = Join3(a, x, b)
    BY WithoutConcat3
  <2> QED BY <2>1 DEF Join3
<1>4. Distinct(W) /\ W = Without(L, R)
  BY <1>3 DEF Accounts
<1>5. Range(a) = Range(A) \ N /\ Range(x) = D \ N /\ Range(b) = Range(B) \ N
  BY WithoutRange DEF D
<1>6. Without(A \o B, N) = a \o b
  BY WithoutConcat
<1> HIDE DEF a, x, b
<1>l. Len(a) \in Nat /\ Len(x) \in Nat /\ Len(b) \in Nat /\ ax \in Seq(T) /\ Len(ax) = Len(a) + Len(x)
  BY <1>1
<1>w. /\ W \in Seq(T) /\ Len(W) = Len(a) + Len(x) + Len(b)
      /\ \A j \in 1 .. Len(a) : W[j] = a[j]
      /\ \A j \in 1 .. Len(x) : W[Len(a) + j] = x[j]
      /\ \A j \in 1 .. Len(b) : W[Len(a) + Len(x) + j] = b[j]
  BY <1>1
<1>r. /\ \A e \in Range(a) : \E j \in 1 .. Len(a) : e = a[j]
      /\ \A e \in Range(x) : \E j \in 1 .. Len(x) : e = x[j]
      /\ \A e \in Range(b) : \E j \in 1 .. Len(b) : e = b[j]
  BY <1>1, RangeEquality
<1> HIDE DEF W, ax
<1>7. Range(a) \cap D = {}
  <2> SUFFICES ASSUME NEW e \in Range(a), e \in D PROVE FALSE
    OBVIOUS
  <2>1. e \in Range(x)
    BY <1>5
  <2>2. PICK j \in 1 .. Len(a) : e = a[j]
    BY <1>r
  <2>3. PICK k \in 1 .. Len(x) : e = x[k]
    BY <2>1, <1>r
  <2>4. j \in 1 .. Len(W) /\ Len(a) + k \in 1 .. Len(W) /\ j # Len(a) + k
    BY <1>l, <1>w
  <2>5. W[j] = W[Len(a) + k]
    BY <2>2, <2>3, <1>w
  <2> QED BY <2>4, <2>5, <1>4 DEF Distinct
<1>8. Range(b) \cap D = {}
  <2> SUFFICES ASSUME NEW e \in Range(b), e \in D PROVE FALSE
    OBVIOUS
  <2>1. e \in Range(x)
    BY <1>5
  <2>2. PICK j \in 1 .. Len(b) : e = b[j]
    BY <1>r
  <2>3. PICK k \in 1 .. Len(x) : e = x[k]
    BY <2>1, <1>r
  <2>4. /\ Len(a) + Len(x) + j \in 1 .. Len(W) /\ Len(a) + k \in 1 .. Len(W)
        /\ Len(a) + Len(x) + j # Len(a) + k
    BY <1>l, <1>w
  <2>5. W[Len(a) + Len(x) + j] = W[Len(a) + k]
    BY <2>2, <2>3, <1>w
  <2> QED BY <2>4, <2>5, <1>4 DEF Distinct
<1>9. Without(a, D) = a /\ Without(x, D) = <<>> /\ Without(b, D) = b
  <2>1. Range(x) \subseteq D
    BY <1>5
  <2> QED BY <2>1, <1>1, <1>7, <1>8, WithoutRange
<1>10. Without(W, D) = a \o b
  <2>1. Without(Join3(a, x, b), D) = Join3(Without(a, D), Without(x, D), Without(b, D))
    BY <1>1, WithoutConcat3
  <2>3. a \o <<>> = a
    BY <1>1, ConcatEmptySeq
  <2> QED BY <2>1, <2>3, <1>9 DEF W, Join3
<1>11. Without(L, R \cup D) = a \o b
  <2>1. Without(Without(L, R), D) = Without(L, R \cup D)
    BY WithoutTwice
  <2>2. W = Without(L, R)
    BY <1>4
  <2> QED BY <2>1, <2>2, <1>10
<1>12. Distinct(a \o b)
  <2> DEFINE ab == a \o b
  <2>1. /\ Len(ab) = Len(a) + Len(b)
        /\ \A j \in 1 .. Len(ab) :
              ab[j] = IF j <= Len(a) THEN W[j] ELSE W[j + Len(x)]
    <3>1. Len(ab) = Len(a) + Len(b)
      BY <1>1, ConcatProperties
    <3>2. ASSUME NEW j \in 1 .. Len(ab), j <= Len(a) PROVE ab[j] = W[j]
      BY <3>1, <3>2, <1>1, <1>l, <1>w, ConcatProperties
    <3>3. ASSUME NEW j \in 1 .. Len(ab), ~(j <= Len(a)) PROVE ab[j] = W[j + Len(x)]
      <4>1. ab[j] = b[j - Len(a)] /\ j - Len(a) \in 1 .. Len(b)
        BY <3>1, <3>3, <1>1, <1>l, ConcatProperties
      <4>2. Len(a) + Len(x) + (j - Len(a)) = j + Len(x)
        BY <1>l
      <4> QED BY <4>1, <4>2, <1>w
    <3> QED BY <3>1, <3>2, <3>3
  <2> HIDE DEF ab
  <2>2. SUFFICES ASSUME NEW j \in 1 .. Len(ab), NEW k \in 1 .. Len(ab), ab[j] = ab[k] PROVE j = k
    BY DEF Distinct, ab
  <2> DEFINE p(m) == IF m <= Len(a) THEN m ELSE m + Len(x)
  <2>3. p(j) \in 1 .. Len(W) /\ p(k) \in 1 .. Len(W) /\ ab[j] = W[p(j)] /\ ab[k] = W[p(k)]
    <3>1. ASSUME NEW m \in 1 .. Len(ab) PROVE p(m) \in 1 .. Len(W) /\ ab[m] = W[p(m)]
      BY <2>1, <1>l, <1>w
    <3> QED BY <3>1
  <2>4. p(j) = p(k)
    <3> HIDE DEF p
    <3> QED BY <2>2, <2>3, <1>4 DEF Distinct
  <2> QED BY <2>1, <2>4, <1>l
<1> QED BY <1>6, <1>11, <1>12 DEF Accounts, D

\* A new record that is put at the end of the path is logged.
LEMMA AddOne ==
  ASSUME NEW T, NEW P \in Seq(T), NEW L \in Seq(T), NEW e \in T, NEW R, NEW N,
         Accounts(P, L, R, N), e \notin R, e \notin N, e \notin Range(L)
  PROVE  Accounts(P \o <<e>>, Append(L, e), R, N)
<1> DEFINE w == <<e>>
           W == Without(P, N)
<1>1. w \in Seq(T) /\ W \in Seq(T)
  BY WithoutType
<1>2. Without(w, N) = w
  BY WithoutOne DEF Keep
<1>3. Without(Append(L, e), R) = Without(L, R) \o w
  <2>1. Without(Append(L, e), R) = Without(L, R) \o Keep(e, R)
    BY WithoutAppend
  <2> QED BY <2>1 DEF Keep
<1>4. W = Without(L, R) /\ Distinct(W)
  BY DEF Accounts
<1>5. \A k \in 1 .. Len(W) : W[k] # e
  <2>1. e \notin Range(W)
    BY <1>4, WithoutRange
  <2> QED BY <2>1, <1>1, RangeEquality
<1>v. Len(w) = 1 /\ w[1] = e
  OBVIOUS
<1> HIDE DEF w
<1>6. Without(P \o w, N) = W \o w
  <2>1. Without(P \o w, N) = Without(P, N) \o Without(w, N)
    BY <1>1, WithoutConcat
  <2> QED BY <2>1, <1>2
<1> HIDE DEF W
<1>7. Distinct(W \o w)
  <2> DEFINE q == W \o w
  <2>1. /\ Len(q) = Len(W) + 1 /\ Len(W) \in Nat
        /\ \A k \in 1 .. Len(W) : q[k] = W[k]
        /\ q[Len(W) + 1] = e
    <3>0. Len(W) \in Nat /\ Len(q) = Len(W) + Len(w)
      BY <1>1
    <3>1. Len(W) \in Nat /\ Len(q) = Len(W) + 1
      BY <3>0, <1>v
    <3>2. ASSUME NEW k \in 1 .. Len(W) PROVE q[k] = W[k]
      BY <1>1, <1>v, <3>1, ConcatProperties
    <3>3. q[Len(W) + 1] = w[(Len(W) + 1) - Len(W)]
      BY <1>1, <1>v, <3>1, ConcatProperties
    <3>4. (Len(W) + 1) - Len(W) = 1
      BY <3>1
    <3> QED BY <3>1, <3>2, <3>3, <3>4, <1>v
  <2> HIDE DEF q
  <2> SUFFICES Distinct(q)
    BY DEF q
  <2>2. \A k \in 1 .. Len(q) : k \in 1 .. Len(W) \/ k = Len(W) + 1
    BY <2>1
  <2> QED BY <2>1, <2>2, <1>4, <1>5 DEF Distinct
<1> QED BY <1>3, <1>4, <1>6, <1>7 DEF Accounts, w

-----------------------------------------------------------------------------
(* The log file *)

Sources == Producers \cup {Backend, Notice}
Rec == [from : Sources, n : Nat, len : Nat]
File == [data : Seq(Rec), gone : BOOLEAN]
OutputsOf(F, P, N) ==
    [files : F, link : N, pending : P, written : N, count : N, period : N, roll : N, flush : N]
Outputs == OutputsOf(Seq(File), Seq(Rec), Nat)

\* A LogFile with these files, pending records and link.
Has(q, F, P, N, fs, p, l) == q \in OutputsOf(F, P, N) /\ q.files = fs /\ q.pending = p /\ q.link = l

\* A LogFile that was rolled at this time.
Rolled(q, t) == q.roll = t

\* What the assignments to the members of a LogFile make of it.
LEMMA Members ==
  ASSUME NEW F, NEW P, NEW N, NEW o \in OutputsOf(F, P, N),
         NEW fs \in F, NEW p \in P, NEW x \in N, NEW y \in N, NEW z \in N
  PROVE  /\ Has([o EXCEPT !.files = fs, !.pending = p], F, P, N, fs, p, o.link)
         /\ Has([o EXCEPT !.pending = p, !.written = x], F, P, N, o.files, p, o.link)
         /\ Has([o EXCEPT !.files = fs, !.written = x], F, P, N, fs, o.pending, o.link)
         /\ Has([o EXCEPT !.roll = x, !.flush = y, !.period = z], F, P, N, o.files, o.pending, o.link)
         /\ Has([o EXCEPT !.files = fs], F, P, N, fs, o.pending, o.link)
         /\ Has([o EXCEPT !.link = x], F, P, N, o.files, o.pending, x)
         /\ Has([o EXCEPT !.count = x], F, P, N, o.files, o.pending, o.link)
         /\ Has([o EXCEPT !.flush = x], F, P, N, o.files, o.pending, o.link)
         /\ Has([o EXCEPT !.pending = p, !.written = x, !.count = x, !.period = x, !.roll = x, !.flush = x],
                F, P, N, o.files, p, o.link)
         /\ Rolled([o EXCEPT !.pending = p, !.written = x, !.count = x, !.period = x, !.roll = x, !.flush = x], x)
BY DEF OutputsOf, Has, Rolled

\* The function Size is defined with.
Sums(s) == CHOOSE c : c = [k \in 0 .. Len(s) |-> IF k = 0 THEN 0 ELSE c[k - 1] + s[k].len]

\* The size of records is a number; that of none is 0.
LEMMA SizeType == ASSUME NEW s \in Seq(Rec) PROVE Size(s) \in Nat /\ Size(<<>>) = 0
<1>0. Size(<<>>) = 0
  <2> DEFINE e == <<>>
             g == [k \in 0 .. 0 |-> 0]
  <2>1. Len(e) = 0
    OBVIOUS
  <2> HIDE DEF e
  <2>2. g = [k \in 0 .. Len(e) |-> IF k = 0 THEN 0 ELSE g[k - 1] + e[k].len]
    <3>1. \A k \in 0 .. 0 : k = 0
      OBVIOUS
    <3> QED BY <2>1, <3>1
  <2> HIDE DEF g
  <2>3. Sums(e) = [k \in 0 .. Len(e) |-> IF k = 0 THEN 0 ELSE Sums(e)[k - 1] + e[k].len]
    BY <2>2, Zenon DEF Sums
  <2>4. Sums(e)[0] = 0
    <3>1. 0 \in 0 .. Len(e)
      BY <2>1
    <3> HIDE DEF Sums
    <3> QED BY <2>3, <3>1
  <2>5. Size(e) = Sums(e)[Len(e)]
    BY DEF Size, Sums
  <2> QED BY <2>1, <2>4, <2>5 DEF e
<1> DEFINE N == Len(s)
           step == [x \in (1 .. N) \X Nat |-> x[2] + s[x[1]].len]
<1>1. N \in Nat /\ \A k \in 1 .. N : s[k].len \in Nat
  <2>1. N \in Nat /\ \A k \in 1 .. N : s[k] \in Rec
    OBVIOUS
  <2>2. \A r \in Rec : r.len \in Nat
    BY DEF Rec
  <2> QED BY <2>1, <2>2
<1>2. step \in [(1 .. N) \X Nat -> Nat]
  BY <1>1
<1>3. \A k \in 1 .. N, q \in Nat : step[<<k, q>>] = q + s[k].len
  BY <1>1
<1> HIDE DEF N, step
<1>4. 0 \in Nat
  OBVIOUS
<1>5. PICK f : Recursive(f, N, Nat, 0, step)
  BY <1>1, <1>2, <1>4, RecursionExists
<1>6. f \in [0 .. N -> Nat] /\ f[0] = 0 /\ \A k \in 1 .. N : f[k] = step[<<k, f[k - 1]>>]
  BY <1>5 DEF Recursive
<1>7. \A k \in 1 .. N : f[k] = f[k - 1] + s[k].len
  <2> TAKE k \in 1 .. N
  <2>1. k - 1 \in 0 .. N
    BY <1>1
  <2>2. f[k - 1] \in Nat
    BY <1>6, <2>1
  <2> QED BY <1>3, <1>6, <2>2
<1>8. f = [k \in 0 .. N |-> IF k = 0 THEN 0 ELSE f[k - 1] + s[k].len]
  <2>1. ASSUME NEW k \in 0 .. N PROVE f[k] = IF k = 0 THEN 0 ELSE f[k - 1] + s[k].len
    <3>1. k # 0 => k \in 1 .. N
      BY <1>1
    <3> QED BY <1>6, <1>7, <3>1
  <2> QED BY <2>1, <1>6
<1>9. Sums(s) = [k \in 0 .. N |-> IF k = 0 THEN 0 ELSE Sums(s)[k - 1] + s[k].len]
  BY <1>8, Zenon DEF Sums, N
<1>10. Size(s) = Sums(s)[N]
  BY DEF Size, Sums, N
<1> HIDE DEF Sums
<1> DEFINE S == {n \in Nat : n <= N => Sums(s)[n] \in Nat}
<1>11. 0 \in S
  BY <1>1, <1>9
<1>12. ASSUME NEW n \in S PROVE n + 1 \in S
  <2>1. CASE n + 1 <= N
    <3>1. n + 1 \in 0 .. N /\ n + 1 # 0 /\ n + 1 \in 1 .. N /\ (n + 1) - 1 = n /\ Sums(s)[n] \in Nat
      BY <2>1, <1>1
    <3>2. Sums(s)[n + 1] = Sums(s)[n] + s[n + 1].len
      BY <3>1, <1>9
    <3>3. Sums(s)[n + 1] \in Nat
      BY <3>1, <3>2, <1>1
    <3> QED BY <3>3
  <2> QED BY <2>1
<1> HIDE DEF S
<1>13. S = Nat
  <2>1. S \in SUBSET Nat
    BY DEF S
  <2> QED BY <1>11, <1>12, <2>1, SetInduction
<1> QED BY <1>0, <1>1, <1>10, <1>13 DEF S

\* The link names a file; a deleted file is empty and not the newest one.
FilesSound(o) ==
    /\ o.link <= Len(o.files)
    /\ \A k \in 1 .. Len(o.files) : o.files[k].gone => o.files[k].data = <<>> /\ k # Len(o.files)

\* The part of OnDisk that a file holds.
Holds(f) == IF f.gone THEN <<>> ELSE f.data
Parts(fs, k) == [j \in 1 .. Len(fs) - k + 1 |-> Holds(fs[k + j - 1])]

\* Everything of this process that has reached its log files.
Disk(o, k) == OnDisk(o, k) \o o.pending

\* The files from the k-th on, with the newest one apart.
LEMMA PartsLast ==
  ASSUME NEW fs \in Seq(File), NEW g \in File, NEW k \in 1 .. Len(fs) + 1
  PROVE  /\ Parts(fs, k) \in Seq(Seq(Rec))
         /\ Parts(Append(fs, g), k) = Append(Parts(fs, k), Holds(g))
<1> DEFINE u == Append(fs, g)
           n == Len(fs) - k + 1
<1>1. n \in Nat /\ u \in Seq(File) /\ Len(u) = Len(fs) + 1 /\ Len(fs) \in Nat /\ k \in Nat
  OBVIOUS
<1>2. \A f \in File : Holds(f) \in Seq(Rec)
  BY DEF Holds, File
<1>3. \A j \in 1 .. n : fs[k + j - 1] \in File /\ u[k + j - 1] = fs[k + j - 1]
  <2> TAKE j \in 1 .. n
  <2>1. k + j - 1 \in 1 .. Len(fs)
    BY <1>1
  <2> QED BY <2>1
<1>4. u[k + (n + 1) - 1] = g
  BY <1>1
<1> HIDE DEF u
<1>5. Parts(fs, k) = [j \in 1 .. n |-> Holds(fs[k + j - 1])] /\ Parts(u, k) = [j \in 1 .. n + 1 |-> Holds(u[k + j - 1])]
  <2>1. Len(u) - k + 1 = n + 1
    BY <1>1
  <2> QED BY <2>1 DEF Parts
<1> HIDE DEF n
<1>6. Parts(fs, k) \in Seq(Seq(Rec)) /\ Len(Parts(fs, k)) = n
  <2>1. \A j \in 1 .. n : Holds(fs[k + j - 1]) \in Seq(Rec)
    BY <1>2, <1>3
  <2> QED BY <2>1, <1>1, <1>5
<1>7. Parts(u, k) \in Seq(Seq(Rec)) /\ Len(Parts(u, k)) = n + 1
  <2>1. \A j \in 1 .. n + 1 : Holds(u[k + j - 1]) \in Seq(Rec)
    <3> TAKE j \in 1 .. n + 1
    <3>1. j \in 1 .. n \/ j = n + 1
      BY <1>1
    <3> QED BY <3>1, <1>2, <1>3, <1>4
  <2> QED BY <2>1, <1>1, <1>5
<1> DEFINE w == Append(Parts(fs, k), Holds(g))
<1>8. w \in Seq(Seq(Rec)) /\ Len(w) = n + 1 /\ w[n + 1] = Holds(g) /\ \A j \in 1 .. n : w[j] = Parts(fs, k)[j]
  BY <1>2, <1>6, AppendProperties
<1> HIDE DEF w
<1>9. \A j \in 1 .. n + 1 : Parts(u, k)[j] = w[j]
  <2> TAKE j \in 1 .. n + 1
  <2>0. Parts(u, k)[j] = Holds(u[k + j - 1])
    BY <1>5
  <2>1. CASE j \in 1 .. n
    BY <2>0, <2>1, <1>3, <1>5, <1>8
  <2>2. CASE j = n + 1
    BY <2>0, <2>2, <1>4, <1>8
  <2> QED BY <1>1, <2>1, <2>2
<1>10. Parts(u, k) = w
  BY <1>7, <1>8, <1>9, SeqEqual
<1> QED BY <1>6, <1>10 DEF u, w

\* What is on disk, from the files and the stdio buffer.
LEMMA DiskIs ==
  ASSUME NEW o, NEW k
  PROVE  Disk(o, k) = Flatten(Parts(o.files, k)) \o o.pending
BY DEF Disk, OnDisk, Parts, Holds

\* What is on disk is a sequence of records.
LEMMA DiskType ==
  ASSUME NEW o \in Outputs, NEW k \in 1 .. Len(o.files) + 1
  PROVE  /\ Flatten(Parts(o.files, k)) \in Seq(Rec) /\ Disk(o, k) \in Seq(Rec)
         /\ o.files \in Seq(File) /\ o.pending \in Seq(Rec) /\ o.link \in Nat
<1>1. o.files \in Seq(File) /\ o.pending \in Seq(Rec) /\ o.link \in Nat
  BY DEF Outputs, OutputsOf
<1>2. [data |-> <<>>, gone |-> FALSE] \in File /\ <<>> \in Seq(Rec)
  BY DEF File
<1>3. Parts(o.files, k) \in Seq(Seq(Rec))
  BY <1>1, <1>2, PartsLast
<1>4. Flatten(Parts(o.files, k)) \in Seq(Rec)
  BY <1>2, <1>3, FlattenAppend
<1> QED BY <1>1, <1>4, DiskIs, ConcatProperties

\* q is o after an operation that makes no new file, keeps the link and adds
\* data to what this process, whose first file is the k-th, has written.
Adds(q, o, k, data) ==
    /\ q \in Outputs /\ FilesSound(q)
    /\ Len(q.files) = Len(o.files) /\ q.link = o.link
    /\ \A j \in 1 .. Len(o.files) : q.files[j].gone = o.files[j].gone
    /\ Disk(q, k) = Disk(o, k) \o data

\* What the assignment to the records of a file makes of it.
LEMMA OneMember ==
  ASSUME NEW D, NEW f \in [data : D, gone : BOOLEAN], NEW d \in D
  PROVE  LET g == [f EXCEPT !.data = d]
         IN  g \in [data : D, gone : BOOLEAN] /\ g.data = d /\ g.gone = f.gone /\ (d = f.data => g = f)
OBVIOUS

\* What deleting a file makes of it.
LEMMA Deleted ==
  ASSUME NEW D, NEW f \in [data : D, gone : BOOLEAN]
  PROVE  LET g == [f EXCEPT !.gone = TRUE]
         IN  g \in [data : D, gone : BOOLEAN] /\ g.data = f.data /\ g.gone = TRUE
OBVIOUS

\* fflush moves the stdio buffer to the newest file, and nothing else.
LEMMA FlushKeeps ==
  ASSUME NEW o \in Outputs, FilesSound(o), NEW k \in 1 .. Len(o.files) + 1,
         k <= Len(o.files) \/ o.pending = <<>>
  PROVE  Adds(FileFlush(o), o, k, <<>>) /\ FileFlush(o).pending = <<>>
<1>0. Disk(o, k) \o <<>> = Disk(o, k)
  BY DiskType, ConcatEmptySeq
<1>t. o.files \in Seq(File) /\ o.pending \in Seq(Rec)
  BY DiskType
<1>1. CASE o.files = <<>>
  BY <1>0, <1>1 DEF FileFlush, Adds
<1>2. CASE o.files # <<>>
  <2>1. PICK front \in Seq(File), l \in File : o.files = Append(front, l)
    BY <1>t, <1>2, SequenceEmptyOrAppend
  <2> DEFINE n == Len(front) + 1
             d == l.data \o o.pending
             g == [l EXCEPT !.data = d]
             fs == Append(front, g)
             q == FileFlush(o)
  <2>2. n = Len(o.files) /\ o.files[n] = l /\ n \in Nat \ {0}
    BY <2>1
  <2>3. l.gone = FALSE
    BY <2>2 DEF FilesSound, File
  <2>4. l.data \in Seq(Rec) /\ d \in Seq(Rec)
    BY <1>t DEF File
  <2> HIDE DEF d
  <2>5. g \in File /\ g.data = d /\ g.gone = FALSE /\ (d = l.data => g = l)
    BY <2>3, <2>4, OneMember DEF File
  <2> HIDE DEF g
  <2>6. [o.files EXCEPT ![n] = g] = fs
    <3>1. fs \in Seq(File) /\ Len(fs) = n /\ fs[n] = g /\ \A j \in 1 .. Len(front) : fs[j] = front[j]
      BY <2>5, AppendProperties
    <3>2. \A j \in 1 .. Len(front) : o.files[j] = front[j]
      BY <2>1, AppendProperties
    <3>3. [o.files EXCEPT ![n] = g] \in Seq(File) /\ Len([o.files EXCEPT ![n] = g]) = n
      BY <1>t, <2>2, <2>5, ExceptSeq
    <3>4. \A j \in 1 .. n : [o.files EXCEPT ![n] = g][j] = fs[j]
      BY <1>t, <2>2, <3>1, <3>2
    <3> QED BY <3>1, <3>3, <3>4, SeqEqual
  <2>7. q = [o EXCEPT !.files = fs, !.pending = <<>>]
    <3>1. FileFlush(o) = [o EXCEPT !.files = [@ EXCEPT ![Current(o)] =
                            [o.files[Current(o)] EXCEPT !.data = @ \o o.pending]], !.pending = <<>>]
      BY <1>2 DEF FileFlush
    <3>2. Current(o) = n
      BY <2>2 DEF Current
    <3>3. [o.files[Current(o)] EXCEPT !.data = @ \o o.pending] = g
      BY <2>2, <3>2 DEF d, g
    <3> QED BY <2>6, <3>1, <3>2, <3>3
  <2> HIDE DEF q, fs
  <2>8. fs \in Seq(File) /\ Len(fs) = n /\ fs[n] = g /\ \A j \in 1 .. Len(front) : fs[j] = o.files[j]
    BY <2>1, <2>5, AppendProperties DEF fs
  <2>9. Has(q, Seq(File), Seq(Rec), Nat, fs, <<>>, o.link)
    <3>1. <<>> \in Seq(Rec) /\ 0 \in Nat /\ o \in OutputsOf(Seq(File), Seq(Rec), Nat)
      BY DEF Outputs
    <3> QED BY <2>7, <2>8, <3>1, Members
  <2>10. q \in Outputs /\ q.files = fs /\ q.pending = <<>> /\ q.link = o.link
    BY <2>9 DEF Has, Outputs
  <2>11. g.gone = FALSE /\ g.data = d
    BY <2>5
  <2>12. \A j \in 1 .. n : fs[j].gone = o.files[j].gone
    <3> TAKE j \in 1 .. n
    <3>1. CASE j = n
      BY <2>2, <2>3, <2>8, <2>11, <3>1
    <3>2. CASE j # n
      <4>1. j \in 1 .. Len(front)
        BY <3>2, <2>2
      <4> QED BY <4>1, <2>8
    <3> QED BY <3>1, <3>2
  <2>13. FilesSound(q)
    <3>1. o.link <= n /\ \A j \in 1 .. n : o.files[j].gone => o.files[j].data = <<>> /\ j # n
      BY <2>2 DEF FilesSound
    <3>2. \A j \in 1 .. n : fs[j].gone => fs[j].data = <<>> /\ j # n
      BY <2>2, <2>8, <2>11, <3>1
    <3> QED BY <2>8, <2>10, <3>1, <3>2 DEF FilesSound
  <2>14. Disk(q, k) = Disk(o, k)
    <3>1. CASE k <= n
      <4>1. k \in 1 .. Len(front) + 1
        BY <3>1
      <4>2. Parts(o.files, k) = Append(Parts(front, k), l.data) /\ Parts(front, k) \in Seq(Seq(Rec))
        BY <2>1, <2>3, <4>1, PartsLast DEF Holds
      <4>3. Parts(fs, k) = Append(Parts(front, k), d)
        BY <2>5, <2>11, <4>1, PartsLast DEF Holds, fs
      <4> DEFINE c == Flatten(Parts(front, k))
      <4>4. c \in Seq(Rec) /\ Flatten(Parts(o.files, k)) = c \o l.data /\ Flatten(Parts(fs, k)) = c \o d
        BY <2>4, <4>2, <4>3, FlattenAppend
      <4> HIDE DEF c
      <4>5. (c \o l.data) \o o.pending = c \o d
        <5>1. \A p, x, r \in Seq(Rec) : (p \o x) \o r = p \o (x \o r)
          BY ConcatAssociative
        <5>2. c \in Seq(Rec)
          BY <4>4
        <5> QED BY <1>t, <2>4, <5>1, <5>2, Zenon DEF d
      <4>6. c \o d \in Seq(Rec)
        BY <2>4, <4>4, ConcatProperties
      <4>7. Disk(q, k) = (c \o d) \o <<>> /\ Disk(o, k) = (c \o l.data) \o o.pending
        BY <4>4, <2>10, DiskIs
      <4> QED BY <4>5, <4>6, <4>7, ConcatEmptySeq
    <3>2. CASE ~(k <= n)
      <4>1. o.pending = <<>>
        BY <3>2, <2>2
      <4>2. d = l.data
        BY <2>4, <4>1, ConcatEmptySeq DEF d
      <4>3. fs = o.files
        BY <2>1, <2>5, <4>2 DEF fs
      <4> QED BY <2>10, <4>1, <4>3, DiskIs
    <3> QED BY <3>1, <3>2
  <2> QED BY <1>0, <2>2, <2>8, <2>10, <2>12, <2>13, <2>14 DEF Adds, q
<1> QED BY <1>1, <1>2

\* What is added by two operations, of which the second adds nothing.
LEMMA AddsThenNothing ==
  ASSUME NEW o \in Outputs, NEW k \in 1 .. Len(o.files) + 1, NEW data \in Seq(Rec),
         NEW a, Adds(a, o, k, data), NEW q, Adds(q, a, k, <<>>)
  PROVE  Adds(q, o, k, data)
<1>1. Disk(q, k) = Disk(a, k) \o <<>> /\ Disk(a, k) = Disk(o, k) \o data
  BY DEF Adds
<1>2. Disk(o, k) \o data \in Seq(Rec)
  BY DiskType, ConcatProperties
<1>3. Disk(q, k) = Disk(o, k) \o data
  BY <1>1, <1>2, ConcatEmptySeq
<1> QED BY <1>3 DEF Adds

\* A LogFile that has the files, the stdio buffer and the link of another one.
LEMMA SameFiles ==
  ASSUME NEW o \in Outputs, FilesSound(o), NEW k \in 1 .. Len(o.files) + 1,
         NEW q, Has(q, Seq(File), Seq(Rec), Nat, o.files, o.pending, o.link)
  PROVE  Adds(q, o, k, <<>>) /\ q.pending = o.pending
<1>1. q \in Outputs /\ q.files = o.files /\ q.pending = o.pending /\ q.link = o.link
  BY DEF Has, Outputs
<1>2. Disk(q, k) = Disk(o, k) /\ FilesSound(q)
  BY <1>1, DiskIs DEF FilesSound
<1>3. Disk(o, k) \o <<>> = Disk(o, k)
  BY DiskType, ConcatEmptySeq
<1> QED BY <1>1, <1>2, <1>3 DEF Adds

\* WritableFile::Append adds the records fwrite has accepted.
LEMMA FileAppendAdds ==
  ASSUME NEW o \in Outputs, FilesSound(o), NEW k \in 1 .. Len(o.files),
         NEW data \in Seq(Rec), NEW n \in 0 .. Len(data), NEW spill \in BOOLEAN
  PROVE  Adds(FileAppend(o, data, n, spill), o, k, SubSeq(data, 1, n)) /\ SubSeq(data, 1, n) \in Seq(Rec)
<1> DEFINE acc == SubSeq(data, 1, n)
           P == o.pending \o acc
           x == o.written + Size(acc)
           a == [o EXCEPT !.pending = @ \o acc, !.written = @ + Size(acc)]
<1>1. acc \in Seq(Rec)
  OBVIOUS
<1> HIDE DEF acc
<1>2. o.files \in Seq(File) /\ o.pending \in Seq(Rec) /\ o.link \in Nat /\ o.written \in Nat
  BY DEF Outputs, OutputsOf
<1>3. P \in Seq(Rec) /\ x \in Nat /\ o \in OutputsOf(Seq(File), Seq(Rec), Nat)
  BY <1>1, <1>2, SizeType DEF Outputs
<1>4. a = [o EXCEPT !.pending = P, !.written = x]
  OBVIOUS
<1> HIDE DEF P, x, a
<1>5. Has(a, Seq(File), Seq(Rec), Nat, o.files, P, o.link)
  BY <1>2, <1>3, <1>4, Members
<1>6. a \in Outputs /\ a.files = o.files /\ a.pending = P /\ a.link = o.link
  BY <1>5 DEF Has, Outputs
<1>7. k \in 1 .. Len(o.files) + 1 /\ k \in 1 .. Len(a.files) + 1 /\ k <= Len(a.files)
  BY <1>2, <1>6
<1>8. Disk(a, k) = Disk(o, k) \o acc
  <2> DEFINE c == Flatten(Parts(o.files, k))
  <2>1. c \in Seq(Rec)
    BY <1>7, DiskType
  <2>2. Disk(a, k) = c \o P /\ Disk(o, k) = c \o o.pending
    BY <1>6, DiskIs
  <2> HIDE DEF c
  <2>3. \A p, q, r \in Seq(Rec) : (p \o q) \o r = p \o (q \o r)
    BY ConcatAssociative
  <2>4. o.pending \in Seq(Rec)
    BY <1>2
  <2>5. (c \o o.pending) \o acc = c \o (o.pending \o acc)
    BY <1>1, <2>1, <2>3, <2>4, Zenon
  <2> QED BY <2>2, <2>5 DEF P
<1>9. Adds(a, o, k, acc) /\ FilesSound(a)
  <2>1. FilesSound(a)
    BY <1>6 DEF FilesSound
  <2> QED BY <2>1, <1>6, <1>8 DEF Adds
<1>10. Adds(FileFlush(a), o, k, acc)
  <2>1. Adds(FileFlush(a), a, k, <<>>)
    BY <1>6, <1>7, <1>9, FlushKeeps
  <2> QED BY <1>1, <1>7, <1>9, <2>1, AddsThenNothing
<1>11. FileAppend(o, data, n, spill) = IF spill THEN FileFlush(a) ELSE a
  BY DEF FileAppend, a, acc
<1> QED BY <1>1, <1>9, <1>10, <1>11 DEF acc

\* The link names the newest file, or it dangles.
LinkFresh(o) == o.link = Len(o.files) \/ (o.link # 0 /\ o.files[o.link].gone)

\* A link that dangles in o dangles in q; one that did not, does so only if the
\* operation was cut short.
DanglesStill(q, o, upto) == /\ Dangles(o) => Dangles(q)
                            /\ Dangles(q) => Dangles(o) \/ upto # 4

\* q is o after an operation that may have made new files: it adds data and, if
\* it was not cut short, leaves the link fresh.
Writes(q, o, k, data, upto) ==
    /\ q \in Outputs /\ FilesSound(q)
    /\ Len(q.files) >= Len(o.files)
    /\ Disk(q, k) = Disk(o, k) \o data
    /\ upto = 4 /\ LinkFresh(o) => LinkFresh(q)
    /\ DanglesStill(q, o, upto)

\* A new log file: the old stream is flushed, and the new file is empty.
LEMMA ReopenKeeps ==
  ASSUME NEW o \in Outputs, FilesSound(o), NEW k \in 1 .. Len(o.files) + 1,
         k <= Len(o.files) \/ o.pending = <<>>
  PROVE  LET q == Reopen(o) IN
         /\ q \in Outputs /\ FilesSound(q) /\ Len(q.files) = Len(o.files) + 1
         /\ q.link = o.link /\ Disk(q, k) = Disk(o, k)
         /\ \A j \in 1 .. Len(o.files) : q.files[j].gone = o.files[j].gone
<1> DEFINE f == FileFlush(o)
           E == [data |-> <<>>, gone |-> FALSE]
           fs == Append(f.files, E)
           q == Reopen(o)
<1>1. Adds(f, o, k, <<>>) /\ f.pending = <<>>
  BY FlushKeeps
<1>2. q = [f EXCEPT !.files = Append(@, E), !.written = 0]
  BY DEF Reopen
<1> HIDE DEF f, q
<1>3. f \in Outputs /\ FilesSound(f) /\ Len(f.files) = Len(o.files) /\ f.link = o.link
  BY <1>1 DEF Adds
<1>4. f.files \in Seq(File) /\ f.pending \in Seq(Rec) /\ f.link \in Nat
  BY <1>3 DEF Outputs, OutputsOf
<1>5. E \in File /\ E.gone = FALSE /\ Holds(E) = <<>>
  BY DEF File, Holds
<1> HIDE DEF E
<1>6. /\ fs \in Seq(File) /\ Len(fs) = Len(f.files) + 1 /\ fs[Len(f.files) + 1] = E
      /\ \A j \in 1 .. Len(f.files) : fs[j] = f.files[j]
  BY <1>4, <1>5, AppendProperties
<1>7. Has(q, Seq(File), Seq(Rec), Nat, fs, f.pending, f.link)
  <2>1. f \in OutputsOf(Seq(File), Seq(Rec), Nat) /\ 0 \in Nat /\ fs \in Seq(File)
    BY <1>3, <1>6 DEF Outputs
  <2>2. q = [f EXCEPT !.files = fs, !.written = 0]
    BY <1>2
  <2> HIDE DEF fs
  <2> QED BY <1>4, <2>1, <2>2, Members
<1>8. q \in Outputs /\ q.files = fs /\ q.pending = f.pending /\ q.link = f.link
  BY <1>7 DEF Has, Outputs
<1>k. k \in 1 .. Len(f.files) + 1
  BY <1>3
<1>9. Disk(q, k) = Disk(f, k)
  <2> DEFINE c == Parts(f.files, k)
             e == <<>>
  <2>0. e \in Seq(Rec) /\ Holds(E) = e
    BY <1>5
  <2>1. c \in Seq(Seq(Rec)) /\ Parts(fs, k) = Append(c, Holds(E))
    BY <1>4, <1>5, <1>k, PartsLast
  <2> HIDE DEF c, e
  <2>2. Flatten(c) \in Seq(Rec) /\ Flatten(Append(c, e)) = Flatten(c) \o e
    BY <2>0, <2>1, FlattenAppend
  <2>3. Flatten(c) \o e = Flatten(c)
    BY <2>2, ConcatEmptySeq DEF e
  <2>4. Disk(q, k) = Flatten(Parts(fs, k)) \o f.pending /\ Disk(f, k) = Flatten(c) \o f.pending
    BY <1>8, DiskIs DEF c
  <2> QED BY <2>0, <2>1, <2>2, <2>3, <2>4
<1>10. Disk(f, k) = Disk(o, k)
  BY <1>1, DiskType, ConcatEmptySeq DEF Adds
<1> HIDE DEF fs
<1>11. FilesSound(q)
  <2>1. f.link <= Len(f.files) /\ \A j \in 1 .. Len(f.files) : f.files[j].gone => f.files[j].data = <<>>
    BY <1>3 DEF FilesSound
  <2>2. Len(f.files) \in Nat /\ \A j \in 1 .. Len(fs) : j \in 1 .. Len(f.files) \/ j = Len(f.files) + 1
    BY <1>4, <1>6
  <2>3. \A j \in 1 .. Len(fs) : fs[j].gone => fs[j].data = <<>> /\ j # Len(fs)
    <3> SUFFICES ASSUME NEW j \in 1 .. Len(fs), fs[j].gone PROVE fs[j].data = <<>> /\ j # Len(fs)
      OBVIOUS
    <3>1. j # Len(f.files) + 1
      BY <1>5, <1>6
    <3>2. j \in 1 .. Len(f.files)
      BY <3>1, <2>2
    <3> QED BY <3>1, <3>2, <1>6, <2>1
  <2>4. f.link <= Len(fs)
    BY <1>4, <1>6, <2>1, <2>2
  <2> QED BY <1>8, <2>3, <2>4 DEF FilesSound
<1>12. \A j \in 1 .. Len(o.files) : q.files[j].gone = o.files[j].gone
  BY <1>1, <1>3, <1>6, <1>8 DEF Adds
<1> QED BY <1>3, <1>6, <1>8, <1>9, <1>10, <1>11, <1>12 DEF q

\* Moving the link deletes at most an empty file that is not the newest one.
LEMMA RelinkKeeps ==
  ASSUME NEW o \in Outputs, FilesSound(o), NEW k \in 1 .. Len(o.files), o.link < Len(o.files),
         NEW upto \in 1 .. 4
  PROVE  LET q == Relink(o, upto) IN
         /\ q \in Outputs /\ FilesSound(q) /\ Len(q.files) = Len(o.files)
         /\ Disk(q, k) = Disk(o, k)
         /\ upto = 4 => LinkFresh(q)
         /\ DanglesStill(q, o, upto)
<1> DEFINE old == o.link
           exists == old # 0 /\ ~o.files[old].gone
           empty == exists /\ o.files[old].data = <<>>
           F(j) == IF empty /\ j = old /\ upto >= 2 THEN [o.files[j] EXCEPT !.gone = TRUE] ELSE o.files[j]
           fs == [j \in DOMAIN o.files |-> F(j)]
           cut == [o EXCEPT !.files = fs]
           ln == IF old # 0 /\ ~exists THEN old
                 ELSE CASE upto = 4 -> Current(o)
                        [] upto = 3 -> 0
                        [] OTHER    -> old
           q == Relink(o, upto)
<1>1. o.files \in Seq(File) /\ old \in Nat /\ Len(o.files) \in Nat /\ DOMAIN o.files = 1 .. Len(o.files)
  BY DEF Outputs, OutputsOf
<1>2. q = [cut EXCEPT !.link = ln]
  BY DEF Relink
<1>3. ASSUME NEW j \in 1 .. Len(o.files)
      PROVE  /\ F(j) \in File /\ Holds(F(j)) = Holds(o.files[j])
             /\ (o.files[j].gone => F(j) = o.files[j])
             /\ F(j).gone => F(j).data = <<>> /\ j # Len(o.files)
  <2>1. o.files[j] \in File /\ (o.files[j].gone => o.files[j].data = <<>> /\ j # Len(o.files))
    BY <1>1 DEF FilesSound
  <2>2. CASE empty /\ j = old /\ upto >= 2
    <3>1. F(j) = [o.files[j] EXCEPT !.gone = TRUE]
      BY <2>2
    <3>2. F(j) \in File /\ F(j).gone = TRUE /\ F(j).data = o.files[j].data
      <4> DEFINE h == o.files[j]
      <4> HIDE DEF h
      <4>1. h \in File
        BY <2>1 DEF h
      <4>2. [h EXCEPT !.gone = TRUE] \in File /\ [h EXCEPT !.gone = TRUE].gone = TRUE /\ [h EXCEPT !.gone = TRUE].data = h.data
        BY <4>1, Deleted DEF File
      <4> QED BY <3>1, <4>2 DEF h
    <3>3. o.files[j].data = <<>> /\ ~o.files[j].gone /\ j # Len(o.files)
      BY <2>2, <1>1
    <3> HIDE DEF F
    <3> QED BY <3>2, <3>3 DEF Holds
  <2>3. CASE ~(empty /\ j = old /\ upto >= 2)
    <3>1. F(j) = o.files[j]
      BY <2>3
    <3> HIDE DEF F
    <3> QED BY <2>1, <3>1
  <2> QED BY <2>2, <2>3
<1> HIDE DEF F
<1>4. fs \in Seq(File) /\ Len(fs) = Len(o.files) /\ \A j \in 1 .. Len(o.files) : fs[j] = F(j)
  BY <1>1, <1>3
<1>5. ln \in Nat /\ ln <= Len(o.files)
  BY <1>1 DEF FilesSound, Current
<1> HIDE DEF fs, ln, cut
<1>6. Has(cut, Seq(File), Seq(Rec), Nat, fs, o.pending, o.link)
  <2>1. o \in OutputsOf(Seq(File), Seq(Rec), Nat) /\ o.pending \in Seq(Rec) /\ 0 \in Nat
    BY DEF Outputs, OutputsOf
  <2> QED BY <1>4, <2>1, Members DEF cut
<1>7. Has(q, Seq(File), Seq(Rec), Nat, fs, o.pending, ln)
  <2>1. cut \in OutputsOf(Seq(File), Seq(Rec), Nat) /\ cut.files = fs /\ cut.pending = o.pending /\ o.pending \in Seq(Rec)
    BY <1>6 DEF Has, Outputs, OutputsOf
  <2>2. Has([cut EXCEPT !.link = ln], Seq(File), Seq(Rec), Nat, cut.files, cut.pending, ln)
    BY <1>4, <1>5, <2>1, Members
  <2> QED BY <1>2, <2>1, <2>2
<1> HIDE DEF q
<1>8. q \in Outputs /\ q.files = fs /\ q.pending = o.pending /\ q.link = ln
  BY <1>7 DEF Has, Outputs
<1>9. FilesSound(q)
  BY <1>3, <1>4, <1>5, <1>8 DEF FilesSound
<1>10. Disk(q, k) = Disk(o, k)
  <2>1. Parts(fs, k) = Parts(o.files, k)
    <3>1. \A j \in 1 .. Len(o.files) - k + 1 : Holds(fs[k + j - 1]) = Holds(o.files[k + j - 1])
      <4> TAKE j \in 1 .. Len(o.files) - k + 1
      <4>1. k + j - 1 \in 1 .. Len(o.files)
        BY <1>1
      <4> QED BY <4>1, <1>3, <1>4
    <3> QED BY <3>1, <1>4 DEF Parts
  <2> QED BY <1>8, <2>1, DiskIs
<1>11. ASSUME upto = 4 PROVE LinkFresh(q)
  <2>1. CASE old # 0 /\ ~exists
    <3>1. ln = old /\ o.files[old].gone /\ old \in 1 .. Len(o.files)
      <4>1. old \in 1 .. Len(o.files)
        BY <1>1, <2>1
      <4>2. o.files[old].gone \in BOOLEAN
        <5>1. o.files[old] \in File
          BY <1>1, <4>1
        <5> QED BY <5>1 DEF File
      <4>3. ln = old
        BY <2>1 DEF ln
      <4> QED BY <2>1, <4>1, <4>2, <4>3
    <3>2. fs[old] = o.files[old]
      BY <3>1, <1>3, <1>4
    <3> QED BY <2>1, <3>1, <3>2, <1>8 DEF LinkFresh
  <2>2. CASE ~(old # 0 /\ ~exists)
    <3>1. ln = Len(o.files)
      BY <1>11, <2>2 DEF ln, Current
    <3> QED BY <3>1, <1>4, <1>8 DEF LinkFresh
  <2> QED BY <2>1, <2>2
<1>12. DanglesStill(q, o, upto)
  <2>1. CASE Dangles(o)
    <3>1. old \in 1 .. Len(o.files) /\ o.files[old].gone /\ old # 0
      BY <1>1, <2>1 DEF FilesSound, Dangles
    <3>2. fs[old] = o.files[old] /\ ln = old
      BY <1>3, <1>4, <3>1 DEF ln
    <3> QED BY <1>8, <2>1, <3>1, <3>2 DEF Dangles, DanglesStill
  <2>2. CASE ~ Dangles(o) /\ upto = 4
    <3>1. ln = Len(o.files)
      BY <1>1, <2>2 DEF ln, Current, Dangles
    <3>2. ~ Dangles(q)
      BY <1>1, <1>4, <1>8, <1>9, <3>1 DEF FilesSound, Dangles
    <3> QED BY <2>2, <3>2 DEF DanglesStill
  <2> QED BY <2>1, <2>2 DEF DanglesStill
<1> QED BY <1>4, <1>8, <1>9, <1>10, <1>11, <1>12 DEF q

\* RollFile loses nothing, and leaves the link fresh if it runs to its end.
LEMMA RollKeeps ==
  ASSUME NEW o \in Outputs, FilesSound(o), NEW k \in 1 .. Len(o.files) + 1,
         k <= Len(o.files) \/ o.pending = <<>>, NEW t \in Nat, NEW upto \in 1 .. 4, t > o.roll
  PROVE  LET q == RollFile(o, t, upto) IN
         /\ q \in Outputs /\ FilesSound(q) /\ Len(q.files) = Len(o.files) + 1
         /\ Disk(q, k) = Disk(o, k)
         /\ upto = 4 => LinkFresh(q)
         /\ DanglesStill(q, o, upto)
<1> DEFINE z == t \div SecondsPerDay
           m == [o EXCEPT !.roll = t, !.flush = t, !.period = z]
           r == Reopen(m)
<1>1. z \in Nat
  BY DayAssumption
<1> HIDE DEF z
<1>2. o.files \in Seq(File) /\ o.pending \in Seq(Rec) /\ o.link \in Nat /\ Len(o.files) \in Nat
  BY DEF Outputs, OutputsOf
<1>3. Has(m, Seq(File), Seq(Rec), Nat, o.files, o.pending, o.link)
  BY <1>1, <1>2, Members DEF Outputs
<1> HIDE DEF m
<1>4. Adds(m, o, k, <<>>) /\ m.pending = o.pending
  BY <1>3, SameFiles
<1>5. m \in Outputs /\ FilesSound(m) /\ Len(m.files) = Len(o.files) /\ m.link = o.link
  BY <1>4 DEF Adds
<1>6. Disk(m, k) = Disk(o, k)
  BY <1>4, DiskType, ConcatEmptySeq DEF Adds
<1>7. k \in 1 .. Len(m.files) + 1 /\ (k <= Len(m.files) \/ m.pending = <<>>)
  BY <1>4, <1>5
<1>8. /\ r \in Outputs /\ FilesSound(r) /\ Len(r.files) = Len(o.files) + 1
      /\ r.link = o.link /\ Disk(r, k) = Disk(o, k)
  <2>1. /\ r \in Outputs /\ FilesSound(r) /\ Len(r.files) = Len(m.files) + 1
        /\ r.link = m.link /\ Disk(r, k) = Disk(m, k)
    BY <1>5, <1>7, ReopenKeeps
  <2> QED BY <2>1, <1>5, <1>6
<1>d. Dangles(r) <=> Dangles(o)
  <2>1. \A j \in 1 .. Len(m.files) : r.files[j].gone = m.files[j].gone
    BY <1>5, <1>7, ReopenKeeps
  <2>2. \A j \in 1 .. Len(o.files) : r.files[j].gone = o.files[j].gone
    BY <1>4, <2>1 DEF Adds
  <2>3. o.link # 0 => o.link \in 1 .. Len(o.files)
    BY <1>2 DEF FilesSound
  <2> HIDE DEF r
  <2> QED BY <1>8, <2>2, <2>3 DEF Dangles
<1>9. RollFile(o, t, upto) = Relink(r, upto)
  BY DEF RollFile, m, z
<1> HIDE DEF r
<1>10. k \in 1 .. Len(r.files) /\ r.link < Len(r.files)
  BY <1>2, <1>8 DEF FilesSound
<1>11. LET q == Relink(r, upto) IN
       /\ q \in Outputs /\ FilesSound(q) /\ Len(q.files) = Len(r.files)
       /\ Disk(q, k) = Disk(r, k)
       /\ upto = 4 => LinkFresh(q)
       /\ DanglesStill(q, r, upto)
  BY <1>8, <1>10, RelinkKeeps
<1> QED BY <1>8, <1>9, <1>11, <1>d DEF DanglesStill

\* AppendUnLocked adds what fwrite has accepted, whether or not it rolls or
\* flushes the file.
LEMMA AppendWrites ==
  ASSUME NEW o \in Outputs, FilesSound(o), NEW k \in 1 .. Len(o.files),
         NEW data \in Seq(Rec), NEW n \in 0 .. Len(data), NEW spill \in BOOLEAN,
         NEW t \in Nat, NEW upto \in 1 .. 4
  PROVE  Writes(AppendUnLocked(o, data, n, spill, t, upto), o, k, SubSeq(data, 1, n), upto)
<1> DEFINE acc == SubSeq(data, 1, n)
           a == FileAppend(o, data, n, spill)
           c == [a EXCEPT !.count = 0]
           b == [a EXCEPT !.count = @ + 1]
           f == [c EXCEPT !.flush = t]
           q == AppendUnLocked(o, data, n, spill, t, upto)
<1>1. Adds(a, o, k, acc) /\ acc \in Seq(Rec)
  BY FileAppendAdds
<1>2. q = CASE a.written > MaxLogSize                 -> RollFile(a, t, upto)
            [] a.written <= MaxLogSize /\ a.count <= CheckTimeRoll -> b
            [] OTHER ->
               IF t \div SecondsPerDay # c.period THEN RollFile(c, t, upto)
               ELSE IF t > c.flush + LogBufSecs THEN FileFlush(f)
               ELSE c
  BY DEF AppendUnLocked
<1> HIDE DEF acc, a, q
<1>3. o.files \in Seq(File) /\ Len(o.files) \in Nat /\ k \in 1 .. Len(o.files) + 1
  BY DEF Outputs, OutputsOf
<1>d. Disk(o, k) \in Seq(Rec) /\ Disk(o, k) \o acc \in Seq(Rec)
  BY <1>1, <1>3, DiskType, ConcatProperties
<1>4. ASSUME NEW r, Adds(r, o, k, acc) PROVE Writes(r, o, k, acc, upto)
  <2>1. LinkFresh(o) => LinkFresh(r)
    <3> SUFFICES ASSUME LinkFresh(o), o.link # Len(o.files) PROVE LinkFresh(r)
      BY <1>4 DEF Adds, LinkFresh
    <3>1. o.link # 0 /\ o.files[o.link].gone /\ r.link = o.link
      BY <1>4 DEF LinkFresh, Adds
    <3>2. o.link \in 1 .. Len(o.files)
      BY <3>1, <1>3, DiskType DEF FilesSound
    <3>3. r.files[o.link].gone = o.files[o.link].gone
      BY <3>2, <1>4 DEF Adds
    <3> QED BY <3>1, <3>3 DEF LinkFresh
  <2>2. Dangles(r) <=> Dangles(o)
    <3>1. o.link # 0 => o.link \in 1 .. Len(o.files)
      BY <1>3, DiskType DEF FilesSound
    <3> QED BY <1>4, <3>1 DEF Adds, Dangles
  <2> QED BY <1>4, <1>3, <2>1, <2>2 DEF Adds, Writes, DanglesStill
<1>5. ASSUME NEW r, Adds(r, o, k, acc) PROVE Writes(RollFile(r, t, upto), o, k, acc, upto)
  <2>1. r \in Outputs /\ FilesSound(r) /\ Len(r.files) = Len(o.files) /\ Disk(r, k) = Disk(o, k) \o acc
    BY <1>5 DEF Adds
  <2>2. k \in 1 .. Len(r.files) + 1 /\ k <= Len(r.files)
    BY <2>1, <1>3
  <2>3. CASE t > r.roll
    <3>1. LET s == RollFile(r, t, upto) IN
          /\ s \in Outputs /\ FilesSound(s) /\ Len(s.files) = Len(r.files) + 1
          /\ Disk(s, k) = Disk(r, k)
          /\ upto = 4 => LinkFresh(s)
          /\ DanglesStill(s, r, upto)
      BY <2>1, <2>2, <2>3, RollKeeps
    <3>2. Dangles(r) <=> Dangles(o)
      <4>1. o.link # 0 => o.link \in 1 .. Len(o.files)
        BY <1>3, DiskType DEF FilesSound
      <4> QED BY <1>5, <4>1 DEF Adds, Dangles
    <3> QED BY <1>3, <2>1, <3>1, <3>2 DEF Writes, DanglesStill
  <2>4. CASE ~(t > r.roll)
    <3>1. RollFile(r, t, upto) = r
      BY <2>4 DEF RollFile
    <3> QED BY <3>1, <1>4, <1>5
  <2> QED BY <2>3, <2>4
<1>6. Adds(c, o, k, acc) /\ Adds(b, o, k, acc) /\ Adds(f, o, k, acc)
  <2>1. a \in Outputs /\ FilesSound(a) /\ Len(a.files) = Len(o.files)
    BY <1>1 DEF Adds
  <2>2. /\ a.files \in Seq(File) /\ a.pending \in Seq(Rec) /\ a.count \in Nat /\ 0 \in Nat /\ a.count + 1 \in Nat
        /\ a \in OutputsOf(Seq(File), Seq(Rec), Nat)
    BY <2>1 DEF Outputs, OutputsOf
  <2>3. /\ Has(c, Seq(File), Seq(Rec), Nat, a.files, a.pending, a.link)
        /\ Has(b, Seq(File), Seq(Rec), Nat, a.files, a.pending, a.link)
    BY <2>2, Members
  <2>4. k \in 1 .. Len(a.files) + 1
    BY <1>3, <2>1
  <2> HIDE DEF c, b
  <2>5. Adds(c, a, k, <<>>) /\ Adds(b, a, k, <<>>)
    BY <2>1, <2>3, <2>4, SameFiles
  <2>6. Adds(c, o, k, acc) /\ Adds(b, o, k, acc)
    BY <1>1, <1>3, <2>5, AddsThenNothing
  <2>7. c \in Outputs /\ FilesSound(c) /\ Len(c.files) = Len(o.files)
    BY <2>6 DEF Adds
  <2>8. /\ c.files \in Seq(File) /\ c.pending \in Seq(Rec)
        /\ c \in OutputsOf(Seq(File), Seq(Rec), Nat) /\ k \in 1 .. Len(c.files) + 1
    BY <1>3, <2>7 DEF Outputs, OutputsOf
  <2>9. Has(f, Seq(File), Seq(Rec), Nat, c.files, c.pending, c.link)
    BY <2>8, Members
  <2> HIDE DEF f
  <2>10. Adds(f, c, k, <<>>)
    BY <2>7, <2>8, <2>9, SameFiles
  <2>11. Adds(f, o, k, acc)
    BY <1>1, <1>3, <2>6, <2>10, AddsThenNothing
  <2> QED BY <2>6, <2>11
<1> HIDE DEF c, b, f
<1>7. Adds(FileFlush(f), o, k, acc)
  <2>1. f \in Outputs /\ FilesSound(f) /\ k \in 1 .. Len(f.files) + 1 /\ k <= Len(f.files)
    BY <1>3, <1>6 DEF Adds
  <2>2. Adds(FileFlush(f), f, k, <<>>)
    BY <2>1, FlushKeeps
  <2> QED BY <1>1, <1>3, <1>6, <2>2, AddsThenNothing
<1>8. q \in {RollFile(a, t, upto), b, RollFile(c, t, upto), FileFlush(f), c}
  BY <1>2
<1>9. Writes(q, o, k, acc, upto)
  BY <1>1, <1>4, <1>5, <1>6, <1>7, <1>8
<1> QED BY <1>9 DEF q, acc

-----------------------------------------------------------------------------
(* The logger: what its steps do to the path of the records *)

\* The elements of a flattened sequence of sequences.
LEMMA FlattenRange ==
  ASSUME NEW T, NEW s \in Seq(Seq(T))
  PROVE  Range(Flatten(s)) = UNION {Range(s[k]) : k \in 1 .. Len(s)}
<1> DEFINE U(v) == UNION {Range(v[k]) : k \in 1 .. Len(v)}
           S == {v \in Seq(Seq(T)) : Range(Flatten(v)) = U(v)}
<1>1. <<>> \in S
  <2>1. Range(<<>>) = {} /\ U(<<>>) = {} /\ <<>> \in Seq(Seq(T))
    BY DEF Range
  <2> QED BY <2>1, FlattenSmall
<1>2. ASSUME NEW v \in S, NEW e \in Seq(T) PROVE Append(v, e) \in S
  <2> DEFINE w == Append(v, e)
             n == Len(v)
  <2>1. v \in Seq(Seq(T)) /\ Range(Flatten(v)) = U(v)
    OBVIOUS
  <2>2. /\ w \in Seq(Seq(T)) /\ n \in Nat /\ Len(w) = n + 1 /\ w[n + 1] = e
        /\ \A k \in 1 .. n : w[k] = v[k]
    BY <2>1, AppendProperties
  <2>3. Flatten(v) \in Seq(T) /\ Flatten(w) = Flatten(v) \o e
    BY <2>1, FlattenAppend
  <2>4. Range(Flatten(w)) = Range(Flatten(v)) \cup Range(e)
    <3> DEFINE c == Flatten(v)
    <3> HIDE DEF c
    <3>1. c \in Seq(T)
      BY <2>3 DEF c
    <3>2. Range(c \o e) = Range(c) \cup Range(e)
      BY <3>1, RangeConcatenation
    <3> QED BY <2>3, <3>2 DEF c
  <2> HIDE DEF w, n, S
  <2>5. U(w) = U(v) \cup Range(e)
    <3>1. U(w) = UNION {Range(w[k]) : k \in 1 .. n + 1} /\ U(v) = UNION {Range(v[k]) : k \in 1 .. n}
      BY <2>2 DEF n
    <3>2. \A k \in 1 .. n + 1 : k \in 1 .. n \/ k = n + 1
      BY <2>2
    <3>3. n + 1 \in 1 .. n + 1 /\ \A k \in 1 .. n : k \in 1 .. n + 1
      BY <2>2
    <3> QED BY <3>1, <3>2, <3>3, <2>2
  <2>6. w \in S
    BY <2>1, <2>2, <2>4, <2>5 DEF S
  <2> QED BY <2>6 DEF w
<1> HIDE DEF S
<1>3. S = Seq(Seq(T))
  <2>1. S \in SUBSET Seq(Seq(T))
    BY DEF S
  <2> QED BY <2>1, <1>1, <1>2, SeqInduction
<1> QED BY <1>3 DEF S

\* Every record of the path was logged or is left out of the account.
LEMMA PathLogged ==
  ASSUME NEW T, NEW P \in Seq(T), NEW L \in Seq(T), NEW R, NEW N, Accounts(P, L, R, N)
  PROVE  Range(P) \subseteq Range(L) \cup N
<1>1. Range(Without(P, N)) = Range(P) \ N /\ Range(Without(L, R)) = Range(L) \ R
  BY WithoutRange
<1> QED BY <1>1 DEF Accounts

\* Records that are left out of the account may be put anywhere in the path.
LEMMA AddNotice ==
  ASSUME NEW T, NEW A \in Seq(T), NEW B \in Seq(T), NEW e \in T, NEW L \in Seq(T), NEW R,
         Accounts(A \o B, L, R, {e})
  PROVE  Accounts((A \o <<e>>) \o B, L, R, {e})
<1> DEFINE w == <<e>>
<1>1. w \in Seq(T) /\ Without(w, {e}) = <<>>
  BY WithoutOne DEF Keep
<1> HIDE DEF w
<1>2. Without(A \o B, {e}) = Without(A, {e}) \o Without(B, {e})
  BY WithoutConcat
<1>3. Without(Join3(A, w, B), {e}) = Join3(Without(A, {e}), Without(w, {e}), Without(B, {e}))
  BY <1>1, WithoutConcat3
<1>4. Without(A, {e}) \o <<>> = Without(A, {e})
  BY WithoutType, ConcatEmptySeq
<1>5. Without(Join3(A, w, B), {e}) = Without(A \o B, {e})
  BY <1>1, <1>2, <1>3, <1>4 DEF Join3
<1> QED BY <1>5 DEF Accounts, Join3, w

\* Concatenation of records is associative.
LEMMA RecAssociative == \A p, q, r \in Seq(Rec) : (p \o q) \o r = p \o (q \o r)
BY ConcatAssociative

\* The path of the records: those in the log files, those being written and
\* those that are waiting.
Written == Disk(output, first)
Writing == Flatten(SubSeq(toWrite, i, Len(toWrite)))
Waiting == Flatten(buffers) \o current
Path == Join3(Written, Writing, Waiting)

LogTypeOK ==
    /\ owner \in {"new", "starting", "started", "notifying", "joining", "joined", "dead"}
    /\ pc \in {"off", "spawned", "loop", "waiting", "swap", "check", "write", "final", "done"}
    /\ current \in Seq(Rec) /\ buffers \in Seq(Seq(Rec)) /\ toWrite \in Seq(Seq(Rec))
    /\ next \in BOOLEAN /\ buffer1 \in BOOLEAN /\ buffer2 \in BOOLEAN
    /\ running \in BOOLEAN /\ latch \in BOOLEAN
    /\ i \in Nat \ {0} /\ now \in Nat \ {0} /\ first \in Nat \ {0}
    /\ sent \in [Producers -> Nat] /\ log \in Seq(Rec) /\ lost \in SUBSET Rec
    /\ output \in Outputs /\ FilesSound(output)

\* A process that lives has its first log file once its thread has opened the
\* latch, and nothing to write to it before.
FirstFile ==
    Alive => IF pc \in {"off", "spawned"}
             THEN ~latch /\ first = Len(output.files) + 1 /\ output.pending = <<>>
             ELSE latch /\ first <= Len(output.files)

\* ThreadMain does not run before Start.
NotStarted == owner = "new" => pc = "off"

\* The loop over the buffers is inside them.
LoopIndex == (pc = "check" => i = 1) /\ (pc = "write" => i <= Len(toWrite) + 1)

\* next_buffer_ is given away for a filled buffer only.
SpareGiven == ~next => buffers # <<>>

\* The numbers of the records that were logged or lost have been given out.
Known(r) == (r.from \in Producers => r.n <= sent[r.from]) /\ (r.from = Backend => r.n <= Len(log))
RecordsKnown == (\A r \in Range(log) : Known(r)) /\ \A r \in lost : Known(r)

\* The path and the lost records account for what was logged.
PathAccounts == Alive => Accounts(Path, log, lost, {NoticeLine})

\* Logger::Append puts exactly one record at the end of what waits.
LEMMA LoggerAppendOne ==
  ASSUME LogTypeOK, NEW r \in Rec, LoggerAppend(r)
  PROVE  \E e \in Rec :
           /\ e.from = r.from /\ e.n = r.n /\ log' = Append(log, e)
           /\ \/ current' = Append(current, e) /\ UNCHANGED <<buffers, next>>
              \/ current' = <<e>> /\ buffers' = Append(buffers, current) /\ next' = FALSE
<1> DEFINE full == ~(Avail(current) > r.len)
           none == <<>>
           into == IF full THEN none ELSE current
           new == Put(into, r)
           cut == [r EXCEPT !.len = BufferSize]
<1>1. current' = new /\ log' = Append(log, new[Len(new)])
      /\ IF full THEN buffers' = Append(buffers, current) /\ next' = FALSE ELSE UNCHANGED <<buffers, next>>
  BY DEF LoggerAppend
<1>2. Avail(none) = BufferSize /\ BufferSize \in Nat /\ BufferSize > 0
  <2>1. none \in Seq(Rec) /\ Size(none) = 0
    <3>1. none \in Seq(Rec)
      OBVIOUS
    <3>2. Size(<<>>) = 0
      BY <3>1, SizeType, Zenon
    <3> QED BY <3>1, <3>2
  <2> HIDE DEF none
  <2> QED BY <2>1, LoggerAssumption DEF Avail
<1>3. cut \in Rec /\ cut.from = r.from /\ cut.n = r.n
  BY <1>2 DEF Rec
<1> HIDE DEF cut
<1>4. \A b \in Seq(Rec), e \in Rec : Append(b, e)[Len(Append(b, e))] = e
  BY AppendProperties
<1>5. current \in Seq(Rec) /\ none \in Seq(Rec) /\ \A e \in Rec : Append(none, e) = <<e>>
  BY DEF LogTypeOK
<1> HIDE DEF none
<1>6. CASE ~full
  <2>1. new = Append(current, r)
    BY <1>6 DEF Put
  <2> HIDE DEF new
  <2>2. new[Len(new)] = r
    BY <2>1, <1>4, <1>5
  <2> QED BY <1>1, <1>6, <2>1, <2>2
<1>7. CASE full
  <2>1. into = none
    BY <1>7
  <2>2. new = Append(none, r) \/ new = Append(none, cut)
    BY <1>2, <2>1 DEF Put, cut
  <2> HIDE DEF new, full
  <2>3. PICK e \in Rec : new = Append(none, e) /\ e.from = r.from /\ e.n = r.n
    BY <1>3, <2>2
  <2>4. new[Len(new)] = e /\ new = <<e>>
    BY <1>4, <1>5, <2>3
  <2> WITNESS e \in Rec
  <2> QED BY <1>1, <1>7, <2>3, <2>4
<1> QED BY <1>6, <1>7

\* What waits after Logger::Append.
LEMMA WaitingGrows ==
  ASSUME LogTypeOK, NEW e \in Rec,
         \/ current' = Append(current, e) /\ UNCHANGED <<buffers, next>>
         \/ current' = <<e>> /\ buffers' = Append(buffers, current) /\ next' = FALSE
  PROVE  /\ Waiting \in Seq(Rec) /\ Waiting' = Waiting \o <<e>>
         /\ current' \in Seq(Rec) /\ buffers' \in Seq(Seq(Rec)) /\ next' \in BOOLEAN
         /\ SpareGiven => SpareGiven'
<1> DEFINE w == <<e>>
           B == Flatten(buffers)
<1>1. current \in Seq(Rec) /\ buffers \in Seq(Seq(Rec)) /\ next \in BOOLEAN
  BY DEF LogTypeOK
<1>2. w \in Seq(Rec) /\ Append(current, e) = current \o w
  BY <1>1, AppendIsConcat
<1>3. B \in Seq(Rec) /\ Flatten(Append(buffers, current)) = B \o current
  BY <1>1, FlattenAppend
<1>4. Waiting \in Seq(Rec)
  BY <1>1, <1>3, ConcatProperties DEF Waiting
<1>a. \A p, q, r \in Seq(Rec) : (p \o q) \o r = p \o (q \o r)
  BY RecAssociative
<1>5. CASE current' = Append(current, e) /\ UNCHANGED <<buffers, next>>
  <2>1. Waiting' = B \o Append(current, e)
    BY <1>5 DEF Waiting
  <2> HIDE DEF w, B
  <2>2. (B \o current) \o w = B \o (current \o w)
    BY <1>1, <1>2, <1>3, <1>a, Zenon
  <2>3. Waiting' = Waiting \o w
    BY <2>1, <2>2, <1>2 DEF Waiting, B
  <2>4. current' \in Seq(Rec) /\ buffers' = buffers /\ next' = next
    BY <1>1, <1>5, AppendProperties
  <2> QED BY <2>3, <2>4, <1>1, <1>4 DEF w, SpareGiven
<1>6. CASE current' = <<e>> /\ buffers' = Append(buffers, current) /\ next' = FALSE
  <2>1. Waiting' = Flatten(Append(buffers, current)) \o w
    BY <1>6 DEF Waiting
  <2>2. Waiting' = Waiting \o w
    BY <2>1, <1>3 DEF Waiting
  <2>3. current' \in Seq(Rec)
    BY <1>2, <1>6
  <2>4. buffers' \in Seq(Seq(Rec)) /\ buffers' # <<>>
    BY <1>1, <1>6, AppendProperties
  <2> QED BY <1>4, <1>6, <2>2, <2>3, <2>4 DEF SpareGiven
<1> QED BY <1>5, <1>6

\* The types, the first file and the link, which the writes of the thread rest on.
LinkKept == (Alive /\ latch) => \/ output.link = Current(output)
                                \/ output.link # 0 /\ output.files[output.link].gone
FileInv == LogTypeOK /\ FirstFile /\ LinkKept

\* LinkKept is about a fresh link.
LEMMA LinkIs == LinkKept <=> ((Alive /\ latch) => LinkFresh(output))
BY DEF LinkKept, LinkFresh, Current

\* What a write of ThreadMain does, whether it succeeds or fails.
LEMMA OutputWrites ==
  ASSUME FileInv, Alive, pc \in {"check", "write"}, NEW data \in Seq(Rec), NEW upto \in 1 .. 4,
         NEW n \in 0 .. Len(data), NEW spill \in BOOLEAN,
         output' = AppendUnLocked(output, data, n, spill, now, upto), NEW there \in {"check", "write"},
         Settle(upto, there), UNCHANGED <<first, latch, now>>
  PROVE  /\ output' \in Outputs /\ FilesSound(output') /\ FirstFile' /\ LinkKept'
         /\ owner' \in {owner, "dead"} /\ pc' \in {pc, there} /\ (Alive' => upto = 4 /\ pc' = there)
         /\ Written \in Seq(Rec) /\ Written' = Written \o SubSeq(data, 1, n)
<1>1. LogTypeOK /\ latch /\ first <= Len(output.files)
  BY DEF FileInv, FirstFile
<1>2. /\ output \in Outputs /\ FilesSound(output) /\ now \in Nat /\ first \in Nat \ {0}
      /\ output.files \in Seq(File) /\ Len(output.files) \in Nat
  BY <1>1 DEF LogTypeOK, Outputs, OutputsOf
<1>3. first \in 1 .. Len(output.files)
  BY <1>1, <1>2
<1>4. Writes(output', output, first, SubSeq(data, 1, n), upto)
  BY <1>2, <1>3, AppendWrites
<1>5. LinkFresh(output)
  BY <1>1, LinkIs DEF FileInv
<1>6. output' \in Outputs /\ FilesSound(output') /\ Len(output'.files) >= Len(output.files)
  BY <1>4 DEF Writes
<1>7. output'.files \in Seq(File) /\ Len(output'.files) \in Nat
  BY <1>6 DEF Outputs, OutputsOf
<1>8. upto = 4 => LinkFresh(output')
  BY <1>4, <1>5 DEF Writes
<1>9. Written' = Written \o SubSeq(data, 1, n)
  BY <1>4 DEF Writes, Written
<1>10. Written \in Seq(Rec)
  BY <1>2, <1>3, DiskType DEF Written
<1>11. owner' \in {owner, "dead"} /\ pc' \in {pc, there} /\ (Alive' => upto = 4 /\ pc' = there)
  BY DEF Settle, Alive
<1>12. LinkKept'
  <2>1. LinkKept' <=> ((Alive' /\ latch') => LinkFresh(output'))
    BY DEF LinkKept, LinkFresh, Current
  <2> QED BY <2>1, <1>8, <1>11
<1>13. FirstFile'
  BY <1>1, <1>2, <1>6, <1>7, <1>11 DEF FirstFile
<1> QED BY <1>6, <1>9, <1>10, <1>11, <1>12, <1>13

\* ThreadMain's flush.
LEMMA FlushStep ==
  ASSUME FileInv, Alive, pc \notin {"off", "spawned"}, pc' \notin {"off", "spawned"},
         output' = FileFlush(output), UNCHANGED <<owner, latch, first>>
  PROVE  /\ output' \in Outputs /\ FilesSound(output') /\ FirstFile' /\ LinkKept'
         /\ Written' = Written
<1>1. LogTypeOK /\ latch /\ first <= Len(output.files) /\ LinkFresh(output)
  BY LinkIs DEF FileInv, FirstFile
<1>2. /\ output \in Outputs /\ FilesSound(output) /\ first \in Nat \ {0}
      /\ output.files \in Seq(File) /\ Len(output.files) \in Nat /\ output.link \in Nat
  BY <1>1 DEF LogTypeOK, Outputs, OutputsOf
<1>3. first \in 1 .. Len(output.files) + 1
  BY <1>1, <1>2
<1>4. Adds(output', output, first, <<>>)
  BY <1>1, <1>2, <1>3, FlushKeeps
<1>5. /\ output' \in Outputs /\ FilesSound(output') /\ Len(output'.files) = Len(output.files)
      /\ output'.link = output.link
      /\ \A j \in 1 .. Len(output.files) : output'.files[j].gone = output.files[j].gone
  BY <1>4 DEF Adds
<1>6. Written' = Written
  <2>1. Disk(output', first) = Disk(output, first) \o <<>>
    BY <1>4 DEF Adds
  <2>2. Disk(output, first) \in Seq(Rec)
    BY <1>2, <1>3, DiskType
  <2> QED BY <2>1, <2>2, ConcatEmptySeq DEF Written
<1>7. LinkFresh(output')
  <2>1. output.link # 0 => output.link \in 1 .. Len(output.files)
    BY <1>2 DEF FilesSound
  <2> QED BY <1>1, <1>5, <2>1 DEF LinkFresh
<1>8. LinkKept'
  <2>1. LinkKept' <=> ((Alive' /\ latch') => LinkFresh(output'))
    BY DEF LinkKept, LinkFresh, Current
  <2> QED BY <2>1, <1>7
<1>9. FirstFile'
  BY <1>1, <1>5 DEF FirstFile, Alive
<1> QED BY <1>5, <1>6, <1>8, <1>9

\* A LogFile whose members are as new: nothing of this process is in a file.
LEMMA NewLogFileIs ==
  ASSUME LogTypeOK
  PROVE  LET q == NewLogFile(output) IN
         /\ q \in Outputs /\ FilesSound(q) /\ q.files = output.files /\ q.pending = <<>> /\ q.roll = 0
         /\ q.link = output.link /\ Disk(q, Len(output.files) + 1) = <<>>
         /\ Len(output.files) \in Nat
<1> DEFINE e == <<>>
           q == NewLogFile(output)
           k == Len(output.files) + 1
<1>1. /\ output \in Outputs /\ FilesSound(output) /\ output.files \in Seq(File)
      /\ Len(output.files) \in Nat /\ e \in Seq(Rec) /\ 0 \in Nat
      /\ output \in OutputsOf(Seq(File), Seq(Rec), Nat)
  BY DEF LogTypeOK, Outputs, OutputsOf
<1>2. q = [output EXCEPT !.pending = e, !.written = 0, !.count = 0, !.period = 0, !.roll = 0, !.flush = 0]
  BY DEF NewLogFile
<1> HIDE DEF q, e
<1>3. Has(q, Seq(File), Seq(Rec), Nat, output.files, e, output.link) /\ q.roll = 0
  <2> DEFINE r == [output EXCEPT !.pending = e, !.written = 0, !.count = 0, !.period = 0, !.roll = 0, !.flush = 0]
  <2>1. Has(r, Seq(File), Seq(Rec), Nat, output.files, e, output.link)
    BY <1>1, Members
  <2>2. Rolled(r, 0)
    BY <1>1, Members
  <2> QED BY <1>2, <2>1, <2>2 DEF Rolled
<1>4. q \in Outputs /\ q.files = output.files /\ q.pending = e /\ q.link = output.link
  BY <1>3 DEF Has, Outputs
<1>5. FilesSound(q)
  BY <1>1, <1>4 DEF FilesSound
<1>6. Disk(q, k) = <<>>
  <2>1. Parts(q.files, k) = <<>>
    <3>1. Len(output.files) - k + 1 = 0
      BY <1>1
    <3>2. Parts(q.files, k) = [j \in 1 .. 0 |-> Holds(q.files[k + j - 1])]
      BY <3>1, <1>4 DEF Parts
    <3> HIDE DEF k
    <3> QED BY <3>2
  <2>2. Disk(q, k) = <<>> \o e
    BY <1>4, <2>1, DiskIs, FlattenSmall
  <2> QED BY <2>2 DEF e
<1> QED BY <1>1, <1>3, <1>4, <1>5, <1>6 DEF q, e

\* The start of ThreadMain makes the first log file of the process.
LEMMA BeginStep ==
  ASSUME FileInv, NEW upto \in 1 .. 4, ThreadBegin(upto)
  PROVE  FileInv' /\ Written' = Written
<1>1. /\ LogTypeOK /\ Alive /\ pc = "spawned" /\ first = Len(output.files) + 1 /\ output.pending = <<>>
      /\ first' = first
  BY DEF FileInv, FirstFile, ThreadBegin
<1> DEFINE m == NewLogFile(output)
           k == Len(output.files) + 1
<1>2. /\ m \in Outputs /\ FilesSound(m) /\ m.files = output.files /\ m.pending = <<>> /\ m.roll = 0
      /\ Disk(m, k) = <<>> /\ Len(output.files) \in Nat
  BY <1>1, NewLogFileIs
<1>3. output' = RollFile(m, now, upto)
  BY DEF ThreadBegin
<1> HIDE DEF m
<1>4. k \in 1 .. Len(m.files) + 1 /\ now \in Nat /\ now > m.roll
  BY <1>1, <1>2 DEF LogTypeOK
<1>5. LET q == RollFile(m, now, upto) IN
      /\ q \in Outputs /\ FilesSound(q) /\ Len(q.files) = Len(m.files) + 1
      /\ Disk(q, k) = Disk(m, k)
      /\ upto = 4 => LinkFresh(q)
      /\ DanglesStill(q, m, upto)
  BY <1>2, <1>4, RollKeeps
<1>6. /\ output' \in Outputs /\ FilesSound(output') /\ Len(output'.files) = k
      /\ Disk(output', k) = <<>> /\ (upto = 4 => LinkFresh(output'))
  BY <1>2, <1>3, <1>5
<1>7. Disk(output, k) = <<>>
  <2>1. Disk(output, k) = Disk(m, k)
    BY <1>1, <1>2, DiskIs
  <2> QED BY <2>1, <1>2
<1>8. Written' = Written
  BY <1>1, <1>6, <1>7 DEF Written
<1>9. /\ latch' = TRUE /\ running' = TRUE
      /\ (upto = 4 /\ pc' = "loop" /\ owner' = owner) \/ (pc' = pc /\ owner' = "dead")
      /\ UNCHANGED <<memory, sent, log, lost, now>>
  BY DEF ThreadBegin
<1>10. LogTypeOK'
  BY <1>1, <1>6, <1>9 DEF LogTypeOK, memory
<1>11. FirstFile'
  BY <1>1, <1>2, <1>6, <1>9 DEF FirstFile, Alive
<1>12. LinkKept'
  <2>1. LinkKept' <=> ((Alive' /\ latch') => LinkFresh(output'))
    BY DEF LinkKept, LinkFresh, Current
  <2> QED BY <2>1, <1>6, <1>9 DEF Alive
<1> QED BY <1>8, <1>10, <1>11, <1>12 DEF FileInv

\* A step that leaves the log file alone keeps what is said of it.
LEMMA FileUntouched ==
  ASSUME FileInv, UNCHANGED <<latch, first, output>>,
         \/ owner' = "dead"
         \/ Alive /\ (pc' \in {"off", "spawned"} <=> pc \in {"off", "spawned"})
  PROVE  FirstFile' /\ LinkKept' /\ Written' = Written
<1>1. FirstFile' /\ LinkKept'
  BY DEF FileInv, FirstFile, LinkKept, Alive, Current
<1> QED BY <1>1 DEF Written

\* The inductive invariant.
LogInv ==
    /\ FileInv /\ SpareBuffersSuffice /\ SpareGiven /\ LoopIndex /\ NotStarted
    /\ RecordsKnown /\ PathAccounts

\* The parts of the path are sequences of records.
LEMMA PathType ==
  ASSUME LogTypeOK, FirstFile
  PROVE  /\ Writing \in Seq(Rec) /\ Waiting \in Seq(Rec)
         /\ Alive => Written \in Seq(Rec) /\ Path \in Seq(Rec)
<1>1. /\ current \in Seq(Rec) /\ buffers \in Seq(Seq(Rec)) /\ toWrite \in Seq(Seq(Rec))
      /\ i \in Nat \ {0} /\ output \in Outputs /\ first \in Nat \ {0}
  BY DEF LogTypeOK
<1>2. Flatten(buffers) \in Seq(Rec)
  BY <1>1, FlattenAppend
<1>3. Waiting \in Seq(Rec)
  BY <1>1, <1>2, ConcatProperties DEF Waiting
<1>4. Writing \in Seq(Rec)
  <2> DEFINE w == SubSeq(toWrite, i, Len(toWrite))
  <2>1. w \in Seq(Seq(Rec))
    BY <1>1
  <2> HIDE DEF w
  <2>2. Flatten(w) \in Seq(Rec)
    BY <1>1, <2>1, FlattenAppend
  <2> QED BY <2>2 DEF w, Writing
<1>5. ASSUME Alive PROVE Written \in Seq(Rec) /\ Path \in Seq(Rec)
  <2>1. output.files \in Seq(File) /\ Len(output.files) \in Nat
    BY <1>1 DEF Outputs, OutputsOf
  <2>2. first \in 1 .. Len(output.files) + 1
    BY <1>1, <1>5, <2>1 DEF FirstFile
  <2>3. Written \in Seq(Rec)
    BY <1>1, <2>2, DiskType DEF Written
  <2>4. Written \o Writing \in Seq(Rec)
    BY <1>4, <2>3, ConcatProperties
  <2>5. Path \in Seq(Rec)
    BY <1>3, <2>4, ConcatProperties DEF Path, Join3
  <2> QED BY <2>3, <2>5
<1> QED BY <1>3, <1>4, <1>5

\* The steps that only move the control of the threads.
LEMMA ControlStep ==
  ASSUME LogInv, Alive, UNCHANGED <<memory, sent, log, lost, first, latch, output>>,
         owner' \in {"new", "starting", "started", "notifying", "joining", "joined"},
         pc' \in {"off", "spawned", "loop", "waiting", "swap", "check", "write", "final", "done"},
         running' \in BOOLEAN, now' \in Nat \ {0},
         pc' \in {"off", "spawned"} <=> pc \in {"off", "spawned"},
         pc' \in {"check", "write"} <=> pc \in {"check", "write"},
         pc' = "check" => pc = "check",
         owner' = "new" => owner = "new" /\ pc' = pc
  PROVE  LogInv'
<1>1. LogTypeOK'
  BY DEF LogInv, FileInv, LogTypeOK, memory
<1>2. FirstFile' /\ LinkKept' /\ Written' = Written
  BY FileUntouched DEF LogInv
<1>3. SpareBuffersSuffice' /\ SpareGiven'
  BY DEF LogInv, SpareBuffersSuffice, SpareGiven, Kept, memory
<1>4. LoopIndex'
  <2>1. i \in Nat /\ toWrite \in Seq(Seq(Rec)) /\ Len(toWrite) \in Nat
    BY DEF LogInv, FileInv, LogTypeOK
  <2> QED BY <2>1 DEF LogInv, LoopIndex, memory
<1>5. RecordsKnown'
  BY DEF LogInv, RecordsKnown, Known
<1>6. PathAccounts'
  <2>1. Path' = Path
    BY <1>2 DEF Path, Writing, Waiting, memory
  <2> QED BY <2>1 DEF LogInv, PathAccounts
<1>s. NotStarted'
  BY DEF LogInv, NotStarted
<1> QED BY <1>1, <1>2, <1>3, <1>4, <1>5, <1>6, <1>s DEF LogInv, FileInv

\* A record with a number that has not been given out.
New(e) == \/ e.from \in Producers /\ e.n = sent[e.from] + 1
          \/ e.from = Backend /\ e.n = Len(log) + 1

\* Such a record is none of those whose numbers have been given out.
LEMMA NewIsFresh ==
  ASSUME LogTypeOK, NEW e \in Rec, New(e)
  PROVE  ~Known(e) /\ e # NoticeLine
<1>1. sent \in [Producers -> Nat] /\ Len(log) \in Nat /\ e.n \in Nat
  BY DEF LogTypeOK, Rec
<1>2. e # NoticeLine
  <2>1. NoticeLine.from = Notice
    BY DEF NoticeLine
  <2> QED BY <2>1, LoggerAssumption DEF New
<1>3. ~Known(e)
  BY <1>1, LoggerAssumption DEF New, Known
<1> QED BY <1>2, <1>3

\* Logging a record keeps the account and the numbers.
LEMMA LogOne ==
  ASSUME LogTypeOK, NEW e \in Rec, New(e), log' = Append(log, e),
         NEW P \in Seq(Rec), NEW R \in SUBSET Rec,
         \A r \in Range(log) : Known(r), \A r \in R : Known(r),
         Accounts(P, log, R, {NoticeLine}),
         sent' = IF e.from \in Producers THEN [sent EXCEPT ![e.from] = @ + 1] ELSE sent
  PROVE  /\ Accounts(P \o <<e>>, log', R, {NoticeLine})
         /\ log' \in Seq(Rec) /\ sent' \in [Producers -> Nat]
         /\ \A r \in Range(log') : Known(r)'
         /\ \A r \in R : Known(r)'
<1>1. log \in Seq(Rec) /\ sent \in [Producers -> Nat] /\ Len(log) \in Nat
  BY DEF LogTypeOK
<1>2. ~Known(e) /\ e # NoticeLine
  BY NewIsFresh
<1>3. e \notin R /\ e \notin {NoticeLine} /\ e \notin Range(log)
  BY <1>2
<1>4. Accounts(P \o <<e>>, Append(log, e), R, {NoticeLine})
  BY <1>1, <1>3, AddOne
<1>5. log' \in Seq(Rec) /\ Len(log') = Len(log) + 1
  BY <1>1, AppendProperties
<1>6. Range(log') = Range(log) \cup {e} /\ Range(log) \subseteq Rec
  <2> DEFINE w == <<e>>
  <2>1. w \in Seq(Rec) /\ Range(w) = {e} /\ log' = log \o w
    BY <1>1, AppendIsConcat DEF Range
  <2> HIDE DEF w
  <2>2. Range(log \o w) = Range(log) \cup Range(w)
    BY <1>1, <2>1, RangeConcatenation
  <2>3. Range(log) \subseteq Rec
    BY <1>1, RangeOfSeq
  <2> QED BY <2>1, <2>2, <2>3
<1>7. sent' \in [Producers -> Nat] /\ \A p \in Producers : sent[p] <= sent'[p]
  BY <1>1
<1>8. ASSUME NEW r \in Rec, Known(r) PROVE Known(r)'
  <2>1. r.n \in Nat
    BY DEF Rec
  <2> QED BY <2>1, <1>1, <1>5, <1>7, <1>8 DEF Known
<1>9. Known(e)'
  <2>1. CASE e.from \in Producers /\ e.n = sent[e.from] + 1
    BY <2>1, <1>1, LoggerAssumption DEF Known
  <2>2. CASE e.from = Backend /\ e.n = Len(log) + 1
    BY <2>2, <1>1, <1>5, LoggerAssumption DEF Known
  <2> QED BY <2>1, <2>2 DEF New
<1> QED BY <1>4, <1>5, <1>6, <1>7, <1>8, <1>9

\* The parts of the path regrouped: what is written is apart,
LEMMA RegroupRight ==
  ASSUME NEW a \in Seq(Rec), NEW w \in Seq(Rec), NEW m \in Seq(Rec)
  PROVE  Join3(a, w, m) = a \o (w \o m)
<1>1. (a \o w) \o m = a \o (w \o m)
  BY RecAssociative, Zenon
<1> QED BY <1>1 DEF Join3

\* the first of what is being written is written,
LEMMA RegroupWritten ==
  ASSUME NEW a \in Seq(Rec), NEW d \in Seq(Rec), NEW w \in Seq(Rec), NEW m \in Seq(Rec)
  PROVE  Join3(a, d \o w, m) = Join3(a \o d, w, m)
<1>1. (a \o d) \o w = a \o (d \o w)
  BY RecAssociative, Zenon
<1> QED BY <1>1 DEF Join3

\* a part of it is taken apart,
LEMMA RegroupPart ==
  ASSUME NEW a \in Seq(Rec), NEW d \in Seq(Rec), NEW x \in Seq(Rec), NEW w \in Seq(Rec), NEW m \in Seq(Rec)
  PROVE  Join3(a, (d \o x) \o w, m) = Join3(a \o d, x, w \o m)
<1> DEFINE dx == d \o x
           ad == a \o d
           adx == ad \o x
<1>1. dx \in Seq(Rec) /\ ad \in Seq(Rec)
  BY ConcatProperties
<1>2. ad \o x = a \o dx
  BY RecAssociative, Zenon
<1> HIDE DEF dx, ad
<1>3. adx \in Seq(Rec)
  BY <1>1, ConcatProperties
<1>4. (a \o dx) \o w = a \o (dx \o w)
  <2>1. dx \in Seq(Rec)
    BY <1>1
  <2>2. Join3(a, dx, w) = a \o (dx \o w)
    BY <2>1, RegroupRight
  <2> QED BY <2>2 DEF Join3
<1> HIDE DEF adx
<1>5. (adx \o w) \o m = adx \o (w \o m)
  BY <1>3, RecAssociative, Zenon
<1> QED BY <1>2, <1>4, <1>5 DEF Join3, adx, ad, dx

\* and something is added at the end.
LEMMA RegroupEnd ==
  ASSUME NEW a \in Seq(Rec), NEW d \in Seq(Rec), NEW m \in Seq(Rec), NEW w \in Seq(Rec)
  PROVE  Join3(a, d, m \o w) = Join3(a, d, m) \o w
<1> DEFINE ad == a \o d
<1>1. ad \in Seq(Rec)
  BY ConcatProperties
<1> HIDE DEF ad
<1>2. (ad \o m) \o w = ad \o (m \o w)
  BY <1>1, RecAssociative, Zenon
<1> QED BY <1>2 DEF Join3, ad

\* A part of the path is in the path.
LEMMA PartRange ==
  ASSUME NEW T, NEW a \in Seq(T), NEW x \in Seq(T), NEW b \in Seq(T)
  PROVE  Range(x) \subseteq Range(Join3(a, x, b)) /\ Join3(a, x, b) \in Seq(T)
<1> DEFINE ax == a \o x
<1>1. ax \in Seq(T) /\ Range(ax) = Range(a) \cup Range(x)
  BY RangeConcatenation, ConcatProperties
<1> HIDE DEF ax
<1>2. Range(ax \o b) = Range(ax) \cup Range(b) /\ ax \o b \in Seq(T)
  BY <1>1, RangeConcatenation, ConcatProperties
<1> QED BY <1>1, <1>2 DEF ax, Join3

\* Records dropped from the path are accounted for as lost.
LEMMA Dropped ==
  ASSUME LogTypeOK, RecordsKnown, NEW a \in Seq(Rec), NEW x \in Seq(Rec), NEW b \in Seq(Rec),
         Accounts(Join3(a, x, b), log, lost, {NoticeLine})
  PROVE  /\ Accounts(a \o b, log, lost \cup Range(x), {NoticeLine})
         /\ lost \cup Range(x) \in SUBSET Rec
         /\ \A r \in lost \cup Range(x) : Known(r)
<1>1. log \in Seq(Rec) /\ lost \in SUBSET Rec
  BY DEF LogTypeOK
<1>2. Accounts(a \o b, log, lost \cup Range(x), {NoticeLine})
  BY <1>1, DropPart
<1>3. Range(x) \subseteq Range(Join3(a, x, b)) /\ Join3(a, x, b) \in Seq(Rec)
  BY PartRange
<1>4. Range(Join3(a, x, b)) \subseteq Range(log) \cup {NoticeLine}
  BY <1>1, <1>3, PathLogged
<1>5. Known(NoticeLine)
  <2>1. NoticeLine.from = Notice
    BY DEF NoticeLine
  <2> QED BY <2>1, LoggerAssumption DEF Known
<1>6. Range(x) \subseteq Rec
  BY RangeOfSeq
<1> QED BY <1>1, <1>2, <1>3, <1>4, <1>5, <1>6 DEF RecordsKnown

\* ~LogMessage keeps the invariant.
LEMMA LogMessageStep ==
  ASSUME LogInv, NEW p \in Producers, NEW len \in Lens, NEW fatal \in BOOLEAN, LogMessageDtor(p, len, fatal)
  PROVE  LogInv'
<1> DEFINE r == [from |-> p, n |-> sent[p] + 1, len |-> len]
<1>1. /\ Alive /\ sent' = [sent EXCEPT ![p] = @ + 1] /\ LoggerAppend(r) /\ owner' \in {owner, "dead"}
      /\ UNCHANGED <<running, latch, pc, buffer1, buffer2, toWrite, i, lost, first, now, output>>
  BY DEF LogMessageDtor
<1>2. LogTypeOK /\ FirstFile /\ FileInv
  BY DEF LogInv, FileInv
<1>3. sent \in [Producers -> Nat] /\ log \in Seq(Rec) /\ lost \in SUBSET Rec
  BY <1>2 DEF LogTypeOK
<1>4. r \in Rec /\ r.from = p /\ r.n = sent[p] + 1
  BY <1>3, LoggerAssumption DEF Rec, Sources
<1> HIDE DEF r
<1>5. PICK e \in Rec :
         /\ e.from = r.from /\ e.n = r.n /\ log' = Append(log, e)
         /\ \/ current' = Append(current, e) /\ UNCHANGED <<buffers, next>>
            \/ current' = <<e>> /\ buffers' = Append(buffers, current) /\ next' = FALSE
  BY <1>1, <1>2, <1>4, LoggerAppendOne
<1>6. /\ Waiting \in Seq(Rec) /\ Waiting' = Waiting \o <<e>>
      /\ current' \in Seq(Rec) /\ buffers' \in Seq(Seq(Rec)) /\ next' \in BOOLEAN
      /\ SpareGiven'
  BY <1>2, <1>5, WaitingGrows DEF LogInv
<1>7. /\ Accounts(Path \o <<e>>, log', lost, {NoticeLine})
      /\ log' \in Seq(Rec) /\ sent' \in [Producers -> Nat]
      /\ \A x \in Range(log') : Known(x)'
      /\ \A x \in lost : Known(x)'
  <2>1. Path \in Seq(Rec) /\ Accounts(Path, log, lost, {NoticeLine})
    BY <1>1, <1>2, PathType DEF LogInv, PathAccounts
  <2>2. New(e) /\ sent' = IF e.from \in Producers THEN [sent EXCEPT ![e.from] = @ + 1] ELSE sent
    BY <1>1, <1>4, <1>5 DEF New
  <2>3. (\A x \in Range(log) : Known(x)) /\ \A x \in lost : Known(x)
    BY DEF LogInv, RecordsKnown
  <2> QED BY <1>2, <1>3, <1>5, <2>1, <2>2, <2>3, LogOne
<1>8. LogTypeOK'
  BY <1>1, <1>2, <1>6, <1>7 DEF LogTypeOK
<1>9. FirstFile' /\ LinkKept' /\ Written' = Written
  BY <1>1, <1>2, FileUntouched
<1>10. SpareBuffersSuffice' /\ LoopIndex'
  BY <1>1 DEF LogInv, SpareBuffersSuffice, LoopIndex, Kept
<1>11. RecordsKnown'
  BY <1>1, <1>7 DEF RecordsKnown
<1>12. Path' = Path \o <<e>>
  <2> DEFINE w == <<e>>
  <2>1. w \in Seq(Rec) /\ Waiting' = Waiting \o w
    BY <1>6
  <2> HIDE DEF w
  <2>2. Writing' = Writing
    BY <1>1 DEF Writing
  <2>3. Writing \in Seq(Rec) /\ Written \in Seq(Rec)
    BY <1>1, <1>2, PathType
  <2>4. Join3(Written, Writing, Waiting \o w) = Join3(Written, Writing, Waiting) \o w
    <3>1. Waiting \in Seq(Rec) /\ w \in Seq(Rec)
      BY <1>6, <2>1
    <3> QED BY <2>3, <3>1, RegroupEnd
  <2> QED BY <1>9, <2>1, <2>2, <2>4 DEF Path, w
<1>13. PathAccounts'
  BY <1>1, <1>7, <1>12 DEF PathAccounts
<1>s. NotStarted'
  BY <1>1 DEF LogInv, NotStarted
<1> QED BY <1>6, <1>8, <1>9, <1>10, <1>11, <1>13, <1>s DEF LogInv, FileInv

\* The buffer that is written next, and those after it.
LEMMA WritingSplit ==
  ASSUME NEW tw \in Seq(Seq(Rec)), NEW k \in 1 .. Len(tw)
  PROVE  /\ tw[k] \in Seq(Rec) /\ Flatten(SubSeq(tw, k + 1, Len(tw))) \in Seq(Rec)
         /\ Flatten(SubSeq(tw, k, Len(tw))) = tw[k] \o Flatten(SubSeq(tw, k + 1, Len(tw)))
<1> DEFINE d == tw[k]
           h == <<d>>
           u == SubSeq(tw, k + 1, Len(tw))
           v == SubSeq(tw, k, Len(tw))
<1>1. d \in Seq(Rec) /\ Len(tw) \in Nat
  OBVIOUS
<1>2. h \in Seq(Seq(Rec)) /\ Len(h) = 1 /\ h[1] = d
  BY <1>1
<1>3. /\ u \in Seq(Seq(Rec)) /\ Len(u) = Len(tw) - k
      /\ \A j \in 1 .. Len(tw) - k : u[j] = tw[k + j]
  <2>1. k + 1 \in 1 .. Len(tw) + 1 /\ Len(tw) \in k .. Len(tw)
    BY <1>1
  <2> QED BY <2>1, <1>1, SubSeqProperties
<1>4. /\ v \in Seq(Seq(Rec)) /\ Len(v) = Len(tw) - k + 1
      /\ \A j \in 1 .. Len(tw) - k + 1 : v[j] = tw[k + j - 1]
  <2>1. k \in 1 .. Len(tw) + 1 /\ Len(tw) \in k - 1 .. Len(tw)
    BY <1>1
  <2> QED BY <2>1, <1>1, SubSeqProperties
<1> HIDE DEF h, u, v
<1>5. v = h \o u
  <2> DEFINE q == h \o u
  <2>1. q \in Seq(Seq(Rec)) /\ Len(q) = Len(h) + Len(u)
    BY <1>2, <1>3, ConcatProperties
  <2>2. \A j \in 1 .. Len(h) + Len(u) : q[j] = IF j <= Len(h) THEN h[j] ELSE u[j - Len(h)]
    BY <1>2, <1>3, ConcatProperties
  <2> HIDE DEF q
  <2>3. Len(q) = Len(v)
    BY <1>1, <1>2, <1>3, <1>4, <2>1
  <2>4. ASSUME NEW j \in 1 .. Len(v) PROVE v[j] = q[j]
    <3>1. j \in 1 .. Len(tw) - k + 1 /\ j \in 1 .. Len(h) + Len(u)
      BY <1>1, <1>2, <1>3, <1>4
    <3>2. CASE j = 1
      <4>1. q[1] = h[1]
        BY <1>2, <2>2, <3>1, <3>2
      <4>2. v[1] = tw[k + 1 - 1] /\ k + 1 - 1 = k
        BY <1>4, <3>1, <3>2
      <4> QED BY <3>2, <4>1, <4>2, <1>2
    <3>3. CASE j # 1
      <4>1. j - 1 \in 1 .. Len(tw) - k /\ k + (j - 1) = k + j - 1
        BY <1>1, <3>1, <3>3
      <4>2. q[j] = u[j - 1]
        BY <1>2, <2>2, <3>1, <3>3
      <4> QED BY <1>3, <1>4, <3>1, <4>1, <4>2
    <3> QED BY <3>2, <3>3
  <2>5. v = q
    BY <1>4, <2>1, <2>3, <2>4, SeqEqual
  <2> QED BY <2>5 DEF q
<1>6. Flatten(h \o u) = Flatten(h) \o Flatten(u)
  BY <1>2, <1>3, FlattenConcat
<1>7. Flatten(h) = d
  BY <1>1, FlattenSmall DEF h
<1>8. Flatten(u) \in Seq(Rec)
  BY <1>1, <1>3, FlattenAppend
<1> QED BY <1>1, <1>5, <1>6, <1>7, <1>8 DEF u, v

\* A buffer whose first n records were written, and the rest of it.
LEMMA DataSplit ==
  ASSUME NEW T, NEW data \in Seq(T), NEW n \in 0 .. Len(data)
  PROVE  LET a == SubSeq(data, 1, n)
             x == SubSeq(data, n + 1, Len(data))
         IN  /\ a \in Seq(T) /\ x \in Seq(T) /\ data = a \o x
             /\ Range(x) = {data[k] : k \in n + 1 .. Len(data)}
<1> DEFINE a == SubSeq(data, 1, n)
           x == SubSeq(data, n + 1, Len(data))
           N == Len(data)
<1>0. N \in Nat /\ n \in Nat
  OBVIOUS
<1>1. a \in Seq(T) /\ Len(a) = n /\ \A j \in 1 .. n : a[j] = data[j]
  <2>1. 1 \in 1 .. N + 1 /\ n \in 1 - 1 .. N
    BY <1>0
  <2>2. a \in Seq(T) /\ Len(a) = n - 1 + 1 /\ \A j \in 1 .. n - 1 + 1 : a[j] = data[1 + j - 1]
    BY <2>1, SubSeqProperties
  <2> HIDE DEF a
  <2> QED BY <1>0, <2>2
<1>2. x \in Seq(T) /\ Len(x) = N - n /\ \A j \in 1 .. N - n : x[j] = data[n + j]
  <2>1. n + 1 \in 1 .. N + 1 /\ N \in (n + 1) - 1 .. N
    BY <1>0
  <2>2. x \in Seq(T) /\ Len(x) = N - (n + 1) + 1 /\ \A j \in 1 .. N - (n + 1) + 1 : x[j] = data[(n + 1) + j - 1]
    BY <2>1, SubSeqProperties
  <2>3. N - (n + 1) + 1 = N - n /\ \A j \in 1 .. N - n : (n + 1) + j - 1 = n + j
    BY <1>0
  <2> HIDE DEF x
  <2> QED BY <2>2, <2>3
<1> HIDE DEF a, x
<1>3. data = a \o x
  <2>1. a \o x \in Seq(T) /\ Len(a \o x) = N
    BY <1>0, <1>1, <1>2, ConcatProperties
  <2>2. ASSUME NEW j \in 1 .. N PROVE data[j] = (a \o x)[j]
    <3>1. CASE j <= n
      BY <1>0, <1>1, <1>2, <3>1, ConcatProperties
    <3>2. CASE ~(j <= n)
      <4>1. j - n \in 1 .. N - n /\ n + (j - n) = j
        BY <1>0, <3>2
      <4>2. (a \o x)[j] = x[j - n]
        BY <1>0, <1>1, <1>2, <3>2, ConcatProperties
      <4> QED BY <1>2, <4>1, <4>2
    <3> QED BY <3>1, <3>2
  <2> HIDE DEF N
  <2>3. N = Len(data)
    BY DEF N
  <2> QED BY <2>1, <2>2, <2>3, SeqEqual
<1>4. Range(x) = {data[k] : k \in n + 1 .. N}
  <2>1. Range(x) = {x[j] : j \in 1 .. Len(x)}
    BY <1>2, RangeEquality
  <2>2. ASSUME NEW j \in 1 .. N - n PROVE x[j] \in {data[k] : k \in n + 1 .. N}
    <3>1. n + j \in n + 1 .. N
      BY <1>0
    <3> QED BY <3>1, <1>2
  <2>3. ASSUME NEW k \in n + 1 .. N PROVE data[k] \in {x[j] : j \in 1 .. Len(x)}
    <3>1. k - n \in 1 .. N - n /\ n + (k - n) = k
      BY <1>0
    <3> QED BY <3>1, <1>2
  <2> QED BY <1>2, <2>1, <2>2, <2>3
<1> QED BY <1>1, <1>2, <1>3, <1>4 DEF a, x

\* The loop that writes the buffers keeps the invariant.
LEMMA WriteBufferStep ==
  ASSUME LogInv, NEW upto \in 1 .. 4, WriteBuffer(upto)
  PROVE  LogInv'
<1> DEFINE data == toWrite[i]
           rest == Flatten(SubSeq(toWrite, i + 1, Len(toWrite)))
<1>1. /\ Alive /\ pc = "write" /\ i <= Len(toWrite) /\ Output(data, upto) /\ i' = i + 1
      /\ Settle(upto, "write")
      /\ UNCHANGED <<running, latch, buffer1, buffer2, toWrite, sent, first, now>>
  BY DEF WriteBuffer
<1>2. LogTypeOK /\ FirstFile /\ FileInv /\ RecordsKnown /\ Accounts(Path, log, lost, {NoticeLine})
  BY <1>1 DEF LogInv, FileInv, PathAccounts
<1>3. /\ toWrite \in Seq(Seq(Rec)) /\ i \in Nat \ {0} /\ Len(toWrite) \in Nat
      /\ log \in Seq(Rec) /\ lost \in SUBSET Rec /\ sent \in [Producers -> Nat]
  BY <1>2 DEF LogTypeOK
<1>4. i \in 1 .. Len(toWrite)
  BY <1>1, <1>3
<1>5. data \in Seq(Rec) /\ rest \in Seq(Rec) /\ Writing = data \o rest
  BY <1>3, <1>4, WritingSplit DEF Writing
<1>6. Writing' = rest
  BY <1>1 DEF Writing
<1>7. Written \in Seq(Rec) /\ Waiting \in Seq(Rec)
  BY <1>1, <1>2, PathType
<1> HIDE DEF data, rest
<1>8. i' \in Nat \ {0} /\ i' <= Len(toWrite) + 1
  BY <1>1, <1>3
<1>9. LoopIndex'
  <2>1. pc' = "write"
    BY <1>1 DEF Settle
  <2> QED BY <1>1, <1>8, <2>1 DEF LoopIndex
<1>10. SpareBuffersSuffice'
  <2>1. pc' = "write"
    BY <1>1 DEF Settle
  <2> QED BY <1>1, <2>1 DEF LogInv, SpareBuffersSuffice, Kept
<1>s. NotStarted'
  BY <1>1 DEF LogInv, NotStarted, Settle
<1>11. CASE /\ \E spill \in BOOLEAN : output' = AppendUnLocked(output, data, Len(data), spill, now, upto)
            /\ UNCHANGED <<current, next, buffers, log, lost>>
  <2>1. PICK spill \in BOOLEAN : output' = AppendUnLocked(output, data, Len(data), spill, now, upto)
    BY <1>11
  <2>2. Len(data) \in 0 .. Len(data)
    BY <1>5
  <2>3. /\ output' \in Outputs /\ FilesSound(output') /\ FirstFile' /\ LinkKept'
        /\ owner' \in {owner, "dead"} /\ pc' \in {pc, "write"}
        /\ Written' = Written \o SubSeq(data, 1, Len(data))
    BY <1>1, <1>2, <1>5, <2>1, <2>2, OutputWrites
  <2>4. Written' = Written \o data
    <3>1. SubSeq(data, 1, Len(data)) = data
      BY <1>5, SubSeqFull
    <3> QED BY <2>3, <3>1
  <2>5. LogTypeOK'
    BY <1>1, <1>2, <1>8, <1>11, <2>3 DEF LogTypeOK
  <2>6. Path' = Path
    <3>1. Waiting' = Waiting
      BY <1>11 DEF Waiting
    <3>2. Join3(Written, data \o rest, Waiting) = Join3(Written \o data, rest, Waiting)
      BY <1>5, <1>7, RegroupWritten
    <3> QED BY <1>5, <1>6, <2>4, <3>1, <3>2 DEF Path
  <2>7. PathAccounts' /\ RecordsKnown' /\ SpareGiven'
    <3>1. PathAccounts'
      BY <1>2, <1>11, <2>6 DEF PathAccounts
    <3>2. RecordsKnown' /\ SpareGiven'
      BY <1>1, <1>2, <1>11 DEF LogInv, RecordsKnown, Known, SpareGiven
    <3> QED BY <3>1, <3>2
  <2> QED BY <1>9, <1>10, <2>3, <2>5, <2>7, <1>s DEF LogInv, FileInv
<1>12. CASE /\ \E n \in 0 .. Len(data) - 1 :
                  /\ output' = AppendUnLocked(output, data, n, FALSE, now, upto)
                  /\ lost' = lost \cup {data[k] : k \in n + 1 .. Len(data)}
            /\ LoggerAppend([from |-> Backend, n |-> Len(log) + 1, len |-> 1])
  <2>1. PICK n \in 0 .. Len(data) - 1 :
           /\ output' = AppendUnLocked(output, data, n, FALSE, now, upto)
           /\ lost' = lost \cup {data[k] : k \in n + 1 .. Len(data)}
    BY <1>12
  <2>2. n \in 0 .. Len(data) /\ FALSE \in BOOLEAN
    BY <1>5
  <2> DEFINE a == SubSeq(data, 1, n)
             x == SubSeq(data, n + 1, Len(data))
             r == [from |-> Backend, n |-> Len(log) + 1, len |-> 1]
             m == Waiting
             P == Join3(Written', rest, m)
  <2>3. /\ output' \in Outputs /\ FilesSound(output') /\ FirstFile' /\ LinkKept'
        /\ owner' \in {owner, "dead"} /\ pc' \in {pc, "write"}
        /\ Written' = Written \o a
    BY <1>1, <1>2, <1>5, <2>1, <2>2, OutputWrites
  <2>4. a \in Seq(Rec) /\ x \in Seq(Rec) /\ data = a \o x /\ lost' = lost \cup Range(x)
    BY <1>5, <2>1, <2>2, DataSplit
  <2> HIDE DEF a, x
  <2>5. r \in Rec /\ r.from = Backend /\ r.n = Len(log) + 1
    BY <1>3 DEF Rec, Sources
  <2> HIDE DEF r
  <2>6. PICK e \in Rec :
           /\ e.from = r.from /\ e.n = r.n /\ log' = Append(log, e)
           /\ \/ current' = Append(current, e) /\ UNCHANGED <<buffers, next>>
              \/ current' = <<e>> /\ buffers' = Append(buffers, current) /\ next' = FALSE
    BY <1>2, <1>12, <2>5, LoggerAppendOne DEF r
  <2>7. /\ Waiting' = m \o <<e>>
        /\ current' \in Seq(Rec) /\ buffers' \in Seq(Seq(Rec)) /\ next' \in BOOLEAN
        /\ SpareGiven'
    BY <1>2, <2>6, WaitingGrows DEF LogInv
  <2>8. m \in Seq(Rec) /\ rest \o m \in Seq(Rec) /\ Written \o a \in Seq(Rec)
    BY <1>5, <1>7, <2>4, ConcatProperties
  <2> HIDE DEF m
  <2>9. /\ Accounts((Written \o a) \o (rest \o m), log, lost \cup Range(x), {NoticeLine})
        /\ lost \cup Range(x) \in SUBSET Rec
        /\ \A y \in lost \cup Range(x) : Known(y)
    <3>1. Path = Join3(Written \o a, x, rest \o m)
      <4>1. Join3(Written, (a \o x) \o rest, m) = Join3(Written \o a, x, rest \o m)
        BY <1>5, <1>7, <2>4, <2>8, RegroupPart
      <4> QED BY <4>1, <1>5, <2>4 DEF Path, m
    <3> DEFINE wa == Written \o a
               rm == rest \o m
    <3>2. wa \in Seq(Rec) /\ rm \in Seq(Rec) /\ Accounts(Join3(wa, x, rm), log, lost, {NoticeLine})
      BY <1>2, <2>8, <3>1
    <3> HIDE DEF wa, rm
    <3>3. /\ Accounts(wa \o rm, log, lost \cup Range(x), {NoticeLine})
          /\ lost \cup Range(x) \in SUBSET Rec
          /\ \A y \in lost \cup Range(x) : Known(y)
      BY <1>2, <2>4, <3>2, Dropped
    <3> QED BY <3>3 DEF wa, rm
  <2>10. P \in Seq(Rec) /\ Accounts(P, log, lost', {NoticeLine})
    <3>1. Written' \in Seq(Rec)
      BY <2>3, <2>8
    <3>2. P = Written' \o (rest \o m) /\ P \in Seq(Rec)
      BY <1>5, <2>8, <3>1, RegroupRight, PartRange
    <3> QED BY <2>3, <2>4, <2>9, <3>2
  <2>11. /\ Accounts(P \o <<e>>, log', lost', {NoticeLine})
         /\ log' \in Seq(Rec) /\ sent' \in [Producers -> Nat]
         /\ \A y \in Range(log') : Known(y)'
         /\ \A y \in lost' : Known(y)'
    <3>1. New(e) /\ sent' = IF e.from \in Producers THEN [sent EXCEPT ![e.from] = @ + 1] ELSE sent
      BY <1>1, <2>5, <2>6, LoggerAssumption DEF New
    <3> DEFINE R == lost'
    <3>2. R \in SUBSET Rec /\ (\A y \in R : Known(y)) /\ \A y \in Range(log) : Known(y)
      BY <1>2, <2>4, <2>9 DEF RecordsKnown
    <3>3. Accounts(P, log, R, {NoticeLine})
      BY <2>10
    <3> HIDE DEF R, P
    <3>4. /\ Accounts(P \o <<e>>, log', R, {NoticeLine})
          /\ log' \in Seq(Rec) /\ sent' \in [Producers -> Nat]
          /\ \A y \in Range(log') : Known(y)'
          /\ \A y \in R : Known(y)'
      BY <1>2, <2>6, <2>10, <3>1, <3>2, <3>3, LogOne
    <3> QED BY <3>4 DEF R
  <2>12. LogTypeOK'
    BY <1>1, <1>2, <1>8, <2>3, <2>4, <2>7, <2>9, <2>11 DEF LogTypeOK
  <2>13. Path' = P \o <<e>>
    <3> DEFINE w == <<e>>
    <3>1. w \in Seq(Rec) /\ Waiting' = m \o w
      BY <2>7
    <3> HIDE DEF w
    <3>2. Written' \in Seq(Rec)
      BY <2>3, <2>8
    <3>3. Join3(Written', rest, m \o w) = Join3(Written', rest, m) \o w
      <4>1. w \in Seq(Rec) /\ m \in Seq(Rec) /\ rest \in Seq(Rec)
        BY <1>5, <2>8, <3>1
      <4> QED BY <3>2, <4>1, RegroupEnd
    <3> QED BY <1>6, <3>1, <3>3 DEF Path, w
  <2>14. PathAccounts' /\ RecordsKnown'
    BY <2>11, <2>13 DEF PathAccounts, RecordsKnown
  <2> QED BY <1>9, <1>10, <2>3, <2>7, <2>12, <2>14, <1>s DEF LogInv, FileInv
<1> QED BY <1>1, <1>11, <1>12 DEF Output

\* A sequence of buffers is its first two and the others.
LEMMA BacklogSplit ==
  ASSUME NEW tw \in Seq(Seq(Rec)), Len(tw) > 2
  PROVE  LET a == SubSeq(tw, 1, 2)
             x == SubSeq(tw, 3, Len(tw))
         IN  /\ a \in Seq(Seq(Rec)) /\ Len(a) = 2
             /\ Flatten(a) \in Seq(Rec) /\ Flatten(x) \in Seq(Rec)
             /\ Flatten(tw) = Flatten(a) \o Flatten(x)
             /\ Range(Flatten(x)) = UNION {{tw[k][j] : j \in DOMAIN tw[k]} : k \in 3 .. Len(tw)}
<1> DEFINE a == SubSeq(tw, 1, 2)
           x == SubSeq(tw, 3, Len(tw))
<1>0. Len(tw) \in Nat /\ 2 \in 0 .. Len(tw) /\ 2 + 1 = 3 /\ \A k \in 1 .. Len(tw) : tw[k] \in Seq(Rec)
  OBVIOUS
<1>1. a \in Seq(Seq(Rec)) /\ x \in Seq(Seq(Rec)) /\ tw = a \o x /\ Range(x) = {tw[k] : k \in 3 .. Len(tw)}
  <2>1. LET u == SubSeq(tw, 1, 2)
            v == SubSeq(tw, 2 + 1, Len(tw))
        IN  /\ u \in Seq(Seq(Rec)) /\ v \in Seq(Seq(Rec)) /\ tw = u \o v
            /\ Range(v) = {tw[k] : k \in 2 + 1 .. Len(tw)}
    BY <1>0, DataSplit
  <2> QED BY <1>0, <2>1
<1>2. Len(a) = 2
  BY <1>0
<1> HIDE DEF a, x
<1>3. Flatten(tw) = Flatten(a) \o Flatten(x)
  BY <1>1, FlattenConcat
<1>4. <<>> \in Seq(Rec)
  OBVIOUS
<1>5. Flatten(a) \in Seq(Rec) /\ Flatten(x) \in Seq(Rec)
  BY <1>1, <1>4, FlattenAppend
<1>6. Range(Flatten(x)) = UNION {{tw[k][j] : j \in DOMAIN tw[k]} : k \in 3 .. Len(tw)}
  <2>1. Range(Flatten(x)) = UNION {Range(x[k]) : k \in 1 .. Len(x)}
    BY <1>1, FlattenRange
  <2>2. Range(x) = {x[k] : k \in 1 .. Len(x)}
    BY <1>1, RangeEquality
  <2>3. UNION {Range(x[k]) : k \in 1 .. Len(x)} = UNION {Range(y) : y \in Range(x)}
    BY <2>2
  <2>4. UNION {Range(y) : y \in Range(x)} = UNION {Range(tw[k]) : k \in 3 .. Len(tw)}
    BY <1>1
  <2>6. UNION {Range(tw[k]) : k \in 3 .. Len(tw)} = UNION {{tw[k][j] : j \in DOMAIN tw[k]} : k \in 3 .. Len(tw)}
    BY DEF Range
  <2> QED BY <2>1, <2>3, <2>4, <2>6
<1> QED BY <1>1, <1>2, <1>3, <1>5, <1>6 DEF a, x

\* Dropping the backlog keeps the invariant.
LEMMA DropBacklogStep ==
  ASSUME LogInv, NEW upto \in 1 .. 4, DropBacklog(upto)
  PROVE  LogInv'
<1> DEFINE note == <<NoticeLine>>
           a == SubSeq(toWrite, 1, 2)
           x == Flatten(SubSeq(toWrite, 3, Len(toWrite)))
           fa == Flatten(a)
<1>1. /\ Alive /\ pc = "check" /\ Len(toWrite) > MaxBacklog
      /\ toWrite' = a
      /\ lost' = lost \cup UNION {{toWrite[k][j] : j \in DOMAIN toWrite[k]} : k \in 3 .. Len(toWrite)}
      /\ Settle(upto, "write")
      /\ UNCHANGED <<running, latch, current, next, buffers, buffer1, buffer2, i, sent, log, first, now>>
  BY DEF DropBacklog
<1>2. PICK spill \in BOOLEAN : output' = AppendUnLocked(output, note, 1, spill, now, upto)
  BY DEF DropBacklog
<1>3. LogTypeOK /\ FirstFile /\ FileInv /\ RecordsKnown /\ Accounts(Path, log, lost, {NoticeLine}) /\ i = 1
  BY <1>1 DEF LogInv, FileInv, PathAccounts, LoopIndex
<1>4. /\ toWrite \in Seq(Seq(Rec)) /\ Len(toWrite) \in Nat
      /\ log \in Seq(Rec) /\ lost \in SUBSET Rec
  BY <1>3 DEF LogTypeOK
<1>5. Len(toWrite) > 2
  BY <1>1, <1>4, LoggerAssumption
<1>6. /\ a \in Seq(Seq(Rec)) /\ Len(a) = 2 /\ fa \in Seq(Rec) /\ x \in Seq(Rec)
      /\ Flatten(toWrite) = fa \o x /\ lost' = lost \cup Range(x)
  BY <1>1, <1>4, <1>5, BacklogSplit
<1>7. Writing = fa \o x
  <2>1. SubSeq(toWrite, 1, Len(toWrite)) = toWrite
    BY <1>4, SubSeqFull
  <2> QED BY <1>3, <1>6, <2>1 DEF Writing
<1>8. Writing' = fa
  <2> HIDE DEF a
  <2>1. SubSeq(a, 1, Len(a)) = a
    BY <1>6, SubSeqFull
  <2> QED BY <1>1, <1>3, <2>1 DEF Writing
<1> HIDE DEF a, x, fa
<1>9. Written \in Seq(Rec) /\ Waiting \in Seq(Rec) /\ Waiting' = Waiting
  BY <1>1, <1>3, PathType DEF Waiting
<1>10. NoticeLine \in Rec
  BY DEF NoticeLine, Rec, Sources
<1>11. note \in Seq(Rec) /\ Len(note) = 1 /\ 1 \in 0 .. Len(note) /\ SubSeq(note, 1, 1) = note
  <2> DEFINE y == NoticeLine
  <2> HIDE DEF y
  <2>1. y \in Rec /\ note = <<y>>
    BY <1>10 DEF y
  <2>2. <<y>> \in Seq(Rec) /\ Len(<<y>>) = 1
    BY <2>1
  <2>3. SubSeq(<<y>>, 1, Len(<<y>>)) = <<y>>
    BY <2>2, SubSeqFull
  <2> QED BY <2>1, <2>2, <2>3
<1>12. /\ output' \in Outputs /\ FilesSound(output') /\ FirstFile' /\ LinkKept'
       /\ owner' \in {owner, "dead"} /\ pc' \in {"check", "write"}
       /\ Written' = Written \o note
  <2> HIDE DEF note
  <2>1. /\ output' \in Outputs /\ FilesSound(output') /\ FirstFile' /\ LinkKept'
        /\ owner' \in {owner, "dead"} /\ pc' \in {pc, "write"}
        /\ Written' = Written \o SubSeq(note, 1, 1)
    BY <1>1, <1>2, <1>3, <1>11, OutputWrites
  <2> QED BY <1>1, <1>11, <2>1
<1>13. /\ Accounts((Written \o fa) \o Waiting, log, lost', {NoticeLine})
       /\ lost' \in SUBSET Rec /\ \A r \in lost' : Known(r)
  <2> DEFINE wa == Written \o fa
             m == Waiting
  <2>1. wa \in Seq(Rec) /\ m \in Seq(Rec)
    BY <1>6, <1>9, ConcatProperties
  <2>2. Path = Join3(wa, x, m)
    BY <1>6, <1>7, <1>9, RegroupWritten DEF Path
  <2> HIDE DEF wa, m
  <2>3. /\ Accounts(wa \o m, log, lost \cup Range(x), {NoticeLine})
        /\ lost \cup Range(x) \in SUBSET Rec
        /\ \A r \in lost \cup Range(x) : Known(r)
    BY <1>3, <1>6, <2>1, <2>2, Dropped
  <2> QED BY <1>6, <2>3 DEF wa, m
<1>14. Accounts(Path', log, lost', {NoticeLine})
  <2> DEFINE b == fa \o Waiting
             R == lost'
             w == Written
  <2>1. w \in Seq(Rec) /\ b \in Seq(Rec)
    BY <1>6, <1>9, ConcatProperties
  <2>2. (Written \o fa) \o Waiting = w \o b
    BY <1>6, <1>9, RegroupRight DEF Join3
  <2> HIDE DEF b, R, w
  <2>3. Accounts(w \o b, log, R, {NoticeLine})
    BY <1>13, <2>2 DEF R
  <2>4. Accounts((w \o note) \o b, log, R, {NoticeLine})
    BY <1>4, <1>10, <2>1, <2>3, AddNotice
  <2>5. Path' = (w \o note) \o b
    <3> HIDE DEF note
    <3>1. Written' = w \o note /\ Written' \in Seq(Rec)
      BY <1>11, <1>12, <2>1, ConcatProperties DEF w
    <3>2. Path' = Join3(Written', fa, Waiting)
      BY <1>8, <1>9 DEF Path
    <3>3. Join3(Written', fa, Waiting) = Written' \o (fa \o Waiting)
      BY <1>6, <1>9, <3>1, RegroupRight
    <3> QED BY <3>1, <3>2, <3>3 DEF b
  <2> QED BY <2>4, <2>5 DEF R
<1>15. LogTypeOK'
  BY <1>1, <1>3, <1>6, <1>12, <1>13 DEF LogTypeOK
<1>16. SpareBuffersSuffice' /\ LoopIndex' /\ SpareGiven'
  <2>1. Kept' = 2
    BY <1>1, <1>6 DEF Kept
  <2>2. buffer1 \in BOOLEAN /\ buffer2 \in BOOLEAN
    BY <1>3 DEF LogTypeOK
  <2>3. SpareBuffersSuffice'
    BY <1>1, <1>12, <2>1, <2>2 DEF SpareBuffersSuffice
  <2>4. LoopIndex' /\ SpareGiven'
    BY <1>1, <1>3, <1>6, <1>12 DEF LogInv, LoopIndex, SpareGiven
  <2> QED BY <2>3, <2>4
<1>17. RecordsKnown' /\ PathAccounts'
  BY <1>1, <1>3, <1>13, <1>14 DEF RecordsKnown, Known, PathAccounts
<1>s. NotStarted'
  BY <1>1, <1>12 DEF LogInv, NotStarted
<1> QED BY <1>12, <1>15, <1>16, <1>17, <1>s DEF LogInv, FileInv

\* Swapping the buffers keeps the invariant: what waited is being written.
LEMMA SwapStep ==
  ASSUME LogInv, Swap
  PROVE  LogInv'
<1>1. /\ Alive /\ pc = "swap" /\ toWrite' = Append(buffers, current) /\ buffers' = <<>> /\ current' = <<>>
      /\ buffer1' = FALSE /\ next' = TRUE /\ buffer2' = (buffer2 /\ next) /\ i' = 1 /\ pc' = "check"
      /\ UNCHANGED <<running, latch, owner, sent, log, lost, first, deaths, now, output>>
  BY DEF Swap
<1>2. LogTypeOK /\ FirstFile /\ FileInv /\ Accounts(Path, log, lost, {NoticeLine})
  BY <1>1 DEF LogInv, FileInv, PathAccounts
<1>3. /\ buffers \in Seq(Seq(Rec)) /\ current \in Seq(Rec) /\ buffer2 \in BOOLEAN /\ next \in BOOLEAN
      /\ toWrite = <<>> /\ buffer1 /\ buffer2 /\ i \in Nat \ {0}
  BY <1>1, <1>2 DEF LogTypeOK, LogInv, SpareBuffersSuffice
<1>4. toWrite' \in Seq(Seq(Rec)) /\ Len(toWrite') = Len(buffers) + 1 /\ Len(buffers) \in Nat
  BY <1>1, <1>3, AppendProperties
<1>5. LogTypeOK'
  <2>1. current' \in Seq(Rec) /\ buffers' \in Seq(Seq(Rec))
    BY <1>1
  <2>2. buffer1' \in BOOLEAN /\ buffer2' \in BOOLEAN /\ next' \in BOOLEAN
    BY <1>1, Zenon
  <2>3. /\ pc' = "check" /\ i' = 1
        /\ UNCHANGED <<running, latch, owner, sent, log, lost, first, now, output>>
    BY <1>1
  <2> QED BY <1>2, <1>4, <2>1, <2>2, <2>3 DEF LogTypeOK
<1>6. FirstFile' /\ LinkKept' /\ Written' = Written
  BY <1>1, <1>2, FileUntouched
<1>7. SpareBuffersSuffice' /\ SpareGiven' /\ LoopIndex'
  <2>1. ~next => Len(buffers) >= 1
    <3>1. buffers # <<>> => Len(buffers) # 0
      BY <1>3, EmptySeq
    <3> QED BY <1>4, <3>1 DEF LogInv, SpareGiven
  <2>2. Kept' = IF Len(toWrite') > 2 THEN 2 ELSE Len(toWrite')
    BY DEF Kept
  <2>3. SpareBuffersSuffice'
    BY <1>1, <1>3, <1>4, <2>1, <2>2 DEF SpareBuffersSuffice
  <2> QED BY <1>1, <2>3 DEF SpareGiven, LoopIndex
<1>8. RecordsKnown'
  BY <1>1 DEF LogInv, RecordsKnown, Known
<1>9. Path' = Path
  <2> DEFINE e == <<>>
             tw == toWrite'
             m == Waiting
             W == Written
  <2>0. e \in Seq(Rec) /\ m \in Seq(Rec) /\ W \in Seq(Rec)
    BY <1>1, <1>2, PathType
  <2>1. Writing = e
    <3>1. SubSeq(toWrite, i, Len(toWrite)) = <<>>
      <4>1. Len(toWrite) = 0
        BY <1>3
      <4>2. i \in Int /\ 0 \in Int /\ 0 < i
        BY <1>3
      <4> QED BY <4>1, <4>2, SubSeqEmpty
    <3> QED BY <3>1, FlattenSmall DEF Writing
  <2>2. Writing' = Waiting
    <3>1. SubSeq(tw, 1, Len(tw)) = tw
      BY <1>4, SubSeqFull
    <3>2. Flatten(Append(buffers, current)) = Flatten(buffers) \o current
      BY <1>3, FlattenAppend
    <3> QED BY <1>1, <3>1, <3>2 DEF Writing, Waiting
  <2>3. Waiting' = e
    <3>1. Flatten(<<>>) \o <<>> = <<>>
      BY FlattenSmall
    <3> QED BY <1>1, <3>1 DEF Waiting
  <2> HIDE DEF m, W
  <2>4. Path' = (W \o m) \o e /\ Path = (W \o e) \o m
    <3> HIDE DEF e
    <3> QED BY <1>6, <2>1, <2>2, <2>3 DEF Path, Join3, W, m
  <2>5. W \o m \in Seq(Rec)
    BY <2>0, ConcatProperties
  <2>6. (W \o m) \o <<>> = W \o m /\ W \o <<>> = W
    BY <2>0, <2>5, ConcatEmptySeq
  <2> QED BY <2>4, <2>6
<1>10. PathAccounts'
  BY <1>1, <1>2, <1>9 DEF PathAccounts
<1>s. NotStarted'
  BY <1>1 DEF LogInv, NotStarted
<1> QED BY <1>5, <1>6, <1>7, <1>8, <1>10, <1>s DEF LogInv, FileInv

\* Nothing is being written outside the loop that writes.
LEMMA NothingWriting ==
  ASSUME NEW tw \in Seq(Seq(Rec)), NEW k \in Nat, k > Len(tw)
  PROVE  Flatten(SubSeq(tw, k, Len(tw))) = <<>>
<1>1. Len(tw) \in Int /\ k \in Int /\ Len(tw) < k
  OBVIOUS
<1>2. SubSeq(tw, k, Len(tw)) = <<>>
  BY <1>1, SubSeqEmpty
<1> QED BY <1>2, FlattenSmall

\* Refilling the spare buffers keeps the invariant.
LEMMA RefillStep ==
  ASSUME LogInv, Refill
  PROVE  LogInv'
<1>1. /\ Alive /\ pc = "write" /\ i > Len(toWrite) /\ buffer1' = TRUE /\ buffer2' = TRUE /\ toWrite' = <<>>
      /\ output' = FileFlush(output) /\ pc' = "loop"
      /\ UNCHANGED <<running, latch, owner, current, next, buffers, i, sent, log, lost, first, deaths, now>>
  BY DEF Refill
<1>2. LogTypeOK /\ FileInv /\ i \in Nat \ {0} /\ toWrite \in Seq(Seq(Rec)) /\ Len(toWrite) \in Nat
  BY DEF LogInv, FileInv, LogTypeOK
<1>3. /\ output' \in Outputs /\ FilesSound(output') /\ FirstFile' /\ LinkKept'
      /\ Written' = Written
  BY <1>1, <1>2, FlushStep
<1>4. toWrite' \in Seq(Seq(Rec)) /\ Len(toWrite') = 0
  BY <1>1
<1>5. LogTypeOK'
  BY <1>1, <1>2, <1>3, <1>4 DEF LogTypeOK
<1>6. SpareBuffersSuffice' /\ SpareGiven' /\ LoopIndex' /\ RecordsKnown'
  <2>1. SpareBuffersSuffice' /\ LoopIndex'
    BY <1>1 DEF SpareBuffersSuffice, LoopIndex
  <2>2. SpareGiven' /\ RecordsKnown'
    BY <1>1 DEF LogInv, SpareGiven, RecordsKnown, Known
  <2> QED BY <2>1, <2>2
<1>7. Path' = Path
  <2>1. Writing = <<>>
    BY <1>1, <1>2, NothingWriting DEF Writing
  <2>2. Writing' = <<>>
    <3>1. i' \in Nat /\ i' > Len(toWrite')
      BY <1>1, <1>2, <1>4
    <3> QED BY <1>4, <3>1, NothingWriting DEF Writing
  <2>3. Waiting' = Waiting
    BY <1>1 DEF Waiting
  <2> QED BY <1>3, <2>1, <2>2, <2>3 DEF Path
<1>8. PathAccounts'
  BY <1>1, <1>7 DEF LogInv, PathAccounts, Alive
<1>s. NotStarted'
  BY <1>1 DEF LogInv, NotStarted
<1> QED BY <1>3, <1>5, <1>6, <1>8, <1>s DEF LogInv, FileInv

\* The last flush keeps the invariant.
LEMMA FinalFlushStep ==
  ASSUME LogInv, FinalFlush
  PROVE  LogInv'
<1>1. /\ Alive /\ pc = "final" /\ output' = FileFlush(output) /\ pc' = "done"
      /\ UNCHANGED <<running, latch, owner, memory, sent, log, lost, first, deaths, now>>
  BY DEF FinalFlush
<1>2. LogTypeOK /\ FileInv
  BY DEF LogInv, FileInv
<1>3. /\ output' \in Outputs /\ FilesSound(output') /\ FirstFile' /\ LinkKept'
      /\ Written' = Written
  BY <1>1, <1>2, FlushStep
<1>4. LogTypeOK'
  BY <1>1, <1>2, <1>3 DEF LogTypeOK, memory
<1>5. SpareBuffersSuffice' /\ SpareGiven' /\ LoopIndex' /\ RecordsKnown'
  BY <1>1 DEF LogInv, SpareBuffersSuffice, SpareGiven, LoopIndex, RecordsKnown, Known, memory
<1>6. Path' = Path
  BY <1>1, <1>3 DEF Path, Writing, Waiting, memory
<1>7. PathAccounts'
  BY <1>1, <1>6 DEF LogInv, PathAccounts, Alive
<1>s. NotStarted'
  BY <1>1 DEF LogInv, NotStarted
<1> QED BY <1>3, <1>4, <1>5, <1>7, <1>s DEF LogInv, FileInv

\* The start of ThreadMain keeps the invariant.
LEMMA ThreadBeginStep ==
  ASSUME LogInv, NEW upto \in 1 .. 4, ThreadBegin(upto)
  PROVE  LogInv'
<1>1. FileInv' /\ Written' = Written
  BY BeginStep DEF LogInv
<1>2. /\ Alive /\ pc = "spawned" /\ pc' \in {"spawned", "loop"}
      /\ UNCHANGED <<memory, sent, log, lost, now>>
  BY DEF ThreadBegin
<1>3. SpareBuffersSuffice' /\ SpareGiven' /\ LoopIndex' /\ RecordsKnown'
  BY <1>2 DEF LogInv, SpareBuffersSuffice, SpareGiven, LoopIndex, RecordsKnown, Known, memory
<1>4. Path' = Path
  BY <1>1, <1>2 DEF Path, Writing, Waiting, memory
<1>5. PathAccounts'
  BY <1>2, <1>4 DEF LogInv, PathAccounts
<1>s. NotStarted'
  BY DEF LogInv, NotStarted, ThreadBegin
<1> QED BY <1>1, <1>3, <1>5, <1>s DEF LogInv

\* A path and a log that are empty account for each other.
LEMMA EmptyAccounts == \A R, N : Accounts(<<>>, <<>>, R, N)
BY WithoutEmpty DEF Accounts, Distinct

\* The path of a process that has logged nothing.
LEMMA EmptyPath ==
  ASSUME toWrite = <<>>, i = 1, buffers = <<>>, current = <<>>, Written = <<>>
  PROVE  Path = <<>>
<1>1. Writing = <<>>
  <2>1. toWrite \in Seq(Seq(Rec)) /\ i \in Nat /\ i > Len(toWrite)
    OBVIOUS
  <2> QED BY <2>1, NothingWriting DEF Writing
<1>2. Waiting = <<>>
  <2>1. Flatten(<<>>) \o <<>> = <<>>
    BY FlattenSmall
  <2> QED BY <2>1 DEF Waiting
<1> QED BY <1>1, <1>2 DEF Path, Join3

\* A new process starts with nothing in memory, nothing logged and no file.
LEMMA RestartStep ==
  ASSUME LogInv, Restart
  PROVE  LogInv'
<1>1. /\ running' = FALSE /\ latch' = FALSE /\ owner' = "new" /\ pc' = "off"
      /\ current' = <<>> /\ next' = TRUE /\ buffers' = <<>>
      /\ buffer1' = TRUE /\ buffer2' = TRUE /\ toWrite' = <<>> /\ i' = 1
      /\ log' = <<>> /\ lost' = {} /\ output' = NewLogFile(output) /\ first' = Len(output.files) + 1
      /\ UNCHANGED <<sent, deaths, now>>
  BY DEF Restart
<1>2. LogTypeOK
  BY DEF LogInv, FileInv
<1>3. /\ output' \in Outputs /\ FilesSound(output') /\ output'.files = output.files /\ output'.pending = <<>>
      /\ Disk(output', Len(output.files) + 1) = <<>> /\ Len(output.files) \in Nat
  BY <1>1, <1>2, NewLogFileIs
<1>4. /\ current' \in Seq(Rec) /\ buffers' \in Seq(Seq(Rec)) /\ toWrite' \in Seq(Seq(Rec))
      /\ log' \in Seq(Rec) /\ lost' \in SUBSET Rec
  BY <1>1
<1>5. LogTypeOK'
  <2>1. /\ running' \in BOOLEAN /\ latch' \in BOOLEAN
        /\ next' \in BOOLEAN /\ buffer1' \in BOOLEAN /\ buffer2' \in BOOLEAN
    BY <1>1, Zenon
  <2>2. i' = 1 /\ first' = Len(output.files) + 1
    BY <1>1
  <2>3. owner' = "new" /\ pc' = "off" /\ UNCHANGED <<sent, now>>
    BY <1>1
  <2>4. i' \in Nat \ {0} /\ first' \in Nat \ {0}
    BY <1>3, <2>2
  <2> QED BY <1>2, <1>3, <1>4, <2>1, <2>3, <2>4 DEF LogTypeOK
<1>6. FirstFile' /\ LinkKept'
  BY <1>1, <1>3 DEF FirstFile, LinkKept
<1>7. SpareBuffersSuffice' /\ SpareGiven' /\ LoopIndex'
  BY <1>1 DEF SpareBuffersSuffice, SpareGiven, LoopIndex
<1>8. RecordsKnown'
  <2>1. Range(<<>>) = {}
    BY DEF Range
  <2> QED BY <1>1, <2>1 DEF RecordsKnown
<1>9. PathAccounts'
  <2>1. Written' = <<>>
    BY <1>1, <1>3 DEF Written
  <2>2. Path' = <<>>
    <3>1. Writing' = <<>>
      <4>1. toWrite' \in Seq(Seq(Rec)) /\ i' \in Nat /\ i' > Len(toWrite')
        BY <1>1
      <4> QED BY <4>1, NothingWriting DEF Writing
    <3>2. Waiting' = <<>>
      <4>1. Flatten(<<>>) \o <<>> = <<>>
        BY FlattenSmall
      <4> QED BY <1>1, <4>1 DEF Waiting
    <3> QED BY <2>1, <3>1, <3>2 DEF Path, Join3
  <2> QED BY <1>1, <2>2, EmptyAccounts DEF PathAccounts
<1>s. NotStarted'
  BY <1>1 DEF NotStarted
<1> QED BY <1>5, <1>6, <1>7, <1>8, <1>9, <1>s DEF LogInv, FileInv

\* The invariant holds at first.
LEMMA LogInvInit == Init => LogInv
<1> SUFFICES ASSUME Init PROVE LogInv
  OBVIOUS
<1> DEFINE e == <<>>
           o == [files |-> e, link |-> 0, pending |-> e, written |-> 0,
                 count |-> 0, period |-> 0, roll |-> 0, flush |-> 0]
<1>1. /\ now = 1 /\ output = o /\ running = FALSE /\ latch = FALSE /\ owner = "new" /\ pc = "off"
      /\ current = <<>> /\ next = TRUE /\ buffers = <<>>
      /\ buffer1 = TRUE /\ buffer2 = TRUE /\ toWrite = <<>> /\ i = 1
      /\ log = <<>> /\ lost = {} /\ sent = [p \in Producers |-> 0] /\ first = 1
  BY DEF Init, InitFile
<1>2. e \in Seq(File) /\ e \in Seq(Rec) /\ Len(e) = 0 /\ 0 \in Nat
  OBVIOUS
<1> HIDE DEF e
<1>3. output \in Outputs /\ output.files = e /\ output.pending = e /\ output.link = 0
  <2>1. \A F, P, N : e \in F /\ e \in P /\ 0 \in N => o \in OutputsOf(F, P, N)
    BY DEF OutputsOf
  <2>2. o \in OutputsOf(Seq(File), Seq(Rec), Nat)
    BY <1>2, <2>1
  <2>3. o.files = e /\ o.pending = e /\ o.link = 0
    OBVIOUS
  <2> HIDE DEF o
  <2> QED BY <1>1, <2>2, <2>3 DEF Outputs
<1> HIDE DEF o
<1>4. FilesSound(output)
  BY <1>2, <1>3 DEF FilesSound
<1>5. LogTypeOK
  <2>1. /\ current \in Seq(Rec) /\ buffers \in Seq(Seq(Rec)) /\ toWrite \in Seq(Seq(Rec))
        /\ log \in Seq(Rec) /\ lost \in SUBSET Rec /\ sent \in [Producers -> Nat]
    BY <1>1
  <2>2. /\ running \in BOOLEAN /\ latch \in BOOLEAN
        /\ next \in BOOLEAN /\ buffer1 \in BOOLEAN /\ buffer2 \in BOOLEAN
    BY <1>1, Zenon
  <2>3. i = 1 /\ first = 1 /\ now = 1 /\ owner = "new" /\ pc = "off"
    BY <1>1
  <2>4. i \in Nat \ {0} /\ first \in Nat \ {0} /\ now \in Nat \ {0}
    BY <2>3
  <2> QED BY <1>3, <1>4, <2>1, <2>2, <2>3, <2>4 DEF LogTypeOK
<1>6. FirstFile /\ LinkKept
  <2>1. output.pending = <<>> /\ Len(output.files) = 0
    BY <1>2, <1>3 DEF e
  <2> QED BY <1>1, <2>1 DEF FirstFile, LinkKept
<1>7. SpareBuffersSuffice /\ SpareGiven /\ LoopIndex
  BY <1>1 DEF SpareBuffersSuffice, SpareGiven, LoopIndex
<1>8. RecordsKnown
  <2>1. Range(<<>>) = {}
    BY DEF Range
  <2> QED BY <1>1, <2>1 DEF RecordsKnown
<1>9. PathAccounts
  <2>1. Written = <<>>
    <3>1. Parts(e, 1) = <<>>
      <4>1. Len(e) - 1 + 1 = 0
        BY <1>2
      <4>2. Parts(e, 1) = [j \in 1 .. 0 |-> Holds(e[1 + j - 1])]
        BY <4>1 DEF Parts
      <4> QED BY <4>2
    <3>2. Disk(output, 1) = Flatten(Parts(e, 1)) \o e
      BY <1>3, DiskIs
    <3> QED BY <1>1, <3>1, <3>2, FlattenSmall DEF Written, e
  <2>2. Path = <<>>
    BY <1>1, <2>1, EmptyPath
  <2> QED BY <1>1, <2>2, EmptyAccounts DEF PathAccounts
<1>s. NotStarted
  BY <1>1 DEF NotStarted
<1> QED BY <1>5, <1>6, <1>7, <1>8, <1>9, <1>s DEF LogInv, FileInv

\* Every step keeps the invariant.
LEMMA LogInvStep == LogInv /\ [Next]_vars => LogInv'
<1> SUFFICES ASSUME LogInv, [Next]_vars PROVE LogInv'
  OBVIOUS
<1>0. LogTypeOK
  BY DEF LogInv, FileInv
<1>1. CASE UNCHANGED vars
  <2>1. Path' = Path
    BY <1>1 DEF Path, Written, Writing, Waiting, vars, memory
  <2>2. PathAccounts' /\ RecordsKnown'
    BY <1>1, <2>1 DEF LogInv, PathAccounts, Alive, RecordsKnown, Known, vars
  <2>3. FileInv'
    BY <1>1 DEF LogInv, FileInv, LogTypeOK, FirstFile, LinkKept, Current, Alive, vars, memory
  <2>4. SpareBuffersSuffice' /\ SpareGiven' /\ LoopIndex' /\ NotStarted'
    BY <1>1 DEF LogInv, SpareBuffersSuffice, Kept, SpareGiven, LoopIndex, NotStarted, vars, memory
  <2> QED BY <2>2, <2>3, <2>4 DEF LogInv
<1>2. CASE Start
  <2>1. /\ owner = "new" /\ pc' = "spawned" /\ owner' = "starting" /\ running' = TRUE
        /\ UNCHANGED <<latch, memory, sent, log, lost, first, now, output>>
    BY <1>2 DEF Start
  <2>2. pc = "off"
    BY <2>1 DEF LogInv, NotStarted
  <2> QED BY <1>0, <2>1, <2>2, ControlStep DEF LogTypeOK, Alive
<1>3. CASE StartReturns \/ Stop \/ StopNotify \/ StopJoin
  <2>1. /\ Alive /\ owner' \in {"started", "notifying", "joining", "joined"} /\ running' \in {running, FALSE}
        /\ UNCHANGED <<latch, pc, memory, sent, log, lost, first, now, output>>
    BY <1>3 DEF StartReturns, Stop, StopNotify, StopJoin, Alive
  <2> QED BY <1>0, <2>1, ControlStep DEF LogTypeOK
<1>4. CASE LoopTest \/ WaitEnds
  <2>1. /\ Alive /\ pc \in {"loop", "waiting"} /\ pc' \in {"final", "waiting", "swap"}
        /\ UNCHANGED <<running, latch, owner, memory, sent, log, lost, first, now, output>>
    BY <1>4 DEF LoopTest, WaitEnds
  <2>2. owner # "new"
    BY <2>1 DEF LogInv, NotStarted
  <2> QED BY <1>0, <2>1, <2>2, ControlStep DEF LogTypeOK, Alive
<1>5. CASE KeepBacklog
  <2>1. /\ Alive /\ pc = "check" /\ pc' = "write"
        /\ UNCHANGED <<running, latch, owner, memory, sent, log, lost, first, now, output>>
    BY <1>5 DEF KeepBacklog
  <2>2. owner # "new"
    BY <2>1 DEF LogInv, NotStarted
  <2> QED BY <1>0, <2>1, <2>2, ControlStep DEF LogTypeOK, Alive
<1>6. CASE Clock
  <2>1. /\ Alive /\ now' = now + 1
        /\ UNCHANGED <<running, latch, owner, pc, memory, sent, log, lost, first, output>>
    BY <1>6 DEF Clock, Tick
  <2>2. now' \in Nat \ {0}
    BY <1>0, <2>1 DEF LogTypeOK
  <2> QED BY <1>0, <2>1, <2>2, ControlStep DEF LogTypeOK, Alive
<1>7. CASE \E p \in Producers, len \in Lens, fatal \in BOOLEAN : LogMessageDtor(p, len, fatal)
  BY <1>7, LogMessageStep
<1>8. CASE Swap
  BY <1>8, SwapStep
<1>9. CASE Refill
  BY <1>9, RefillStep
<1>10. CASE FinalFlush
  BY <1>10, FinalFlushStep
<1>11. CASE Restart
  BY <1>11, RestartStep
<1>12. CASE \E upto \in 1 .. 4 : ThreadBegin(upto) \/ DropBacklog(upto) \/ WriteBuffer(upto)
  BY <1>12, ThreadBeginStep, DropBacklogStep, WriteBufferStep
<1>13. (\E upto \in 1 .. 3 : ThreadBegin(upto) \/ DropBacklog(upto) \/ WriteBuffer(upto))
       \/ ThreadBegin(4) \/ DropBacklog(4) \/ WriteBuffer(4)
       => \E upto \in 1 .. 4 : ThreadBegin(upto) \/ DropBacklog(upto) \/ WriteBuffer(upto)
  <2>1. 4 \in 1 .. 4 /\ \A u \in 1 .. 3 : u \in 1 .. 4
    OBVIOUS
  <2> QED BY <2>1, Zenon
<1> QED BY <1>1, <1>2, <1>3, <1>4, <1>5, <1>6, <1>7, <1>8, <1>9, <1>10, <1>11, <1>12, <1>13 DEF Next, Main

\* The inductive invariant of the logger.
LEMMA LogInvariant == Spec => []LogInv
BY LogInvInit, LogInvStep, PTL DEF Spec

-----------------------------------------------------------------------------
(* The theorems *)

\* ThreadMain's assertions before each pop_back never fail: whenever the spare
\* buffers are refilled there are written buffers enough, also after a backlog
\* was dropped.
THEOREM SpareBuffersAlwaysSuffice == Spec => []SpareBuffersSuffice
<1>1. LogInv => SpareBuffersSuffice
  BY DEF LogInv
<1> QED BY <1>1, LogInvariant, PTL

\* What a step does to a link that dangles, or makes it dangle.
DanglesStep == /\ Dangles(output) => Dangles(output')
               /\ deaths' \in {deaths, deaths + 1}
               /\ Dangles(output') => Dangles(output) \/ deaths' = deaths + 1

\* A process that is killed inside RollFile has died.
LEMMA SettleDies ==
  ASSUME NEW upto \in 1 .. 4, NEW there, Settle(upto, there)
  PROVE  deaths' \in {deaths, deaths + 1} /\ (upto # 4 => deaths' = deaths + 1)
BY DEF Settle

LEMMA Dangling == LogInv /\ [Next]_vars => DanglesStep
<1> SUFFICES ASSUME LogInv, [Next]_vars PROVE DanglesStep
  OBVIOUS
<1>0. LogTypeOK /\ FirstFile /\ output \in Outputs /\ FilesSound(output) /\ now \in Nat /\ now > 0
  BY DEF LogInv, FileInv, LogTypeOK
<1>t. output.files \in Seq(File) /\ Len(output.files) \in Nat /\ output.link \in Nat
  BY <1>0 DEF Outputs, OutputsOf
<1>l. output.link # 0 => output.link \in 1 .. Len(output.files)
  BY <1>0, <1>t DEF FilesSound
<1>1. ASSUME UNCHANGED output, deaths' \in {deaths, deaths + 1} PROVE DanglesStep
  BY <1>1 DEF DanglesStep
<1>2. ASSUME output' = FileFlush(output), UNCHANGED deaths, Alive, pc \notin {"off", "spawned"}
      PROVE  DanglesStep
  <2>1. first \in 1 .. Len(output.files) + 1 /\ first <= Len(output.files)
    BY <1>0, <1>t, <1>2 DEF FirstFile, LogTypeOK
  <2>2. Adds(output', output, first, <<>>)
    BY <1>0, <1>2, <2>1, FlushKeeps
  <2>3. Dangles(output') <=> Dangles(output)
    BY <1>l, <2>2 DEF Adds, Dangles
  <2> QED BY <1>2, <2>3 DEF DanglesStep
<1>3. CASE Restart
  <2>1. output'.files = output.files /\ output'.link = output.link /\ UNCHANGED deaths
    BY <1>0, <1>3, NewLogFileIs DEF Restart
  <2> QED BY <2>1 DEF DanglesStep, Dangles
<1>4. ASSUME NEW upto \in 1 .. 4, ThreadBegin(upto) PROVE DanglesStep
  <2>1. PICK m : m = NewLogFile(output)
    OBVIOUS
  <2>2. /\ m \in Outputs /\ FilesSound(m) /\ m.files = output.files /\ m.pending = <<>> /\ m.roll = 0
        /\ m.link = output.link
    BY <1>0, <2>1, NewLogFileIs
  <2>3. output' = RollFile(m, now, upto)
    BY <1>4, <2>1 DEF ThreadBegin
  <2>4. Len(m.files) + 1 \in 1 .. Len(m.files) + 1 /\ now > m.roll
    BY <1>0, <1>t, <2>2
  <2>5. DanglesStill(output', m, upto)
    BY <1>0, <2>2, <2>3, <2>4, RollKeeps
  <2>6. Dangles(m) <=> Dangles(output)
    BY <2>2 DEF Dangles
  <2>7. deaths' \in {deaths, deaths + 1} /\ (upto # 4 => deaths' = deaths + 1)
    BY <1>4 DEF ThreadBegin
  <2> QED BY <2>5, <2>6, <2>7 DEF DanglesStep, DanglesStill
<1>5. ASSUME NEW upto \in 1 .. 4, NEW data \in Seq(Rec), NEW n \in 0 .. Len(data), NEW spill \in BOOLEAN,
             Alive, pc \in {"check", "write"}, output' = AppendUnLocked(output, data, n, spill, now, upto),
             NEW there, Settle(upto, there)
      PROVE  DanglesStep
  <2>1. first \in 1 .. Len(output.files)
    BY <1>0, <1>t, <1>5 DEF FirstFile, LogTypeOK
  <2>2. DanglesStill(output', output, upto)
    BY <1>0, <1>5, <2>1, AppendWrites DEF Writes
  <2>3. deaths' \in {deaths, deaths + 1} /\ (upto # 4 => deaths' = deaths + 1)
    BY <1>5, SettleDies
  <2> QED BY <2>2, <2>3 DEF DanglesStep, DanglesStill
<1>6. ASSUME NEW upto \in 1 .. 4, DropBacklog(upto) PROVE DanglesStep
  <2>1. PICK spill \in BOOLEAN : output' = AppendUnLocked(output, <<NoticeLine>>, 1, spill, now, upto)
    BY <1>6 DEF DropBacklog
  <2>2. <<NoticeLine>> \in Seq(Rec) /\ 1 \in 0 .. Len(<<NoticeLine>>)
    <3>1. NoticeLine \in Rec
      BY DEF NoticeLine, Rec, Sources
    <3> QED BY <3>1
  <2>3. Alive /\ pc = "check" /\ Settle(upto, "write")
    BY <1>6 DEF DropBacklog
  <2> QED BY <1>5, <2>1, <2>2, <2>3
<1>7. ASSUME NEW upto \in 1 .. 4, WriteBuffer(upto) PROVE DanglesStep
  <2>1. Alive /\ pc = "write" /\ i <= Len(toWrite) /\ Settle(upto, "write") /\ Output(toWrite[i], upto)
    BY <1>7 DEF WriteBuffer
  <2>2. PICK data : data = toWrite[i]
    OBVIOUS
  <2>3. data \in Seq(Rec) /\ Len(data) \in Nat
    <3>1. toWrite \in Seq(Seq(Rec)) /\ i \in 1 .. Len(toWrite)
      BY <1>0, <2>1 DEF LogTypeOK
    <3>2. toWrite[i] \in Seq(Rec)
      BY <3>1
    <3> QED BY <2>2, <3>2
  <2>4. \E n \in 0 .. Len(data), spill \in BOOLEAN : output' = AppendUnLocked(output, data, n, spill, now, upto)
    <3>1. CASE \E spill \in BOOLEAN : output' = AppendUnLocked(output, data, Len(data), spill, now, upto)
      <4>1. Len(data) \in 0 .. Len(data)
        BY <2>3
      <4> QED BY <3>1, <4>1
    <3>2. CASE \E n \in 0 .. Len(data) - 1 : output' = AppendUnLocked(output, data, n, FALSE, now, upto)
      <4>1. \A n \in 0 .. Len(data) - 1 : n \in 0 .. Len(data)
        BY <2>3
      <4> QED BY <3>2, <4>1
    <3> QED BY <2>1, <2>2, <3>1, <3>2 DEF Output
  <2> QED BY <1>5, <2>1, <2>3, <2>4
<1>8. CASE UNCHANGED vars
  BY <1>1, <1>8 DEF vars
<1>9. CASE \/ Start \/ StartReturns \/ Stop \/ StopNotify \/ StopJoin
           \/ LoopTest \/ WaitEnds \/ Swap \/ KeepBacklog \/ Clock
  <2>1. UNCHANGED <<output, deaths>>
    BY <1>9 DEF Start, StartReturns, Stop, StopNotify, StopJoin, LoopTest, WaitEnds, Swap, KeepBacklog, Clock
  <2> QED BY <1>1, <2>1
<1>10. ASSUME NEW p \in Producers, NEW len \in Lens, NEW fatal \in BOOLEAN, LogMessageDtor(p, len, fatal)
       PROVE  DanglesStep
  BY <1>1, <1>10 DEF LogMessageDtor
<1>11. CASE Refill
  BY <1>2, <1>11 DEF Refill
<1>12. CASE FinalFlush
  BY <1>2, <1>12 DEF FinalFlush
<1>13. CASE ThreadBegin(4) \/ DropBacklog(4) \/ WriteBuffer(4)
  <2>1. 4 \in 1 .. 4
    OBVIOUS
  <2> QED BY <1>4, <1>6, <1>7, <1>13, <2>1
<1>14. ASSUME NEW upto \in 1 .. 3, ThreadBegin(upto) \/ DropBacklog(upto) \/ WriteBuffer(upto)
       PROVE  DanglesStep
  <2>1. upto \in 1 .. 4
    OBVIOUS
  <2> QED BY <1>4, <1>6, <1>7, <1>14, <2>1
<1> QED BY <1>3, <1>8, <1>9, <1>10, <1>11, <1>12, <1>13, <1>14 DEF Next, Main

\* The link base.log of a running logger names the newest file, or a deleted one,
\* never an older file that exists; and it names a deleted one only once some
\* process has died between RollFile's deletions of a file and of the link.
THEOREM LinkStaysFresh == Spec => []LinkNeverStale
<1> DEFINE Died == deaths \in Nat /\ (Dangles(output) => deaths > 0)
<1>1. Init => Died
  BY DEF Init, InitFile, Dangles
<1>2. Died /\ DanglesStep => Died'
  BY DEF DanglesStep
<1>3. LogInv /\ Died => LinkNeverStale
  BY DEF LogInv, FileInv, LinkKept, LinkNeverStale, Dangles
<1> HIDE DEF Died
<1> QED BY <1>1, <1>2, <1>3, Dangling, LogInvariant, PTL DEF Spec

\* What the exception of LinkNeverStale costs: RollFile never repairs a link that
\* dangles, in this process or in a later one, for FileExists does not see it and
\* SymLink fails on it.
THEOREM DanglingLinkStays == Spec => [][Dangles(output) => Dangles(output')]_vars
<1>1. LogInv /\ [Next]_vars => (Dangles(output) => Dangles(output'))
  BY Dangling DEF DanglesStep
<1> QED BY <1>1, LogInvariant, PTL DEF Spec

\* No record is lost, doubled or reordered between Logger::Append and the disk,
\* except those the code says it drops or fails to write: for any number of
\* producers, records, buffers, failing writes and deaths, and any sizes.
THEOREM NothingIsLost == Spec => []NothingLostInOrder
<1>1. ASSUME LogInv PROVE NothingLostInOrder
  <2> SUFFICES ASSUME Alive
               PROVE  Without(OnDisk(output, first) \o output.pending
                              \o Flatten(SubSeq(toWrite, i, Len(toWrite)))
                              \o Flatten(buffers) \o current, {NoticeLine}) = Without(log, lost)
    BY DEF NothingLostInOrder
  <2> DEFINE dw == Written \o Writing
             b == Flatten(buffers)
             c == current
  <2>1. LogTypeOK /\ FirstFile
    BY <1>1 DEF LogInv, FileInv
  <2>2. Written \in Seq(Rec) /\ Writing \in Seq(Rec) /\ c \in Seq(Rec) /\ buffers \in Seq(Seq(Rec))
    BY <2>1, PathType DEF LogTypeOK
  <2>3. dw \in Seq(Rec) /\ b \in Seq(Rec)
    BY <2>2, ConcatProperties, FlattenAppend
  <2>4. Path = dw \o (b \o c)
    BY DEF Path, Join3, Waiting
  <2>5. OnDisk(output, first) \o output.pending \o Flatten(SubSeq(toWrite, i, Len(toWrite)))
        \o Flatten(buffers) \o current = (dw \o b) \o c
    BY DEF Written, Writing, Disk
  <2> HIDE DEF dw, b, c
  <2>6. (dw \o b) \o c = dw \o (b \o c)
    BY <2>2, <2>3, RegroupRight DEF Join3
  <2>7. Without(Path, {NoticeLine}) = Without(log, lost)
    BY <1>1 DEF LogInv, PathAccounts, Accounts
  <2> QED BY <2>4, <2>5, <2>6, <2>7
<1> QED BY <1>1, LogInvariant, PTL

-----------------------------------------------------------------------------
(* FileUtil: whose descriptors and locks are open, for any threads and paths *)

Kinds == {"none", "sequential", "random", "writable", "sizing", "locking", "lock",
          "writing", "written", "closed", "reading"}
Uses(t) == obj[t].kind \notin {"none", "closed"}

FilesTypeOK ==
    /\ inodes \in 0 .. MaxInode
    /\ dir \in [Paths -> [kind : {"none", "file", "link", "dir"}, ino : 0 .. MaxInode,
                          to : Paths \cup {"none"}]]
    /\ \A n \in Paths : /\ dir[n].kind = "file" => dir[n].ino # 0
                        /\ dir[n].kind = "link" => dir[n].to \in Paths
    /\ fds \in [FdNos -> 0 .. MaxInode]
    /\ flocks \in [1 .. MaxInode -> 0 .. MaxFd]
    /\ obj \in [FThreads -> [kind : Kinds, fd : 0 .. MaxFd, path : Paths \cup {"none"},
                             buf : Int, written : Int, s : {"kOk", "kIOError"}]]

\* A descriptor in use is open, and nobody else's.
UsedOpen ==
    \A t \in FThreads :
       Uses(t) => /\ obj[t].fd \in FdNos /\ fds[obj[t].fd] # 0
                  /\ \A s \in FThreads : Uses(s) /\ obj[s].fd = obj[t].fd => s = t

\* An open descriptor is in use.
OpenUsed == \A d \in FdNos : fds[d] # 0 => \E t \in FThreads : Uses(t) /\ obj[t].fd = d

\* The flock of a file is held by the descriptor of the lock on it.
LocksHeld ==
    /\ \A t \in FThreads : obj[t].kind = "lock" => flocks[fds[obj[t].fd]] = obj[t].fd
    /\ \A nd \in 1 .. MaxInode : flocks[nd] # 0 =>
          \E t \in FThreads : obj[t].kind = "lock" /\ obj[t].fd = flocks[nd] /\ fds[obj[t].fd] = nd

FilesInv == FilesTypeOK /\ UsedOpen /\ OpenUsed /\ LocksHeld

-----------------------------------------------------------------------------
\* The kernel finds the lowest free descriptor when there is a free one.
LEMMA FreeIsFree == HasFree => Free \in FdNos /\ fds[Free] = 0
<1> SUFFICES ASSUME HasFree PROVE Free \in FdNos /\ fds[Free] = 0
  OBVIOUS
<1> DEFINE S == {d \in FdNos : fds[d] = 0}
<1>1. IsWellFoundedOn(OpToRel(<, Nat), Nat)
  BY NatLessThanWellFounded
<1>2. S \in SUBSET Nat /\ S # {}
  BY FilesAssumption DEF FdNos, HasFree
<1>3. PICK x \in S : \A y \in S : ~ (<<y, x>> \in OpToRel(<, Nat))
  BY <1>1, <1>2, WFMin, Zenon
<1>4. \A y \in S : ~ (y < x)
  BY <1>2, <1>3 DEF OpToRel
<1>5. x \in FdNos /\ fds[x] = 0 /\ \A e \in 1 .. x - 1 : fds[e] # 0
  BY <1>4, FilesAssumption DEF FdNos
<1> QED BY <1>5 DEF Free

\* A call that only works on names leaves the descriptors and their users alone.
LEMMA NamesOnly ==
    ASSUME FilesInv, UNCHANGED <<inodes, fds, flocks>>,
           obj' \in [FThreads -> [kind : Kinds, fd : 0 .. MaxFd, path : Paths \cup {"none"},
                             buf : Int, written : Int, s : {"kOk", "kIOError"}]],
           \A t \in FThreads : obj'[t].fd = obj[t].fd,
           \A t \in FThreads : Uses(t)' <=> Uses(t),
           \A t \in FThreads : obj'[t].kind = "lock" <=> obj[t].kind = "lock",
           dir' \in [Paths -> [kind : {"none", "file", "link", "dir"}, ino : 0 .. MaxInode,
                          to : Paths \cup {"none"}]],
           \A n \in Paths : /\ dir'[n].kind = "file" => dir'[n].ino # 0
                            /\ dir'[n].kind = "link" => dir'[n].to \in Paths
    PROVE  FilesInv'
<1>1. FilesTypeOK'
  BY DEF FilesInv, FilesTypeOK
<1>2. UsedOpen' /\ OpenUsed'
  BY DEF FilesInv, UsedOpen, OpenUsed
<1>3. LocksHeld'
  BY DEF FilesInv, LocksHeld
<1> QED BY <1>1, <1>2, <1>3 DEF FilesInv

\* open hands out a descriptor that nobody uses.
LEMMA OpenKeeps ==
    ASSUME FilesInv, NEW t \in FThreads, NEW n \in Paths, NEW kind \in Kinds \ {"none", "closed", "lock"},
           NEW create, NEW truncate, Open(t, n, kind, create, truncate)
    PROVE  FilesInv'
<1> USE FilesAssumption
<1> DEFINE d == Free
<1>1. /\ d \in FdNos /\ fds[d] = 0
      /\ obj[t].kind = "none" /\ UNCHANGED flocks
      /\ obj' = [obj EXCEPT ![t] = [kind |-> kind, fd |-> d, path |-> n,
                                    buf |-> 0, written |-> 0, s |-> "kOk"]]
  BY FreeIsFree DEF Open, Make, Nothing
<1>2. PICK nd \in 1 .. MaxInode :
        /\ fds' = [fds EXCEPT ![d] = nd]
        /\ inodes' \in 0 .. MaxInode
        /\ \/ dir' = dir
           \/ \E p \in Paths : dir' = [dir EXCEPT ![p] = [kind |-> "file", ino |-> nd, to |-> "none"]]
  <2>1. CASE /\ At(n).kind = "file" /\ fds' = [fds EXCEPT ![Free] = At(n).ino]
             /\ UNCHANGED <<dir, inodes>>
    <3>1. At(n).ino \in 1 .. MaxInode
      BY <2>1 DEF At, FilesInv, FilesTypeOK, Absent
    <3> QED BY <2>1, <3>1 DEF FilesInv, FilesTypeOK
  <2>2. CASE /\ At(n).kind = "none" /\ inodes < MaxInode
             /\ LET p == IF dir[n].kind = "link" THEN dir[n].to ELSE n
                IN  /\ dir[p].kind = "none"
                    /\ dir' = [dir EXCEPT ![p] = [kind |-> "file", ino |-> inodes + 1, to |-> "none"]]
             /\ fds' = [fds EXCEPT ![Free] = inodes + 1]
             /\ inodes' = inodes + 1
    <3>1. inodes + 1 \in 1 .. MaxInode
      BY <2>2 DEF FilesInv, FilesTypeOK
    <3>2. (IF dir[n].kind = "link" THEN dir[n].to ELSE n) \in Paths
      BY DEF FilesInv, FilesTypeOK
    <3>3. inodes' \in 0 .. MaxInode
      BY <2>2, <3>1
    <3>4. \E p \in Paths : dir' = [dir EXCEPT ![p] = [kind |-> "file", ino |-> inodes + 1, to |-> "none"]]
      BY <2>2, <3>2
    <3>5. fds' = [fds EXCEPT ![d] = inodes + 1]
      BY <2>2
    <3> QED BY <3>1, <3>3, <3>4, <3>5
  <2> QED BY <2>1, <2>2 DEF Open
<1> HIDE DEF d
<1>o. /\ obj'[t].kind = kind /\ obj'[t].fd = d
      /\ \A s \in FThreads : s # t => obj'[s] = obj[s]
  BY <1>1 DEF FilesInv, FilesTypeOK, Nothing
<1>f. fds'[d] = nd /\ \A e \in FdNos : e # d => fds'[e] = fds[e]
  BY <1>1, <1>2 DEF FilesInv, FilesTypeOK
<1>3. FilesTypeOK'
  <2>1. fds' \in [FdNos -> 0 .. MaxInode]
    BY <1>1, <1>2 DEF FilesInv, FilesTypeOK
  <2>2. obj' \in [FThreads -> [kind : Kinds, fd : 0 .. MaxFd, path : Paths \cup {"none"},
                             buf : Int, written : Int, s : {"kOk", "kIOError"}]]
    BY <1>1 DEF FilesInv, FilesTypeOK, FdNos
  <2>3. /\ dir' \in [Paths -> [kind : {"none", "file", "link", "dir"}, ino : 0 .. MaxInode,
                          to : Paths \cup {"none"}]]
        /\ \A m \in Paths : /\ dir'[m].kind = "file" => dir'[m].ino # 0
                            /\ dir'[m].kind = "link" => dir'[m].to \in Paths
    <3>1. CASE dir' = dir
      BY <3>1 DEF FilesInv, FilesTypeOK
    <3>2. ASSUME NEW p \in Paths, dir' = [dir EXCEPT ![p] = [kind |-> "file", ino |-> nd, to |-> "none"]]
          PROVE  <2>3!1 /\ <2>3!2
      BY <3>2 DEF FilesInv, FilesTypeOK
    <3> QED BY <3>1, <3>2, <1>2
  <2> QED BY <2>1, <2>2, <2>3, <1>1, <1>2 DEF FilesInv, FilesTypeOK
<1>4. UsedOpen'
  <2>1. ASSUME NEW s \in FThreads, s # t, Uses(s)
        PROVE  obj[s].fd # d /\ obj[s].fd \in FdNos /\ fds'[obj[s].fd] # 0
    BY <2>1, <1>1, <1>f DEF FilesInv, UsedOpen
  <2> QED BY <2>1, <1>o, <1>f, <1>1, <1>2 DEF FilesInv, UsedOpen, Uses
<1>5. OpenUsed'
  BY <1>o, <1>f, <1>1 DEF FilesInv, OpenUsed, Uses
<1>6. LocksHeld'
  <2>1. ASSUME NEW s \in FThreads, obj[s].kind = "lock"
        PROVE  obj'[s] = obj[s] /\ fds'[obj[s].fd] = fds[obj[s].fd]
    BY <2>1, <1>1, <1>o, <1>f DEF FilesInv, UsedOpen, Uses
  <2> QED BY <2>1, <1>o, <1>1 DEF FilesInv, LocksHeld
<1> QED BY <1>3, <1>4, <1>5, <1>6 DEF FilesInv

\* close by the one user of a descriptor.
LEMMA CloseKeeps ==
    ASSUME FilesInv, NEW t \in FThreads, Uses(t), Closed(obj[t].fd), UNCHANGED <<dir, inodes>>,
           obj'[t].kind \in {"none", "closed"}, 
           \A s \in FThreads : s # t => obj'[s] = obj[s],
           obj' \in [FThreads -> [kind : Kinds, fd : 0 .. MaxFd, path : Paths \cup {"none"},
                             buf : Int, written : Int, s : {"kOk", "kIOError"}]]
    PROVE  FilesInv'
<1> USE FilesAssumption
<1> DEFINE d == obj[t].fd
<1>1. d \in FdNos /\ fds[d] # 0 /\ \A s \in FThreads : Uses(s) /\ s # t => obj[s].fd # d
  BY DEF FilesInv, UsedOpen
<1>2. /\ fds' \in [FdNos -> 0 .. MaxInode] /\ fds'[d] = 0
      /\ \A e \in FdNos : e # d => fds'[e] = fds[e]
  BY <1>1 DEF Closed, FilesInv, FilesTypeOK
<1>3. /\ flocks' \in [1 .. MaxInode -> 0 .. MaxFd]
      /\ \A nd \in 1 .. MaxInode : flocks'[nd] = IF flocks[nd] = d THEN 0 ELSE flocks[nd]
  BY DEF Closed, FilesInv, FilesTypeOK
<1> HIDE DEF d
<1>4. FilesTypeOK'
  BY <1>2, <1>3 DEF FilesInv, FilesTypeOK
<1>5. ASSUME NEW s \in FThreads, Uses(s)'
      PROVE  s # t /\ Uses(s) /\ obj'[s] = obj[s] /\ obj[s].fd # d /\ obj[s].fd \in FdNos
             /\ fds'[obj[s].fd] = fds[obj[s].fd] /\ fds[obj[s].fd] # 0
  BY <1>5, <1>1, <1>2 DEF Uses, FilesInv, UsedOpen
<1>6. UsedOpen'
  BY <1>5 DEF FilesInv, UsedOpen
<1>7. OpenUsed'
  BY <1>1, <1>2, <1>5 DEF FilesInv, OpenUsed, Uses, d
<1>8. LocksHeld'
  <2>1. ASSUME NEW s \in FThreads, obj'[s].kind = "lock"
        PROVE  flocks'[fds'[obj'[s].fd]] = obj'[s].fd
    <3>1. Uses(s)'
      BY <2>1 DEF Uses
    <3>2. /\ obj'[s] = obj[s] /\ obj[s].fd # d /\ fds'[obj[s].fd] = fds[obj[s].fd]
          /\ fds[obj[s].fd] # 0 /\ obj[s].fd \in FdNos
      BY <3>1, <1>5
    <3>3. fds[obj[s].fd] \in 1 .. MaxInode /\ flocks[fds[obj[s].fd]] = obj[s].fd
      BY <3>2, <2>1 DEF FilesInv, LocksHeld, FilesTypeOK
    <3> QED BY <3>2, <3>3, <1>3
  <2>2. ASSUME NEW nd \in 1 .. MaxInode, flocks'[nd] # 0
        PROVE  \E s \in FThreads : obj'[s].kind = "lock" /\ obj'[s].fd = flocks'[nd] /\ fds'[obj'[s].fd] = nd
    <3>1. flocks[nd] # 0 /\ flocks[nd] # d /\ flocks'[nd] = flocks[nd]
      BY <2>2, <1>3
    <3>2. PICK s \in FThreads : obj[s].kind = "lock" /\ obj[s].fd = flocks[nd] /\ fds[obj[s].fd] = nd
      BY <3>1 DEF FilesInv, LocksHeld
    <3>3. s # t /\ obj'[s] = obj[s] /\ obj[s].fd \in FdNos
      BY <3>1, <3>2 DEF d, FilesInv, UsedOpen, Uses
    <3> QED BY <3>1, <3>2, <3>3, <1>2
  <2> QED BY <2>1, <2>2 DEF LocksHeld
<1> QED BY <1>4, <1>6, <1>7, <1>8 DEF FilesInv

-----------------------------------------------------------------------------
\* Every step keeps the invariant, up to the second fclose of a FILE.
LEMMA FilesStep == (~doubled => FilesInv) /\ [NextFiles]_fileVars => (~doubled => FilesInv)'
<1> SUFFICES ASSUME ~doubled => FilesInv, [NextFiles]_fileVars, ~doubled'
             PROVE  FilesInv'
  OBVIOUS
<1> USE FilesAssumption
<1>1. CASE UNCHANGED fileVars
  <2>1. UNCHANGED <<dir, inodes, fds, flocks, obj, doubled>>
    BY <1>1 DEF fileVars
  <2>2. FilesInv
    BY <2>1
  <2> QED BY <2>1, <2>2, NamesOnly DEF FilesInv, FilesTypeOK, Uses
<1> SUFFICES ASSUME NextFiles, ~doubled, FilesInv PROVE FilesInv'
  BY <1>1 DEF NextFiles
<1> DEFINE Objects == [kind : Kinds, fd : 0 .. MaxFd, path : Paths \cup {"none"},
                       buf : Int, written : Int, s : {"kOk", "kIOError"}]
           Entries == [kind : {"none", "file", "link", "dir"}, ino : 0 .. MaxInode, to : Paths \cup {"none"}]
<1>o. obj \in [FThreads -> Objects] /\ Nothing \in Objects /\ Nothing.kind = "none"
  BY DEF FilesInv, FilesTypeOK, Nothing, Kinds
<1>d. /\ dir \in [Paths -> Entries] /\ Absent \in Entries
      /\ \A n \in Paths : /\ dir[n].kind = "file" => dir[n].ino # 0
                          /\ dir[n].kind = "link" => dir[n].to \in Paths
  BY DEF FilesInv, FilesTypeOK, Absent
<1>k. ASSUME NEW t \in FThreads, NEW kind \in Kinds, obj[t].kind = kind, kind \notin {"none", "closed"}
      PROVE  Uses(t)
  BY <1>k DEF Uses
\* A user of a descriptor closes it and has nothing left.
<1>c. ASSUME NEW t \in FThreads, Uses(t), Closed(obj[t].fd), UNCHANGED <<dir, inodes>>,
             obj' = [obj EXCEPT ![t] = Nothing]
      PROVE  FilesInv'
  <2>1. /\ obj'[t] = Nothing /\ \A s \in FThreads : s # t => obj'[s] = obj[s]
        /\ obj' \in [FThreads -> Objects]
    BY <1>c, <1>o
  <2> QED BY <1>c, <2>1, <1>o, CloseKeeps
\* The object of a thread stays one of the same descriptor.
<1>s. ASSUME NEW t \in FThreads, NEW r \in Objects, Uses(t), obj[t].kind # "lock",
             r.kind \notin {"none", "closed", "lock"}, r.fd = obj[t].fd,
             obj' = [obj EXCEPT ![t] = r], UNCHANGED <<dir, inodes, fds, flocks>>
      PROVE  FilesInv'
  <2>1. /\ obj'[t] = r /\ \A s \in FThreads : s # t => obj'[s] = obj[s]
        /\ obj' \in [FThreads -> Objects]
    BY <1>s, <1>o
  <2>2. \A s \in FThreads : /\ obj'[s].fd = obj[s].fd /\ (Uses(s)' <=> Uses(s))
                            /\ (obj'[s].kind = "lock" <=> obj[s].kind = "lock")
    BY <2>1, <1>s DEF Uses
  <2> QED BY <2>1, <2>2, <1>s, <1>d, NamesOnly
<1>n. ASSUME UNCHANGED <<inodes, fds, flocks, obj>>, dir' \in [Paths -> Entries],
             \A n \in Paths : /\ dir'[n].kind = "file" => dir'[n].ino # 0
                              /\ dir'[n].kind = "link" => dir'[n].to \in Paths
      PROVE  FilesInv'
  BY <1>n, <1>o, NamesOnly DEF Uses
<1> HIDE DEF Objects, Entries
<1>2. ASSUME NEW t \in FThreads, NEW n \in Paths,
             \/ NewSequentialFile(t, n) \/ NewRandomAccessFile(t, n) \/ NewWritableFile(t, n)
             \/ NewAppendableFile(t, n) \/ LockFile(t, n)
             \/ WriteStringToFile(t, n) \/ ReadFileToString(t, n)
      PROVE  FilesInv'
  <2>1. \E kind \in Kinds \ {"none", "closed", "lock"}, create, truncate \in BOOLEAN :
           Open(t, n, kind, create, truncate)
    BY <1>2 DEF NewSequentialFile, NewRandomAccessFile, NewWritableFile, NewAppendableFile,
                LockFile, WriteStringToFile, ReadFileToString, Kinds
  <2> QED BY <2>1, OpenKeeps
<1>3. ASSUME NEW t \in FThreads, NEW ok \in BOOLEAN, AppendableSized(t, ok)
      PROVE  FilesInv'
  <2>1. Uses(t) /\ UNCHANGED <<dir, inodes>>
    BY <1>3 DEF AppendableSized, Uses
  <2>2. CASE Make(t, "writable", obj[t].fd, obj[t].path) /\ UNCHANGED <<fds, flocks, size>>
    <3> DEFINE r == [kind |-> "writable", fd |-> obj[t].fd, path |-> obj[t].path,
                     buf |-> 0, written |-> 0, s |-> "kOk"]
    <3>1. r \in Objects
      BY <1>o DEF Objects, Kinds
    <3>2. obj' = [obj EXCEPT ![t] = r]
      BY <2>2 DEF Make
    <3>3. r.kind = "writable" /\ r.fd = obj[t].fd
      OBVIOUS
    <3> HIDE DEF r
    <3> QED BY <3>1, <3>2, <3>3, <2>1, <2>2, <1>s, <1>3 DEF AppendableSized
  <2>3. CASE FClose(obj[t].fd, 0, TRUE) /\ obj' = [obj EXCEPT ![t] = Nothing]
    BY <2>1, <2>3, <1>c DEF FClose
  <2> QED BY <1>3, <2>2, <2>3 DEF AppendableSized
<1>4. ASSUME NEW t \in FThreads, NEW ok \in BOOLEAN, DeleteObject(t, ok) \/ WriteStringDelete(t, ok)
      PROVE  FilesInv'
  <2>1. /\ Uses(t) /\ UNCHANGED <<dir, inodes>>
        /\ Closed(obj[t].fd) /\ obj' = [obj EXCEPT ![t] = Nothing]
    BY <1>4 DEF DeleteObject, WriteStringDelete, Uses, FClose
  <2> QED BY <2>1, <1>c
<1>5. ASSUME NEW t \in FThreads, UnlockFile(t) \/ ReadFileEnds(t)
      PROVE  FilesInv'
  <2>1. /\ Uses(t) /\ UNCHANGED <<dir, inodes>>
        /\ Closed(obj[t].fd) /\ obj' = [obj EXCEPT ![t] = Nothing]
    BY <1>5 DEF UnlockFile, ReadFileEnds, Uses
  <2> QED BY <2>1, <1>c
<1>6. ASSUME NEW t \in FThreads, NEW ok \in BOOLEAN, LockOrUnlock(t, ok)
      PROVE  FilesInv'
  <2>1. Uses(t) /\ UNCHANGED <<dir, inodes>> /\ obj[t].kind = "locking"
    BY <1>6 DEF LockOrUnlock, Uses
  <2>2. CASE Closed(obj[t].fd) /\ obj' = [obj EXCEPT ![t] = Nothing]
    BY <2>1, <2>2, <1>c
  <2>3. CASE /\ flocks[fds[obj[t].fd]] = 0
             /\ flocks' = [flocks EXCEPT ![fds[obj[t].fd]] = obj[t].fd]
             /\ Make(t, "lock", obj[t].fd, obj[t].path) /\ UNCHANGED fds
    <3> DEFINE d == obj[t].fd
               r == [kind |-> "lock", fd |-> obj[t].fd, path |-> obj[t].path,
                     buf |-> 0, written |-> 0, s |-> "kOk"]
    <3>1. r \in Objects /\ r.kind = "lock" /\ r.fd = d
      BY <1>o DEF Objects, Kinds
    <3>2. obj' = [obj EXCEPT ![t] = r]
      BY <2>3 DEF Make
    <3>3. d \in FdNos /\ fds[d] \in 1 .. MaxInode
      BY <2>1 DEF FilesInv, UsedOpen, FilesTypeOK
    <3> HIDE DEF r
    <3>4. /\ obj'[t] = r /\ \A s \in FThreads : s # t => obj'[s] = obj[s]
          /\ obj' \in [FThreads -> Objects]
      BY <3>1, <3>2, <1>o
    <3>5. /\ flocks' \in [1 .. MaxInode -> 0 .. MaxFd] /\ flocks'[fds[d]] = d
          /\ \A nd \in 1 .. MaxInode : nd # fds[d] => flocks'[nd] = flocks[nd]
      BY <2>3, <3>3 DEF FilesInv, FilesTypeOK, FdNos
    <3>6. /\ \A s \in FThreads : obj'[s].fd = obj[s].fd /\ (Uses(s)' <=> Uses(s))
      BY <3>1, <3>4, <2>1 DEF Uses
    <3> HIDE DEF d
    <3>7. FilesTypeOK'
      BY <2>1, <2>3, <3>4, <3>5 DEF FilesInv, FilesTypeOK, Objects
    <3>8. UsedOpen' /\ OpenUsed'
      BY <2>3, <3>6 DEF FilesInv, UsedOpen, OpenUsed
    <3>9. LocksHeld'
      <4>1. ASSUME NEW s \in FThreads, obj'[s].kind = "lock", s # t
            PROVE  flocks'[fds'[obj'[s].fd]] = obj'[s].fd
        <5>1. /\ obj'[s] = obj[s] /\ fds' = fds /\ obj[s].kind = "lock" /\ obj[s].fd \in FdNos
              /\ fds[obj[s].fd] # 0 /\ flocks[fds[obj[s].fd]] = obj[s].fd
          BY <4>1, <3>4, <2>3 DEF FilesInv, UsedOpen, LocksHeld, Uses
        <5>2. fds[obj[s].fd] \in 1 .. MaxInode /\ obj[s].fd # 0
          BY <5>1 DEF FilesInv, FilesTypeOK, FdNos
        <5>3. fds[obj[s].fd] # fds[d]
          BY <5>1, <5>2, <2>3 DEF d
        <5> QED BY <5>1, <5>2, <5>3, <3>5
      <4>2. ASSUME NEW nd \in 1 .. MaxInode, flocks'[nd] # 0
            PROVE  \E s \in FThreads : obj'[s].kind = "lock" /\ obj'[s].fd = flocks'[nd] /\ fds'[obj'[s].fd] = nd
        <5>1. CASE nd = fds[d]
          BY <5>1, <3>1, <3>4, <3>5, <2>3
        <5>2. CASE nd # fds[d]
          <6>1. PICK s \in FThreads : obj[s].kind = "lock" /\ obj[s].fd = flocks[nd] /\ fds[obj[s].fd] = nd
            BY <5>2, <4>2, <3>5 DEF FilesInv, LocksHeld
          <6>2. s # t
            BY <6>1, <2>1
          <6> QED BY <6>1, <6>2, <5>2, <3>4, <3>5, <2>3
        <5> QED BY <5>1, <5>2
      <4> QED BY <4>1, <4>2, <3>1, <3>4, <3>5, <2>3 DEF LocksHeld
    <3> QED BY <3>7, <3>8, <3>9 DEF FilesInv
  <2> QED BY <1>6, <2>2, <2>3 DEF LockOrUnlock
<1>7. ASSUME NEW t \in FThreads, NEW part \in 0 .. 1, WritableAppend(t, 1, part)
      PROVE  FilesInv'
  <2>1. Uses(t) /\ UNCHANGED <<dir, inodes, fds, flocks>> /\ obj[t].kind = "writable"
    BY <1>7 DEF WritableAppend, Uses
  <2>2. obj[t] \in Objects /\ obj[t].buf \in Int /\ obj[t].written \in Int
    BY <1>o DEF Objects
  <2>3. /\ obj' \in [FThreads -> Objects]
        /\ \A s \in FThreads : obj'[s].fd = obj[s].fd /\ obj'[s].kind = obj[s].kind
    <3> DEFINE mid == [obj EXCEPT ![t].buf = @ + part]
    <3>1. /\ mid \in [FThreads -> Objects]
          /\ \A s \in FThreads : mid[s].fd = obj[s].fd /\ mid[s].kind = obj[s].kind
      BY <2>2, <1>o DEF Objects
    <3>2. obj' = [mid EXCEPT ![t].written = @ + part]
      BY <1>7 DEF WritableAppend
    <3> HIDE DEF mid
    <3>3. mid[t].written \in Int
      BY <3>1 DEF Objects
    <3> QED BY <3>1, <3>2, <3>3 DEF Objects
  <2> QED BY <2>1, <2>3, <1>d, NamesOnly DEF Uses, Objects, Entries
<1>8. ASSUME NEW t \in FThreads, NEW part \in 0 .. 1, NEW ok \in BOOLEAN, WriteStringAppend(t, part, ok)
      PROVE  FilesInv'
  <2>1. Uses(t) /\ UNCHANGED <<dir, inodes>> /\ obj[t].kind = "writing"
    BY <1>8 DEF WriteStringAppend, Uses
  <2>2. CASE part = 1
    <3>1. \E r \in Objects : /\ obj' = [obj EXCEPT ![t] = r] /\ r.fd = obj[t].fd /\ r.kind = "written"
      BY <1>8, <2>2, <1>o DEF WriteStringAppend, Objects, Kinds
    <3> QED BY <3>1, <2>1, <2>2, <1>8, <1>s DEF WriteStringAppend
  <2>3. CASE part # 1
    <3>1. \E r \in Objects : /\ obj' = [obj EXCEPT ![t] = r] /\ r.kind = "closed"
      BY <1>8, <2>3, <1>o DEF WriteStringAppend, Objects, Kinds
    <3>2. Closed(obj[t].fd)
      BY <1>8, <2>3 DEF WriteStringAppend, FClose
    <3>3. /\ obj'[t].kind = "closed" /\ \A s \in FThreads : s # t => obj'[s] = obj[s]
          /\ obj' \in [FThreads -> Objects]
      BY <3>1, <1>o
    <3> QED BY <3>2, <3>3, <2>1, CloseKeeps DEF Objects
  <2> QED BY <2>2, <2>3
<1>9. ASSUME NEW t \in FThreads, Flush(t)
      PROVE  FilesInv'
  <2>1. Uses(t) /\ UNCHANGED <<dir, inodes, fds, flocks>> /\ obj[t].kind = "writable"
    BY <1>9 DEF Flush, Uses
  <2>2. obj[t] \in Objects /\ obj[t].buf \in Int /\ obj[t].written \in Int
    BY <1>o DEF Objects
  <2>3. /\ obj' \in [FThreads -> Objects]
        /\ \A s \in FThreads : obj'[s].fd = obj[s].fd /\ obj'[s].kind = obj[s].kind
    BY <1>9, <2>2, <1>o DEF Flush, Objects
  <2> QED BY <2>1, <2>3, <1>d, NamesOnly DEF Uses, Objects, Entries
<1>10. ASSUME NEW t \in FThreads, WriteStringDeleteClosed(t)
       PROVE  FilesInv'
  BY <1>10 DEF WriteStringDeleteClosed
<1>11. ASSUME NEW n \in Paths, DeleteFile(n) \/ DeleteDir(n) \/ CreateDir(n)
       PROVE  FilesInv'
  <2>1. \E e \in Entries : dir' = [dir EXCEPT ![n] = e] /\ e.kind \in {"none", "dir"}
    BY <1>11, <1>d DEF DeleteFile, DeleteDir, CreateDir, Entry, Entries, Absent
  <2>2. /\ dir' \in [Paths -> Entries]
        /\ \A m \in Paths : /\ dir'[m].kind = "file" => dir'[m].ino # 0
                            /\ dir'[m].kind = "link" => dir'[m].to \in Paths
    BY <2>1, <1>d
  <2> QED BY <1>11, <2>2, <1>n DEF DeleteFile, DeleteDir, CreateDir, Entry
<1>12. ASSUME NEW n \in Paths, NEW m \in Paths, SymLink(n, m)
       PROVE  FilesInv'
  <2>1. \E e \in Entries : dir' = [dir EXCEPT ![m] = e] /\ e.kind = "link" /\ e.to \in Paths
    <3> DEFINE e == [kind |-> "link", ino |-> 0, to |-> n]
    <3>1. e \in Entries /\ e.kind = "link" /\ e.to \in Paths
      BY DEF Entries
    <3>2. dir' = [dir EXCEPT ![m] = e]
      BY <1>12 DEF SymLink, Entry
    <3> HIDE DEF e
    <3> QED BY <3>1, <3>2
  <2>2. /\ dir' \in [Paths -> Entries]
        /\ \A k \in Paths : /\ dir'[k].kind = "file" => dir'[k].ino # 0
                            /\ dir'[k].kind = "link" => dir'[k].to \in Paths
    BY <2>1, <1>d
  <2> QED BY <1>12, <2>2, <1>n DEF SymLink, Entry
<1>13. ASSUME NEW n \in Paths, NEW m \in Paths, RenameFile(n, m)
       PROVE  FilesInv'
  <2>1. dir' = [dir EXCEPT ![n] = Absent, ![m] = dir[n]] /\ Absent.kind = "none"
    BY <1>13 DEF RenameFile, Absent
  <2>2. /\ dir' \in [Paths -> Entries]
        /\ \A k \in Paths : /\ dir'[k].kind = "file" => dir'[k].ino # 0
                            /\ dir'[k].kind = "link" => dir'[k].to \in Paths
    BY <2>1, <1>d
  <2> QED BY <1>13, <2>2, <1>n DEF RenameFile
<1> QED
  BY <1>2, <1>3, <1>4, <1>5, <1>6, <1>7, <1>8, <1>9, <1>10, <1>11, <1>12, <1>13 DEF NextFiles

\* On every path through FileUtil's calls, for any number of threads and files,
\* each open descriptor belongs to exactly one of them and a file is locked
\* exactly while somebody holds its lock, as long as no FILE was closed twice.
THEOREM DescriptorsStayOwned == FilesSpec => []DescriptorsOwned
<1>1. InitFiles => FilesInv
  <2> SUFFICES ASSUME InitFiles PROVE FilesInv
    OBVIOUS
  <2>1. FilesTypeOK
    BY FilesAssumption DEF InitFiles, FilesTypeOK, Absent, Nothing, Kinds
  <2>2. UsedOpen /\ OpenUsed /\ LocksHeld
    BY FilesAssumption DEF InitFiles, UsedOpen, OpenUsed, LocksHeld, Nothing, Uses
  <2> QED BY <2>1, <2>2 DEF FilesInv
<1>2. (~doubled => FilesInv) => DescriptorsOwned
  <2> SUFFICES ASSUME FilesInv, ~doubled PROVE DescriptorsOwned
    BY DEF DescriptorsOwned
  <2> USE FilesAssumption
  <2> DEFINE Users(d) == {t \in FThreads : obj[t].kind \notin {"none", "closed"} /\ obj[t].fd = d}
             Holders(nd) == {t \in FThreads : obj[t].kind = "lock" /\ fds[obj[t].fd] = nd}
  <2>1. ASSUME NEW d \in FdNos
        PROVE  Cardinality(Users(d)) = IF fds[d] # 0 THEN 1 ELSE 0
    <3>1. CASE fds[d] # 0
      <4>1. PICK t \in FThreads : Uses(t) /\ obj[t].fd = d
        BY <3>1 DEF FilesInv, OpenUsed
      <4>2. Users(d) = {t}
        BY <4>1 DEF FilesInv, UsedOpen, Uses
      <4> QED BY <4>2, <3>1, FS_Singleton
    <3>2. CASE fds[d] = 0
      <4>1. Users(d) = {}
        BY <3>2 DEF FilesInv, UsedOpen, Uses
      <4> QED BY <4>1, <3>2, FS_EmptySet
    <3> QED BY <3>1, <3>2
  <2>2. ASSUME NEW nd \in DOMAIN flocks
        PROVE  /\ Cardinality(Holders(nd)) <= 1
               /\ flocks[nd] # 0 <=> Holders(nd) # {}
               /\ \A t \in Holders(nd) : obj[t].fd = flocks[nd]
    <3>1. nd \in 1 .. MaxInode
      BY DEF FilesInv, FilesTypeOK
    <3>2. \A t \in Holders(nd) : obj[t].fd = flocks[nd] /\ obj[t].fd # 0
      BY DEF FilesInv, LocksHeld, UsedOpen, Uses, FdNos
    <3>3. flocks[nd] # 0 => Holders(nd) # {}
      BY <3>1 DEF FilesInv, LocksHeld
    <3>4. CASE Holders(nd) = {}
      <4>1. Cardinality({}) = 0
        BY FS_EmptySet
      <4>2. Cardinality(Holders(nd)) <= 1
        BY <3>4, <4>1
      <4> HIDE DEF Holders
      <4> QED BY <3>2, <3>3, <3>4, <4>2
    <3>5. CASE Holders(nd) # {}
      <4>1. PICK t \in FThreads : t \in Holders(nd)
        BY <3>5
      <4>2. Holders(nd) = {t}
        BY <4>1, <3>2 DEF FilesInv, UsedOpen, Uses
      <4>3. Cardinality(Holders(nd)) = 1
        BY <4>2, FS_Singleton
      <4>4. flocks[nd] # 0
        BY <4>1, <3>2
      <4> QED BY <3>2, <3>5, <4>3, <4>4
    <3> QED BY <3>4, <3>5
  <2> QED BY <2>1, <2>2 DEF DescriptorsOwned
<1> QED BY <1>1, <1>2, FilesStep, PTL DEF FilesSpec
=============================================================================
