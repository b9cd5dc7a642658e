--------------------------- MODULE LibraryProofs ---------------------------
(***************************************************************************)
(* Proofs about the parts of the library that share no state with another: *)
(* the metrics (the table of counters, its sampler and its clients, the    *)
(* histograms and their snapshots, the registries of histograms and        *)
(* traces), the symbolizer and its debug information, URI escapes and      *)
(* messages written as JSON.                                               *)
(***************************************************************************)
EXTENDS Counters, Histogram, Registry, Symbolizer, Dwarf, Json, Recursion, SequenceTheorems, FiniteSetTheorems

-----------------------------------------------------------------------------
(* Ints that wrap *)

Width == 2 * IntMax + 2

\* a and b are the same int.
Same(a, b) == \E q \in Int : a = b + q * Width

\* What % and \div return.
LEMMA ModDef ==
  ASSUME NEW x \in Int, NEW w \in Nat \ {0}
  PROVE  x % w \in 0 .. w - 1 /\ x \div w \in Int /\ x = w * (x \div w) + (x % w)
OBVIOUS

\* Only one multiple of w is nearer to 0 than w.
LEMMA NearZero ==
  ASSUME NEW w \in Nat \ {0}, NEW q \in Int, q * w < w, -w < q * w
  PROVE  q = 0
<1>1. CASE q >= 1
  <2>1. q * w >= w
    BY <1>1
  <2> QED BY <2>1
<1>2. CASE q <= -1
  <2>1. q * w <= - w
    BY <1>2
  <2> QED BY <2>1
<1> QED BY <1>1, <1>2

\* x is q times w more than y.
Differ(x, y, q, w) == x = y + q * w

\* Numbers that differ by a multiple of w have the same remainder.
LEMMA ModUnique ==
  ASSUME NEW x \in Int, NEW y \in Int, NEW w \in Nat \ {0}, NEW q \in Int, Differ(x, y, q, w)
  PROVE  x % w = y % w
<1>0. x = y + q * w
  BY DEF Differ
<1> DEFINE a == x % w
           b == y % w
           c == x \div w
           d == y \div w
<1>1. a \in 0 .. w - 1 /\ x = w * c + a /\ c \in Int /\ b \in 0 .. w - 1 /\ y = w * d + b /\ d \in Int
  BY ModDef
<1> HIDE DEF a, b, c, d
<1> DEFINE r == q + d - c
<1>3. r \in Int
  BY <1>1
<1>2. r * w = a - b
  <2>1. r * w = q * w + d * w - c * w
    BY <1>1
  <2> QED BY <2>1, <1>0, <1>1
<1> HIDE DEF r
<1>4. r = 0
  BY <1>1, <1>2, <1>3, NearZero
<1>5. a = b
  BY <1>1, <1>2, <1>4
<1> QED BY <1>5 DEF a, b

\* Wrapping a number does not change which int it is.
LEMMA WrapSame == ASSUME NEW v \in Int PROVE Wrap(v) \in Int /\ Same(Wrap(v), v)
<1> DEFINE x == v + IntMax + 1
<1>1. x \in Int /\ Width \in Nat \ {0} /\ IntMax \in Nat
  BY CounterAssumption DEF Width
<1>2. PICK q \in Int : x = Width * q + (x % Width) /\ x % Width \in Int
  <2> HIDE DEF x
  <2>1. x % Width \in 0 .. Width - 1 /\ x \div Width \in Int /\ x = Width * (x \div Width) + (x % Width)
    BY <1>1, ModDef, Zenon
  <2>2. x % Width \in Int
    BY <1>1, <2>1
  <2> QED BY <2>1, <2>2, Zenon
<1>3. Wrap(v) = (x % Width) - IntMax - 1
  BY DEF Wrap, Width
<1>4. Wrap(v) = v + (-q) * Width
  <2> DEFINE y == x % Width
             z == Width * q
  <2>1. (-q) * Width = - z
    BY <1>1
  <2>2. y \in Int /\ z \in Int /\ v + IntMax + 1 = z + y /\ Wrap(v) = y - IntMax - 1
    BY <1>1, <1>2, <1>3
  <2> HIDE DEF y, z
  <2> QED BY <1>1, <2>1, <2>2
<1>5. -q \in Int /\ (-q) * Width \in Int
  BY <1>1
<1> QED BY <1>4, <1>5 DEF Same

\* Two numbers that are the same int wrap to the same number.
LEMMA SameWrap ==
  ASSUME NEW a \in Int, NEW b \in Int, Same(a, b)
  PROVE  Wrap(a) = Wrap(b)
<1>1. PICK q \in Int : a = b + q * Width
  BY DEF Same
<1>2. Width \in Nat \ {0} /\ IntMax \in Nat
  BY CounterAssumption DEF Width
<1> DEFINE x == a + IntMax + 1
           y == b + IntMax + 1
<1>3. x \in Int /\ y \in Int /\ x = y + q * Width
  BY <1>1, <1>2
<1>4. x % Width = y % Width
  <2> HIDE DEF x, y
  <2>1. Differ(x, y, q, Width)
    BY <1>3 DEF Differ
  <2>2. x \in Int /\ y \in Int /\ Width \in Nat \ {0} /\ q \in Int
    BY <1>2, <1>3
  <2> QED BY <2>1, <2>2, ModUnique, Zenon
<1> QED BY <1>4 DEF Wrap, Width

\* Being the same int is an equivalence that sums respect.
LEMMA SameSum ==
  /\ \A a \in Int : Same(a, a)
  /\ \A a, b \in Int : Same(a, b) => Same(b, a)
  /\ \A a, b, c \in Int : Same(a, b) /\ Same(b, c) => Same(a, c)
  /\ \A a, b, c, d \in Int : Same(a, b) /\ Same(c, d) => Same(a + c, b + d) /\ Same(a - c, b - d)
<1>0. Width \in Int
  BY CounterAssumption DEF Width
<1>1. \A a \in Int : a = a + 0 * Width
  BY <1>0
<1>2. ASSUME NEW a \in Int, NEW b \in Int, Same(a, b) PROVE Same(b, a)
  <2>1. PICK q \in Int : a = b + q * Width
    BY <1>2 DEF Same
  <2>2. b = a + (-q) * Width /\ -q \in Int
    BY <1>0, <2>1
  <2> QED BY <2>2 DEF Same
<1>3. ASSUME NEW a \in Int, NEW b \in Int, NEW c \in Int, Same(a, b), Same(b, c) PROVE Same(a, c)
  <2>1. PICK q \in Int, r \in Int : a = b + q * Width /\ b = c + r * Width
    BY <1>3 DEF Same
  <2>2. (q + r) * Width = q * Width + r * Width /\ q + r \in Int
    BY <1>0
  <2>3. a = c + (q + r) * Width
    BY <1>0, <2>1, <2>2
  <2> QED BY <2>2, <2>3 DEF Same
<1>4. ASSUME NEW a \in Int, NEW b \in Int, NEW c \in Int, NEW d \in Int, Same(a, b), Same(c, d)
      PROVE  Same(a + c, b + d) /\ Same(a - c, b - d)
  <2>1. PICK q \in Int, r \in Int : a = b + q * Width /\ c = d + r * Width
    BY <1>4 DEF Same
  <2>2. /\ (q + r) * Width = q * Width + r * Width /\ q + r \in Int
        /\ (q - r) * Width = q * Width - r * Width /\ q - r \in Int
    BY <1>0
  <2>3. a + c = (b + d) + (q + r) * Width /\ a - c = (b - d) + (q - r) * Width
    BY <1>0, <2>1, <2>2
  <2> QED BY <2>2, <2>3 DEF Same
<1>5. \A a \in Int : Same(a, a)
  BY <1>1 DEF Same
<1> QED BY <1>2, <1>3, <1>4, <1>5

-----------------------------------------------------------------------------
(* The cells of a row *)

Rows == 1 .. MaxCounters
Slots == 1 .. MaxThreads

\* The cells of the table are in the table, and no two of them are the same.
LEMMA CellsDiffer ==
  ASSUME NEW k \in Rows, NEW s \in Slots
  PROVE  /\ GetLocation(k, s) \in Cells /\ GetLocation(k, s) # 0
         /\ \A l \in Rows, r \in Slots : GetLocation(k, s) = GetLocation(l, r) => k = l /\ s = r
<1> DEFINE M == MaxThreads
<1>0. M \in Nat /\ MaxCounters \in Nat /\ k \in Nat /\ s \in Nat /\ k >= 1 /\ s >= 1 /\ s <= M
      /\ k <= MaxCounters
  BY CounterAssumption DEF Rows, Slots
<1> HIDE DEF M
<1>1. \A a, b \in Nat : a < b => b * M >= a * M + M
  <2> SUFFICES ASSUME NEW a \in Nat, NEW b \in Nat, a < b PROVE b * M >= a * M + M
    OBVIOUS
  <2> DEFINE d == b - a - 1
  <2>1. d \in Nat /\ b = a + 1 + d
    OBVIOUS
  <2> HIDE DEF d
  <2>2. b * M = a * M + M + d * M /\ d * M \in Nat /\ a * M \in Nat
    BY <1>0, <2>1
  <2> QED BY <1>0, <2>2
<1>2. ASSUME NEW l \in Rows, NEW r \in Slots, (k - 1) * M + s = (l - 1) * M + r PROVE k = l /\ s = r
  <2>0. l \in Nat /\ r \in Nat /\ l >= 1 /\ r >= 1 /\ r <= M
    BY <1>0 DEF Rows, Slots, M
  <2>1. (k - 1) * M \in Int /\ (l - 1) * M \in Int
    BY <1>0, <2>0
  <2>2. k < l => (l - 1) * M >= (k - 1) * M + M
    BY <1>0, <1>1, <2>0
  <2>3. l < k => (k - 1) * M >= (l - 1) * M + M
    BY <1>0, <1>1, <2>0
  <2>4. k = l
    BY <1>0, <1>2, <2>0, <2>1, <2>2, <2>3
  <2> QED BY <1>0, <1>2, <2>0, <2>1, <2>4
<1>3. (k - 1) * M + s \in 1 .. M * MaxCounters
  <2>1. (k - 1) * M \in Nat /\ MaxCounters * M >= (k - 1) * M + M
    BY <1>0, <1>1
  <2>2. MaxCounters * M = M * MaxCounters
    BY <1>0
  <2> QED BY <1>0, <2>1, <2>2
<1> QED BY <1>0, <1>2, <1>3 DEF GetLocation, Cells, M

\* The function RowSum is defined with, and its value, of any table.
Sums(d, id) == CHOOSE c : c = [k \in 0 .. MaxThreads |->
                                 IF k = 0 THEN 0 ELSE Wrap(c[k - 1] + d[(id - 1) * MaxThreads + k])]
SumOf(d, id) == Sums(d, id)[MaxThreads]

\* The sum of a row is what its recursion says.
LEMMA SumsDef ==
  ASSUME NEW d \in [Cells -> Int], NEW id \in Rows
  PROVE  /\ Sums(d, id) \in [0 .. MaxThreads -> Int]
         /\ Sums(d, id)[0] = 0
         /\ \A k \in Slots : Sums(d, id)[k] = Wrap(Sums(d, id)[k - 1] + d[GetLocation(id, k)])
<1> DEFINE N == MaxThreads
           cellOf(k) == d[GetLocation(id, k)]
           step == [x \in (1 .. N) \X Int |-> Wrap(x[2] + cellOf(x[1]))]
<1>0. N \in Nat
  BY CounterAssumption
<1>1. \A k \in 1 .. N : cellOf(k) \in Int
  BY CellsDiffer DEF Slots
<1>2. \A v \in Int : Wrap(v) \in Int
  BY WrapSame
<1> HIDE DEF cellOf
<1>3. step \in [(1 .. N) \X Int -> Int] /\ \A k \in 1 .. N, q \in Int : step[<<k, q>>] = Wrap(q + cellOf(k))
  BY <1>1, <1>2
<1> HIDE DEF N, step
<1>4. PICK f : Recursive(f, N, Int, 0, step)
  <2> DEFINE V == Int
             a == 0
  <2>1. a \in V /\ step \in [(1 .. N) \X V -> V]
    BY <1>3
  <2> HIDE DEF V, a
  <2>2. \E f : Recursive(f, N, V, a, step)
    BY <1>0, <2>1, RecursionExists
  <2> QED BY <2>2 DEF V, a
<1>5. f \in [0 .. N -> Int] /\ f[0] = 0 /\ \A k \in 1 .. N : f[k] = step[<<k, f[k - 1]>>]
  BY <1>4 DEF Recursive
<1>6. \A k \in 1 .. N : f[k] = Wrap(f[k - 1] + cellOf(k))
  <2> TAKE k \in 1 .. N
  <2>1. f[k - 1] \in Int
    BY <1>0, <1>5
  <2> QED BY <1>3, <1>5, <2>1
<1>7. f = [k \in 0 .. N |-> IF k = 0 THEN 0 ELSE Wrap(f[k - 1] + cellOf(k))]
  <2>1. ASSUME NEW k \in 0 .. N PROVE f[k] = IF k = 0 THEN 0 ELSE Wrap(f[k - 1] + cellOf(k))
    <3>1. k # 0 => k \in 1 .. N
      BY <1>0
    <3> QED BY <1>5, <1>6, <3>1
  <2> QED BY <2>1, <1>5
<1> DEFINE J == Sums(d, id)
<1>8. J = [k \in 0 .. N |-> IF k = 0 THEN 0 ELSE Wrap(J[k - 1] + cellOf(k))]
  BY <1>7, Zenon DEF Sums, N, cellOf, GetLocation
<1> HIDE DEF J
<1>9. DOMAIN J = 0 .. N /\ J[0] = 0 /\ \A k \in 1 .. N : J[k] = Wrap(J[k - 1] + cellOf(k))
  <2>1. 0 \in 0 .. N /\ \A k \in 1 .. N : k \in 0 .. N /\ k # 0
    BY <1>0
  <2> QED BY <1>8, <2>1
<1> DEFINE S == {n \in Nat : n <= N => J[n] \in Int}
<1>10. 0 \in S
  BY <1>9
<1>11. ASSUME NEW n \in S PROVE n + 1 \in S
  <2>1. CASE n + 1 <= N
    <3>1. n + 1 \in 1 .. N /\ (n + 1) - 1 = n /\ J[n] \in Int
      BY <2>1, <1>0
    <3>2. J[n + 1] = Wrap(J[n] + cellOf(n + 1)) /\ J[n] + cellOf(n + 1) \in Int
      BY <3>1, <1>1, <1>9
    <3> QED BY <3>2, <1>2
  <2> QED BY <2>1
<1>12. S = Nat
  <2> HIDE DEF S
  <2>1. S \in SUBSET Nat
    BY DEF S
  <2> QED BY <1>10, <1>11, <2>1, SetInduction
<1>13. \A n \in 0 .. N : J[n] \in Int
  BY <1>12, <1>0
<1>14. J \in [0 .. N -> Int]
  <2>1. J = [n \in 0 .. N |-> J[n]]
    BY <1>8, <1>9
  <2> QED BY <2>1, <1>13
<1> QED BY <1>9, <1>14 DEF J, N, cellOf, Slots

\* A change of one cell of a row changes the sum of the cells up to any that is
\* not before it by as much, and leaves the sum of those before it.
LEMMA PrefixChange ==
  ASSUME NEW d \in [Cells -> Int], NEW e \in [Cells -> Int], NEW id \in Rows, NEW s \in Slots,
         \A r \in Slots : r # s => e[GetLocation(id, r)] = d[GetLocation(id, r)]
  PROVE  \A n \in 0 .. MaxThreads :
            /\ Sums(d, id)[n] \in Int /\ Sums(e, id)[n] \in Int
            /\ Same(Sums(e, id)[n] - Sums(d, id)[n],
                    IF n < s THEN 0 ELSE e[GetLocation(id, s)] - d[GetLocation(id, s)])
<1> DEFINE D == Sums(d, id)
           E == Sums(e, id)
           x(r) == d[GetLocation(id, r)]
           y(r) == e[GetLocation(id, r)]
           G(n) == IF n < s THEN 0 ELSE y(s) - x(s)
           S == {n \in Nat : n <= MaxThreads => Same(E[n] - D[n], G(n))}
<1>0. MaxThreads \in Nat /\ s \in Nat /\ s >= 1 /\ s <= MaxThreads
  BY CounterAssumption DEF Slots
<1>1. \A r \in Slots : x(r) \in Int /\ y(r) \in Int /\ (r # s => y(r) = x(r))
  BY CellsDiffer
<1>2. /\ D \in [0 .. MaxThreads -> Int] /\ D[0] = 0
      /\ \A r \in Slots : D[r] = Wrap(D[r - 1] + x(r))
  BY SumsDef
<1>3. /\ E \in [0 .. MaxThreads -> Int] /\ E[0] = 0
      /\ \A r \in Slots : E[r] = Wrap(E[r - 1] + y(r))
  BY SumsDef
<1> HIDE DEF D, E, x, y
<1>4. 0 \in S
  <2>1. E[0] - D[0] = 0 /\ G(0) = 0
    BY <1>0, <1>2, <1>3
  <2> QED BY <2>1, SameSum
<1>5. ASSUME NEW n \in S PROVE n + 1 \in S
  <2>1. CASE n + 1 <= MaxThreads
    <3> DEFINE m == n + 1
    <3>1. /\ m \in Slots /\ m - 1 = n /\ n \in 0 .. MaxThreads /\ m \in 0 .. MaxThreads
          /\ n \in Nat /\ Same(E[n] - D[n], G(n))
      BY <2>1, <1>0 DEF Slots
    <3> HIDE DEF m
    <3>2. /\ D[n] \in Int /\ E[n] \in Int /\ x(m) \in Int /\ y(m) \in Int /\ x(s) \in Int /\ y(s) \in Int
          /\ D[m] = Wrap(D[n] + x(m)) /\ E[m] = Wrap(E[n] + y(m))
      BY <1>0, <1>1, <1>2, <1>3, <3>1 DEF Slots
    <3>3. G(n) \in Int /\ G(n) + (y(m) - x(m)) = G(m)
      BY <1>0, <1>1, <3>1, <3>2
    <3> DEFINE p == D[n] + x(m)
               q == E[n] + y(m)
    <3>4. p \in Int /\ q \in Int /\ q - p = (E[n] - D[n]) + (y(m) - x(m))
      BY <3>2
    <3>5. Same(q - p, G(m))
      <4>1. Same(y(m) - x(m), y(m) - x(m))
        BY <3>2, SameSum
      <4>2. E[n] - D[n] \in Int /\ y(m) - x(m) \in Int
        BY <3>2
      <4>3. Same((E[n] - D[n]) + (y(m) - x(m)), G(n) + (y(m) - x(m)))
        <5> HIDE DEF G
        <5> QED BY <3>1, <3>3, <4>1, <4>2, SameSum
      <4> QED BY <3>3, <3>4, <4>3
    <3> HIDE DEF p, q, G
    <3>6. Same(E[m], q) /\ Same(D[m], p) /\ E[m] \in Int /\ D[m] \in Int
      BY <3>2, <3>4, WrapSame DEF p, q
    <3>7. Same(E[m] - D[m], q - p)
      BY <3>4, <3>6, SameSum
    <3>8. G(m) \in Int /\ q - p \in Int /\ E[m] - D[m] \in Int
      BY <3>2, <3>3, <3>4, <3>6
    <3>9. Same(E[m] - D[m], G(m))
      BY <3>5, <3>7, <3>8, SameSum
    <3> QED BY <3>9 DEF m
  <2> QED BY <2>1
<1>6. S = Nat
  <2> HIDE DEF S
  <2>1. S \in SUBSET Nat
    BY DEF S
  <2> QED BY <1>4, <1>5, <2>1, SetInduction
<1>7. \A n \in 0 .. MaxThreads : n \in Nat /\ n <= MaxThreads
  BY <1>0
<1>8. \A n \in 0 .. MaxThreads : Same(E[n] - D[n], G(n)) /\ D[n] \in Int /\ E[n] \in Int
  BY <1>2, <1>3, <1>6, <1>7
<1> QED BY <1>8 DEF D, E, x, y

\* A change of one cell of a row changes the row's sum by as much.
LEMMA RowChange ==
  ASSUME NEW d \in [Cells -> Int], NEW e \in [Cells -> Int], NEW id \in Rows, NEW s \in Slots,
         \A r \in Slots : r # s => e[GetLocation(id, r)] = d[GetLocation(id, r)]
  PROVE  /\ SumOf(d, id) \in Int /\ SumOf(e, id) \in Int
         /\ Same(SumOf(e, id) - SumOf(d, id), e[GetLocation(id, s)] - d[GetLocation(id, s)])
<1>1. MaxThreads \in 0 .. MaxThreads /\ ~ (MaxThreads < s)
  BY CounterAssumption DEF Slots
<1> QED BY <1>1, PrefixChange DEF SumOf

\* RowSum is the sum of a row of the table as it is, and of the table as a
\* step leaves it.
LEMMA RowSumIs ==
  ASSUME NEW k
  PROVE  RowSum(k) = SumOf(data, k) /\ RowSum(k)' = SumOf(data', k)
BY DEF RowSum, SumOf, Sums

-----------------------------------------------------------------------------
(* The table: who counts where *)

Distinct(seq) == \A a, b \in DOMAIN seq : seq[a] = seq[b] => a = b
Extends(new, old) == \A a \in DOMAIN old : a \in DOMAIN new /\ new[a] = old[a]

\* IndexOf finds an element where it is, and 0 only if it is nowhere.
LEMMA IndexOfIs ==
  ASSUME NEW X, NEW seq \in Seq(X), NEW x
  PROVE  /\ IndexOf(seq, x) \in Nat
         /\ IndexOf(seq, x) # 0 => IndexOf(seq, x) \in DOMAIN seq /\ seq[IndexOf(seq, x)] = x
         /\ IndexOf(seq, x) = 0 => \A a \in DOMAIN seq : seq[a] # x
<1>1. DOMAIN seq \subseteq Nat \ {0}
  OBVIOUS
<1>2. CASE \E a \in DOMAIN seq : seq[a] = x
  <2>1. IndexOf(seq, x) = CHOOSE a \in DOMAIN seq : seq[a] = x
    BY <1>2, Zenon DEF IndexOf
  <2>2. IndexOf(seq, x) \in DOMAIN seq /\ seq[IndexOf(seq, x)] = x
    BY <1>2, <2>1, Zenon
  <2> QED BY <1>1, <2>2
<1>3. CASE ~ \E a \in DOMAIN seq : seq[a] = x
  <2>1. IndexOf(seq, x) = 0
    BY <1>3, Zenon DEF IndexOf
  <2> QED BY <1>3, <2>1
<1> QED BY <1>2, <1>3

\* In a sequence without repetitions IndexOf finds the place of its element.
LEMMA IndexOfPlace ==
  ASSUME NEW X, NEW seq \in Seq(X), Distinct(seq), NEW a \in DOMAIN seq
  PROVE  IndexOf(seq, seq[a]) = a
<1>1. IndexOf(seq, seq[a]) # 0
  BY IndexOfIs
<1>2. IndexOf(seq, seq[a]) \in DOMAIN seq /\ seq[IndexOf(seq, seq[a])] = seq[a]
  BY <1>1, IndexOfIs
<1> QED BY <1>2 DEF Distinct

\* A list of names or of threads once x is looked up in it.
Grown(seq, x, max) ==
    IF IndexOf(seq, x) # 0 \/ Len(seq) >= max THEN seq ELSE Append(seq, x)

\* Looking up keeps a list free of repetitions, within its limit and in place.
LEMMA GrownIs ==
  ASSUME NEW X, NEW seq \in Seq(X), NEW x \in X, NEW max \in Nat, Distinct(seq), Len(seq) <= max
  PROVE  /\ Grown(seq, x, max) \in Seq(X) /\ Len(Grown(seq, x, max)) <= max
         /\ Distinct(Grown(seq, x, max)) /\ Extends(Grown(seq, x, max), seq)
<1>1. CASE IndexOf(seq, x) # 0 \/ Len(seq) >= max
  <2>1. Grown(seq, x, max) = seq
    BY <1>1 DEF Grown
  <2> QED BY <2>1 DEF Extends
<1>2. CASE IndexOf(seq, x) = 0 /\ ~ (Len(seq) >= max)
  <2> DEFINE u == Append(seq, x)
  <2>1. Grown(seq, x, max) = u
    BY <1>2 DEF Grown
  <2>2. /\ u \in Seq(X) /\ Len(u) = Len(seq) + 1 /\ u[Len(u)] = x /\ DOMAIN u = 1 .. Len(seq) + 1
        /\ DOMAIN seq = 1 .. Len(seq) /\ Len(seq) \in Nat
        /\ \A a \in DOMAIN seq : u[a] = seq[a]
    OBVIOUS
  <2>3. \A a \in DOMAIN seq : seq[a] # x
    BY <1>2, IndexOfIs
  <2> HIDE DEF u
  <2>4. Distinct(u)
    <3> SUFFICES ASSUME NEW a \in DOMAIN u, NEW b \in DOMAIN u, u[a] = u[b] PROVE a = b
      BY DEF Distinct
    <3>1. (a \in DOMAIN seq \/ a = Len(u)) /\ (b \in DOMAIN seq \/ b = Len(u))
      BY <2>2
    <3> QED BY <2>2, <2>3, <3>1 DEF Distinct
  <2>5. Extends(u, seq)
    BY <2>2 DEF Extends
  <2>6. Len(u) <= max
    BY <1>2, <2>2
  <2> QED BY <2>1, <2>2, <2>4, <2>5, <2>6
<1> QED BY <1>1, <1>2

Update == [thread : CThreads, name : Names, cell : Cells, old : Int, value : Int]

TableTypeOK ==
    /\ data \in [Cells -> Int]
    /\ counters \in Seq(Names) /\ Len(counters) <= MaxCounters
    /\ slots \in Seq(CThreads) /\ Len(slots) <= MaxThreads
    /\ counterId \in [Names -> Int]
    /\ doing \subseteq Update
    /\ added \in [Names -> Int]
    /\ strayed \in BOOLEAN

\* Every name has one row and every thread one slot, a Counter remembers the
\* row of its name, and a thread is in one update at a time.
RowsKnown ==
    /\ Distinct(counters) /\ Distinct(slots)
    /\ \A n \in Names : \/ counterId[n] \in {-1, 0}
                        \/ counterId[n] \in DOMAIN counters /\ counters[counterId[n]] = n
    /\ \A u, w \in doing : u.thread = w.thread => u = w

\* u is in the cell of its counter and thread, which nobody else changes.
Placed(u) == \E k \in DOMAIN counters, s \in DOMAIN slots :
                 /\ counters[k] = u.name /\ slots[s] = u.thread
                 /\ u.cell = GetLocation(k, s) /\ u.old = data[u.cell]
UpdatesPlaced == strayed \/ \A u \in doing : Placed(u)

TableInv == TableTypeOK /\ RowsKnown /\ UpdatesPlaced

\* The rows and slots of the table.
LEMMA TableLists ==
  ASSUME TableInv
  PROVE  DOMAIN counters \subseteq Rows /\ DOMAIN slots \subseteq Slots
<1>1. Len(counters) \in Nat /\ Len(slots) \in Nat /\ DOMAIN counters = 1 .. Len(counters)
      /\ DOMAIN slots = 1 .. Len(slots) /\ Len(counters) <= MaxCounters /\ Len(slots) <= MaxThreads
  BY DEF TableInv, TableTypeOK
<1> QED BY <1>1, CounterAssumption DEF Rows, Slots

\* The beginning of an update keeps TableInv, and moves no row.
LEMMA BeginKeeps ==
  ASSUME TableInv, NEW t \in CThreads, NEW n \in Names, NEW v \in Deltas, NEW isSet \in BOOLEAN,
         BeginUpdate(t, n, v, isSet)
  PROVE  TableInv' /\ Extends(counters', counters) /\ (strayed => strayed')
<1> DEFINE lines == Registered(n)
           list == Enlisted(t)
           id == IF counterId[n] # -1 THEN counterId[n] ELSE IndexOf(lines, n)
           slot == SlotOf(t)
           cell == GetLocation(id, slot)
           val == IF isSet THEN v ELSE Wrap(data[cell] + v)
           u == [thread |-> t, name |-> n, cell |-> cell, old |-> data[cell], value |-> val]
<1>1. /\ TableTypeOK /\ Distinct(counters) /\ Distinct(slots)
      /\ MaxCounters \in Nat /\ MaxThreads \in Nat
  BY CounterAssumption DEF TableInv, RowsKnown
<1>2. lines \in Seq(Names) /\ Len(lines) <= MaxCounters /\ Distinct(lines) /\ Extends(lines, counters)
  <2>1. lines = Grown(counters, n, MaxCounters)
    BY DEF Registered, Grown
  <2> HIDE DEF lines
  <2> QED BY <1>1, <2>1, GrownIs DEF TableTypeOK
<1>3. list \in Seq(CThreads) /\ Len(list) <= MaxThreads /\ Distinct(list) /\ Extends(list, slots)
  <2>1. list = Grown(slots, t, MaxThreads)
    BY DEF Enlisted, Grown
  <2> HIDE DEF list
  <2> QED BY <1>1, <2>1, GrownIs DEF TableTypeOK
<1>4. /\ \A w \in doing : w.thread # t
      /\ counters' = IF counterId[n] = -1 THEN lines ELSE counters
      /\ counterId' = [counterId EXCEPT ![n] = id]
      /\ IF id = 0 THEN UNCHANGED <<slots, doing, strayed>>
         ELSE slots' = list /\ strayed' = (strayed \/ slot = 0) /\ doing' = doing \cup {u}
      /\ data' = data /\ added' = added
  BY DEF BeginUpdate
<1> HIDE DEF lines, list
<1>5. /\ counters' \in Seq(Names) /\ Len(counters') <= MaxCounters /\ Distinct(counters')
      /\ Extends(counters', counters)
  BY <1>1, <1>2, <1>4 DEF TableTypeOK, Extends
<1>6. id \in Int /\ (id # 0 => id \in DOMAIN counters' /\ counters'[id] = n)
  <2>1. CASE counterId[n] = -1
    BY <1>2, <1>4, <2>1, IndexOfIs
  <2>2. CASE counterId[n] # -1
    BY <1>4, <2>2 DEF TableInv, TableTypeOK, RowsKnown
  <2> QED BY <2>1, <2>2
<1>7. slot \in Nat /\ (slot # 0 => slot \in DOMAIN list /\ list[slot] = t)
  <2>1. slot = IF t \in retired THEN 0 ELSE IndexOf(list, t)
    BY DEF SlotOf, list
  <2> HIDE DEF slot
  <2> QED BY <1>3, <2>1, IndexOfIs
<1> HIDE DEF id, slot
<1>8. counterId' \in [Names -> Int] /\ \A m \in Names : counterId'[m] = IF m = n THEN id ELSE counterId[m]
  BY <1>1, <1>4, <1>6 DEF TableTypeOK
<1>9. \A m \in Names : \/ counterId'[m] \in {-1, 0}
                       \/ counterId'[m] \in DOMAIN counters' /\ counters'[counterId'[m]] = m
  BY <1>5, <1>6, <1>8 DEF TableInv, RowsKnown, Extends
<1>10. CASE id = 0
  <2>1. UNCHANGED <<slots, doing, strayed>>
    BY <1>4, <1>10
  <2>2. TableTypeOK' /\ RowsKnown'
    BY <1>1, <1>4, <1>5, <1>8, <1>9, <2>1 DEF TableInv, TableTypeOK, RowsKnown
  <2>3. UpdatesPlaced'
    BY <1>4, <1>5, <2>1 DEF TableInv, UpdatesPlaced, Placed, Extends
  <2> QED BY <1>5, <2>1, <2>2, <2>3 DEF TableInv
<1>11. CASE id # 0
  <2>1. slots' = list /\ strayed' = (strayed \/ slot = 0) /\ doing' = doing \cup {u}
    BY <1>4, <1>11
  <2>2. id \in Rows /\ cell \in Cells
    <3>1. id \in Rows
      <4>1. DOMAIN counters' = 1 .. Len(counters') /\ Len(counters') \in Nat
        BY <1>5
      <4> QED BY <1>1, <1>5, <1>6, <1>11, <4>1 DEF Rows
    <3>2. CASE slot = 0
      <4>1. id \in Nat /\ id - 1 \in Nat /\ id - 1 <= MaxCounters
        BY <1>1, <3>1 DEF Rows
      <4>2. (id - 1) * MaxThreads \in Nat /\ (id - 1) * MaxThreads <= MaxThreads * MaxCounters
        BY <1>1, <4>1
      <4>3. cell = (id - 1) * MaxThreads + 0
        BY <3>2 DEF GetLocation
      <4> QED BY <1>1, <3>1, <4>2, <4>3 DEF Cells
    <3>3. CASE slot # 0
      <4>1. DOMAIN list = 1 .. Len(list) /\ Len(list) \in Nat
        BY <1>3
      <4>2. slot \in Slots
        BY <1>1, <1>3, <1>7, <3>3, <4>1 DEF Slots
      <4> QED BY <3>1, <4>2, CellsDiffer
    <3> QED BY <3>1, <3>2, <3>3
  <2> HIDE DEF cell
  <2>3. data[cell] \in Int /\ val \in Int
    <3>1. data[cell] \in Int /\ v \in Int
      BY <1>1, <2>2, CounterAssumption DEF TableTypeOK
    <3>2. Wrap(data[cell] + v) \in Int
      BY <3>1, WrapSame
    <3> QED BY <3>1, <3>2
  <2> HIDE DEF val
  <2>4. u \in Update
    BY <2>2, <2>3 DEF Update
  <2>5. PICK e \in Update : e.thread = t /\ e.name = n /\ e.cell = cell /\ e.old = data[cell]
                            /\ doing' = doing \cup {e}
    BY <2>1, <2>4
  <2> HIDE DEF u
  <2>6. TableTypeOK'
    BY <1>1, <1>3, <1>4, <1>5, <1>8, <2>1, <2>5 DEF TableTypeOK
  <2>7. RowsKnown'
    <3>1. \A w, x \in doing' : w.thread = x.thread => w = x
      BY <1>4, <2>1, <2>5 DEF TableInv, RowsKnown
    <3> QED BY <1>3, <1>5, <1>9, <2>1, <3>1 DEF RowsKnown
  <2>8. UpdatesPlaced'
    <3> SUFFICES ASSUME ~ strayed' PROVE \A w \in doing' : Placed(w)'
      BY DEF UpdatesPlaced
    <3>1. ~ strayed /\ slot # 0
      BY <2>1
    <3>2. ASSUME NEW w \in doing PROVE Placed(w)'
      <4>1. Placed(w)
        BY <3>1 DEF TableInv, UpdatesPlaced
      <4>2. PICK k \in DOMAIN counters, s \in DOMAIN slots :
                 /\ counters[k] = w.name /\ slots[s] = w.thread
                 /\ w.cell = GetLocation(k, s) /\ w.old = data[w.cell]
        BY <4>1 DEF Placed
      <4>3. k \in DOMAIN counters' /\ counters'[k] = w.name /\ s \in DOMAIN slots' /\ slots'[s] = w.thread
        BY <1>3, <1>5, <2>1, <4>2 DEF Extends
      <4> QED BY <1>4, <4>2, <4>3 DEF Placed
    <3>3. Placed(e)'
      <4>1. /\ id \in DOMAIN counters' /\ slot \in DOMAIN slots' /\ counters'[id] = e.name
            /\ slots'[slot] = e.thread /\ e.old = data'[e.cell]
        BY <1>4, <1>6, <1>7, <1>11, <2>1, <2>5, <3>1
      <4>2. e.cell = GetLocation(id, slot)
        BY <2>5 DEF cell
      <4> QED BY <4>1, <4>2 DEF Placed
    <3> QED BY <2>5, <3>2, <3>3
  <2> QED BY <1>5, <2>1, <2>6, <2>7, <2>8 DEF TableInv
<1> QED BY <1>10, <1>11

\* The end of an update keeps TableInv, and moves the sum of each row by what
\* it adds to the counter of the row.
LEMMA EndKeeps ==
  ASSUME TableInv, NEW u \in doing, EndUpdate(u)
  PROVE  /\ TableInv'
         /\ ~ strayed => /\ data'[0] = data[0]
                         /\ \A k \in DOMAIN counters :
                              Same(SumOf(data', k) - SumOf(data, k),
                                   added'[counters[k]] - added[counters[k]])
<1>0. /\ data' = [data EXCEPT ![u.cell] = u.value] /\ doing' = doing \ {u}
      /\ added' = [added EXCEPT ![u.name] = Wrap(@ + u.value - u.old)]
      /\ UNCHANGED <<counters, slots, counterId, strayed>>
  BY DEF EndUpdate
<1>1. /\ u.thread \in CThreads /\ u.name \in Names /\ u.cell \in Cells /\ u.old \in Int /\ u.value \in Int
      /\ data \in [Cells -> Int] /\ added \in [Names -> Int]
  BY DEF TableInv, TableTypeOK, Update
<1> DEFINE x == added[u.name] + u.value - u.old
<1>2. x \in Int /\ Wrap(x) \in Int /\ Same(Wrap(x), x)
  <2>1. x \in Int
    BY <1>1
  <2> HIDE DEF x
  <2> QED BY <2>1, WrapSame
<1>3. added' = [added EXCEPT ![u.name] = Wrap(x)]
  BY <1>0
<1> HIDE DEF x
<1>4. /\ added' \in [Names -> Int] /\ added'[u.name] = Wrap(x)
      /\ \A n \in Names : n # u.name => added'[n] = added[n]
  BY <1>1, <1>2, <1>3
<1>5. /\ data' \in [Cells -> Int] /\ data'[u.cell] = u.value
      /\ \A c \in Cells : c # u.cell => data'[c] = data[c]
  BY <1>0, <1>1
<1>6. TableTypeOK' /\ RowsKnown'
  BY <1>0, <1>4, <1>5 DEF TableInv, TableTypeOK, RowsKnown
<1>7. CASE strayed
  BY <1>0, <1>6, <1>7 DEF TableInv, UpdatesPlaced
<1>8. CASE ~ strayed
  <2>1. \A w \in doing : Placed(w)
    BY <1>8 DEF TableInv, UpdatesPlaced
  <2>2. PICK k0 \in DOMAIN counters, s0 \in DOMAIN slots :
             /\ counters[k0] = u.name /\ slots[s0] = u.thread
             /\ u.cell = GetLocation(k0, s0) /\ u.old = data[u.cell]
    BY <2>1 DEF Placed
  <2>3. DOMAIN counters \subseteq Rows /\ DOMAIN slots \subseteq Slots /\ k0 \in Rows /\ s0 \in Slots
    BY TableLists
  <2>4. \A l \in Rows, r \in Slots : GetLocation(l, r) \in Cells
                                     /\ (GetLocation(l, r) = u.cell => l = k0 /\ r = s0)
    BY <2>2, <2>3, CellsDiffer
  <2>5. ASSUME NEW w \in doing' PROVE Placed(w)'
    <3>1. w \in doing /\ w # u /\ w.thread # u.thread
      BY <1>0 DEF TableInv, RowsKnown
    <3>2. PICK k \in DOMAIN counters, s \in DOMAIN slots :
               /\ counters[k] = w.name /\ slots[s] = w.thread
               /\ w.cell = GetLocation(k, s) /\ w.old = data[w.cell]
      BY <2>1, <3>1 DEF Placed
    <3>3. w.cell \in Cells /\ w.cell # u.cell
      BY <2>2, <2>3, <2>4, <3>1, <3>2
    <3>4. data'[w.cell] = data[w.cell]
      BY <1>5, <3>3
    <3> QED BY <1>0, <3>2, <3>4 DEF Placed
  <2>6. data'[0] = data[0]
    <3>1. 0 \in Cells /\ u.cell # 0
      <4>1. MaxThreads * MaxCounters \in Nat
        BY CounterAssumption
      <4> QED BY <2>2, <2>3, <4>1, CellsDiffer DEF Cells
    <3> QED BY <1>5, <3>1
  <2>7. ASSUME NEW k \in DOMAIN counters
        PROVE  Same(SumOf(data', k) - SumOf(data, k), added'[counters[k]] - added[counters[k]])
    <3>1. \A r \in Slots : r # s0 => data'[GetLocation(k, r)] = data[GetLocation(k, r)]
      BY <1>5, <2>3, <2>4
    <3> DEFINE b == data'[GetLocation(k, s0)] - data[GetLocation(k, s0)]
    <3>2. /\ SumOf(data, k) \in Int /\ SumOf(data', k) \in Int
          /\ Same(SumOf(data', k) - SumOf(data, k), b)
      BY <1>1, <1>5, <2>3, <3>1, RowChange
    <3>3. data'[GetLocation(k, s0)] \in Int /\ data[GetLocation(k, s0)] \in Int /\ k \in Rows
      BY <1>1, <1>5, <2>3, <2>4
    <3> DEFINE a == added'[counters[k]] - added[counters[k]]
    <3>4. counters[k] \in Names /\ added'[counters[k]] \in Int /\ added[counters[k]] \in Int
      <4>1. counters[k] \in Names
        BY DEF TableInv, TableTypeOK
      <4> QED BY <1>1, <1>4, <4>1
    <3>5. Same(b, a)
      <4>1. CASE k = k0
        <5>1. b = u.value - u.old /\ a = Wrap(x) - added[u.name]
          BY <1>4, <1>5, <2>2, <4>1
        <5>2. Same(Wrap(x) - added[u.name], x - added[u.name])
          <6>1. Same(added[u.name], added[u.name]) /\ added[u.name] \in Int
            BY <1>1, SameSum
          <6> QED BY <1>2, <6>1, SameSum
        <5>3. x - added[u.name] = u.value - u.old
          BY <1>1 DEF x
        <5>4. Same(a, b) /\ a \in Int /\ b \in Int
          BY <3>3, <3>4, <5>1, <5>2, <5>3
        <5> HIDE DEF a, b
        <5> QED BY <5>4, SameSum
      <4>2. CASE k # k0
        <5>1. counters[k] # u.name
          BY <2>2, <4>2 DEF TableInv, RowsKnown, Distinct
        <5>2. GetLocation(k, s0) # u.cell /\ GetLocation(k, s0) \in Cells
          BY <2>3, <2>4, <4>2
        <5>3. a = 0 /\ b = 0
          BY <1>4, <1>5, <3>3, <3>4, <5>1, <5>2
        <5> QED BY <5>3, SameSum
      <4> QED BY <4>1, <4>2
    <3>6. SumOf(data', k) - SumOf(data, k) \in Int /\ b \in Int /\ a \in Int
      BY <3>2, <3>3, <3>4
    <3> HIDE DEF a, b
    <3>7. Same(SumOf(data', k) - SumOf(data, k), a)
      BY <3>2, <3>5, <3>6, SameSum
    <3> QED BY <3>7 DEF a
  <2>8. UpdatesPlaced'
    BY <2>5 DEF UpdatesPlaced
  <2> QED BY <1>6, <2>6, <2>7, <2>8 DEF TableInv
<1> QED BY <1>7, <1>8

\* The table starts empty.
LEMMA TableInit == InitCounters => TableInv
<1> SUFFICES ASSUME InitCounters PROVE TableInv
  OBVIOUS
<1>1. data \in [Cells -> Int]
  BY DEF InitCounters
<1>2. counters = <<>> /\ slots = <<>> /\ doing = {} /\ strayed = FALSE
      /\ counterId = [n \in Names |-> -1] /\ added = [n \in Names |-> 0]
  BY DEF InitCounters
<1>3. Len(<<>>) = 0 /\ <<>> \in Seq(Names) /\ <<>> \in Seq(CThreads) /\ DOMAIN <<>> = {}
  OBVIOUS
<1>4. Distinct(counters) /\ Distinct(slots)
  BY <1>2, <1>3 DEF Distinct
<1>5. counterId \in [Names -> Int] /\ \A n \in Names : counterId[n] = -1
  BY <1>2
<1>6. TableTypeOK
  <2>1. counters \in Seq(Names) /\ Len(counters) <= MaxCounters
        /\ slots \in Seq(CThreads) /\ Len(slots) <= MaxThreads
    BY <1>2, <1>3, CounterAssumption
  <2>2. added \in [Names -> Int]
    BY <1>2
  <2>3. strayed \in BOOLEAN /\ doing \subseteq Update
    BY <1>2, Zenon
  <2> QED BY <1>1, <1>5, <2>1, <2>2, <2>3, Zenon DEF TableTypeOK
<1> QED BY <1>2, <1>4, <1>5, <1>6 DEF TableInv, RowsKnown, UpdatesPlaced

\* The part of the table that TableInv speaks of.
countingVars == <<data, counters, slots, counterId, doing, added, strayed>>

\* What the sampler and its client do leaves the table alone; so does the end of
\* a thread.
LEMMA TableKept ==
  ASSUME TableInv, UNCHANGED countingVars
  PROVE  TableInv'
BY DEF TableInv, TableTypeOK, RowsKnown, UpdatesPlaced, Placed, countingVars

\* The steps that count nothing.
Bystander ==
    \/ \E t \in CThreads : ThreadExits(t)
    \/ BeginSample \/ (\E k \in DOMAIN cellsRead : ReadCell(k)) \/ EndSample
    \/ Poll \/ CounterClock \/ UNCHANGED counterVars

LEMMA BystanderKeeps == Bystander => UNCHANGED countingVars
BY DEF Bystander, ThreadExits, BeginSample, ReadCell, EndSample, Poll, CounterClock,
       counterVars, table, countingVars

\* Every step keeps TableInv.
LEMMA TableStep == TableInv /\ [NextCounters]_counterVars => TableInv'
<1> SUFFICES ASSUME TableInv, [NextCounters]_counterVars PROVE TableInv'
  OBVIOUS
<1>1. ASSUME NEW t \in CThreads, NEW n \in Names, NEW v \in Deltas, NEW isSet \in BOOLEAN,
             BeginUpdate(t, n, v, isSet)
      PROVE  TableInv'
  BY <1>1, BeginKeeps
<1>2. ASSUME NEW u \in doing, EndUpdate(u) PROVE TableInv'
  BY <1>2, EndKeeps
<1>3. CASE Bystander
  BY <1>3, BystanderKeeps, TableKept
<1> QED BY <1>1, <1>2, <1>3 DEF NextCounters, Bystander

\* Counters that threads update without a lock or an atomic are exact, for any
\* number of threads and names, as long as every thread got a slot: what
\* CounterProvider's row of a counter comes to moves by what was added to it.
THEOREM CountersAreExact == CounterSpec => CountsExact
<1> DEFINE Exact == \A k \in DOMAIN counters :
              (~strayed /\ data' # data) =>
                 /\ Wrap(RowSum(k)' - RowSum(k)) = Wrap(added'[counters[k]] - added[counters[k]])
                 /\ data'[0] = data[0]
<1>1. TableInv /\ [NextCounters]_counterVars => [Exact]_counterVars
  <2> SUFFICES ASSUME TableInv, NextCounters, NEW k \in DOMAIN counters, ~strayed, data' # data
               PROVE  /\ Wrap(RowSum(k)' - RowSum(k)) = Wrap(added'[counters[k]] - added[counters[k]])
                      /\ data'[0] = data[0]
    OBVIOUS
  <2>1. PICK u \in doing : EndUpdate(u)
    <3>1. CASE Bystander
      BY <3>1, BystanderKeeps DEF countingVars
    <3> QED BY <3>1 DEF NextCounters, Bystander, BeginUpdate
  <2> DEFINE a == SumOf(data', k) - SumOf(data, k)
             b == added'[counters[k]] - added[counters[k]]
  <2>2. data'[0] = data[0] /\ Same(a, b) /\ TableInv'
    BY <2>1, EndKeeps
  <2>3. a \in Int /\ b \in Int
    <3>1. counters[k] \in Names /\ added[counters[k]] \in Int /\ added'[counters[k]] \in Int
      BY <2>2 DEF TableInv, TableTypeOK
    <3>2. k \in Rows /\ data \in [Cells -> Int] /\ data' \in [Cells -> Int] /\ MaxThreads \in Nat
      BY <2>2, TableLists, CounterAssumption DEF TableInv, TableTypeOK
    <3>3. SumOf(data, k) \in Int /\ SumOf(data', k) \in Int
      BY <3>2, SumsDef DEF SumOf
    <3> QED BY <3>1, <3>3
  <2>4. Wrap(a) = Wrap(b)
    <3> HIDE DEF a, b
    <3> QED BY <2>2, <2>3, SameWrap
  <2> QED BY <2>2, <2>4, RowSumIs
<1> QED BY <1>1, TableInit, TableStep, PTL DEF CounterSpec, CountsExact

-----------------------------------------------------------------------------
(* The sampler: what the differences of snapshots add up to *)

SamplerTypeOK ==
    /\ last \in Seq(Int) /\ Len(last) <= Len(counters)
    /\ total \in [Names -> Int] /\ mark \in [Names -> Int] /\ cut \in [Names -> Int]
    /\ late \in [Names -> Int]

\* A pass is in the rows it began with, which those of the last one are among.
ScanTypeOK ==
    /\ cellsRead \in Seq(0 .. MaxThreads) /\ sums \in Seq(Int)
    /\ Len(cellsRead) <= Len(counters) /\ Len(sums) = Len(cellsRead)
    /\ scanning => Len(last) <= Len(cellsRead)
    /\ ~scanning => cellsRead = <<>> /\ \A n \in Names : late[n] = 0

\* What the pass has got of a row is the sum of the cells it has read, as they
\* are now, less what was written to them too late.
ScanAgrees ==
    strayed \/ \A k \in DOMAIN cellsRead : Same(sums[k] + late[counters[k]], Sums(data, k)[cellsRead[k]])

\* The last snapshot is off the rows by what was added since, or too late for it.
LastAgrees ==
    strayed \/ \A k \in DOMAIN last :
                  Same(last[k] - cut[counters[k]], SumOf(data, k) - added[counters[k]])

\* The samples of a counter add up to what was added between two passes;
\* there are none before the second one.
TotalAgrees ==
    /\ strayed \/ \A k \in DOMAIN last : LET n == counters[k]
                                         IN  n \notin fell => total[n] = Wrap(cut[n] - mark[n])
    /\ \A n \in Names : (\A k \in DOMAIN last : counters[k] # n) => total[n] = 0

SamplerInv == SamplerTypeOK /\ LastAgrees /\ TotalAgrees
PassInv == ScanTypeOK /\ ScanAgrees

\* The rows of the last snapshot are rows of the table.
LEMMA SnapshotRows ==
  ASSUME TableInv, SamplerTypeOK
  PROVE  /\ DOMAIN last \subseteq DOMAIN counters
         /\ \A k \in DOMAIN counters : k \in Rows /\ SumOf(data, k) \in Int /\ counters[k] \in Names
                                       /\ added[counters[k]] \in Int
         /\ \A k \in DOMAIN last : last[k] \in Int
<1>1. /\ counters \in Seq(Names) /\ last \in Seq(Int) /\ Len(last) <= Len(counters)
      /\ data \in [Cells -> Int] /\ added \in [Names -> Int]
  BY DEF TableInv, TableTypeOK, SamplerTypeOK
<1>2. DOMAIN last = 1 .. Len(last) /\ DOMAIN counters = 1 .. Len(counters) /\ Len(last) \in Nat
      /\ Len(counters) \in Nat
  BY <1>1
<1>3. DOMAIN last \subseteq DOMAIN counters /\ \A k \in DOMAIN last : last[k] \in Int
  BY <1>1, <1>2
<1>4. ASSUME NEW k \in DOMAIN counters
      PROVE  k \in Rows /\ SumOf(data, k) \in Int /\ counters[k] \in Names /\ added[counters[k]] \in Int
  <2>1. k \in Rows /\ counters[k] \in Names
    BY <1>1, TableLists
  <2>2. SumOf(data, k) \in Int
    BY <1>1, <2>1, SumsDef, CounterAssumption DEF SumOf
  <2> QED BY <1>1, <2>1, <2>2
<1> QED BY <1>3, <1>4

\* A list that extends another is not shorter.
LEMMA ExtendsLonger ==
  ASSUME NEW X, NEW old \in Seq(X), NEW new \in Seq(X), Extends(new, old)
  PROVE  Len(old) <= Len(new)
<1>1. Len(old) \in Nat /\ Len(new) \in Nat /\ DOMAIN old = 1 .. Len(old) /\ DOMAIN new = 1 .. Len(new)
  OBVIOUS
<1>2. CASE Len(old) = 0
  BY <1>1, <1>2
<1>3. CASE Len(old) # 0
  <2>1. Len(old) \in DOMAIN old
    BY <1>1, <1>3
  <2>2. Len(old) \in DOMAIN new
    BY <2>1 DEF Extends
  <2> QED BY <1>1, <2>2
<1> QED BY <1>2, <1>3

\* Counting keeps SamplerInv: it moves a row by what it adds.
LEMMA CountingKeeps ==
  ASSUME TableInv, TableInv', SamplerInv, UNCHANGED sampler, late' \in [Names -> Int],
         Extends(counters', counters),
         strayed => strayed',
         ~ strayed' => \A k \in DOMAIN counters :
                          Same(SumOf(data', k) - SumOf(data, k),
                               added'[counters[k]] - added[counters[k]])
  PROVE  SamplerInv'
<1>1. SamplerTypeOK /\ UNCHANGED <<last, total, mark, cut, fell>>
  BY DEF SamplerInv, sampler
<1>2. /\ DOMAIN last \subseteq DOMAIN counters
      /\ \A k \in DOMAIN counters : k \in Rows /\ SumOf(data, k) \in Int /\ counters[k] \in Names
                                    /\ added[counters[k]] \in Int
      /\ \A k \in DOMAIN last : last[k] \in Int
  BY <1>1, SnapshotRows
<1>3. \A k \in DOMAIN last : k \in DOMAIN counters' /\ counters'[k] = counters[k]
  BY <1>2 DEF Extends
<1>4. SamplerTypeOK'
  <2>1. Len(counters) \in Nat /\ Len(counters') \in Nat /\ DOMAIN counters = 1 .. Len(counters)
        /\ DOMAIN counters' = 1 .. Len(counters')
    BY DEF TableInv, TableTypeOK
  <2>2. Len(counters) <= Len(counters')
    BY ExtendsLonger DEF TableInv, TableTypeOK
  <2>3. Len(last) \in Nat
    BY <1>1 DEF SamplerTypeOK
  <2> QED BY <1>1, <2>1, <2>2, <2>3 DEF SamplerTypeOK
<1>5. LastAgrees'
  <2> SUFFICES ASSUME ~ strayed', NEW k \in DOMAIN last
               PROVE  Same(last[k] - cut[counters'[k]], SumOf(data', k) - added'[counters'[k]])
    BY <1>1 DEF LastAgrees
  <2> DEFINE n == counters[k]
             a == last[k] - cut[n]
             b == SumOf(data, k) - added[n]
             c == SumOf(data', k) - SumOf(data, k)
             d == added'[n] - added[n]
             e == SumOf(data', k) - added'[n]
  <2>1. n \in Names /\ counters'[k] = n /\ k \in DOMAIN counters
    BY <1>2, <1>3
  <2>2. Same(a, b) /\ Same(c, d)
    BY <2>1 DEF SamplerInv, LastAgrees
  <2>3. /\ last[k] \in Int /\ cut[n] \in Int /\ SumOf(data, k) \in Int /\ added[n] \in Int
        /\ SumOf(data', k) \in Int /\ added'[n] \in Int
    <3>1. added'[n] \in Int /\ cut[n] \in Int
      BY <1>1, <2>1 DEF TableInv, TableTypeOK, SamplerTypeOK
    <3>2. SumOf(data', k) \in Int
      <4>1. data' \in [Cells -> Int] /\ k \in Rows /\ MaxThreads \in 0 .. MaxThreads
        BY <1>2, <2>1, CounterAssumption DEF TableInv, TableTypeOK
      <4> QED BY <4>1, SumsDef DEF SumOf
    <3> QED BY <1>2, <2>1, <3>1, <3>2
  <2>4. a \in Int /\ b \in Int /\ c \in Int /\ d \in Int /\ e \in Int /\ b + c - d = e
    BY <2>3
  <2> HIDE DEF a, b, c, d, e
  <2>5. Same(b + c, b + d) /\ b + c \in Int /\ b + d \in Int
    <3>1. Same(b, b)
      BY <2>4, SameSum
    <3>2. Same(b + c, b + d)
      BY <2>2, <2>4, <3>1, SameSum, Zenon
    <3> QED BY <2>4, <3>2
  <2>6. Same((b + c) - d, (b + d) - d)
    BY <2>4, <2>5, SameSum
  <2>7. (b + c) - d = e /\ (b + d) - d = b
    BY <2>4
  <2>8. Same(e, b)
    BY <2>6, <2>7
  <2>9. Same(b, e)
    BY <2>4, <2>8, SameSum
  <2>10. Same(a, e)
    BY <2>2, <2>4, <2>9, SameSum
  <2> QED BY <2>1, <2>10 DEF a, e, n
<1>6. TotalAgrees'
  BY <1>1, <1>2, <1>3 DEF SamplerInv, TotalAgrees
<1> QED BY <1>4, <1>5, <1>6 DEF SamplerInv

\* The rows of the pass under way are rows of the table.
LEMMA PassRows ==
  ASSUME TableInv, ScanTypeOK
  PROVE  /\ DOMAIN cellsRead \subseteq DOMAIN counters /\ DOMAIN sums = DOMAIN cellsRead
         /\ \A k \in DOMAIN cellsRead : k \in Rows /\ cellsRead[k] \in 0 .. MaxThreads /\ sums[k] \in Int
<1>1. /\ counters \in Seq(Names) /\ cellsRead \in Seq(0 .. MaxThreads) /\ sums \in Seq(Int)
      /\ Len(cellsRead) <= Len(counters) /\ Len(sums) = Len(cellsRead)
  BY DEF TableInv, TableTypeOK, ScanTypeOK
<1>2. /\ DOMAIN cellsRead = 1 .. Len(cellsRead) /\ DOMAIN counters = 1 .. Len(counters)
      /\ DOMAIN sums = 1 .. Len(sums) /\ Len(cellsRead) \in Nat /\ Len(counters) \in Nat
  BY <1>1
<1>3. DOMAIN cellsRead \subseteq DOMAIN counters /\ DOMAIN sums = DOMAIN cellsRead
  BY <1>1, <1>2
<1>4. DOMAIN counters \subseteq Rows
  BY TableLists
<1>5. ASSUME NEW k \in DOMAIN cellsRead PROVE cellsRead[k] \in 0 .. MaxThreads /\ sums[k] \in Int
  <2>1. cellsRead[k] \in 0 .. MaxThreads
    <3> DEFINE X == 0 .. MaxThreads
    <3>1. cellsRead \in Seq(X)
      BY <1>1
    <3> HIDE DEF X
    <3>2. cellsRead[k] \in X
      BY <3>1
    <3> QED BY <3>2 DEF X
  <2>2. k \in DOMAIN sums
    BY <1>3
  <2>3. sums[k] \in Int
    BY <1>1, <2>2
  <2> QED BY <2>1, <2>3
<1> QED BY <1>3, <1>4, <1>5

\* The beginning of an update keeps PassInv.
LEMMA PassBeginUpdate ==
  ASSUME TableInv, TableInv', PassInv, Extends(counters', counters), strayed => strayed',
         UNCHANGED <<data, passVars, late, last>>
  PROVE  PassInv'
<1>1. ScanTypeOK /\ UNCHANGED <<data, scanning, cellsRead, sums, late, last>>
  BY DEF PassInv, passVars
<1>2. /\ DOMAIN cellsRead \subseteq DOMAIN counters
      /\ \A k \in DOMAIN cellsRead : k \in Rows /\ cellsRead[k] \in 0 .. MaxThreads /\ sums[k] \in Int
  BY <1>1, PassRows
<1>3. Len(counters) <= Len(counters')
  BY ExtendsLonger DEF TableInv, TableTypeOK
<1>4. ScanTypeOK'
  <2>1. Len(cellsRead) \in Nat /\ Len(counters) \in Nat /\ Len(counters') \in Nat
    <3>1. counters \in Seq(Names) /\ counters' \in Seq(Names)
      BY DEF TableInv, TableTypeOK
    <3>2. Len(cellsRead) \in Nat
      BY <1>1 DEF ScanTypeOK
    <3> QED BY <3>1, <3>2
  <2>2. Len(cellsRead) <= Len(counters')
    BY <1>1, <1>3, <2>1 DEF ScanTypeOK
  <2> QED BY <1>1, <2>2 DEF ScanTypeOK
<1>5. \A k \in DOMAIN cellsRead : counters'[k] = counters[k]
  BY <1>2 DEF Extends
<1>6. ScanAgrees'
  BY <1>1, <1>5 DEF PassInv, ScanAgrees
<1> QED BY <1>4, <1>6 DEF PassInv

\* The end of an update keeps PassInv: it is late for the pass if its cell is
\* among those whose sum it changes.
LEMMA PassEndUpdate ==
  ASSUME TableInv, TableInv', SamplerTypeOK, PassInv, NEW u \in doing, EndUpdate(u)
  PROVE  PassInv' /\ late' \in [Names -> Int]
<1>0. /\ data' = [data EXCEPT ![u.cell] = u.value]
      /\ late' = IF AlreadyRead(u.name, u.cell)
                 THEN [late EXCEPT ![u.name] = Wrap(@ + u.value - u.old)] ELSE late
      /\ UNCHANGED <<counters, slots, strayed, scanning, cellsRead, sums, last>>
  BY DEF EndUpdate, passVars, sampler
<1>1. /\ u.thread \in CThreads /\ u.name \in Names /\ u.cell \in Cells /\ u.old \in Int /\ u.value \in Int
      /\ data \in [Cells -> Int] /\ late \in [Names -> Int] /\ counters \in Seq(Names)
      /\ Distinct(counters)
  BY DEF TableInv, TableTypeOK, RowsKnown, Update, SamplerTypeOK
<1> DEFINE x == late[u.name] + u.value - u.old
<1>2. x \in Int /\ Wrap(x) \in Int /\ Same(Wrap(x), x)
  <2>1. x \in Int
    BY <1>1
  <2> HIDE DEF x
  <2> QED BY <2>1, WrapSame
<1>3. late' = IF AlreadyRead(u.name, u.cell) THEN [late EXCEPT ![u.name] = Wrap(x)] ELSE late
  BY <1>0
<1> HIDE DEF x
<1>4. /\ late' \in [Names -> Int]
      /\ \A n \in Names : late'[n] = IF n = u.name /\ AlreadyRead(u.name, u.cell) THEN Wrap(x)
                                     ELSE late[n]
  BY <1>1, <1>2, <1>3
<1>5. /\ data' \in [Cells -> Int] /\ data'[u.cell] = u.value
      /\ \A c \in Cells : c # u.cell => data'[c] = data[c]
  BY <1>0, <1>1
<1>6. /\ DOMAIN cellsRead \subseteq DOMAIN counters
      /\ \A k \in DOMAIN cellsRead : k \in Rows /\ cellsRead[k] \in 0 .. MaxThreads /\ sums[k] \in Int
  BY PassRows DEF PassInv
<1>7. ScanTypeOK'
  <2>1. ~scanning => late' = late
    <3>1. ~scanning => DOMAIN cellsRead = {}
      BY DEF PassInv, ScanTypeOK
    <3>2. ~scanning => ~ AlreadyRead(u.name, u.cell)
      BY <3>1 DEF AlreadyRead
    <3> QED BY <1>3, <3>2
  <2> QED BY <1>0, <2>1 DEF PassInv, ScanTypeOK
<1>8. ASSUME ~ strayed, NEW k \in DOMAIN cellsRead
      PROVE  Same(sums[k] + late'[counters[k]], Sums(data', k)[cellsRead[k]])
  <2> DEFINE n == counters[k]
  <2>1. Placed(u)
    BY <1>8 DEF TableInv, UpdatesPlaced
  <2>2. PICK k0 \in DOMAIN counters, s0 \in DOMAIN slots :
             /\ counters[k0] = u.name /\ slots[s0] = u.thread
             /\ u.cell = GetLocation(k0, s0) /\ u.old = data[u.cell]
    BY <2>1 DEF Placed
  <2>3. k0 \in Rows /\ s0 \in Slots /\ k \in Rows /\ k \in DOMAIN counters
    BY <1>6, TableLists
  <2>4. \A l \in Rows, r \in Slots : GetLocation(l, r) \in Cells
                                     /\ (GetLocation(l, r) = u.cell => l = k0 /\ r = s0)
    BY <2>2, <2>3, CellsDiffer
  <2>5. \A r \in Slots : r # s0 => data'[GetLocation(k, r)] = data[GetLocation(k, r)]
    BY <1>5, <2>3, <2>4
  <2> DEFINE cell == GetLocation(k, s0)
             m == cellsRead[k]
             b == IF m < s0 THEN 0 ELSE data'[cell] - data[cell]
             P == Sums(data, k)[m]
             Q == Sums(data', k)[m]
             L == late[n]
             M == late'[n]
             v == sums[k]
  <2>6. P \in Int /\ Q \in Int /\ Same(Q - P, b)
    BY <1>1, <1>5, <1>6, <2>3, <2>5, PrefixChange
  <2>7. n \in Names /\ L \in Int /\ M \in Int /\ v \in Int
    BY <1>1, <1>4, <1>6, <2>3
  <2>8. cell \in Cells /\ data[cell] \in Int /\ data'[cell] \in Int
    BY <1>1, <1>5, <2>3, <2>4
  <2>9. Same(M - L, b) /\ b \in Int
    <3>1. CASE k = k0
      <4>1. n = u.name /\ cell = u.cell /\ data'[cell] - data[cell] = u.value - u.old
        BY <1>5, <2>2, <3>1
      <4>2. IndexOf(counters, u.name) = k
        BY <1>1, <2>2, <2>3, <3>1, IndexOfPlace
      <4>3. AlreadyRead(u.name, u.cell) <=> ~ (m < s0)
        <5>1. AlreadyRead(u.name, u.cell) <=> GetLocation(k, s0) <= GetLocation(k, m)
          BY <4>1, <4>2 DEF AlreadyRead
        <5>2. (k - 1) * MaxThreads \in Int /\ s0 \in Int /\ m \in Int
          BY <1>6, <2>3, CounterAssumption DEF Rows, Slots
        <5> QED BY <5>1, <5>2 DEF GetLocation
      <4>4. CASE m < s0
        <5>1. M - L = 0 /\ b = 0
          BY <1>4, <2>7, <4>3, <4>4
        <5> QED BY <5>1, SameSum
      <4>5. CASE ~ (m < s0)
        <5>1. M = Wrap(x) /\ L = late[u.name] /\ b = u.value - u.old
          BY <1>4, <2>7, <4>1, <4>3, <4>5
        <5>2. x - L = b /\ b \in Int
          BY <1>1, <5>1 DEF x
        <5> HIDE DEF L, M, b
        <5>3. Same(L, L)
          BY <2>7, SameSum
        <5>4. Same(Wrap(x) - L, x - L)
          BY <1>2, <2>7, <5>3, SameSum
        <5> QED BY <5>1, <5>2, <5>4
      <4> QED BY <4>4, <4>5
    <3>2. CASE k # k0
      <4>1. n # u.name
        BY <1>1, <2>2, <2>3, <3>2 DEF Distinct
      <4>2. cell # u.cell
        BY <2>3, <2>4, <3>2
      <4>3. M - L = 0 /\ b = 0
        BY <1>4, <1>5, <2>7, <2>8, <4>1, <4>2
      <4> QED BY <4>3, SameSum
    <3> QED BY <3>1, <3>2
  <2>10. Same(v + L, P)
    BY <1>8 DEF PassInv, ScanAgrees
  <2> HIDE DEF L, M, P, Q, v, b
  <2>11. Same(b, Q - P) /\ Q - P \in Int /\ M - L \in Int /\ v + L \in Int
    <3>1. Q - P \in Int /\ M - L \in Int /\ v + L \in Int
      BY <2>6, <2>7
    <3>2. Same(b, Q - P)
      BY <2>6, <2>9, <3>1, SameSum
    <3> QED BY <3>1, <3>2
  <2>12. Same(M - L, Q - P)
    BY <2>9, <2>11, SameSum
  <2>13. Same((v + L) + (M - L), P + (Q - P))
    BY <2>6, <2>10, <2>11, <2>12, SameSum
  <2>14. (v + L) + (M - L) = v + M /\ P + (Q - P) = Q
    BY <2>6, <2>7
  <2> QED BY <2>13, <2>14 DEF v, M, Q, n
<1>9. ScanAgrees'
  BY <1>0, <1>8 DEF ScanAgrees
<1> QED BY <1>4, <1>7, <1>9 DEF PassInv

\* A pass begins with nothing read.
LEMMA PassBegins ==
  ASSUME TableInv, SamplerTypeOK, PassInv, BeginSample
  PROVE  PassInv'
<1>1. /\ ~scanning /\ scanning' /\ cellsRead' = [k \in DOMAIN counters |-> 0]
      /\ sums' = [k \in DOMAIN counters |-> 0]
      /\ UNCHANGED <<data, counters, strayed, late, last>>
  BY DEF BeginSample, table, sampler
<1>2. counters \in Seq(Names) /\ last \in Seq(Int) /\ Len(last) <= Len(counters)
      /\ late \in [Names -> Int] /\ data \in [Cells -> Int]
  BY DEF TableInv, TableTypeOK, SamplerTypeOK
<1>3. DOMAIN counters = 1 .. Len(counters) /\ Len(counters) \in Nat /\ Len(last) \in Nat
      /\ 0 \in 0 .. MaxThreads
  BY <1>2, CounterAssumption
<1>4. /\ cellsRead' \in Seq(0 .. MaxThreads) /\ sums' \in Seq(Int) /\ Len(cellsRead') = Len(counters)
      /\ Len(sums') = Len(counters)
  BY <1>1, <1>3
<1>5. ScanTypeOK'
  BY <1>1, <1>2, <1>3, <1>4 DEF ScanTypeOK
<1>6. ASSUME NEW k \in DOMAIN counters
      PROVE  Same(sums'[k] + late[counters[k]], Sums(data, k)[cellsRead'[k]])
  <2>1. k \in Rows /\ counters[k] \in Names
    BY <1>2, TableLists
  <2>2. sums'[k] = 0 /\ cellsRead'[k] = 0 /\ late[counters[k]] = 0
    BY <1>1, <2>1 DEF PassInv, ScanTypeOK
  <2>3. Sums(data, k)[0] = 0
    BY <1>2, <2>1, SumsDef
  <2>4. sums'[k] + late[counters[k]] = 0 /\ Sums(data, k)[cellsRead'[k]] = 0
    BY <2>2, <2>3
  <2> QED BY <2>4, SameSum
<1>7. ScanAgrees'
  BY <1>1, <1>6 DEF ScanAgrees
<1> QED BY <1>5, <1>7 DEF PassInv

\* The pass reads a cell.
LEMMA PassReads ==
  ASSUME TableInv, SamplerTypeOK, PassInv, NEW j \in DOMAIN cellsRead, ReadCell(j)
  PROVE  PassInv'
<1>1. /\ cellsRead[j] < MaxThreads /\ cellsRead' = [cellsRead EXCEPT ![j] = @ + 1]
      /\ sums' = [sums EXCEPT ![j] = Wrap(@ + data[GetLocation(j, cellsRead[j] + 1)])]
      /\ UNCHANGED <<scanning, data, counters, strayed, late, last>>
  BY DEF ReadCell, table, sampler
<1>2. /\ DOMAIN cellsRead \subseteq DOMAIN counters /\ DOMAIN sums = DOMAIN cellsRead
      /\ \A k \in DOMAIN cellsRead : k \in Rows /\ cellsRead[k] \in 0 .. MaxThreads /\ sums[k] \in Int
  BY PassRows DEF PassInv
<1>3. /\ cellsRead \in Seq(0 .. MaxThreads) /\ sums \in Seq(Int) /\ Len(cellsRead) <= Len(counters)
      /\ Len(sums) = Len(cellsRead) /\ data \in [Cells -> Int] /\ late \in [Names -> Int]
      /\ counters \in Seq(Names)
  BY DEF PassInv, ScanTypeOK, TableInv, TableTypeOK, SamplerTypeOK
<1> DEFINE c == data[GetLocation(j, cellsRead[j] + 1)]
           m == cellsRead[j] + 1
           w == sums[j] + c
<1>4. m \in Slots /\ m \in 0 .. MaxThreads /\ m - 1 = cellsRead[j]
  BY <1>1, <1>2, CounterAssumption DEF Slots
<1>5. c \in Int /\ w \in Int
  <2>1. GetLocation(j, m) \in Cells
    BY <1>2, <1>4, CellsDiffer
  <2>2. data[GetLocation(j, m)] \in Int
    BY <1>3, <2>1
  <2> QED BY <1>2, <2>2
<1>6. sums' = [sums EXCEPT ![j] = Wrap(w)] /\ cellsRead' = [cellsRead EXCEPT ![j] = m]
  BY <1>1
<1>7. c = data[GetLocation(j, m)]
  OBVIOUS
<1>7a. w = sums[j] + c
  OBVIOUS
<1> HIDE DEF c, m, w
<1>8. Wrap(w) \in Int /\ Same(Wrap(w), w)
  BY <1>5, WrapSame
<1>9. ScanTypeOK'
  <2>1. /\ cellsRead' \in Seq(0 .. MaxThreads) /\ sums' \in Seq(Int)
        /\ Len(cellsRead') = Len(cellsRead) /\ Len(sums') = Len(sums)
    BY <1>2, <1>3, <1>4, <1>6, <1>8
  <2>2. scanning
    BY DEF PassInv, ScanTypeOK
  <2> QED BY <1>1, <1>3, <2>1, <2>2 DEF PassInv, ScanTypeOK
<1>10. ASSUME ~ strayed, NEW k \in DOMAIN cellsRead
       PROVE  Same(sums'[k] + late[counters[k]], Sums(data, k)[cellsRead'[k]])
  <2>1. Same(sums[k] + late[counters[k]], Sums(data, k)[cellsRead[k]])
    BY <1>10 DEF PassInv, ScanAgrees
  <2>2. CASE k # j
    <3>1. sums'[k] = sums[k] /\ cellsRead'[k] = cellsRead[k]
      BY <1>2, <1>3, <1>6, <2>2
    <3> QED BY <2>1, <3>1
  <2>3. CASE k = j
    <3>1. sums'[k] = Wrap(w) /\ cellsRead'[k] = m
      BY <1>2, <1>3, <1>6, <2>3
    <3> DEFINE L == late[counters[k]]
               p == Sums(data, k)[cellsRead[k]]
               v == sums[k]
    <3>2. L \in Int /\ v \in Int
      <4>1. counters[k] \in Names
        BY <1>2, <1>3
      <4> QED BY <1>2, <1>3, <4>1
    <3>3. p \in Int /\ Sums(data, k)[m] = Wrap(p + c)
      BY <1>2, <1>3, <1>4, <1>7, <2>3, SumsDef
    <3>4. Same(v + L, p) /\ w = v + c
      BY <1>7a, <2>1, <2>3
    <3> HIDE DEF L, p, v
    <3>5. Same(c, c) /\ Same(L, L) /\ v + L \in Int
      BY <1>5, <3>2, SameSum
    <3>6. Same((v + L) + c, p + c)
      BY <1>5, <3>3, <3>4, <3>5, SameSum
    <3>7. (v + L) + c = w + L /\ p + c \in Int /\ w + L \in Int
      BY <1>5, <3>2, <3>3, <3>4
    <3>8. Same(Wrap(w) + L, w + L) /\ Wrap(w) + L \in Int
      <4>1. Same(Wrap(w) + L, w + L)
        BY <1>5, <1>8, <3>2, <3>5, SameSum
      <4> QED BY <1>8, <3>2, <4>1
    <3>9. Same(Wrap(w) + L, p + c)
      BY <3>6, <3>7, <3>8, SameSum
    <3>10. Same(p + c, Wrap(p + c)) /\ Wrap(p + c) \in Int
      BY <3>7, WrapSame, SameSum
    <3>11. Same(Wrap(w) + L, Wrap(p + c))
      BY <3>7, <3>8, <3>9, <3>10, SameSum
    <3> QED BY <3>1, <3>3, <3>11 DEF L
  <2> QED BY <2>2, <2>3
<1>11. DOMAIN cellsRead' = DOMAIN cellsRead
  BY <1>1
<1>12. ScanAgrees'
  BY <1>1, <1>10, <1>11 DEF ScanAgrees
<1> QED BY <1>9, <1>12 DEF PassInv

\* What a pass got of each row when it ends.
LEMMA PassEnds ==
  ASSUME TableInv, SamplerTypeOK, PassInv, EndSample, ~ strayed, NEW k \in DOMAIN sums
  PROVE  Same(sums[k] - Seen[counters[k]], SumOf(data, k) - added[counters[k]])
<1>1. /\ DOMAIN cellsRead \subseteq DOMAIN counters /\ DOMAIN sums = DOMAIN cellsRead /\ sums[k] \in Int
  BY PassRows DEF PassInv
<1>2. cellsRead[k] = MaxThreads /\ k \in DOMAIN cellsRead /\ k \in DOMAIN counters
  BY <1>1 DEF EndSample
<1> DEFINE n == counters[k]
           v == sums[k]
           L == late[n]
           A == added[n]
           T == SumOf(data, k)
<1>3. n \in Names /\ A \in Int /\ T \in Int
  BY <1>2, SnapshotRows
<1>4. v \in Int /\ L \in Int /\ Seen[n] = A - L
  BY <1>1, <1>3 DEF SamplerTypeOK, Seen
<1>5. Same(v + L, T)
  BY <1>2 DEF PassInv, ScanAgrees, SumOf
<1>6. v - Seen[n] = (v + L) - A
  <2> HIDE DEF v, L, A, n
  <2> QED BY <1>3, <1>4
<1> HIDE DEF v, L, A, T
<1>7. Same(A, A) /\ v + L \in Int
  BY <1>3, <1>4, SameSum
<1>8. Same((v + L) - A, T - A)
  BY <1>3, <1>5, <1>7, SameSum
<1> QED BY <1>6, <1>8 DEF v, T, A, n

\* A sample keeps SamplerInv: what it adds to the samples of a counter that did
\* not go down is what was added since the last snapshot.
LEMMA SampleKeeps ==
  ASSUME TableInv, SamplerInv, PassInv, EndSample
  PROVE  SamplerInv' /\ PassInv'
<1> DEFINE new == sums
           entry == SnapshotDiff(new, last)
<1>1. SamplerTypeOK /\ ScanTypeOK /\ UNCHANGED table
  BY DEF SamplerInv, PassInv, EndSample
<1>1a. UNCHANGED <<data, counters, added, strayed>>
  BY <1>1 DEF table
<1>2. /\ DOMAIN last \subseteq DOMAIN counters
      /\ \A k \in DOMAIN counters : k \in Rows /\ SumOf(data, k) \in Int /\ counters[k] \in Names
                                    /\ added[counters[k]] \in Int
      /\ \A k \in DOMAIN last : last[k] \in Int
  BY <1>1, SnapshotRows
<1>3. /\ new \in Seq(Int) /\ DOMAIN new \subseteq DOMAIN counters /\ DOMAIN last \subseteq DOMAIN new
      /\ Len(new) <= Len(counters) /\ \A k \in DOMAIN new : new[k] \in Int
  <2>1. /\ DOMAIN cellsRead \subseteq DOMAIN counters /\ DOMAIN sums = DOMAIN cellsRead
        /\ \A k \in DOMAIN cellsRead : sums[k] \in Int
    BY <1>1, PassRows
  <2>2. sums \in Seq(Int) /\ Len(sums) <= Len(counters) /\ Len(last) <= Len(sums)
    BY <1>1 DEF ScanTypeOK, EndSample
  <2>3. DOMAIN last = 1 .. Len(last) /\ DOMAIN sums = 1 .. Len(sums) /\ Len(last) \in Nat
        /\ Len(sums) \in Nat
    BY <1>1, <2>2 DEF SamplerTypeOK
  <2>4. DOMAIN last \subseteq DOMAIN sums
    BY <2>2, <2>3
  <2> QED BY <2>1, <2>2, <2>4
<1>4. /\ last' = new
      /\ total' = [n \in Names |-> LET k == IndexOf(counters, n) IN
                      IF k \in DOMAIN entry THEN Wrap(total[n] + entry[k]) ELSE total[n]]
      /\ mark' = [n \in Names |-> LET k == IndexOf(counters, n) IN
                      IF k \in DOMAIN new \ DOMAIN last THEN Seen[n] ELSE mark[n]]
      /\ cut' = Seen
      /\ fell' = fell \cup {n \in Names : LET k == IndexOf(counters, n) IN
                                k \in DOMAIN last /\ new[k] < last[k]}
      /\ scanning' = FALSE /\ cellsRead' = <<>> /\ sums' = <<>> /\ late' = [n \in Names |-> 0]
  BY DEF EndSample
<1>4a. ~ strayed => \A k \in DOMAIN new :
                       Same(new[k] - Seen[counters[k]], SumOf(data, k) - added[counters[k]])
  BY <1>1, PassEnds
<1>5. DOMAIN entry = DOMAIN last
      /\ \A k \in DOMAIN last : entry[k] = IF new[k] < last[k] THEN Wrap(IntMax - last[k] - new[k])
                                           ELSE Wrap(new[k] - last[k])
  BY DEF SnapshotDiff
<1> HIDE DEF new, entry
<1>6. counters \in Seq(Names) /\ Distinct(counters) /\ added \in [Names -> Int]
      /\ Seen \in [Names -> Int]
      /\ total \in [Names -> Int] /\ mark \in [Names -> Int] /\ cut \in [Names -> Int]
  <2>1. added \in [Names -> Int] /\ late \in [Names -> Int]
    BY <1>1 DEF TableInv, TableTypeOK, SamplerTypeOK
  <2>2. Seen \in [Names -> Int]
    BY <2>1 DEF Seen
  <2> QED BY <1>1, <2>2 DEF TableInv, TableTypeOK, RowsKnown, SamplerTypeOK
<1>7. \A k \in DOMAIN counters : IndexOf(counters, counters[k]) = k /\ k # 0
  <2>1. \A k \in DOMAIN counters : k # 0
    BY <1>6
  <2> QED BY <1>6, <2>1, IndexOfPlace
<1>8. \A k \in DOMAIN last : entry[k] \in Int
  <2> SUFFICES ASSUME NEW k \in DOMAIN last PROVE entry[k] \in Int
    OBVIOUS
  <2> DEFINE a == IntMax - last[k] - new[k]
             b == new[k] - last[k]
  <2>1. a \in Int /\ b \in Int
    BY <1>2, <1>3, CounterAssumption
  <2>2. Wrap(a) \in Int /\ Wrap(b) \in Int
    <3> HIDE DEF a, b
    <3> QED BY <2>1, WrapSame
  <2> QED BY <1>5, <2>2
<1>9. SamplerTypeOK'
  <2>1. new \in Seq(Int) /\ Len(new) <= Len(counters) /\ late' \in [Names -> Int]
    BY <1>3, <1>4
  <2>2. \A n \in Names : total'[n] \in Int
    <3> SUFFICES ASSUME NEW n \in Names PROVE total'[n] \in Int
      OBVIOUS
    <3> DEFINE k == IndexOf(counters, n)
    <3>1. total'[n] = IF k \in DOMAIN last THEN Wrap(total[n] + entry[k]) ELSE total[n]
      BY <1>4, <1>5
    <3>2. total[n] \in Int /\ (k \in DOMAIN last => total[n] + entry[k] \in Int)
      BY <1>6, <1>8
    <3> HIDE DEF k
    <3>3. k \in DOMAIN last => Wrap(total[n] + entry[k]) \in Int
      BY <3>2, WrapSame
    <3> QED BY <3>1, <3>2, <3>3
  <2>3. total' \in [Names -> Int]
    BY <1>4, <2>2
  <2>4. mark' \in [Names -> Int] /\ cut' \in [Names -> Int]
    BY <1>4, <1>6
  <2>5. Len(last') <= Len(counters')
    BY <1>1a, <1>4, <1>6, <2>1
  <2> QED BY <1>4, <2>1, <2>3, <2>4, <2>5 DEF SamplerTypeOK
<1>10. LastAgrees'
  <2>1. \A k \in DOMAIN new : k \in DOMAIN counters
    BY <1>3
  <2> QED BY <1>1a, <1>4, <1>4a DEF LastAgrees
<1>11. ASSUME ~ strayed, NEW k \in DOMAIN new, counters[k] \notin fell'
       PROVE  total'[counters[k]] = Wrap(cut'[counters[k]] - mark'[counters[k]])
  <2> DEFINE n == counters[k]
             now == Seen[n]
  <2>1. n \in Names /\ IndexOf(counters, n) = k /\ k # 0 /\ n \notin fell /\ k \in DOMAIN counters
    BY <1>2, <1>3, <1>4, <1>7, <1>11
  <2>2. /\ total'[n] = IF k \in DOMAIN last THEN Wrap(total[n] + entry[k]) ELSE total[n]
        /\ mark'[n] = IF k \notin DOMAIN last THEN now ELSE mark[n]
        /\ cut'[n] = now
    <3>1. total'[n] = IF k \in DOMAIN last THEN Wrap(total[n] + entry[k]) ELSE total[n]
      BY <1>4, <1>5, <2>1
    <3>2. mark'[n] = IF k \in DOMAIN new \ DOMAIN last THEN now ELSE mark[n]
      BY <1>4, <2>1
    <3> QED BY <1>4, <3>1, <3>2
  <2>3. now \in Int /\ added[n] \in Int /\ total[n] \in Int /\ mark[n] \in Int /\ cut[n] \in Int
    BY <1>6, <2>1
  <2> HIDE DEF now
  <2>4. CASE k \notin DOMAIN last
    <3>1. \A j \in DOMAIN last : counters[j] # n
      BY <1>2, <1>6, <2>1, <2>4 DEF Distinct
    <3>2. total[n] = 0
      BY <2>1, <3>1 DEF SamplerInv, TotalAgrees
    <3>3. Wrap(0) = 0
      <4>1. (0 + IntMax + 1) % (2 * IntMax + 2) = IntMax + 1
        BY CounterAssumption
      <4> QED BY <4>1, CounterAssumption DEF Wrap
    <3>4. now - now = 0
      BY <2>3
    <3> QED BY <2>2, <2>4, <3>2, <3>3, <3>4
  <2>5. CASE k \in DOMAIN last
    <3> DEFINE new0 == new[k]
               old0 == last[k]
               off == SumOf(data, k) - added[n]
    <3>1. new0 \in Int /\ old0 \in Int /\ off \in Int
      BY <1>2, <1>3, <2>1, <2>5
    <3>2. ~ (new0 < old0)
      <4>1. new[k] < last[k] => n \in fell'
        BY <1>4, <2>1, <2>5
      <4> QED BY <1>11, <4>1
    <3>3. entry[k] = Wrap(new0 - old0)
      BY <1>5, <2>5, <3>2
    <3>4. Same(old0 - cut[n], off) /\ Same(new0 - now, off) /\ total[n] = Wrap(cut[n] - mark[n])
      BY <1>4a, <1>11, <2>1, <2>5 DEF SamplerInv, LastAgrees, TotalAgrees, now
    <3> HIDE DEF new0, old0, off, n
    <3> DEFINE p == cut[n] - mark[n]
               q == new0 - old0
               r == now - mark[n]
    <3>5. p \in Int /\ q \in Int /\ r \in Int
      BY <2>3, <3>1
    <3>6. Same(p + q, r)
      <4> DEFINE a == old0 - cut[n]
                 b == new0 - now
                 c == new0 - mark[n]
      <4>1. a \in Int /\ b \in Int /\ c \in Int /\ c - a = p + q /\ c - b = r
        BY <2>3, <3>1
      <4>2. Same(a, off) /\ Same(b, off)
        BY <3>4
      <4> HIDE DEF a, b, c, p, q, r
      <4>3. Same(c, c) /\ Same(off, b)
        BY <3>1, <4>1, <4>2, SameSum
      <4>4. Same(a, b)
        BY <3>1, <4>1, <4>2, <4>3, SameSum
      <4>5. Same(c - a, c - b)
        BY <4>1, <4>3, <4>4, SameSum
      <4> QED BY <4>1, <4>5
    <3> HIDE DEF p, q, r
    <3>7. Wrap(p) \in Int /\ Wrap(q) \in Int /\ Same(Wrap(p), p) /\ Same(Wrap(q), q)
      BY <3>5, WrapSame
    <3>8. Same(Wrap(p) + Wrap(q), p + q) /\ Wrap(p) + Wrap(q) \in Int /\ p + q \in Int
      <4>1. Same(Wrap(p) + Wrap(q), p + q)
        BY <3>5, <3>7, SameSum, Zenon
      <4> QED BY <3>5, <3>7, <4>1
    <3>9. Same(Wrap(p) + Wrap(q), r)
      BY <3>5, <3>6, <3>8, SameSum
    <3>10. Wrap(Wrap(p) + Wrap(q)) = Wrap(r)
      BY <3>5, <3>8, <3>9, SameWrap
    <3>11. total'[n] = Wrap(Wrap(p) + Wrap(q)) /\ cut'[n] - mark'[n] = r
      BY <2>2, <2>5, <3>3, <3>4 DEF p, q, r
    <3> QED BY <3>10, <3>11 DEF n
  <2> QED BY <2>4, <2>5
<1>12. ASSUME NEW n \in Names, \A k \in DOMAIN new : counters[k] # n PROVE total'[n] = 0
  <2>1. IndexOf(counters, n) \notin DOMAIN last
    <3>1. ASSUME IndexOf(counters, n) \in DOMAIN last PROVE FALSE
      <4>1. IndexOf(counters, n) # 0
        BY <1>2, <1>7, <3>1
      <4>2. counters[IndexOf(counters, n)] = n
        BY <1>6, <4>1, IndexOfIs
      <4> QED BY <1>3, <1>12, <3>1, <4>2
    <3> QED BY <3>1
  <2>2. total'[n] = total[n]
    BY <1>4, <1>5, <2>1
  <2>3. \A k \in DOMAIN last : counters[k] # n
    BY <1>3, <1>12
  <2> QED BY <2>2, <2>3 DEF SamplerInv, TotalAgrees
<1>13. TotalAgrees'
  BY <1>1a, <1>4, <1>11, <1>12 DEF TotalAgrees
<1>14. PassInv'
  <2>1. ScanTypeOK'
    <3>1. cellsRead' \in Seq(0 .. MaxThreads) /\ sums' \in Seq(Int) /\ Len(cellsRead') = 0 /\ Len(sums') = 0
      BY <1>4
    <3>2. Len(counters') \in Nat
      BY <1>1a, <1>6
    <3> QED BY <1>4, <3>1, <3>2 DEF ScanTypeOK
  <2>2. ScanAgrees'
    BY <1>4 DEF ScanAgrees
  <2> QED BY <2>1, <2>2 DEF PassInv
<1> QED BY <1>9, <1>10, <1>13, <1>14 DEF SamplerInv

-----------------------------------------------------------------------------
(* The client: the order of the samples *)

Sample == [time : Int, entry : Seq(Int), no : Int]

ClientTypeOK ==
    /\ samples \in Seq(Sample)
    /\ second \in Int /\ since \in Int /\ heard \in Int /\ taken \in Int

\* Samples are numbered in the order of their times, and those after the last
\* row the client got are new to it.
SamplesOrdered ==
    /\ \A a \in DOMAIN samples : /\ samples[a].time <= second /\ samples[a].no <= taken
                                 /\ samples[a].time > since => samples[a].no > heard
    /\ \A a, b \in DOMAIN samples :
          samples[a].no <= samples[b].no => samples[a].time <= samples[b].time
    /\ heard <= taken

ClientInv == ClientTypeOK /\ SamplesOrdered

\* The members of the samples are numbers.
LEMMA SampleNumbers ==
  ASSUME ClientTypeOK
  PROVE  \A a \in DOMAIN samples : samples[a].time \in Int /\ samples[a].no \in Int
<1>1. \A a \in DOMAIN samples : samples[a] \in Sample
  BY DEF ClientTypeOK
<1>2. \A x \in Sample : x.time \in Int /\ x.no \in Int
  BY DEF Sample
<1> QED BY <1>1, <1>2

\* The samples after a push are the new one and some of the old.
LEMMA PushedIs ==
  ASSUME NEW X, NEW ring \in Seq(X), NEW x \in X
  PROVE  /\ Pushed(ring, x) \in Seq(X)
         /\ \A a \in DOMAIN Pushed(ring, x) :
               Pushed(ring, x)[a] = x \/ \E b \in DOMAIN ring : Pushed(ring, x)[a] = ring[b]
<1>1. CASE Len(ring) < SampleCap
  BY <1>1 DEF Pushed
<1>2. CASE ~ (Len(ring) < SampleCap)
  <2>1. ring # <<>> /\ Pushed(ring, x) = Append(Tail(ring), x)
    BY <1>2, CounterAssumption DEF Pushed
  <2>2. Tail(ring) \in Seq(X) /\ Len(Tail(ring)) = Len(ring) - 1
        /\ \A a \in 1 .. Len(ring) - 1 : Tail(ring)[a] = ring[a + 1]
    BY <2>1
  <2> DEFINE r == Tail(ring)
  <2> HIDE DEF r
  <2>3. \A a \in DOMAIN r : \E b \in DOMAIN ring : r[a] = ring[b]
    BY <2>2 DEF r
  <2>4. r \in Seq(X) /\ Pushed(ring, x) = Append(r, x)
    BY <2>1, <2>2 DEF r
  <2>5. \A a \in DOMAIN Append(r, x) :
           Append(r, x)[a] = x \/ (a \in DOMAIN r /\ Append(r, x)[a] = r[a])
    BY <2>4
  <2>6. Append(r, x) \in Seq(X)
    BY <2>4
  <2> QED BY <2>3, <2>4, <2>5, <2>6
<1> QED BY <1>1, <1>2

\* Every step keeps ClientInv.
LEMMA ClientStep ==
  TableInv /\ SamplerInv /\ PassInv /\ ClientInv /\ [NextCounters]_counterVars => ClientInv'
<1> SUFFICES ASSUME TableInv, SamplerInv, PassInv, ClientInv, [NextCounters]_counterVars PROVE ClientInv'
  OBVIOUS
<1>1. ASSUME UNCHANGED <<second, samples, since, heard, taken>> PROVE ClientInv'
  BY <1>1 DEF ClientInv, ClientTypeOK, SamplesOrdered
<1>2. ASSUME NEW t \in CThreads, NEW n \in Names, NEW v \in Deltas, NEW isSet \in BOOLEAN,
             BeginUpdate(t, n, v, isSet)
      PROVE  ClientInv'
  BY <1>1, <1>2 DEF BeginUpdate, sampler
<1>3. ASSUME NEW u \in doing, EndUpdate(u) PROVE ClientInv'
  BY <1>1, <1>3 DEF EndUpdate, sampler
<1>4. CASE EndSample
  <2> DEFINE entry == SnapshotDiff(sums, last)
             x == [time |-> second, entry |-> entry, no |-> taken + 1]
  <2>1. /\ taken' = taken + 1 /\ UNCHANGED <<second, since, heard>>
        /\ samples' = IF entry = <<>> THEN samples ELSE Pushed(samples, x)
    BY <1>4 DEF EndSample
  <2>2. entry \in Seq(Int)
    <3>1. SamplerTypeOK /\ last \in Seq(Int)
      BY DEF SamplerInv, SamplerTypeOK
    <3>2. \A k \in DOMAIN last : last[k] \in Int
      BY <3>1
    <3> DEFINE new == sums
    <3>3. \A k \in DOMAIN last : new[k] \in Int
      <4>1. sums \in Seq(Int) /\ Len(last) <= Len(sums)
        BY <1>4 DEF PassInv, ScanTypeOK, EndSample
      <4>2. DOMAIN last = 1 .. Len(last) /\ DOMAIN sums = 1 .. Len(sums) /\ Len(last) \in Nat
            /\ Len(sums) \in Nat
        BY <3>1, <4>1
      <4>3. DOMAIN last \subseteq DOMAIN sums
        BY <4>1, <4>2
      <4> QED BY <4>1, <4>3
    <3>4. entry = [k \in DOMAIN last |-> IF new[k] < last[k] THEN Wrap(IntMax - last[k] - new[k])
                                         ELSE Wrap(new[k] - last[k])]
      BY DEF SnapshotDiff
    <3> HIDE DEF new, entry
    <3>5. ASSUME NEW k \in DOMAIN last PROVE entry[k] \in Int
      <4> DEFINE a == IntMax - last[k] - new[k]
                 b == new[k] - last[k]
      <4>1. a \in Int /\ b \in Int
        BY <3>2, <3>3, CounterAssumption
      <4>2. Wrap(a) \in Int /\ Wrap(b) \in Int
        <5> HIDE DEF a, b
        <5> QED BY <4>1, WrapSame
      <4> QED BY <3>4, <4>2
    <3>6. DOMAIN last = 1 .. Len(last) /\ Len(last) \in Nat
      BY <3>1
    <3>7. entry = [k \in 1 .. Len(last) |-> entry[k]]
      BY <3>4, <3>6
    <3> QED BY <3>5, <3>6, <3>7
  <2>3. ClientTypeOK
    BY DEF ClientInv
  <2>4. x \in Sample /\ x.time = second /\ x.no = taken + 1
    <3> HIDE DEF entry
    <3> QED BY <2>2, <2>3 DEF Sample, ClientTypeOK
  <2>5. PICK y \in Sample : y = x
    BY <2>4
  <2> HIDE DEF x
  <2>6. samples' \in Seq(Sample)
        /\ \A a \in DOMAIN samples' : samples'[a] = y \/ \E b \in DOMAIN samples : samples'[a] = samples[b]
    <3>1. samples \in Seq(Sample)
      BY <2>3 DEF ClientTypeOK
    <3>2. CASE entry = <<>>
      BY <2>1, <3>1, <3>2
    <3>3. CASE entry # <<>>
      BY <2>1, <2>5, <3>1, <3>3, PushedIs
    <3> QED BY <3>2, <3>3
  <2>7. ClientTypeOK'
    BY <2>1, <2>3, <2>6 DEF ClientTypeOK
  <2>8. /\ \A a \in DOMAIN samples : samples[a].time \in Int /\ samples[a].no \in Int
        /\ y.time = second /\ y.no = taken + 1
    BY <2>3, <2>4, <2>5, SampleNumbers
  <2>9. \A a \in DOMAIN samples' : /\ samples'[a].time <= second /\ samples'[a].no <= taken + 1
                                   /\ samples'[a].time > since => samples'[a].no > heard
    BY <2>3, <2>6, <2>8 DEF ClientInv, ClientTypeOK, SamplesOrdered
  <2>10. ASSUME NEW a \in DOMAIN samples', NEW b \in DOMAIN samples', samples'[a].no <= samples'[b].no
         PROVE  samples'[a].time <= samples'[b].time
    <3>1. CASE samples'[b] = y
      BY <2>8, <2>9, <3>1
    <3>2. CASE samples'[b] # y
      <4>1. PICK c \in DOMAIN samples : samples'[b] = samples[c]
        BY <2>6, <3>2
      <4>2. samples'[b].no <= taken
        BY <4>1 DEF ClientInv, SamplesOrdered
      <4>3. samples'[a] # y
        BY <2>3, <2>8, <2>10, <4>1, <4>2 DEF ClientTypeOK
      <4>4. PICK d \in DOMAIN samples : samples'[a] = samples[d]
        BY <2>6, <4>3
      <4> QED BY <2>10, <4>1, <4>4 DEF ClientInv, SamplesOrdered
    <3> QED BY <3>1, <3>2
  <2>11. heard <= taken + 1
    BY <2>3 DEF ClientInv, ClientTypeOK, SamplesOrdered
  <2>12. SamplesOrdered'
    BY <2>1, <2>9, <2>10, <2>11 DEF SamplesOrdered
  <2> QED BY <2>7, <2>12 DEF ClientInv
<1>5. CASE Poll
  <2>1. PICK k \in DOMAIN samples : since' = samples[k].time /\ heard' = samples[k].no
    BY <1>5 DEF Poll, WriteJson
  <2>2. UNCHANGED <<second, samples, taken>>
    BY <1>5 DEF Poll
  <2>3. \A a \in DOMAIN samples : samples[a].time \in Int /\ samples[a].no \in Int
    BY SampleNumbers DEF ClientInv
  <2>4. ClientTypeOK'
    BY <2>1, <2>2, <2>3 DEF ClientInv, ClientTypeOK
  <2>5. \A a \in DOMAIN samples : samples[a].time > samples[k].time => samples[a].no > samples[k].no
    BY <2>3 DEF ClientInv, SamplesOrdered
  <2>6. SamplesOrdered'
    BY <2>1, <2>2, <2>3, <2>5 DEF ClientInv, SamplesOrdered
  <2> QED BY <2>4, <2>6 DEF ClientInv
<1>6. CASE CounterClock
  <2>1. second' = second + 1 /\ UNCHANGED <<samples, since, heard, taken>>
    BY <1>6 DEF CounterClock
  <2>2. \A a \in DOMAIN samples : samples[a].time \in Int
    BY SampleNumbers DEF ClientInv
  <2> QED BY <2>1, <2>2 DEF ClientInv, ClientTypeOK, SamplesOrdered
<1>7. ASSUME NEW t \in CThreads, ThreadExits(t) PROVE ClientInv'
  BY <1>1, <1>7 DEF ThreadExits, sampler
<1>8. ASSUME NEW k \in DOMAIN cellsRead, ReadCell(k) PROVE ClientInv'
  BY <1>1, <1>8 DEF ReadCell, sampler
<1>9. CASE BeginSample \/ UNCHANGED counterVars
  BY <1>1, <1>9 DEF BeginSample, counterVars, sampler
<1> QED BY <1>2, <1>3, <1>4, <1>5, <1>6, <1>7, <1>8, <1>9 DEF NextCounters

\* The samples account for the counting, for any threads and names, however often
\* a counter wraps and however the cells GetCounterValue reads without a lock
\* change around it: CounterSampler's differences add up to the updates the
\* passes saw, each once, and its client gets no sample twice.
THEOREM SamplesAddUp == CounterSpec => []SamplesAccountForAdds
<1> DEFINE Inv == TableInv /\ SamplerInv /\ PassInv /\ ClientInv
<1>1. InitCounters => Inv
  <2> SUFFICES ASSUME InitCounters PROVE SamplerInv /\ PassInv /\ ClientInv
    BY TableInit
  <2>1. /\ counters = <<>> /\ last = <<>> /\ samples = <<>> /\ second = 1 /\ since = 0
        /\ heard = 0 /\ taken = 0 /\ total = [n \in Names |-> 0] /\ mark = [n \in Names |-> 0]
        /\ cut = [n \in Names |-> 0] /\ scanning = FALSE /\ cellsRead = <<>> /\ sums = <<>>
        /\ late = [n \in Names |-> 0]
    BY DEF InitCounters
  <2>2. <<>> \in Seq(Int) /\ <<>> \in Seq(0 .. MaxThreads) /\ <<>> \in Seq(Sample) /\ Len(<<>>) = 0 /\ DOMAIN <<>> = {}
    OBVIOUS
  <2>3. SamplerTypeOK
    BY <2>1, <2>2 DEF SamplerTypeOK
  <2>4. LastAgrees /\ TotalAgrees
    BY <2>1, <2>2 DEF LastAgrees, TotalAgrees
  <2>5. ClientInv
    BY <2>1, <2>2 DEF ClientInv, ClientTypeOK, SamplesOrdered
  <2>6. ScanTypeOK /\ ScanAgrees
    BY <2>1, <2>2 DEF ScanTypeOK, ScanAgrees
  <2> QED BY <2>3, <2>4, <2>5, <2>6 DEF SamplerInv, PassInv
<1>2. Inv /\ [NextCounters]_counterVars => Inv'
  <2> SUFFICES ASSUME Inv, [NextCounters]_counterVars PROVE SamplerInv' /\ PassInv'
    BY TableStep, ClientStep
  <2>1. TableInv'
    BY TableStep
  <2>2. ASSUME NEW t \in CThreads, NEW n \in Names, NEW v \in Deltas, NEW isSet \in BOOLEAN,
               BeginUpdate(t, n, v, isSet)
        PROVE  SamplerInv' /\ PassInv'
    <3>1. Extends(counters', counters) /\ (strayed => strayed')
      BY <2>2, BeginKeeps
    <3>2. data' = data /\ added' = added /\ UNCHANGED <<sampler, passVars, late, last>>
      BY <2>2 DEF BeginUpdate, sampler
    <3>2a. late' \in [Names -> Int]
      BY <3>2 DEF SamplerInv, SamplerTypeOK
    <3>2b. PassInv'
      BY <2>1, <3>1, <3>2, PassBeginUpdate
    <3>3. ASSUME NEW k \in DOMAIN counters
          PROVE  Same(SumOf(data', k) - SumOf(data, k), added'[counters[k]] - added[counters[k]])
      <4>1. SumOf(data, k) \in Int /\ added[counters[k]] \in Int
        BY SnapshotRows DEF SamplerInv
      <4>2. SumOf(data', k) - SumOf(data, k) = 0 /\ added'[counters[k]] - added[counters[k]] = 0
        BY <3>2, <4>1
      <4> QED BY <4>2, SameSum
    <3> QED BY <2>1, <3>1, <3>2, <3>2a, <3>2b, <3>3, CountingKeeps
  <2>3. ASSUME NEW u \in doing, EndUpdate(u) PROVE SamplerInv' /\ PassInv'
    <3>1. UNCHANGED sampler /\ counters' = counters /\ strayed' = strayed
      BY <2>3 DEF EndUpdate
    <3>2. Extends(counters', counters)
      BY <3>1 DEF Extends
    <3>3. ~ strayed => \A k \in DOMAIN counters :
             Same(SumOf(data', k) - SumOf(data, k), added'[counters[k]] - added[counters[k]])
      BY <2>3, EndKeeps
    <3>4. PassInv' /\ late' \in [Names -> Int]
      BY <2>1, <2>3, PassEndUpdate DEF SamplerInv
    <3> QED BY <2>1, <3>1, <3>2, <3>3, <3>4, CountingKeeps
  <2>4. CASE EndSample
    BY <2>4, SampleKeeps
  <2>5. ASSUME UNCHANGED <<data, counters, added, strayed, late, last, total, mark, cut, fell>>
        PROVE  SamplerInv'
    BY <2>5 DEF SamplerInv, SamplerTypeOK, LastAgrees, TotalAgrees
  <2>6. CASE BeginSample
    BY <2>5, <2>6, PassBegins DEF BeginSample, table, sampler, SamplerInv
  <2>7. ASSUME NEW k \in DOMAIN cellsRead, ReadCell(k) PROVE SamplerInv' /\ PassInv'
    BY <2>5, <2>7, PassReads DEF ReadCell, table, sampler, SamplerInv
  <2>8. CASE (\E t \in CThreads : ThreadExits(t)) \/ Poll \/ CounterClock \/ UNCHANGED counterVars
    <3>1. UNCHANGED <<data, counters, added, strayed, passVars, late, last, total, mark, cut, fell>>
      BY <2>8 DEF ThreadExits, Poll, CounterClock, counterVars, sampler, table
    <3> QED BY <2>5, <3>1 DEF PassInv, ScanTypeOK, ScanAgrees, passVars
  <2> QED BY <2>2, <2>3, <2>4, <2>6, <2>7, <2>8 DEF NextCounters
<1>3. Inv => SamplesAccountForAdds
  <2> SUFFICES ASSUME Inv PROVE SamplesAccountForAdds
    OBVIOUS
  <2>1. ASSUME NEW n \in Names, n \notin fell, ~strayed, IndexOf(counters, n) \in DOMAIN last
        PROVE  total[n] = Wrap(cut[n] - mark[n])
    <3> DEFINE k == IndexOf(counters, n)
    <3>1. counters \in Seq(Names) /\ last \in Seq(Int)
      BY DEF TableInv, TableTypeOK, SamplerInv, SamplerTypeOK
    <3>2. k # 0
      BY <2>1, <3>1
    <3>3. counters[k] = n
      BY <3>1, <3>2, IndexOfIs
    <3> QED BY <2>1, <3>3 DEF SamplerInv, TotalAgrees
  <2>2. \A k \in WriteJson(since) : samples[k].no > heard
    <3>1. since \in Int /\ \A k \in DOMAIN samples : samples[k].time \in Int
      BY SampleNumbers DEF ClientInv, ClientTypeOK
    <3> QED BY <3>1 DEF ClientInv, SamplesOrdered, WriteJson
  <2> QED BY <2>1, <2>2 DEF SamplesAccountForAdds
<1> QED BY <1>1, <1>2, <1>3, PTL DEF CounterSpec

-----------------------------------------------------------------------------
(* The bounds of buckets and the search for a value's *)

B == BucketCount

\* The bounds of the buckets grow from the first to the last.
LEMMA RangesGrow ==
  ASSUME NEW r \in InitializeBucketRanges
  PROVE  /\ \A a \in 0 .. B : r[a] \in Nat
         /\ \A a, b \in 0 .. B : a < b => r[a] < r[b]
<1>0. /\ B \in Nat \ {0} /\ r \in [0 .. B -> 0 .. SampleMax] /\ SampleMax \in Nat
      /\ \A b \in 1 .. B : r[b] > r[b - 1]
  BY HistogramAssumption DEF InitializeBucketRanges, B
<1>1. \A a \in 0 .. B : r[a] \in Nat
  BY <1>0
<1> DEFINE S == {n \in Nat : n <= B => \A a \in 0 .. B : a < n => r[a] < r[n]}
<1>2. 0 \in S
  BY <1>0
<1>3. ASSUME NEW n \in S PROVE n + 1 \in S
  <2> SUFFICES ASSUME n + 1 <= B, NEW a \in 0 .. B, a < n + 1 PROVE r[a] < r[n + 1]
    OBVIOUS
  <2>1. n + 1 \in 1 .. B /\ (n + 1) - 1 = n /\ n \in 0 .. B /\ n + 1 \in 0 .. B
    BY <1>0
  <2>2. r[n + 1] > r[n]
    BY <1>0, <2>1
  <2>3. a = n \/ r[a] < r[n]
    BY <1>0, <2>1
  <2> QED BY <1>1, <2>1, <2>2, <2>3
<1>4. S = Nat
  <2> HIDE DEF S
  <2>1. S \in SUBSET Nat
    BY DEF S
  <2> QED BY <1>2, <1>3, <2>1, SetInduction
<1>5. ASSUME NEW a \in 0 .. B, NEW b \in 0 .. B, a < b PROVE r[a] < r[b]
  <2>1. b \in Nat /\ b <= B
    BY <1>0
  <2>2. b \in S
    <3> HIDE DEF S
    <3> QED BY <1>4, <2>1
  <2> QED BY <1>5, <2>1, <2>2
<1> QED BY <1>1, <1>5

\* Where the search for v between the bounds u and o is to end.
Fits(j, u, o, v) == /\ j \in u .. o - 1
                    /\ j = u \/ ranges[j] <= v
                    /\ j + 1 = o \/ v < ranges[j + 1]

\* There is one such place.
LEMMA FitsOnce ==
  ASSUME ranges \in InitializeBucketRanges, NEW v \in Int, NEW u \in 0 .. B, NEW o \in 0 .. B, u < o
  PROVE  /\ \E j \in 0 .. B : Fits(j, u, o, v)
         /\ \A j, k \in 0 .. B : Fits(j, u, o, v) /\ Fits(k, u, o, v) => j = k
<1>0. /\ B \in Nat \ {0} /\ \A a \in 0 .. B : ranges[a] \in Nat
      /\ \A a, b \in 0 .. B : a < b => ranges[a] < ranges[b]
  BY RangesGrow, HistogramAssumption DEF B
<1> DEFINE S == {j \in u .. o - 1 : j + 1 = o \/ v < ranges[j + 1]}
<1>1. S \in SUBSET Nat /\ o - 1 \in S
  BY <1>0
<1>2. PICK m \in S : \A n \in S : m <= n
  <2> HIDE DEF S
  <2> QED BY <1>1, LeastExists
<1>3. m = u \/ ranges[m] <= v
  <2>1. CASE m # u
    <3>1. m - 1 \in u .. o - 1 /\ m - 1 \notin S /\ (m - 1) + 1 = m /\ m \in 0 .. B
      BY <1>0, <1>2, <2>1
    <3>2. ~ (v < ranges[m])
      BY <3>1
    <3> QED BY <1>0, <3>1, <3>2
  <2> QED BY <2>1
<1>4. Fits(m, u, o, v) /\ m \in 0 .. B
  BY <1>0, <1>3 DEF Fits
<1>5. ASSUME NEW j \in 0 .. B, NEW k \in 0 .. B, Fits(j, u, o, v), Fits(k, u, o, v), j < k PROVE FALSE
  <2>1. ranges[k] <= v /\ v < ranges[j + 1] /\ j + 1 \in 0 .. B /\ j + 1 <= k
    BY <1>0, <1>5 DEF Fits
  <2>2. ranges[j + 1] <= ranges[k] /\ ranges[k] \in Nat /\ ranges[j + 1] \in Nat
    BY <1>0, <2>1
  <2> QED BY <2>1, <2>2
<1>6. \A j, k \in 0 .. B : Fits(j, u, o, v) /\ Fits(k, u, o, v) => j = k
  <2> SUFFICES ASSUME NEW j \in 0 .. B, NEW k \in 0 .. B, Fits(j, u, o, v), Fits(k, u, o, v), j # k
               PROVE  FALSE
    OBVIOUS
  <2>1. j < k \/ k < j
    BY <1>0
  <2> QED BY <1>5, <2>1
<1> QED BY <1>4, <1>6

\* Halving an interval of bounds, as the search does.
LEMMA Halves ==
  ASSUME NEW u \in 0 .. B, NEW o \in 0 .. B, u < o
  PROVE  LET mid == u + (o - u) \div 2
         IN  /\ mid \in 0 .. B /\ u <= mid /\ mid < o
             /\ mid = u => o = u + 1
BY HistogramAssumption DEF B

\* The bucket of a value is the one with bounds around it: what GetBucketIndex
\* itself asserts at its end.
LEMMA BucketFits ==
  ASSUME ranges \in InitializeBucketRanges, NEW v \in Nat, v < SampleMax
  PROVE  /\ GetBucketIndex(v) \in Buckets
         /\ ranges[GetBucketIndex(v)] <= v /\ v < ranges[GetBucketIndex(v) + 1]
<1> DEFINE mid(p) == p[1] + (p[2] - p[1]) \div 2
           body(s, p) == IF mid(p) = p[1] THEN mid(p)
                         ELSE IF ranges[mid(p)] <= v THEN s[<<mid(p), p[2]>>] ELSE s[<<p[1], mid(p)>>]
           Search == CHOOSE s : s = [p \in Intervals |-> body(s, p)]
           good(j, p) == j \in 0 .. B /\ Fits(j, p[1], p[2], v)
           f == [p \in Intervals |-> CHOOSE j : good(j, p)]
<1>0. /\ B \in Nat \ {0} /\ \A a \in 0 .. B : ranges[a] \in Nat
      /\ ranges[0] = 0 /\ ranges[B] = SampleMax /\ SampleMax \in Nat
  BY RangesGrow, HistogramAssumption DEF B, InitializeBucketRanges
<1>1. ASSUME NEW p \in Intervals
      PROVE  /\ p[1] \in 0 .. B /\ p[2] \in 0 .. B /\ p[1] < p[2] /\ p = <<p[1], p[2]>>
             /\ mid(p) \in 0 .. B /\ p[1] <= mid(p) /\ mid(p) < p[2]
             /\ mid(p) = p[1] => p[2] = p[1] + 1
  <2>1. p[1] \in 0 .. B /\ p[2] \in 0 .. B /\ p[1] < p[2] /\ p = <<p[1], p[2]>>
    BY DEF Intervals, B
  <2> QED BY <2>1, Halves
<1>2. ASSUME NEW p \in Intervals, mid(p) # p[1]
      PROVE  <<mid(p), p[2]>> \in Intervals /\ <<p[1], mid(p)>> \in Intervals
  <2> DEFINE m == mid(p)
  <2>1. m \in 0 .. B /\ p[1] < m /\ m < p[2] /\ p[1] \in 0 .. B /\ p[2] \in 0 .. B
    BY <1>0, <1>1, <1>2
  <2> HIDE DEF m
  <2>2. <<m, p[2]>> \in Intervals /\ <<p[1], m>> \in Intervals
    BY <2>1 DEF Intervals, B
  <2> QED BY <2>2 DEF m
<1>3. \A p \in Intervals : /\ \E j : good(j, p)
                           /\ \A j, k : good(j, p) /\ good(k, p) => j = k
  BY <1>1, FitsOnce
<1>4. \A p \in Intervals : good(f[p], p)
  <2> HIDE DEF good
  <2> QED BY <1>3
<1>5. ASSUME NEW p \in Intervals, NEW x,
             mid(p) = p[1] => x = p[1],
             mid(p) # p[1] /\ ranges[mid(p)] <= v => good(x, <<mid(p), p[2]>>),
             mid(p) # p[1] /\ ~ (ranges[mid(p)] <= v) => good(x, <<p[1], mid(p)>>)
      PROVE  good(x, p)
  <2> DEFINE m == mid(p)
             u == p[1]
             o == p[2]
  <2>1. m \in 0 .. B /\ u <= m /\ m < o /\ u \in 0 .. B /\ o \in 0 .. B /\ (m = u => o = u + 1)
    BY <1>1
  <2>2. /\ m = u => x = u
        /\ m # u /\ ranges[m] <= v => x \in 0 .. B /\ Fits(x, m, o, v)
        /\ m # u /\ ~ (ranges[m] <= v) => x \in 0 .. B /\ Fits(x, u, m, v)
    <3>1. \A a, b : <<a, b>>[1] = a /\ <<a, b>>[2] = b
      OBVIOUS
    <3> QED BY <1>5, <3>1
  <2> HIDE DEF m, u, o
  <2>3. ranges[m] \in Nat
    BY <1>0, <2>1
  <2>4. x \in 0 .. B /\ Fits(x, u, o, v)
    BY <1>0, <2>1, <2>2, <2>3 DEF Fits
  <2> QED BY <2>4 DEF u, o
<1>6. f = [p \in Intervals |-> body(f, p)]
  <2>1. ASSUME NEW p \in Intervals PROVE f[p] = body(f, p)
    <3> HIDE DEF f
    <3>1. mid(p) # p[1] => good(f[<<mid(p), p[2]>>], <<mid(p), p[2]>>) /\ good(f[<<p[1], mid(p)>>], <<p[1], mid(p)>>)
      <4> HIDE DEF good, mid
      <4> QED BY <1>2, <1>4
    <3> DEFINE x == body(f, p)
    <3>2. /\ mid(p) = p[1] => x = p[1]
          /\ mid(p) # p[1] /\ ranges[mid(p)] <= v => x = f[<<mid(p), p[2]>>]
          /\ mid(p) # p[1] /\ ~ (ranges[mid(p)] <= v) => x = f[<<p[1], mid(p)>>]
      <4> HIDE DEF mid
      <4> QED OBVIOUS
    <3> HIDE DEF x, good, mid
    <3>3. good(x, p)
      BY <1>5, <3>1, <3>2
    <3>4. x = f[p]
      BY <1>3, <1>4, <3>3
    <3> QED BY <3>4 DEF x
  <2>2. f = [p \in Intervals |-> f[p]]
    OBVIOUS
  <2> HIDE DEF f, body
  <2> QED BY <2>1, <2>2
<1>7. Search = [p \in Intervals |-> body(Search, p)]
  <2> HIDE DEF f, body
  <2> QED BY <1>6, Zenon
<1>8. GetBucketIndex(v) = Search[<<0, B>>]
  BY DEF GetBucketIndex, B
<1> HIDE DEF Search, f
<1>9. \A p \in Intervals : Search[p] = body(Search, p)
  <2> HIDE DEF body
  <2> QED BY <1>7
<1> DEFINE S == {n \in Nat : \A p \in Intervals : p[2] - p[1] <= n => good(Search[p], p)}
<1>10. 0 \in S
  BY <1>1
<1>11. ASSUME NEW n \in S PROVE n + 1 \in S
  <2> SUFFICES ASSUME NEW p \in Intervals, p[2] - p[1] <= n + 1 PROVE good(Search[p], p)
    OBVIOUS
  <2> DEFINE m == mid(p)
  <2>1. /\ m \in 0 .. B /\ p[1] <= m /\ m < p[2] /\ p[1] \in 0 .. B /\ p[2] \in 0 .. B /\ n \in Nat
        /\ m # p[1] => <<m, p[2]>> \in Intervals /\ <<p[1], m>> \in Intervals
    BY <1>1, <1>2
  <2>2. m # p[1] => /\ <<m, p[2]>>[2] - <<m, p[2]>>[1] <= n
                    /\ <<p[1], m>>[2] - <<p[1], m>>[1] <= n
    <3> HIDE DEF m
    <3> QED BY <1>0, <2>1
  <2>3. m # p[1] => good(Search[<<m, p[2]>>], <<m, p[2]>>) /\ good(Search[<<p[1], m>>], <<p[1], m>>)
    <3> HIDE DEF m, good
    <3> QED BY <2>1, <2>2
  <2> DEFINE x == Search[p]
  <2>4. /\ mid(p) = p[1] => x = p[1]
        /\ mid(p) # p[1] /\ ranges[mid(p)] <= v => x = Search[<<mid(p), p[2]>>]
        /\ mid(p) # p[1] /\ ~ (ranges[mid(p)] <= v) => x = Search[<<p[1], mid(p)>>]
    <3>1. x = body(Search, p)
      <4> HIDE DEF body
      <4> QED BY <1>9
    <3> HIDE DEF mid, x
    <3> QED BY <3>1
  <2> HIDE DEF x, good, mid
  <2>5. good(x, p)
    BY <1>5, <2>3, <2>4 DEF m
  <2> QED BY <2>5 DEF x
<1>12. S = Nat
  <2> HIDE DEF S
  <2>1. S \in SUBSET Nat
    BY DEF S
  <2> QED BY <1>10, <1>11, <2>1, SetInduction
<1> DEFINE j == Search[<<0, B>>]
<1>13. j \in 0 .. B /\ Fits(j, 0, B, v)
  <2>1. <<0, B>> \in Intervals /\ <<0, B>>[1] = 0 /\ <<0, B>>[2] = B /\ B - 0 \in Nat
    BY <1>0 DEF Intervals, B
  <2>2. good(Search[<<0, B>>], <<0, B>>)
    <3>1. B \in S
      BY <1>0, <1>12
    <3> HIDE DEF good
    <3> QED BY <1>0, <2>1, <3>1
  <2> QED BY <2>1, <2>2
<1> HIDE DEF j
<1>14. j \in 0 .. B - 1 /\ ranges[j] <= v /\ v < ranges[j + 1]
  BY <1>0, <1>13 DEF Fits
<1> QED BY <1>8, <1>14 DEF j, Buckets, B

-----------------------------------------------------------------------------
(* Counts and their sum *)

\* The function TotalCount is defined with.
Totals(c) == CHOOSE f : f = [a \in 0 .. BucketCount |-> IF a = 0 THEN 0 ELSE f[a - 1] + c[a - 1]]

\* TotalCount is what its recursion says.
LEMMA TotalsDef ==
  ASSUME NEW c \in [Buckets -> Nat]
  PROVE  /\ TotalCount(c) = Totals(c)[B]
         /\ Totals(c) \in [0 .. B -> Nat]
         /\ Totals(c)[0] = 0
         /\ \A a \in Buckets : Totals(c)[a + 1] = Totals(c)[a] + c[a]
<1> DEFINE N == BucketCount
           step == [x \in (1 .. N) \X Nat |-> x[2] + c[x[1] - 1]]
<1>0. N \in Nat \ {0}
  BY HistogramAssumption
<1>1. \A a \in 1 .. N : c[a - 1] \in Nat
  BY <1>0 DEF Buckets
<1>3. step \in [(1 .. N) \X Nat -> Nat] /\ \A a \in 1 .. N, x \in Nat : step[<<a, x>>] = x + c[a - 1]
  BY <1>1
<1> HIDE DEF N, step
<1>4. PICK f : Recursive(f, N, Nat, 0, step)
  <2> DEFINE V == Nat
             z == 0
  <2>1. z \in V /\ N \in Nat /\ step \in [(1 .. N) \X V -> V]
    BY <1>0, <1>3
  <2> HIDE DEF V, z
  <2>2. \E f : Recursive(f, N, V, z, step)
    BY <2>1, RecursionExists
  <2> QED BY <2>2 DEF V, z
<1>5. f \in [0 .. N -> Nat] /\ f[0] = 0 /\ \A a \in 1 .. N : f[a] = step[<<a, f[a - 1]>>]
  BY <1>4 DEF Recursive
<1>6. \A a \in 1 .. N : f[a] = f[a - 1] + c[a - 1]
  <2> TAKE a \in 1 .. N
  <2>1. f[a - 1] \in Nat
    BY <1>0, <1>5
  <2> QED BY <1>3, <1>5, <2>1
<1>7. f = [a \in 0 .. N |-> IF a = 0 THEN 0 ELSE f[a - 1] + c[a - 1]]
  <2>1. ASSUME NEW a \in 0 .. N PROVE f[a] = IF a = 0 THEN 0 ELSE f[a - 1] + c[a - 1]
    <3>1. a # 0 => a \in 1 .. N
      BY <1>0
    <3> QED BY <1>5, <1>6, <3>1
  <2> QED BY <2>1, <1>5
<1> DEFINE J == Totals(c)
<1>8. J = [a \in 0 .. N |-> IF a = 0 THEN 0 ELSE J[a - 1] + c[a - 1]]
  BY <1>7, Zenon DEF Totals, N
<1> HIDE DEF J
<1>9. DOMAIN J = 0 .. N /\ J[0] = 0 /\ \A a \in 1 .. N : J[a] = J[a - 1] + c[a - 1]
  <2>1. 0 \in 0 .. N /\ \A a \in 1 .. N : a \in 0 .. N /\ a # 0
    BY <1>0
  <2> QED BY <1>8, <2>1
<1> DEFINE S == {n \in Nat : n <= N => J[n] \in Nat}
<1>10. 0 \in S
  BY <1>9
<1>11. ASSUME NEW n \in S PROVE n + 1 \in S
  <2>1. CASE n + 1 <= N
    <3>1. n + 1 \in 1 .. N /\ (n + 1) - 1 = n /\ J[n] \in Nat
      BY <2>1, <1>0
    <3>2. J[n + 1] = J[n] + c[n] /\ c[n] \in Nat
      BY <3>1, <1>1, <1>9
    <3> QED BY <3>1, <3>2
  <2> QED BY <2>1
<1>12. S = Nat
  <2> HIDE DEF S
  <2>1. S \in SUBSET Nat
    BY DEF S
  <2> QED BY <1>10, <1>11, <2>1, SetInduction
<1>13. \A n \in 0 .. N : J[n] \in Nat
  BY <1>12, <1>0
<1>14. J \in [0 .. N -> Nat]
  <2>1. J = [n \in 0 .. N |-> J[n]]
    BY <1>8, <1>9
  <2> QED BY <2>1, <1>13
<1>15. \A a \in Buckets : J[a + 1] = J[a] + c[a]
  <2> SUFFICES ASSUME NEW a \in Buckets PROVE J[a + 1] = J[a] + c[a]
    OBVIOUS
  <2>1. a + 1 \in 1 .. N /\ (a + 1) - 1 = a
    BY <1>0 DEF Buckets, N
  <2> QED BY <1>9, <2>1
<1>16. TotalCount(c) = Totals(c)[B]
  BY DEF TotalCount, Totals, B
<1> QED BY <1>9, <1>14, <1>15, <1>16 DEF J, N, B

\* The total over buckets only grows, and stays over empty ones.
LEMMA TotalsGrow ==
  ASSUME NEW c \in [Buckets -> Nat], NEW a \in 0 .. B, NEW b \in 0 .. B, a <= b
  PROVE  /\ Totals(c)[a] <= Totals(c)[b]
         /\ (\A l \in a .. b - 1 : c[l] = 0) => Totals(c)[a] = Totals(c)[b]
<1> DEFINE T == Totals(c)
           S == {n \in Nat : a + n <= B => /\ T[a] <= T[a + n]
                                           /\ (\A l \in a .. (a + n) - 1 : c[l] = 0) => T[a] = T[a + n]}
<1>0. /\ B \in Nat \ {0} /\ T \in [0 .. B -> Nat] /\ \A x \in Buckets : T[x + 1] = T[x] + c[x]
      /\ Buckets = 0 .. B - 1
  BY TotalsDef, HistogramAssumption DEF B, Buckets
<1> HIDE DEF T
<1>1. 0 \in S
  BY <1>0
<1>2. ASSUME NEW n \in S PROVE n + 1 \in S
  <2> SUFFICES ASSUME a + (n + 1) <= B
               PROVE  /\ T[a] <= T[a + (n + 1)]
                      /\ (\A l \in a .. (a + (n + 1)) - 1 : c[l] = 0) => T[a] = T[a + (n + 1)]
    OBVIOUS
  <2> DEFINE x == a + n
  <2>1. x \in Buckets /\ a + (n + 1) = x + 1 /\ x \in 0 .. B /\ x \in Nat /\ a + n <= B
    BY <1>0
  <2>2. T[x + 1] = T[x] + c[x] /\ c[x] \in Nat /\ T[x] \in Nat /\ T[a] \in Nat /\ T[x + 1] \in Nat
    BY <1>0, <2>1
  <2>3. T[a] <= T[x] /\ ((\A l \in a .. x - 1 : c[l] = 0) => T[a] = T[x])
    BY <2>1
  <2>4. (\A l \in a .. (x + 1) - 1 : c[l] = 0) => c[x] = 0 /\ \A l \in a .. x - 1 : c[l] = 0
    BY <2>1
  <2> HIDE DEF x
  <2> QED BY <2>1, <2>2, <2>3, <2>4
<1>3. S = Nat
  <2> HIDE DEF S
  <2>1. S \in SUBSET Nat
    BY DEF S
  <2> QED BY <1>1, <1>2, <2>1, SetInduction
<1>4. b - a \in S /\ a + (b - a) = b
  <2>1. b - a \in Nat /\ a + (b - a) = b
    BY <1>0
  <2> HIDE DEF S
  <2> QED BY <1>3, <2>1
<1>5. T[a] <= T[b] /\ ((\A l \in a .. b - 1 : c[l] = 0) => T[a] = T[b])
  BY <1>0, <1>4
<1> QED BY <1>5 DEF T

\* The total is 0 only if every count is.
LEMMA TotalPositive ==
  ASSUME NEW c \in [Buckets -> Nat]
  PROVE  TotalCount(c) \in Nat /\ (TotalCount(c) = 0 => \A a \in Buckets : c[a] = 0)
<1> DEFINE T == Totals(c)
<1>0. /\ B \in Nat \ {0} /\ T \in [0 .. B -> Nat] /\ (\A x \in Buckets : T[x + 1] = T[x] + c[x])
      /\ Buckets = 0 .. B - 1 /\ TotalCount(c) = T[B]
  BY TotalsDef, HistogramAssumption DEF B, Buckets
<1>1. ASSUME NEW a \in Buckets, T[B] = 0 PROVE c[a] = 0
  <2>1. a \in 0 .. B /\ a + 1 \in 0 .. B /\ a + 1 <= B /\ B \in 0 .. B
    BY <1>0
  <2>2. T[a + 1] <= T[B]
    BY <2>1, TotalsGrow
  <2> HIDE DEF T
  <2> QED BY <1>0, <1>1, <2>1, <2>2
<1> HIDE DEF T
<1> QED BY <1>0, <1>1

\* The first bucket from k on that is not empty, or the end.
NextFull(c, k, j) ==
    /\ j \in k .. BucketCount
    /\ j = BucketCount \/ c[j] # 0
    /\ \A l \in k .. j - 1 : c[l] = 0

\* There is one.
LEMMA NextFullExists ==
  ASSUME NEW c, NEW k \in 0 .. BucketCount
  PROVE  \E j \in k .. BucketCount : NextFull(c, k, j)
<1>0. BucketCount \in Nat
  BY HistogramAssumption
<1> DEFINE S == {j \in k .. BucketCount : j = BucketCount \/ c[j] # 0}
<1>1. S \in SUBSET Nat /\ BucketCount \in S
  BY <1>0
<1>2. PICK m \in S : \A n \in S : m <= n
  <2> HIDE DEF S
  <2> QED BY <1>1, LeastExists
<1>3. ASSUME NEW l \in k .. m - 1 PROVE c[l] = 0
  <2>1. l \in k .. BucketCount /\ l \notin S
    BY <1>0, <1>2
  <2> QED BY <2>1
<1> QED BY <1>3 DEF NextFull

\* SkipEmptyBuckets stops at the first bucket that is not empty.
LEMMA SkipIs ==
  ASSUME NEW k \in 0 .. BucketCount
  PROVE  NextFull(counts, k, SkipEmptyBuckets(k))
<1>1. PICK j \in k .. BucketCount : NextFull(counts, k, j)
  BY NextFullExists
<1>2. SkipEmptyBuckets(k) = CHOOSE x \in k .. BucketCount :
                              /\ x = BucketCount \/ counts[x] # 0
                              /\ \A l \in k .. x - 1 : counts[l] = 0
  BY DEF SkipEmptyBuckets
<1> QED BY <1>1, <1>2, Zenon DEF NextFull

\* The samples that WriteAsciiImpl prints add up to what its header says.
LEMMA AsciiAddsUp ==
  ASSUME NEW c \in [Buckets -> Nat]
  PROVE  WriteAsciiImpl(c) = TotalCount(c)
<1> DEFINE T == Totals(c)
           pick(a) == CHOOSE j \in a + 2 .. BucketCount :
                         /\ j = BucketCount \/ c[j] # 0
                         /\ \A l \in a .. j - 1 : c[l] = 0
           run(a) == c[a] = 0 /\ a < BucketCount - 1 /\ c[a + 1] = 0
           body(s, a) == IF a = BucketCount THEN 0
                         ELSE IF run(a) THEN s[pick(a)] ELSE c[a] + s[a + 1]
           Past == CHOOSE s : s = [a \in 0 .. BucketCount |-> body(s, a)]
           f == [a \in 0 .. BucketCount |-> T[BucketCount] - T[a]]
<1>0. /\ BucketCount \in Nat \ {0} /\ T \in [0 .. BucketCount -> Nat] /\ T[0] = 0
      /\ (\A x \in Buckets : T[x + 1] = T[x] + c[x] /\ c[x] \in Nat)
      /\ Buckets = 0 .. BucketCount - 1 /\ TotalCount(c) = T[BucketCount]
  BY TotalsDef, HistogramAssumption DEF B, Buckets
<1>1. ASSUME NEW a \in 0 .. BucketCount, a # BucketCount, run(a)
      PROVE  pick(a) \in a + 2 .. BucketCount /\ T[pick(a)] = T[a]
  <2>1. a \in Nat /\ a + 2 \in 0 .. BucketCount /\ c[a] = 0 /\ c[a + 1] = 0
    BY <1>0, <1>1
  <2>2. PICK j \in a + 2 .. BucketCount : NextFull(c, a + 2, j)
    BY <2>1, NextFullExists
  <2>3. \A l \in a .. j - 1 : c[l] = 0
    <3> SUFFICES ASSUME NEW l \in a .. j - 1 PROVE c[l] = 0
      OBVIOUS
    <3>1. l = a \/ l = a + 1 \/ l \in a + 2 .. j - 1
      BY <1>0, <2>1, <2>2
    <3> QED BY <2>1, <2>2, <3>1 DEF NextFull
  <2>4. j = BucketCount \/ c[j] # 0
    BY <2>2 DEF NextFull
  <2>5. pick(a) \in a + 2 .. BucketCount /\ \A l \in a .. pick(a) - 1 : c[l] = 0
    BY <2>2, <2>3, <2>4, Zenon
  <2> HIDE DEF pick
  <2>6. pick(a) \in 0 .. B /\ a \in 0 .. B /\ a <= pick(a)
    <3>1. \A x \in a + 2 .. BucketCount : x \in 0 .. BucketCount /\ a <= x
      BY <1>0, <2>1
    <3> QED BY <2>5, <3>1, Zenon DEF B
  <2>7. T[a] = T[pick(a)]
    BY <2>5, <2>6, TotalsGrow
  <2> QED BY <2>5, <2>7
<1>2. ASSUME NEW a \in 0 .. BucketCount, a # BucketCount
      PROVE  /\ a + 1 \in 0 .. BucketCount /\ T[a + 1] = T[a] + c[a]
             /\ T[a] \in Nat /\ T[a + 1] \in Nat /\ c[a] \in Nat
  <2>1. a \in Buckets
    BY <1>0, <1>2
  <2> HIDE DEF T
  <2> QED BY <1>0, <1>2, <2>1
<1>3. \A a \in 0 .. BucketCount : T[a] \in Nat
  <2> HIDE DEF T
  <2> QED BY <1>0
<1> HIDE DEF T, pick, run
<1>4. f = [a \in 0 .. BucketCount |-> body(f, a)]
  <2>1. \A a \in 0 .. BucketCount : f[a] = T[BucketCount] - T[a]
    OBVIOUS
  <2>2. f = [a \in 0 .. BucketCount |-> f[a]]
    OBVIOUS
  <2> HIDE DEF f
  <2>3. ASSUME NEW a \in 0 .. BucketCount PROVE f[a] = body(f, a)
    <3>0. BucketCount \in 0 .. BucketCount /\ T[BucketCount] \in Nat /\ T[a] \in Nat
      BY <1>0, <1>3
    <3>1. CASE a = BucketCount
      BY <2>1, <3>0, <3>1
    <3>2. CASE a # BucketCount /\ run(a)
      <4>1. pick(a) \in 0 .. BucketCount /\ T[pick(a)] = T[a]
        <5>1. \A x \in a + 2 .. BucketCount : x \in 0 .. BucketCount
          BY <1>0
        <5>2. pick(a) \in a + 2 .. BucketCount /\ T[pick(a)] = T[a]
          BY <1>1, <3>2, Zenon
        <5> QED BY <5>1, <5>2, Zenon
      <4> QED BY <2>1, <3>2, <4>1
    <3>3. CASE a # BucketCount /\ ~ run(a)
      <4>1. f[a + 1] = T[BucketCount] - T[a + 1]
        BY <1>2, <2>1, <3>3
      <4>2. f[a] = c[a] + f[a + 1]
        BY <1>2, <2>1, <3>0, <3>3, <4>1
      <4> QED BY <3>3, <4>2
    <3> QED BY <3>1, <3>2, <3>3
  <2> HIDE DEF body
  <2> QED BY <2>2, <2>3
<1>5. Past = [a \in 0 .. BucketCount |-> body(Past, a)]
  <2> HIDE DEF f, body
  <2> QED BY <1>4, Zenon
<1>6. WriteAsciiImpl(c) = Past[0]
  BY DEF WriteAsciiImpl, pick, run
<1> HIDE DEF Past, f
<1>7. \A a \in 0 .. BucketCount : Past[a] = body(Past, a)
  <2> HIDE DEF body
  <2> QED BY <1>5
<1> DEFINE S == {n \in Nat : \A a \in 0 .. BucketCount : BucketCount - a <= n =>
                                Past[a] = T[BucketCount] - T[a]}
<1>8. 0 \in S
  <2> SUFFICES ASSUME NEW a \in 0 .. BucketCount, BucketCount - a <= 0
               PROVE  Past[a] = T[BucketCount] - T[a]
    OBVIOUS
  <2>1. a = BucketCount
    BY <1>0
  <2>2. Past[a] = 0
    BY <1>7, <2>1
  <2>3. T[a] \in Nat
    BY <1>3
  <2> QED BY <2>1, <2>2, <2>3
<1>9. ASSUME NEW n \in S PROVE n + 1 \in S
  <2> SUFFICES ASSUME NEW a \in 0 .. BucketCount, BucketCount - a <= n + 1
               PROVE  Past[a] = T[BucketCount] - T[a]
    OBVIOUS
  <2>0. n \in Nat /\ \A b \in 0 .. BucketCount : BucketCount - b <= n => Past[b] = T[BucketCount] - T[b]
    BY <1>9
  <2> HIDE DEF S
  <2>1. CASE a = BucketCount
    <3>1. BucketCount - a <= n
      BY <1>0, <2>0, <2>1
    <3> QED BY <2>0, <3>1
  <2>2. CASE a # BucketCount /\ run(a)
    <3>1. pick(a) \in a + 2 .. BucketCount /\ T[pick(a)] = T[a]
      BY <1>1, <2>2
    <3>2. pick(a) \in 0 .. BucketCount /\ BucketCount - pick(a) <= n
      <4>1. \A x \in a + 2 .. BucketCount : x \in 0 .. BucketCount /\ BucketCount - x <= n
        BY <1>0, <2>0
      <4> QED BY <3>1, <4>1, Zenon
    <3>3. Past[pick(a)] = T[BucketCount] - T[a]
      BY <2>0, <3>1, <3>2
    <3>4. Past[a] = Past[pick(a)]
      BY <1>7, <2>2
    <3> QED BY <3>3, <3>4
  <2>3. CASE a # BucketCount /\ ~ run(a)
    <3>1. a + 1 \in 0 .. BucketCount /\ BucketCount - (a + 1) <= n
      BY <1>0, <1>2, <2>0, <2>3
    <3>2. Past[a + 1] = T[BucketCount] - T[a + 1]
      BY <2>0, <3>1
    <3>3. Past[a] = c[a] + Past[a + 1]
      BY <1>7, <2>3
    <3>4. T[BucketCount] \in Nat
      BY <1>0, <1>3
    <3> QED BY <1>2, <2>3, <3>2, <3>3, <3>4
  <2> QED BY <2>1, <2>2, <2>3
<1>10. S = Nat
  <2> HIDE DEF S
  <2>1. S \in SUBSET Nat
    BY DEF S
  <2> QED BY <1>8, <1>9, <2>1, SetInduction
<1>11. Past[0] = T[BucketCount] - T[0]
  <2>1. BucketCount \in Nat /\ 0 \in 0 .. BucketCount /\ BucketCount - 0 <= BucketCount
    BY <1>0
  <2>2. BucketCount \in S
    <3> HIDE DEF S
    <3> QED BY <1>10, <2>1
  <2> QED BY <2>1, <2>2
<1>12. T[BucketCount] - T[0] = T[BucketCount]
  BY <1>0, <1>3
<1> QED BY <1>0, <1>6, <1>11, <1>12

-----------------------------------------------------------------------------
(* Adds that race, and the scan of a snapshot *)

Idle == [pc : {"idle"}]
Busy == [pc : {"count", "load", "sum"}, value : Nat, bucket : Buckets, seen : Nat]
Scan == [pc : {"scan", "done"}, sum : Nat, counts : [Buckets -> Nat],
         index : 0 .. BucketCount, at : 0 .. BucketCount]

HistogramTypeOK ==
    /\ ranges \in InitializeBucketRanges
    /\ counts \in [Buckets -> Nat] /\ sum \in Nat
    /\ adding \in [HThreads -> Idle \cup Busy]
    /\ snap \in [pc : {"none"}] \cup Scan
    /\ put \in Seq(Values)
    /\ raced \in BOOLEAN

\* The threads that have read the count of bucket b and not yet stored it.
Adders(b) == {t \in HThreads : adding[t].pc = "count" /\ adding[t].bucket = b}

\* Neither a count nor what an Add has read of it is beyond the values whose
\* Adds have been through with it.
CountsBounded ==
    \A b \in Buckets :
        /\ IsFiniteSet(Adders(b))
        /\ counts[b] + Cardinality(Adders(b)) <= Cardinality(PutIn(b))
        /\ \A t \in Adders(b) : adding[t].seen + Cardinality(Adders(b)) <= Cardinality(PutIn(b))

\* Without a race, one Add is under way at most, and the counts are exact.
AloneExact ==
    ~ raced =>
        /\ \A t, u \in HThreads : adding[t].pc # "idle" /\ adding[u].pc # "idle" => t = u
        /\ \A b \in Buckets : /\ counts[b] + Cardinality(Adders(b)) = Cardinality(PutIn(b))
                              /\ \A t \in Adders(b) : adding[t].seen = counts[b]

\* The count of a value is stored before its sum, and never taken back to 0.
CountedFirst ==
    (sum # 0 \/ \E t \in HThreads : adding[t].pc \in {"load", "sum"}) => \E b \in Buckets : counts[b] # 0

\* The scan is never ahead of the bucket it looks for, finds what it has stopped
\* at, and misses no sample if there was one when it took the sum.
ScanInv ==
    snap.pc # "none" =>
        /\ snap.pc = "scan" => /\ snap.index <= snap.at
                               /\ snap.at # BucketCount => counts[snap.at] # 0
        /\ snap.sum # 0 => \/ snap.pc = "scan" /\ snap.at # BucketCount
                           \/ \E b \in Buckets : snap.counts[b] # 0

ReportInv == report.past = report.total /\ (report.total = 0 => report.sum = 0)

HistogramInv == /\ HistogramTypeOK /\ CountsBounded /\ AloneExact /\ CountedFirst
                /\ ScanInv /\ ReportInv

\* The state of an Add under way.
LEMMA BusyIs ==
  ASSUME HistogramTypeOK, NEW t \in HThreads, adding[t].pc # "idle"
  PROVE  /\ adding[t] \in Busy /\ adding[t].pc \in {"count", "load", "sum"}
         /\ adding[t].value \in Nat /\ adding[t].bucket \in Buckets /\ adding[t].seen \in Nat
<1>1. adding[t] \in Idle \cup Busy
  BY DEF HistogramTypeOK
<1>2. adding[t] \in Busy
  BY <1>1 DEF Idle
<1> QED BY <1>2 DEF Busy

\* The values that belong into a bucket are finitely many.
LEMMA PutFinite ==
  ASSUME HistogramTypeOK, NEW b \in Buckets
  PROVE  IsFiniteSet(PutIn(b)) /\ Cardinality(PutIn(b)) \in Nat /\ Len(put) + 1 \notin PutIn(b)
<1>1. PutIn(b) \subseteq 1 .. Len(put) /\ Len(put) \in Nat
  BY DEF PutIn, HistogramTypeOK
<1>2. IsFiniteSet(1 .. Len(put))
  BY <1>1, FS_Interval
<1>3. IsFiniteSet(PutIn(b))
  BY <1>1, <1>2, FS_Subset
<1> QED BY <1>1, <1>3, FS_CardinalityType

\* The beginning of an Add keeps HistogramInv.
LEMMA AddKeeps ==
  ASSUME HistogramInv, NEW t \in HThreads, NEW value \in Values, Add(t, value)
  PROVE  HistogramInv'
<1> DEFINE v == Clamp(value)
           i == GetBucketIndex(v)
           e == [pc |-> "count", value |-> v, bucket |-> i, seen |-> counts[i]]
<1>0. /\ HistogramTypeOK /\ CountsBounded /\ AloneExact /\ BucketCount \in Nat \ {0} /\ SampleMax \in Nat
      /\ value \in Int
  BY HistogramAssumption DEF HistogramInv
<1>1. /\ adding[t].pc = "idle" /\ adding' = [adding EXCEPT ![t] = e] /\ put' = Append(put, value)
      /\ raced' = (raced \/ \E u \in HThreads \ {t} : adding[u].pc # "idle")
      /\ UNCHANGED <<ranges, counts, sum, snap, report>>
  BY DEF Add
<1>2. v \in Nat /\ v < SampleMax
  <2>1. SampleMax > 0
    <3>1. /\ ranges \in InitializeBucketRanges /\ 0 \in 0 .. B /\ B \in 0 .. B /\ 0 < B
          /\ ranges[0] = 0 /\ ranges[B] = SampleMax
      BY <1>0 DEF HistogramTypeOK, InitializeBucketRanges, B
    <3>2. ranges[0] < ranges[B]
      BY <3>1, RangesGrow
    <3> QED BY <3>1, <3>2
  <2> QED BY <1>0, <2>1 DEF Clamp
<1>3. i \in Buckets /\ ranges[i] <= v /\ v < ranges[i + 1]
  <2> HIDE DEF v
  <2> QED BY <1>0, <1>2, BucketFits DEF HistogramTypeOK
<1>4. \A b \in Buckets : ranges[b] <= v /\ v < ranges[b + 1] => b = i
  <2> SUFFICES ASSUME NEW b \in Buckets, ranges[b] <= v, v < ranges[b + 1], b # i PROVE FALSE
    OBVIOUS
  <2> HIDE DEF v, i
  <2>1. /\ b \in 0 .. B /\ b + 1 \in 0 .. B /\ i \in 0 .. B /\ i + 1 \in 0 .. B
        /\ (b + 1 <= i \/ i + 1 <= b)
    BY <1>0, <1>3 DEF Buckets, B
  <2>2. /\ \A a \in 0 .. B : ranges[a] \in Nat
        /\ \A a, c \in 0 .. B : a < c => ranges[a] < ranges[c]
    BY <1>0, RangesGrow DEF HistogramTypeOK
  <2>3. b + 1 <= i => ranges[b + 1] <= ranges[i]
    BY <2>1, <2>2
  <2>4. i + 1 <= b => ranges[i + 1] <= ranges[b]
    BY <2>1, <2>2
  <2> QED BY <1>2, <1>3, <2>1, <2>2, <2>3, <2>4
<1>5. \A b \in Buckets : PutIn(b)' = IF b = i THEN PutIn(b) \cup {Len(put) + 1} ELSE PutIn(b)
  <2> SUFFICES ASSUME NEW b \in Buckets
               PROVE  PutIn(b)' = IF b = i THEN PutIn(b) \cup {Len(put) + 1} ELSE PutIn(b)
    OBVIOUS
  <2> HIDE DEF i
  <2>1. /\ DOMAIN put = 1 .. Len(put) /\ DOMAIN put' = 1 .. Len(put) + 1 /\ Len(put) \in Nat
        /\ put'[Len(put) + 1] = value /\ \A k \in 1 .. Len(put) : put'[k] = put[k]
    BY <1>0, <1>1 DEF HistogramTypeOK
  <2>2. PutIn(b)' = {k \in 1 .. Len(put) + 1 : ranges[b] <= Clamp(put'[k]) /\ Clamp(put'[k]) < ranges[b + 1]}
    BY <1>1, <2>1 DEF PutIn
  <2>3. PutIn(b) = {k \in 1 .. Len(put) : ranges[b] <= Clamp(put[k]) /\ Clamp(put[k]) < ranges[b + 1]}
    BY <2>1 DEF PutIn
  <2>4. (ranges[b] <= v /\ v < ranges[b + 1]) <=> b = i
    <3> HIDE DEF v
    <3> QED BY <1>3, <1>4
  <2>5. \A k : k \in 1 .. Len(put) + 1 <=> k \in 1 .. Len(put) \/ k = Len(put) + 1
    BY <2>1
  <2>6. Len(put) + 1 \notin 1 .. Len(put)
    BY <2>1
  <2>7. ASSUME NEW k PROVE k \in PutIn(b)' <=> k \in PutIn(b) \/ (b = i /\ k = Len(put) + 1)
    <3>1. CASE k \in 1 .. Len(put)
      BY <2>1, <2>2, <2>3, <2>5, <2>6, <3>1
    <3>2. CASE k = Len(put) + 1
      BY <2>1, <2>2, <2>3, <2>4, <2>5, <2>6, <3>2
    <3>3. CASE k \notin 1 .. Len(put) + 1
      BY <2>2, <2>3, <2>5, <3>3
    <3> QED BY <2>5, <3>1, <3>2, <3>3
  <2> QED BY <2>7
<1>6. \A b \in Buckets : /\ Cardinality(PutIn(b)) \in Nat
                         /\ Cardinality(PutIn(b)') = IF b = i THEN Cardinality(PutIn(b)) + 1
                                                     ELSE Cardinality(PutIn(b))
  <2> SUFFICES ASSUME NEW b \in Buckets
               PROVE  /\ Cardinality(PutIn(b)) \in Nat
                      /\ Cardinality(PutIn(b)') = IF b = i THEN Cardinality(PutIn(b)) + 1
                                                  ELSE Cardinality(PutIn(b))
    OBVIOUS
  <2> HIDE DEF i
  <2>1. IsFiniteSet(PutIn(b)) /\ Cardinality(PutIn(b)) \in Nat /\ Len(put) + 1 \notin PutIn(b)
    BY <1>0, PutFinite
  <2>2. Cardinality(PutIn(b) \cup {Len(put) + 1}) = Cardinality(PutIn(b)) + 1
    BY <2>1, FS_AddElement
  <2> QED BY <1>5, <2>1, <2>2
<1>7. /\ adding'[t] = e /\ \A u \in HThreads : u # t => adding'[u] = adding[u]
      /\ e \in Busy /\ e.pc = "count" /\ e.bucket = i /\ e.seen = counts[i]
  <2> HIDE DEF v, i
  <2>1. counts[i] \in Nat
    BY <1>0, <1>3 DEF HistogramTypeOK
  <2> QED BY <1>0, <1>1, <1>2, <1>3, <2>1 DEF HistogramTypeOK, Busy
<1> HIDE DEF v, i, e
<1>8. \A b \in Buckets : /\ Adders(b)' = IF b = i THEN Adders(b) \cup {t} ELSE Adders(b)
                         /\ t \notin Adders(b)
  BY <1>1, <1>7 DEF Adders
<1>9. \A b \in Buckets : /\ IsFiniteSet(Adders(b)') /\ Cardinality(Adders(b)) \in Nat
                         /\ Cardinality(Adders(b)') = IF b = i THEN Cardinality(Adders(b)) + 1
                                                      ELSE Cardinality(Adders(b))
  <2> SUFFICES ASSUME NEW b \in Buckets
               PROVE  /\ IsFiniteSet(Adders(b)') /\ Cardinality(Adders(b)) \in Nat
                      /\ Cardinality(Adders(b)') = IF b = i THEN Cardinality(Adders(b)) + 1
                                                   ELSE Cardinality(Adders(b))
    OBVIOUS
  <2>1. IsFiniteSet(Adders(b)) /\ Cardinality(Adders(b)) \in Nat
    BY <1>0, FS_CardinalityType DEF CountsBounded
  <2>2. IsFiniteSet(Adders(b) \cup {t}) /\ Cardinality(Adders(b) \cup {t}) = Cardinality(Adders(b)) + 1
    BY <1>8, <2>1, FS_AddElement
  <2> QED BY <1>8, <2>1, <2>2
<1>10. HistogramTypeOK'
  <2>1. adding' \in [HThreads -> Idle \cup Busy]
    BY <1>0, <1>1, <1>7 DEF HistogramTypeOK
  <2>2. put' \in Seq(Values)
    BY <1>0, <1>1 DEF HistogramTypeOK
  <2> QED BY <1>0, <1>1, <2>1, <2>2 DEF HistogramTypeOK
<1>11. \A b \in Buckets : counts[b] \in Nat
  BY <1>0 DEF HistogramTypeOK
<1>12. CountsBounded'
  <2> SUFFICES ASSUME NEW b \in Buckets
               PROVE  /\ IsFiniteSet(Adders(b)')
                      /\ counts'[b] + Cardinality(Adders(b)') <= Cardinality(PutIn(b)')
                      /\ \A u \in Adders(b)' : adding'[u].seen + Cardinality(Adders(b)') <= Cardinality(PutIn(b)')
    BY DEF CountsBounded
  <2>1. /\ counts[b] + Cardinality(Adders(b)) <= Cardinality(PutIn(b))
        /\ \A u \in Adders(b) : adding[u].seen + Cardinality(Adders(b)) <= Cardinality(PutIn(b))
    BY <1>0 DEF CountsBounded
  <2>2. IsFiniteSet(Adders(b)') /\ counts'[b] + Cardinality(Adders(b)') <= Cardinality(PutIn(b)')
    BY <1>1, <1>6, <1>9, <1>11, <2>1
  <2>3. ASSUME NEW u \in Adders(b)' PROVE adding'[u].seen + Cardinality(Adders(b)') <= Cardinality(PutIn(b)')
    <3>1. CASE b = i /\ u = t
      BY <1>1, <1>7, <2>2, <3>1
    <3>2. CASE u # t
      <4>1. u \in Adders(b) /\ u \in HThreads /\ adding'[u] = adding[u] /\ adding[u].pc = "count"
        BY <1>7, <1>8, <3>2 DEF Adders
      <4>2. adding[u].seen \in Nat
        BY <1>0, <4>1, BusyIs
      <4> QED BY <1>6, <1>9, <2>1, <4>1, <4>2
    <3> QED BY <1>8, <3>1, <3>2
  <2> QED BY <2>2, <2>3
<1>13. AloneExact'
  <2> SUFFICES ASSUME ~ raced'
               PROVE  /\ \A w, u \in HThreads : adding'[w].pc # "idle" /\ adding'[u].pc # "idle" => w = u
                      /\ \A b \in Buckets : /\ counts'[b] + Cardinality(Adders(b)') = Cardinality(PutIn(b)')
                                            /\ \A u \in Adders(b)' : adding'[u].seen = counts'[b]
    BY DEF AloneExact
  <2>1. ~ raced /\ \A u \in HThreads : u # t => adding[u].pc = "idle"
    BY <1>1
  <2>2. \A u \in HThreads : u # t => adding'[u].pc = "idle"
    BY <1>7, <2>1
  <2>3. \A b \in Buckets : counts[b] + Cardinality(Adders(b)) = Cardinality(PutIn(b))
    BY <1>0, <2>1 DEF AloneExact
  <2>4. \A b \in Buckets : counts'[b] + Cardinality(Adders(b)') = Cardinality(PutIn(b)')
    BY <1>1, <1>6, <1>9, <1>11, <2>3
  <2>5. ASSUME NEW b \in Buckets, NEW u \in Adders(b)' PROVE adding'[u].seen = counts'[b]
    <3>1. u \in HThreads /\ adding'[u].pc = "count" /\ adding'[u].bucket = b
      BY DEF Adders
    <3>2. u = t /\ b = i
      BY <1>7, <2>2, <3>1
    <3> QED BY <1>1, <1>7, <3>2
  <2> QED BY <2>2, <2>4, <2>5
<1>14. CountedFirst'
  <2>1. \A u \in HThreads : adding'[u].pc \in {"load", "sum"} => adding[u].pc \in {"load", "sum"}
    BY <1>7
  <2> QED BY <1>1, <2>1 DEF HistogramInv, CountedFirst
<1>15. ScanInv' /\ ReportInv'
  BY <1>1 DEF HistogramInv, ScanInv, ReportInv
<1> QED BY <1>10, <1>12, <1>13, <1>14, <1>15 DEF HistogramInv

\* Where the values put and the bounds stay, so do the values that belong into a bucket.
LEMMA PutStays ==
  ASSUME UNCHANGED <<ranges, put>>
  PROVE  \A b \in Buckets : PutIn(b)' = PutIn(b)
BY DEF PutIn

\* The store of a count keeps HistogramInv.
LEMMA StoreCountKeeps ==
  ASSUME HistogramInv, NEW t \in HThreads, StoreCount(t)
  PROVE  HistogramInv'
<1>0. /\ HistogramTypeOK /\ CountsBounded /\ AloneExact /\ CountedFirst
      /\ ScanInv /\ ReportInv
  BY DEF HistogramInv
<1>1. /\ adding[t].pc = "count"
      /\ counts' = [counts EXCEPT ![adding[t].bucket] = adding[t].seen + 1]
      /\ adding' = [adding EXCEPT ![t].pc = "load"]
      /\ UNCHANGED <<ranges, sum, snap, report, put, raced>>
  BY DEF StoreCount
<1>2. PICK i \in Buckets, z \in Nat : i = adding[t].bucket /\ z = adding[t].seen
  BY <1>0, <1>1, BusyIs
<1>3. /\ counts'[i] = z + 1 /\ \A b \in Buckets : b # i => counts'[b] = counts[b]
      /\ \A b \in Buckets : counts[b] \in Nat /\ counts'[b] \in Nat
  BY <1>0, <1>1, <1>2 DEF HistogramTypeOK
<1>4. /\ adding'[t].pc = "load" /\ \A u \in HThreads : u # t => adding'[u] = adding[u]
      /\ adding'[t] \in Busy
  <2>1. adding[t] \in Busy
    BY <1>0, <1>1, BusyIs
  <2> QED BY <1>0, <1>1, <2>1 DEF HistogramTypeOK, Busy
<1>5. \A b \in Buckets : PutIn(b)' = PutIn(b) /\ Cardinality(PutIn(b)) \in Nat
  BY <1>0, <1>1, PutStays, PutFinite
<1>6. \A b \in Buckets : /\ Adders(b)' = IF b = i THEN Adders(b) \ {t} ELSE Adders(b)
                         /\ t \in Adders(b) <=> b = i
  BY <1>1, <1>2, <1>4 DEF Adders
<1>7. \A b \in Buckets : /\ IsFiniteSet(Adders(b)') /\ Cardinality(Adders(b)) \in Nat
                         /\ Cardinality(Adders(b)') \in Nat
                         /\ Cardinality(Adders(b)) = IF b = i THEN Cardinality(Adders(b)') + 1
                                                     ELSE Cardinality(Adders(b)')
  <2> SUFFICES ASSUME NEW b \in Buckets
               PROVE  /\ IsFiniteSet(Adders(b)') /\ Cardinality(Adders(b)) \in Nat
                      /\ Cardinality(Adders(b)') \in Nat
                      /\ Cardinality(Adders(b)) = IF b = i THEN Cardinality(Adders(b)') + 1
                                                  ELSE Cardinality(Adders(b)')
    OBVIOUS
  <2>1. IsFiniteSet(Adders(b)) /\ Cardinality(Adders(b)) \in Nat
    BY <1>0, FS_CardinalityType DEF CountsBounded
  <2>2. CASE b = i
    <3>1. /\ IsFiniteSet(Adders(b) \ {t}) /\ Cardinality(Adders(b) \ {t}) = Cardinality(Adders(b)) - 1
      BY <1>6, <2>1, <2>2, FS_RemoveElement
    <3>2. Cardinality(Adders(b) \ {t}) \in Nat
      BY <3>1, FS_CardinalityType
    <3>3. Adders(b)' = Adders(b) \ {t}
      BY <1>6, <2>2
    <3> QED BY <2>1, <2>2, <3>1, <3>2, <3>3
  <2>3. CASE b # i
    BY <1>6, <2>1, <2>3
  <2> QED BY <2>2, <2>3
<1>8. HistogramTypeOK'
  <2>1. adding' \in [HThreads -> Idle \cup Busy]
    BY <1>0, <1>1, <1>4 DEF HistogramTypeOK
  <2>2. counts' \in [Buckets -> Nat]
    BY <1>0, <1>1, <1>2 DEF HistogramTypeOK
  <2> QED BY <1>0, <1>1, <2>1, <2>2 DEF HistogramTypeOK
<1>9. CountsBounded'
  <2> SUFFICES ASSUME NEW b \in Buckets
               PROVE  /\ IsFiniteSet(Adders(b)')
                      /\ counts'[b] + Cardinality(Adders(b)') <= Cardinality(PutIn(b)')
                      /\ \A u \in Adders(b)' : adding'[u].seen + Cardinality(Adders(b)') <= Cardinality(PutIn(b)')
    BY DEF CountsBounded
  <2>1. /\ counts[b] + Cardinality(Adders(b)) <= Cardinality(PutIn(b))
        /\ \A u \in Adders(b) : adding[u].seen + Cardinality(Adders(b)) <= Cardinality(PutIn(b))
    BY <1>0 DEF CountsBounded
  <2>2. IsFiniteSet(Adders(b)') /\ counts'[b] + Cardinality(Adders(b)') <= Cardinality(PutIn(b)')
    <3>1. CASE b = i
      <4>1. z + Cardinality(Adders(b)) <= Cardinality(PutIn(b))
        BY <1>2, <1>6, <2>1, <3>1
      <4> QED BY <1>3, <1>5, <1>7, <3>1, <4>1
    <3>2. CASE b # i
      BY <1>3, <1>5, <1>7, <2>1, <3>2
    <3> QED BY <3>1, <3>2
  <2>3. ASSUME NEW u \in Adders(b)' PROVE adding'[u].seen + Cardinality(Adders(b)') <= Cardinality(PutIn(b)')
    <3>1. u \in Adders(b) /\ u \in HThreads /\ u # t /\ adding'[u] = adding[u] /\ adding[u].pc = "count"
      BY <1>4, <1>6 DEF Adders
    <3>2. adding[u].seen \in Nat
      BY <1>0, <3>1, BusyIs
    <3> QED BY <1>5, <1>7, <2>1, <3>1, <3>2
  <2> QED BY <2>2, <2>3
<1>10. AloneExact'
  <2> SUFFICES ASSUME ~ raced'
               PROVE  /\ \A w, u \in HThreads : adding'[w].pc # "idle" /\ adding'[u].pc # "idle" => w = u
                      /\ \A b \in Buckets : /\ counts'[b] + Cardinality(Adders(b)') = Cardinality(PutIn(b)')
                                            /\ \A u \in Adders(b)' : adding'[u].seen = counts'[b]
    BY DEF AloneExact
  <2>1. /\ \A w, u \in HThreads : adding[w].pc # "idle" /\ adding[u].pc # "idle" => w = u
        /\ \A b \in Buckets : /\ counts[b] + Cardinality(Adders(b)) = Cardinality(PutIn(b))
                              /\ \A u \in Adders(b) : adding[u].seen = counts[b]
    BY <1>0, <1>1 DEF AloneExact
  <2>2. \A u \in HThreads : u # t => adding[u].pc = "idle" /\ adding'[u].pc = "idle"
    BY <1>1, <1>4, <2>1
  <2>3. z = counts[i]
    BY <1>2, <1>6, <2>1
  <2>4. \A b \in Buckets : counts'[b] + Cardinality(Adders(b)') = Cardinality(PutIn(b)')
    <3> SUFFICES ASSUME NEW b \in Buckets
                 PROVE  counts'[b] + Cardinality(Adders(b)') = Cardinality(PutIn(b)')
      OBVIOUS
    <3>1. counts[b] + Cardinality(Adders(b)) = Cardinality(PutIn(b))
      BY <2>1
    <3>2. CASE b = i
      BY <1>3, <1>5, <1>7, <2>3, <3>1, <3>2
    <3>3. CASE b # i
      BY <1>3, <1>5, <1>7, <3>1, <3>3
    <3> QED BY <3>2, <3>3
  <2>5. \A b \in Buckets : \A u : u \notin Adders(b)'
    <3> SUFFICES ASSUME NEW b \in Buckets, NEW u \in Adders(b)' PROVE FALSE
      OBVIOUS
    <3>1. u \in HThreads /\ adding'[u].pc = "count"
      BY DEF Adders
    <3> QED BY <1>4, <2>2, <3>1
  <2> QED BY <2>2, <2>4, <2>5
<1>11. counts'[i] # 0 /\ \A b \in Buckets : counts[b] # 0 => counts'[b] # 0
  BY <1>2, <1>3
<1>12. CountedFirst'
  BY <1>11 DEF CountedFirst
<1>13. ScanInv' /\ ReportInv'
  <2>1. ASSUME snap.pc = "scan", snap.at # BucketCount PROVE snap.at \in Buckets
    <3>1. snap \in Scan
      BY <1>0, <2>1 DEF HistogramTypeOK
    <3>2. snap.at \in 0 .. BucketCount
      BY <3>1 DEF Scan
    <3> QED BY <2>1, <3>2, HistogramAssumption DEF Buckets
  <2> QED BY <1>0, <1>1, <1>11, <2>1 DEF ScanInv, ReportInv
<1> QED BY <1>8, <1>9, <1>10, <1>12, <1>13 DEF HistogramInv

\* A step that leaves the counts and the reads of them alone keeps what is said of them.
LEMMA CountsStay ==
  ASSUME HistogramInv, UNCHANGED <<ranges, put, counts, raced>>,
         \A u \in HThreads : /\ adding'[u].pc = "count" <=> adding[u].pc = "count"
                             /\ adding[u].pc = "count" => adding'[u] = adding[u]
                             /\ adding'[u].pc # "idle" => adding[u].pc # "idle"
  PROVE  CountsBounded' /\ AloneExact'
<1>1. \A b \in Buckets : /\ Adders(b)' = Adders(b) /\ PutIn(b)' = PutIn(b)
                         /\ \A u \in Adders(b) : adding'[u] = adding[u]
  BY PutStays DEF Adders
<1>2. CountsBounded'
  <2> SUFFICES ASSUME NEW b \in Buckets
               PROVE  /\ IsFiniteSet(Adders(b)')
                      /\ counts'[b] + Cardinality(Adders(b)') <= Cardinality(PutIn(b)')
                      /\ \A u \in Adders(b)' : adding'[u].seen + Cardinality(Adders(b)') <= Cardinality(PutIn(b)')
    BY DEF CountsBounded
  <2> QED BY <1>1 DEF HistogramInv, CountsBounded
<1>3. AloneExact'
  <2> SUFFICES ASSUME ~ raced'
               PROVE  /\ \A w, u \in HThreads : adding'[w].pc # "idle" /\ adding'[u].pc # "idle" => w = u
                      /\ \A b \in Buckets : /\ counts'[b] + Cardinality(Adders(b)') = Cardinality(PutIn(b)')
                                            /\ \A u \in Adders(b)' : adding'[u].seen = counts'[b]
    BY DEF AloneExact
  <2> QED BY <1>1 DEF HistogramInv, AloneExact
<1> QED BY <1>2, <1>3

\* The load of the sum keeps HistogramInv.
LEMMA LoadSumKeeps ==
  ASSUME HistogramInv, NEW t \in HThreads, LoadSum(t)
  PROVE  HistogramInv'
<1>0. HistogramTypeOK /\ CountedFirst /\ ScanInv /\ ReportInv
  BY DEF HistogramInv
<1>1. /\ adding[t].pc = "load" /\ adding' = [adding EXCEPT ![t].pc = "sum", ![t].seen = sum]
      /\ UNCHANGED <<ranges, counts, sum, snap, report, put, raced>>
  BY DEF LoadSum
<1>2. adding[t] \in Busy /\ sum \in Nat
  BY <1>0, <1>1, BusyIs DEF HistogramTypeOK
<1>3. /\ adding'[t].pc = "sum" /\ adding'[t] \in Busy
      /\ \A u \in HThreads : u # t => adding'[u] = adding[u]
  BY <1>0, <1>1, <1>2 DEF HistogramTypeOK, Busy
<1>4. HistogramTypeOK'
  <2>1. adding' \in [HThreads -> Idle \cup Busy]
    BY <1>0, <1>1, <1>3 DEF HistogramTypeOK
  <2> QED BY <1>0, <1>1, <2>1 DEF HistogramTypeOK
<1>5. CountsBounded' /\ AloneExact'
  BY <1>1, <1>3, CountsStay
<1>6. CountedFirst'
  BY <1>0, <1>1, <1>3 DEF CountedFirst
<1>7. ScanInv' /\ ReportInv'
  BY <1>0, <1>1 DEF ScanInv, ReportInv
<1> QED BY <1>4, <1>5, <1>6, <1>7 DEF HistogramInv

\* The store of the sum keeps HistogramInv.
LEMMA StoreSumKeeps ==
  ASSUME HistogramInv, NEW t \in HThreads, StoreSum(t)
  PROVE  HistogramInv'
<1>0. HistogramTypeOK /\ CountedFirst /\ ScanInv /\ ReportInv
  BY DEF HistogramInv
<1>1. /\ adding[t].pc = "sum" /\ sum' = adding[t].seen + adding[t].value
      /\ adding' = [adding EXCEPT ![t] = [pc |-> "idle"]]
      /\ UNCHANGED <<ranges, counts, snap, report, put, raced>>
  BY DEF StoreSum
<1>2. sum' \in Nat
  BY <1>0, <1>1, BusyIs
<1>3. adding'[t].pc = "idle" /\ adding'[t] \in Idle /\ \A u \in HThreads : u # t => adding'[u] = adding[u]
  BY <1>0, <1>1 DEF HistogramTypeOK, Idle
<1>4. HistogramTypeOK'
  <2>1. adding' \in [HThreads -> Idle \cup Busy]
    BY <1>0, <1>1, <1>3 DEF HistogramTypeOK
  <2> QED BY <1>0, <1>1, <1>2, <2>1 DEF HistogramTypeOK
<1>5. CountsBounded' /\ AloneExact'
  BY <1>1, <1>3, CountsStay
<1>6. CountedFirst'
  BY <1>0, <1>1 DEF CountedFirst
<1>7. ScanInv' /\ ReportInv'
  BY <1>0, <1>1 DEF ScanInv, ReportInv
<1> QED BY <1>4, <1>5, <1>6, <1>7 DEF HistogramInv

\* The state of a scan under way.
LEMMA ScanIs ==
  ASSUME HistogramTypeOK, snap.pc # "none"
  PROVE  /\ snap \in Scan /\ snap.pc \in {"scan", "done"} /\ snap.sum \in Nat
         /\ snap.counts \in [Buckets -> Nat]
         /\ snap.index \in 0 .. BucketCount /\ snap.at \in 0 .. BucketCount
<1>1. snap \in Scan
  BY DEF HistogramTypeOK
<1> QED BY <1>1 DEF Scan

\* The beginning of a snapshot keeps HistogramInv.
LEMMA SnapshotKeeps ==
  ASSUME HistogramInv, SnapshotSampleVector
  PROVE  HistogramInv'
<1>0. HistogramTypeOK /\ CountedFirst /\ ReportInv /\ BucketCount \in Nat \ {0} /\ Buckets = 0 .. BucketCount - 1
  BY HistogramAssumption DEF HistogramInv, Buckets
<1> DEFINE a == SkipEmptyBuckets(0)
<1>1. /\ snap' = [pc |-> "scan", sum |-> sum, counts |-> Zeros, index |-> 0, at |-> a]
      /\ UNCHANGED <<ranges, counts, sum, adding, report, put, raced>>
  BY DEF SnapshotSampleVector
<1>2. NextFull(counts, 0, a)
  <2>1. 0 \in 0 .. BucketCount
    BY <1>0
  <2> QED BY <2>1, SkipIs
<1> HIDE DEF a
<1>3. /\ a \in 0 .. BucketCount /\ (a # BucketCount => counts[a] # 0)
      /\ \A l \in 0 .. a - 1 : counts[l] = 0
  BY <1>2 DEF NextFull
<1>4. HistogramTypeOK'
  <2>1. Zeros \in [Buckets -> Nat] /\ sum \in Nat /\ 0 \in 0 .. BucketCount
    BY <1>0 DEF Zeros, HistogramTypeOK
  <2>2. snap' \in Scan
    BY <1>1, <1>3, <2>1 DEF Scan
  <2> QED BY <1>0, <1>1, <2>2 DEF HistogramTypeOK
<1>5. CountsBounded' /\ AloneExact'
  BY <1>1, CountsStay
<1>6. CountedFirst' /\ ReportInv'
  BY <1>0, <1>1 DEF CountedFirst, ReportInv
<1>7. ScanInv'
  <2>1. /\ snap'.pc = "scan" /\ snap'.index = 0 /\ snap'.at = a /\ snap'.sum = sum
        /\ counts' = counts
    BY <1>1
  <2>2. 0 <= a
    BY <1>0, <1>3
  <2>3. sum # 0 => a # BucketCount
    BY <1>0, <1>3 DEF CountedFirst
  <2> QED BY <1>3, <2>1, <2>2, <2>3 DEF ScanInv
<1> QED BY <1>4, <1>5, <1>6, <1>7 DEF HistogramInv

\* A turn of the scan keeps HistogramInv.
LEMMA ScanKeeps ==
  ASSUME HistogramInv, AddSubtractImpl
  PROVE  HistogramInv'
<1>0. /\ HistogramTypeOK /\ CountedFirst /\ ScanInv /\ ReportInv
      /\ BucketCount \in Nat \ {0} /\ Buckets = 0 .. BucketCount - 1
  BY HistogramAssumption DEF HistogramInv, Buckets
<1>1. snap.pc = "scan" /\ UNCHANGED <<ranges, counts, sum, adding, report, put, raced>>
  BY DEF AddSubtractImpl
<1>2. PICK x \in 0 .. BucketCount, a \in 0 .. BucketCount, c \in [Buckets -> Nat], z \in Nat :
         x = snap.index /\ a = snap.at /\ c = snap.counts /\ z = snap.sum
  BY <1>0, <1>1, ScanIs
<1>3. snap \in Scan
  BY <1>0, <1>1, ScanIs
<1>4. /\ x <= a /\ (a # BucketCount => counts[a] # 0)
      /\ z # 0 => a # BucketCount \/ \E b \in Buckets : c[b] # 0
  BY <1>0, <1>1, <1>2 DEF ScanInv
<1>5. snap' = IF x = BucketCount \/ a = BucketCount
              THEN [snap EXCEPT !.pc = IF a = BucketCount THEN "done" ELSE "failed"]
              ELSE IF ranges[a] = ranges[x] /\ ranges[a + 1] = ranges[x + 1]
              THEN [snap EXCEPT !.counts[x] = @ + counts[a], !.at = SkipEmptyBuckets(a + 1)]
              ELSE IF ranges[a] > ranges[x] THEN [snap EXCEPT !.index = @ + 1]
              ELSE [snap EXCEPT !.pc = "failed"]
  BY <1>2 DEF AddSubtractImpl
<1>6. ASSUME a = BucketCount PROVE snap' \in Scan /\ ScanInv'
  <2>1. snap' = [snap EXCEPT !.pc = "done"]
    BY <1>5, <1>6
  <2>2. /\ snap' \in Scan /\ snap'.pc = "done" /\ snap'.sum = z /\ snap'.counts = c
    BY <1>2, <1>3, <2>1 DEF Scan
  <2>3. snap' \in Scan /\ ScanInv'
    BY <1>4, <1>6, <2>2 DEF ScanInv
  <2> QED BY <2>3
<1>7. ASSUME a # BucketCount /\ x = a PROVE snap' \in Scan /\ ScanInv'
  <2>1. a \in Buckets /\ x # BucketCount /\ a + 1 \in 0 .. BucketCount /\ a \in Nat
    BY <1>0, <1>7
  <2>2. snap' = [snap EXCEPT !.counts[x] = @ + counts[a], !.at = SkipEmptyBuckets(a + 1)]
    BY <1>5, <1>7, <2>1
  <2> DEFINE s == SkipEmptyBuckets(a + 1)
             d == [c EXCEPT ![a] = c[a] + counts[a]]
  <2>3. NextFull(counts, a + 1, s)
    BY <2>1, SkipIs
  <2>4. s \in a + 1 .. BucketCount /\ (s # BucketCount => counts[s] # 0)
    <3> HIDE DEF s
    <3> QED BY <2>3 DEF NextFull
  <2>5. counts[a] \in Nat /\ counts[a] # 0
    BY <1>0, <1>4, <1>7, <2>1 DEF HistogramTypeOK
  <2>6. d \in [Buckets -> Nat] /\ d[a] # 0
    BY <1>2, <2>1, <2>5
  <2>7. /\ snap' = [snap EXCEPT !.counts = d, !.at = s]
    BY <1>2, <1>3, <1>7, <2>2 DEF Scan
  <2> HIDE DEF s, d
  <2>8. s \in 0 .. BucketCount /\ a <= s
    BY <1>0, <2>1, <2>4
  <2>9. /\ snap' \in Scan /\ snap'.pc = "scan" /\ snap'.counts = d /\ snap'.at = s /\ snap'.index = x
    BY <1>1, <1>2, <1>3, <2>6, <2>7, <2>8 DEF Scan
  <2>10. ScanInv'
    BY <1>1, <1>7, <2>1, <2>4, <2>6, <2>8, <2>9 DEF ScanInv
  <2> QED BY <2>9, <2>10
<1>8. ASSUME a # BucketCount /\ x # a PROVE snap' \in Scan /\ ScanInv'
  <2>1. x < a /\ a \in 0 .. B /\ x \in 0 .. B /\ x # BucketCount /\ x + 1 \in 0 .. BucketCount /\ x + 1 <= a
    BY <1>0, <1>4, <1>8 DEF B
  <2>2. ranges[x] < ranges[a] /\ ranges[x] \in Nat /\ ranges[a] \in Nat
    BY <1>0, <2>1, RangesGrow DEF HistogramTypeOK
  <2>3. ranges[a] # ranges[x] /\ ranges[a] > ranges[x]
    BY <2>2
  <2>4. snap' = [snap EXCEPT !.index = x + 1]
    BY <1>2, <1>5, <1>8, <2>1, <2>3
  <2>5. /\ snap' \in Scan /\ snap'.pc = "scan" /\ snap'.counts = c /\ snap'.at = a /\ snap'.index = x + 1
        /\ snap'.sum = z
    BY <1>1, <1>2, <1>3, <2>1, <2>4 DEF Scan
  <2>6. ScanInv'
    BY <1>1, <1>4, <1>8, <2>1, <2>5 DEF ScanInv
  <2> QED BY <2>5, <2>6
<1>9. snap' \in Scan /\ ScanInv'
  BY <1>6, <1>7, <1>8
<1>10. HistogramTypeOK'
  BY <1>0, <1>1, <1>9 DEF HistogramTypeOK
<1>11. CountsBounded' /\ AloneExact'
  BY <1>1, CountsStay
<1>12. CountedFirst' /\ ReportInv'
  BY <1>0, <1>1 DEF CountedFirst, ReportInv
<1> QED BY <1>9, <1>10, <1>11, <1>12 DEF HistogramInv

\* A report keeps HistogramInv.
LEMMA ReportKeeps ==
  ASSUME HistogramInv, Report
  PROVE  HistogramInv'
<1>0. HistogramTypeOK /\ CountedFirst /\ ScanInv
  BY DEF HistogramInv
<1>1. /\ snap.pc = "done" /\ snap' = [pc |-> "none"]
      /\ UNCHANGED <<ranges, counts, sum, adding, put, raced>>
      /\ report'.total = TotalCount(snap.counts) /\ report'.sum = snap.sum
      /\ report'.past = WriteAsciiImpl(snap.counts)
  BY DEF Report
<1>2. PICK c \in [Buckets -> Nat] : c = snap.counts
  BY <1>0, <1>1, ScanIs
<1>3. ReportInv'
  <2>1. WriteAsciiImpl(c) = TotalCount(c) /\ (TotalCount(c) = 0 => \A b \in Buckets : c[b] = 0)
    BY AsciiAddsUp, TotalPositive
  <2>2. snap.sum # 0 => \E b \in Buckets : c[b] # 0
    BY <1>0, <1>1, <1>2 DEF ScanInv
  <2> QED BY <1>1, <1>2, <2>1, <2>2 DEF ReportInv
<1>4. HistogramTypeOK'
  BY <1>0, <1>1 DEF HistogramTypeOK
<1>5. CountsBounded' /\ AloneExact'
  BY <1>1, CountsStay
<1>6. CountedFirst' /\ ScanInv'
  BY <1>0, <1>1 DEF CountedFirst, ScanInv
<1> QED BY <1>3, <1>4, <1>5, <1>6 DEF HistogramInv

\* HistogramInv holds at the start.
LEMMA HistogramStarts == InitHistogram => HistogramInv
<1> SUFFICES ASSUME InitHistogram PROVE HistogramInv
  OBVIOUS
<1>0. /\ ranges \in InitializeBucketRanges /\ counts = Zeros /\ sum = 0
      /\ adding = [t \in HThreads |-> [pc |-> "idle"]] /\ snap = [pc |-> "none"]
      /\ report = [total |-> 0, sum |-> 0, past |-> 0, high |-> Zeros]
      /\ put = <<>> /\ raced = FALSE
  BY DEF InitHistogram
<1>1. HistogramTypeOK
  <2>1. Zeros \in [Buckets -> Nat] /\ <<>> \in Seq(Values) /\ 0 \in Nat
    BY DEF Zeros
  <2>2. adding \in [HThreads -> Idle \cup Busy]
    BY <1>0 DEF Idle
  <2>3. snap \in [pc : {"none"}] \cup Scan
    BY <1>0
  <2>4. raced \in BOOLEAN
    BY <1>0
  <2> QED BY <1>0, <2>1, <2>2, <2>3, <2>4 DEF HistogramTypeOK
<1>2. \A b \in Buckets : Adders(b) = {} /\ PutIn(b) = {} /\ counts[b] = 0
  BY <1>0 DEF Adders, PutIn, Zeros
<1>3. Cardinality({}) = 0 /\ IsFiniteSet({})
  BY FS_EmptySet
<1>4. CountsBounded /\ AloneExact
  <2>1. \A b \in Buckets : counts[b] + Cardinality(Adders(b)) = Cardinality(PutIn(b))
    BY <1>2, <1>3
  <2>2. \A b \in Buckets : counts[b] + Cardinality(Adders(b)) <= Cardinality(PutIn(b))
    BY <1>2, <1>3
  <2>3. \A t \in HThreads : adding[t].pc = "idle"
    BY <1>0
  <2>4. \A b \in Buckets : IsFiniteSet(Adders(b)) /\ \A t : t \notin Adders(b)
    BY <1>2, <1>3
  <2> QED BY <2>1, <2>2, <2>3, <2>4, Zenon DEF CountsBounded, AloneExact
<1>5. CountedFirst /\ ScanInv /\ ReportInv
  BY <1>0 DEF CountedFirst, ScanInv, ReportInv
<1> QED BY <1>1, <1>4, <1>5 DEF HistogramInv

\* No step of a Histogram breaks HistogramInv.
LEMMA HistogramSteps ==
  ASSUME HistogramInv, [NextHistogram]_histogramVars
  PROVE  HistogramInv'
<1>1. CASE UNCHANGED histogramVars
  <2>1. UNCHANGED <<ranges, counts, sum, adding, snap, report, put, raced>>
    BY <1>1 DEF histogramVars
  <2>2. CountsBounded' /\ AloneExact'
    BY <2>1, CountsStay
  <2> QED BY <2>1, <2>2 DEF HistogramInv, HistogramTypeOK, CountedFirst, ScanInv, ReportInv
<1>2. CASE NextHistogram
  BY <1>2, AddKeeps, StoreCountKeeps, LoadSumKeeps, StoreSumKeeps, SnapshotKeeps, ScanKeeps, ReportKeeps
     DEF NextHistogram
<1> QED BY <1>1, <1>2

\* What HistogramInv says of the counts and of the reports.
LEMMA HistogramMeans == HistogramInv => HistogramAccounts
<1> SUFFICES ASSUME HistogramInv PROVE HistogramAccounts
  OBVIOUS
<1>0. HistogramTypeOK /\ CountsBounded /\ AloneExact /\ ReportInv
  BY DEF HistogramInv
<1>1. \A b \in Buckets : /\ counts[b] \in Nat /\ Cardinality(PutIn(b)) \in Nat
                         /\ Cardinality(Adders(b)) \in Nat
  BY <1>0, PutFinite, FS_CardinalityType DEF HistogramTypeOK, CountsBounded
<1>2. \A b \in Buckets : counts[b] <= Cardinality(PutIn(b))
  BY <1>0, <1>1 DEF CountsBounded
<1>3. ASSUME ~ raced, \A t \in HThreads : adding[t].pc = "idle", NEW b \in Buckets
      PROVE  counts[b] = Cardinality(PutIn(b))
  <2>1. Adders(b) = {}
    BY <1>3 DEF Adders
  <2>2. Cardinality(Adders(b)) = 0
    BY <2>1, FS_EmptySet
  <2> QED BY <1>0, <1>1, <1>3, <2>2 DEF AloneExact
<1>4. snap.pc # "failed"
  BY <1>0, ScanIs DEF HistogramTypeOK
<1> QED BY <1>0, <1>2, <1>3, <1>4 DEF HistogramAccounts, ReportInv

(***************************************************************************)
(* However many threads Add without a lock while another takes snapshots,  *)
(* whatever the bounds of the buckets: no bucket counts more values than   *)
(* belong into it, all are counted if no two Adds met, no scan of          *)
(* AddSubtractImpl fails, and WriteAsciiImpl prints as many samples as its *)
(* header says, none only if the sum is 0 too.                             *)
(***************************************************************************)
THEOREM HistogramsAddUp == HistogramSpec => []HistogramAccounts
<1>1. InitHistogram => HistogramInv
  BY HistogramStarts
<1>2. HistogramInv /\ [NextHistogram]_histogramVars => HistogramInv'
  BY HistogramSteps
<1>3. HistogramInv => HistogramAccounts
  BY HistogramMeans
<1> QED BY <1>1, <1>2, <1>3, PTL DEF HistogramSpec

-----------------------------------------------------------------------------
(* The registries: one object per id *)

\* The objects made so far.
Objects == 1 .. Len(idOf)

RegistryTypeOK ==
    /\ registry \in [Ids -> Nat]
    /\ idOf \in Seq(Ids)
    /\ live \subseteq Objects
    /\ held \in [RThreads -> Nat]
    /\ pc \in [RThreads -> {"idle", "missing", "made", "holding"}]
    /\ wanted \in [RThreads -> Histograms]
    /\ stale \subseteq RThreads

\* What is registered under an id is an undeleted object of that id.
RegisteredLive == \A d \in Ids : registry[d] # 0 => registry[d] \in live /\ idOf[registry[d]] = d

\* A pointer in use is that of an object that was made.
HeldMade == \A t \in RThreads : pc[t] \in {"made", "holding"} => held[t] \in Objects

\* An object on its way into the registry is not registered yet, and no other
\* thread has it.
MadeOwned ==
    \A t \in RThreads : pc[t] = "made" =>
        /\ held[t] \in live
        /\ registry[idOf[held[t]]] # held[t]
        /\ t \notin stale
        /\ \A u \in RThreads : pc[u] = "made" /\ held[u] = held[t] => u = t

\* Only a thread that got its pointer from the registry can have a stale one.
StaleHolds == \A t \in stale : pc[t] = "holding"

\* The three parts of OneObjectPerId.
HeldRegistered ==
    \A t \in RThreads : (pc[t] = "holding" /\ t \notin stale) =>
        held[t] \in live /\ registry[idOf[held[t]]] = held[t]
NoneLeaked ==
    \A o \in live : \/ registry[idOf[o]] = o
                    \/ \E t \in RThreads : pc[t] = "made" /\ held[t] = o
StaleSpans == \A t \in stale : idOf[held[t]] \in Spans

RegistryInv == /\ RegistryTypeOK /\ RegisteredLive /\ HeldMade /\ MadeOwned /\ StaleHolds
               /\ HeldRegistered /\ NoneLeaked /\ StaleSpans

\* Making an object of id d, for Histogram::FactoryGet, Trace::FactoryGet and
\* Trace::MakeChild, keeps RegistryInv: it is of no thread and under no id.
LEMMA NewKeeps ==
  ASSUME RegistryInv, NEW t \in RThreads, NEW d \in Ids, NEW par, New(t, d, par),
         pc[t] # "made"
  PROVE  RegistryInv'
<1> DEFINE n == Len(idOf) + 1
<1>0. Len(idOf) \in Nat /\ idOf \in Seq(Ids)
  BY DEF RegistryInv, RegistryTypeOK
<1>1. /\ idOf' \in Seq(Ids) /\ Len(idOf') = n /\ idOf'[n] = d
      /\ \A o \in Objects : idOf'[o] = idOf[o] /\ o # n
      /\ Objects' = Objects \cup {n} /\ n \in Objects' /\ n # 0 /\ n \in Nat
  BY <1>0, AppendProperties DEF New, Objects
<1>2. /\ live' = live \cup {n}
      /\ registry' = registry /\ wanted' = wanted /\ stale' = stale \ {t}
      /\ \A u \in RThreads : /\ held'[u] = IF u = t THEN n ELSE held[u]
                             /\ pc'[u] = IF u = t THEN "made" ELSE pc[u]
  BY DEF New, RegistryInv, RegistryTypeOK
<1>3. RegistryTypeOK'
  BY <1>0, <1>1, <1>2 DEF New, RegistryInv, RegistryTypeOK
<1> HIDE DEF n
<1>4. \A e \in Ids : registry[e] # n
  BY <1>1 DEF RegistryInv, RegisteredLive, RegistryTypeOK
<1>5. RegisteredLive'
  BY <1>1, <1>2 DEF RegistryInv, RegisteredLive, RegistryTypeOK
<1>6. HeldMade'
  BY <1>1, <1>2 DEF RegistryInv, HeldMade
<1>7. MadeOwned'
  BY <1>1, <1>2, <1>4 DEF RegistryInv, MadeOwned, HeldMade, RegistryTypeOK
<1>8. StaleHolds'
  BY <1>2 DEF RegistryInv, StaleHolds, RegistryTypeOK
<1>9. HeldRegistered'
  BY <1>1, <1>2 DEF RegistryInv, HeldRegistered, HeldMade, RegistryTypeOK
<1>10. NoneLeaked'
  <2> SUFFICES ASSUME NEW o \in live'
               PROVE  \/ registry'[idOf'[o]] = o
                      \/ \E u \in RThreads : pc'[u] = "made" /\ held'[u] = o
    BY DEF NoneLeaked
  <2>1. CASE o = n
    BY <1>2, <2>1
  <2>2. CASE o # n
    <3>1. o \in live /\ o \in Objects
      BY <1>2, <2>2 DEF RegistryInv, RegistryTypeOK
    <3> QED BY <1>1, <1>2, <3>1 DEF RegistryInv, NoneLeaked
  <2> QED BY <2>1, <2>2
<1>11. StaleSpans'
  BY <1>1, <1>2 DEF RegistryInv, StaleSpans, HeldMade, StaleHolds, RegistryTypeOK
<1> QED BY <1>3, <1>5, <1>6, <1>7, <1>8, <1>9, <1>10, <1>11 DEF RegistryInv

\* RegisterOrDeleteDuplicate keeps it: a first object goes in, a second one is
\* deleted and its thread gets the first.
LEMMA RegisterKeeps ==
  ASSUME RegistryInv, NEW t \in RThreads, Register(t)
  PROVE  RegistryInv'
<1> DEFINE mine == held[t]
           d == idOf[mine]
           old == registry[d]
<1>0. /\ pc[t] = "made" /\ mine \in Objects /\ mine \in live /\ d \in Ids /\ old # mine
      /\ t \notin stale /\ old \in Nat /\ mine # 0 /\ mine \in Nat
      /\ \A u \in RThreads : pc[u] = "made" /\ held[u] = mine => u = t
  BY DEF Register, RegistryInv, MadeOwned, HeldMade, Objects, RegistryTypeOK
<1>1. /\ UNCHANGED <<idOf, wanted, stale>> /\ Objects' = Objects
      /\ pc' = [pc EXCEPT ![t] = "holding"]
      /\ old = 0 => /\ registry' = [registry EXCEPT ![d] = mine]
                    /\ held' = held /\ live' = live
      /\ old # 0 => /\ registry' = registry
                    /\ held' = [held EXCEPT ![t] = old] /\ live' = live \ {mine}
  BY <1>0 DEF Register, Objects, None2
<1>2. RegistryTypeOK'
  BY <1>0, <1>1 DEF RegistryInv, RegistryTypeOK
<1>3. old # 0 => old \in live /\ idOf[old] = d /\ old \in Objects
  BY <1>0 DEF RegistryInv, RegisteredLive, RegistryTypeOK
<1>4. \A e \in Ids : registry[e] # mine
  BY <1>0 DEF RegistryInv, RegisteredLive
<1> HIDE DEF mine, d, old
<1>4a. d = idOf[mine] /\ old = registry[d] /\ mine = held[t]
  BY DEF mine, d, old
<1>5. RegisteredLive'
  BY <1>0, <1>1, <1>4, <1>4a DEF RegistryInv, RegisteredLive, RegistryTypeOK
<1>6. HeldMade'
  BY <1>0, <1>1, <1>3 DEF RegistryInv, HeldMade, RegistryTypeOK
<1>7. MadeOwned'
  <2> SUFFICES ASSUME NEW u \in RThreads, pc'[u] = "made"
               PROVE  /\ held'[u] \in live'
                      /\ registry'[idOf'[held'[u]]] # held'[u]
                      /\ u \notin stale'
                      /\ \A v \in RThreads : pc'[v] = "made" /\ held'[v] = held'[u] => v = u
    BY DEF MadeOwned
  <2>1. u # t /\ pc[u] = "made" /\ held'[u] = held[u] /\ held[u] # mine
    BY <1>0, <1>1 DEF RegistryInv, RegistryTypeOK
  <2>2. \A v \in RThreads : pc'[v] = "made" => v # t /\ pc[v] = "made" /\ held'[v] = held[v]
    BY <1>0, <1>1 DEF RegistryInv, RegistryTypeOK
  <2>3. idOf[held[u]] \in Ids
    BY <2>1 DEF RegistryInv, HeldMade, Objects, RegistryTypeOK
  <2> QED BY <1>1, <2>1, <2>2, <2>3 DEF RegistryInv, MadeOwned, RegistryTypeOK
<1>8. StaleHolds'
  BY <1>0, <1>1 DEF RegistryInv, StaleHolds, RegistryTypeOK
<1>9. HeldRegistered'
  <2> SUFFICES ASSUME NEW u \in RThreads, pc'[u] = "holding", u \notin stale'
               PROVE  held'[u] \in live' /\ registry'[idOf'[held'[u]]] = held'[u]
    BY DEF HeldRegistered
  <2>1. CASE u = t
    BY <1>0, <1>1, <1>3, <1>4a, <2>1 DEF RegistryInv, RegistryTypeOK
  <2>2. CASE u # t
    <3>1. pc[u] = "holding" /\ u \notin stale /\ held'[u] = held[u]
      BY <1>1, <2>2 DEF RegistryInv, RegistryTypeOK
    <3>2. held[u] \in live /\ registry[idOf[held[u]]] = held[u] /\ idOf[held[u]] \in Ids
          /\ held[u] # 0
      BY <3>1 DEF RegistryInv, HeldRegistered, HeldMade, Objects, RegistryTypeOK
    <3> QED BY <1>1, <1>4, <1>4a, <3>1, <3>2 DEF RegistryInv, RegistryTypeOK
  <2> QED BY <2>1, <2>2
<1>10. NoneLeaked'
  <2> SUFFICES ASSUME NEW o \in live'
               PROVE  \/ registry'[idOf'[o]] = o
                      \/ \E u \in RThreads : pc'[u] = "made" /\ held'[u] = o
    BY DEF NoneLeaked
  <2>1. o \in live /\ idOf[o] \in Ids /\ o # 0
    <3>1. o \in live
      BY <1>1
    <3>2. o \in Objects
      BY <3>1 DEF RegistryInv, RegistryTypeOK
    <3> QED BY <3>1, <3>2 DEF RegistryInv, RegistryTypeOK, Objects
  <2>2. CASE registry[idOf[o]] = o
    BY <1>1, <1>4a, <2>1, <2>2 DEF RegistryInv, RegistryTypeOK
  <2>3. CASE o = mine
    BY <1>0, <1>1, <1>4a, <2>1, <2>3 DEF RegistryInv, RegistryTypeOK
  <2>4. CASE o # mine /\ \E u \in RThreads : pc[u] = "made" /\ held[u] = o
    <3>1. PICK u \in RThreads : pc[u] = "made" /\ held[u] = o
      BY <2>4
    <3>2. u # t
      BY <1>4a, <2>4, <3>1
    <3>3. pc'[u] = "made" /\ held'[u] = o
      BY <1>1, <3>1, <3>2 DEF RegistryInv, RegistryTypeOK
    <3> QED BY <3>3
  <2> QED BY <2>1, <2>2, <2>3, <2>4 DEF RegistryInv, NoneLeaked
<1>11. StaleSpans'
  BY <1>0, <1>1 DEF RegistryInv, StaleSpans, StaleHolds, RegistryTypeOK
<1> QED BY <1>2, <1>5, <1>6, <1>7, <1>8, <1>9, <1>10, <1>11 DEF RegistryInv

\* A span is a trace and a number.
LEMMA SpanIs ==
  ASSUME NEW d \in Spans
  PROVE  \E tr \in TraceIds, sp \in 1 .. MaxSpan : d = <<tr, sp>>
BY DEF Spans

\* Erase keeps it: whoever holds the trace that is deleted holds a stale pointer.
LEMMA EraseKeeps ==
  ASSUME RegistryInv, NEW d \in Ids, Erase(d)
  PROVE  RegistryInv'
<1> DEFINE old == registry[d]
<1>0. d \in Spans /\ old # 0 /\ old \in live /\ idOf[old] = d /\ old \in Objects
  BY DEF Erase, None2, RegistryInv, RegisteredLive, RegistryTypeOK
<1>1. /\ UNCHANGED <<idOf, held, wanted, pc>> /\ Objects' = Objects
      /\ registry' = [registry EXCEPT ![d] = 0] /\ live' = live \ {old}
      /\ stale' = stale \cup {t \in RThreads : pc[t] = "holding" /\ held[t] = old}
  BY DEF Erase, None2, Objects
<1>1a. old = registry[d]
  OBVIOUS
<1> HIDE DEF old
<1>2. RegistryTypeOK'
  BY <1>0, <1>1 DEF RegistryInv, RegistryTypeOK
<1>3. RegisteredLive'
  BY <1>0, <1>1, <1>1a DEF RegistryInv, RegisteredLive, RegistryTypeOK
<1>4. HeldMade'
  BY <1>1 DEF RegistryInv, HeldMade
<1>5. MadeOwned'
  BY <1>0, <1>1, <1>1a DEF RegistryInv, MadeOwned, HeldMade, RegistryTypeOK, Objects
<1>6. StaleHolds'
  BY <1>1 DEF RegistryInv, StaleHolds
<1>7. HeldRegistered'
  <2> SUFFICES ASSUME NEW u \in RThreads, pc[u] = "holding", u \notin stale, held[u] # old
               PROVE  held[u] \in live' /\ registry'[idOf[held[u]]] = held[u]
    BY <1>1 DEF HeldRegistered
  <2>1. held[u] \in live /\ registry[idOf[held[u]]] = held[u]
    BY DEF RegistryInv, HeldRegistered
  <2> QED BY <1>1, <1>1a, <2>1 DEF RegistryInv, RegistryTypeOK
<1>8. NoneLeaked'
  <2> SUFFICES ASSUME NEW o \in live, o # old
               PROVE  \/ registry'[idOf[o]] = o
                      \/ \E u \in RThreads : pc[u] = "made" /\ held[u] = o
    BY <1>1 DEF NoneLeaked
  <2> QED BY <1>1, <1>1a DEF RegistryInv, NoneLeaked, RegistryTypeOK
<1>9. StaleSpans'
  BY <1>0, <1>1 DEF RegistryInv, StaleSpans
<1> QED BY <1>2, <1>3, <1>4, <1>5, <1>6, <1>7, <1>8, <1>9 DEF RegistryInv

\* Threads that race to find, make, register and erase objects of one id end up
\* with one: HistogramRecorder's and TraceRecorder's RegisterOrDeleteDuplicate
\* leaks no object and hands out none that is deleted, but for an erased trace.
THEOREM RegistryKeepsOneObject == RegistrySpec => []OneObjectPerId
<1>1. InitRegistry => RegistryInv
  <2> SUFFICES ASSUME InitRegistry PROVE RegistryInv
    OBVIOUS
  <2>1. <<>> \in Seq(Ids)
    OBVIOUS
  <2> QED BY <2>1 DEF InitRegistry, None2, RegistryInv, RegistryTypeOK, RegisteredLive, HeldMade,
          MadeOwned, StaleHolds, HeldRegistered, NoneLeaked, StaleSpans
<1>2. RegistryInv /\ [NextRegistry]_registryVars => RegistryInv'
  <2> SUFFICES ASSUME RegistryInv, [NextRegistry]_registryVars PROVE RegistryInv'
    OBVIOUS
  <2> USE DEF RegistryInv, RegistryTypeOK, RegisteredLive, HeldMade, MadeOwned, StaleHolds,
              HeldRegistered, NoneLeaked, StaleSpans, Objects
  <2>1. ASSUME NEW t \in RThreads, NEW d \in Ids, Found(t, d), pc[t] = "idle",
               wanted' \in [RThreads -> Histograms]
        PROVE  RegistryInv'
    <3>1. registry[d] # 0 /\ registry[d] \in live /\ idOf[registry[d]] = d
          /\ registry[d] \in 1 .. Len(idOf)
      BY <2>1 DEF Found, None2
    <3>2. \A o \in live : \/ registry[idOf[o]] = o
                          \/ \E u \in RThreads : pc'[u] = "made" /\ held'[u] = o
      BY <2>1 DEF Found
    <3> QED BY <2>1, <3>1, <3>2 DEF Found
  <2>2. ASSUME NEW t \in RThreads, NEW d \in Histograms, FindHistogram(t, d) PROVE RegistryInv'
    <3>1. wanted' \in [RThreads -> Histograms] /\ d \in Ids
      BY <2>2 DEF FindHistogram, Ids
    <3>2. CASE Found(t, d)
      BY <2>1, <2>2, <3>1, <3>2 DEF FindHistogram
    <3>3. CASE ~ Found(t, d)
      <4>1. /\ pc' = [pc EXCEPT ![t] = "missing"] /\ pc[t] = "idle"
            /\ UNCHANGED <<registry, live, idOf, held, parent, stale>>
        BY <2>2, <3>3 DEF FindHistogram
      <4>2. \A u \in RThreads : (pc'[u] = "made" <=> pc[u] = "made")
                                /\ (pc'[u] = "holding" <=> pc[u] = "holding")
        BY <4>1
      <4> QED BY <3>1, <4>1, <4>2
    <3> QED BY <3>2, <3>3
  <2>3. ASSUME NEW t \in RThreads, HistogramFactoryGet(t) PROVE RegistryInv'
    <3>1. wanted[t] \in Ids
      BY DEF Ids
    <3> QED BY <2>3, <3>1, NewKeeps DEF HistogramFactoryGet
  <2>4. ASSUME NEW t \in RThreads, NEW d \in Spans, TraceFactoryGet(t, d) PROVE RegistryInv'
    <3>1. d \in Ids
      BY DEF Ids
    <3> QED BY <2>4, <3>1, NewKeeps DEF TraceFactoryGet
  <2>5. ASSUME NEW t \in RThreads, MakeChild(t) PROVE RegistryInv'
    <3> DEFINE c == <<idOf[held[t]][1], idOf[held[t]][2] + 1>>
    <3>0. idOf[held[t]] \in Spans
      BY <2>5, Zenon DEF MakeChild
    <3>1. PICK tr \in TraceIds, sp \in 1 .. MaxSpan : idOf[held[t]] = <<tr, sp>>
      BY <3>0, SpanIs, Zenon
    <3>2. sp + 1 \in 1 .. MaxSpan /\ c = <<tr, sp + 1>>
      BY <2>5, <3>1, SpanAssumption DEF MakeChild
    <3>3. c \in Ids
      BY <3>2 DEF Ids, Spans
    <3>4. pc[t] # "made" /\ New(t, c, idOf[held[t]][2])
      BY <2>5 DEF MakeChild
    <3>5. PICK p : p = idOf[held[t]][2]
      OBVIOUS
    <3>6. New(t, c, p)
      BY <3>4, <3>5
    <3> HIDE DEF c, RegistryInv, RegistryTypeOK, RegisteredLive, HeldMade, MadeOwned, StaleHolds,
             HeldRegistered, NoneLeaked, StaleSpans, Objects
    <3> QED BY <3>3, <3>4, <3>6, NewKeeps
  <2>6. ASSUME NEW t \in RThreads, RegisterHistogram(t) \/ RegisterTrace(t) PROVE RegistryInv'
    BY <2>6, RegisterKeeps DEF RegisterHistogram, RegisterTrace
  <2>7. ASSUME NEW t \in RThreads, NEW d \in Spans, FindTrace(t, d) PROVE RegistryInv'
    <3>1. d \in Ids
      BY DEF Ids
    <3> QED BY <2>1, <2>7, <3>1 DEF FindTrace
  <2>8. ASSUME NEW t \in RThreads, Use(t) PROVE RegistryInv'
    <3>1. \A u \in RThreads : /\ pc'[u] = "made" <=> pc[u] = "made"
                              /\ pc'[u] = "holding" <=> pc[u] = "holding" /\ u # t
                              /\ held'[u] = IF u = t THEN 0 ELSE held[u]
      BY <2>8 DEF Use, None2
    <3>2. /\ pc' \in [RThreads -> {"idle", "missing", "made", "holding"}]
          /\ held' \in [RThreads -> Nat] /\ stale' = stale \ {t} /\ pc[t] = "holding"
          /\ UNCHANGED <<registry, live, idOf, parent, wanted>>
      BY <2>8 DEF Use, None2
    <3>3. \A u \in RThreads : pc'[u] = "made" => held'[u] = held[u]
      BY <3>1, <3>2
    <3>4. NoneLeaked'
      BY <3>1, <3>2
    <3> QED BY <3>1, <3>2, <3>3, <3>4
  <2>9. ASSUME NEW d \in Ids, Erase(d) PROVE RegistryInv'
    BY <2>9, EraseKeeps
  <2>10. CASE UNCHANGED registryVars
    BY <2>10 DEF registryVars
  <2> QED
    BY <2>2, <2>3, <2>4, <2>5, <2>6, <2>7, <2>8, <2>9, <2>10 DEF NextRegistry
<1>3. RegistryInv => OneObjectPerId
  BY DEF RegistryInv, OneObjectPerId, HeldRegistered, NoneLeaked, StaleSpans
<1> QED BY <1>1, <1>2, <1>3, PTL DEF RegistrySpec

-----------------------------------------------------------------------------
(* The Symbolizer: the mapping, the file and the symbol of an address *)

Line == [begin : Nat, end : Nat, offset : Nat, name : STRING]

\* The address is in the mapping.
In(m, a) == m.begin <= a /\ a < m.end

\* The mapping NextLine stops at.
Hit(m, a) == m.offset = 0 /\ In(m, a)

\* The line of a segment of a loaded file.
LineOf(l, s) == [begin |-> l.bias + s.vaddr, end |-> l.bias + s.vaddr + s.size,
                 offset |-> s.offset, name |-> l.name]

\* What is assumed of a file.
LEMMA ElfIs ==
  ASSUME NEW f \in DOMAIN Elves
  PROVE  /\ Elves[f].segments \in Seq(Segment) /\ 1 \in DOMAIN Elves[f].segments
         /\ Elves[f].names \in Seq(STRING) /\ Elves[f].sections \in Seq(Section)
         /\ \A k \in DOMAIN Elves[f].sections :
               Elves[f].sections[k].type \notin {"DYNSYM", "SYMTAB"} => Elves[f].sections[k].syms = <<>>
<1>1. Elves[f].segments \in Seq(Segment) /\ Elves[f].segments # <<>>
  BY ElfAssumption
<1>2. 1 \in DOMAIN Elves[f].segments
  BY <1>1
<1> QED BY <1>1, <1>2, ElfAssumption

\* A line is that of a segment of a loaded file, or one of the others.
LEMMA LinesAre ==
  ASSUME NEW L, NEW m
  PROVE  m \in Lines(L) <=>
            \/ m \in Others
            \/ \E l \in L : \E k \in DOMAIN Elves[l.elf].segments : m = LineOf(l, Elves[l.elf].segments[k])
<1> DEFINE Segs(l) == {Elves[l.elf].segments[k] : k \in DOMAIN Elves[l.elf].segments}
           Of(l) == {LineOf(l, s) : s \in Segs(l)}
<1> DEFINE U == UNION {Of(l) : l \in L}
<1>1. Lines(L) = Others \cup U
  BY DEF Lines, LineOf
<1>2. ASSUME NEW l
      PROVE  m \in Of(l) <=> \E k \in DOMAIN Elves[l.elf].segments : m = LineOf(l, Elves[l.elf].segments[k])
  <2>1. \A s : s \in Segs(l) <=> \E k \in DOMAIN Elves[l.elf].segments : s = Elves[l.elf].segments[k]
    OBVIOUS
  <2> HIDE DEF Segs
  <2> QED BY <2>1
<1> HIDE DEF Of
<1>3. m \in U <=> \E l \in L : m \in Of(l)
  OBVIOUS
<1>4. (\E l \in L : m \in Of(l)) <=>
         \E l \in L : \E k \in DOMAIN Elves[l.elf].segments : m = LineOf(l, Elves[l.elf].segments[k])
  BY <1>2
<1> HIDE DEF U
<1>5. m \in Lines(L) <=> m \in U \/ m \in Others
  BY <1>1
<1> QED BY <1>3, <1>4, <1>5

\* The numbers of a file that is loaded.
LEMMA LoadIs ==
  ASSUME NEW L \in Loads, NEW l \in L
  PROVE  /\ l.elf \in DOMAIN Elves /\ l.bias \in Nat /\ l = [name |-> l.name, elf |-> l.elf, bias |-> l.bias]
         /\ l.name # "" /\ \A o \in Others : l.name # o.name
         /\ \A k \in DOMAIN Elves[l.elf].segments : Elves[l.elf].segments[k] \in Segment
<1> DEFINE Taken == {""} \cup {o.name : o \in Others}
<1>1. l \in [name : STRING \ Taken, elf : DOMAIN Elves, bias : Nat]
  BY MapsAssumption
<1>2. /\ l.elf \in DOMAIN Elves /\ l.bias \in Nat /\ l = [name |-> l.name, elf |-> l.elf, bias |-> l.bias]
      /\ l.name \notin Taken
  <2> HIDE DEF Taken
  <2> QED BY <1>1
<1>4. "" \in Taken /\ \A o \in Others : o.name \in Taken
  OBVIOUS
<1> HIDE DEF Taken
<1>3. Elves[l.elf].segments \in Seq(Segment)
  BY <1>2, ElfIs
<1>5. \A k \in DOMAIN Elves[l.elf].segments : Elves[l.elf].segments[k] \in Segment
  BY <1>3
<1>6. l.name # "" /\ \A o \in Others : l.name # o.name
  BY <1>2, <1>4
<1> QED BY <1>2, <1>5, <1>6, Zenon

\* The lines have numbers.
LEMMA LineIs ==
  ASSUME NEW L \in Loads, NEW m \in Lines(L)
  PROVE  m.begin \in Nat /\ m.end \in Nat
<1>1. CASE m \in Others
  BY <1>1, MapsAssumption
<1>2. ASSUME NEW l \in L, NEW k \in DOMAIN Elves[l.elf].segments, m = LineOf(l, Elves[l.elf].segments[k])
      PROVE  m.begin \in Nat /\ m.end \in Nat
  <2>1. l.bias \in Nat /\ Elves[l.elf].segments[k] \in Segment
    BY LoadIs
  <2>2. Elves[l.elf].segments[k].vaddr \in Nat /\ Elves[l.elf].segments[k].size \in Nat
    BY <2>1 DEF Segment
  <2> QED BY <1>2, <2>1, <2>2 DEF LineOf
<1> QED BY <1>1, <1>2, LinesAre

\* An address is in one mapping at most.
LEMMA OneLine ==
  ASSUME NEW L \in Loads, NEW m \in Lines(L), NEW n \in Lines(L), NEW a \in Nat, In(m, a), In(n, a)
  PROVE  m = n
<1>1. m.begin \in Nat /\ m.end \in Nat /\ n.begin \in Nat /\ n.end \in Nat
  BY LineIs
<1>2. a \in m.begin .. m.end - 1 /\ a \in n.begin .. n.end - 1
  BY <1>1 DEF In
<1> QED BY <1>2, MapsAssumption

\* A line with the name of no loaded file is one of the others.
LEMMA OtherLine ==
  ASSUME NEW L, NEW m \in Lines(L), \A l \in L : l.name # m.name
  PROVE  m \in Others
<1>1. ASSUME NEW l \in L, NEW s, m = LineOf(l, s) PROVE FALSE
  BY <1>1 DEF LineOf
<1> QED BY <1>1, LinesAre

\* The segments of a loaded file, and the lines of them.
LEMMA SegmentLine ==
  ASSUME NEW L \in Loads, NEW l \in L, NEW k \in DOMAIN Elves[l.elf].segments
  PROVE  /\ LineOf(l, Elves[l.elf].segments[k]) \in Lines(L)
         /\ Elves[l.elf].segments[k].vaddr \in Nat /\ Elves[l.elf].segments[k].size \in Nat
<1>1. Elves[l.elf].segments[k] \in Segment
  BY LoadIs
<1>2. LineOf(l, Elves[l.elf].segments[k]) \in Lines(L)
  BY LinesAre
<1> QED BY <1>1, <1>2 DEF Segment

LEMMA FirstSegment ==
  ASSUME NEW L \in Loads, NEW l \in L
  PROVE  1 \in DOMAIN Elves[l.elf].segments
BY LoadIs, ElfIs

\* A segment that is mapped from the start of the file has the address exactly
\* when NextLine stops at the line of that segment.
LEMMA StartHit ==
  ASSUME loaded \in Loads, NEW a \in Nat, NEW l \in loaded, NEW k \in DOMAIN Elves[l.elf].segments
  PROVE  InStart(l, k, a) <=> Hit(LineOf(l, Elves[l.elf].segments[k]), a)
<1> DEFINE s == Elves[l.elf].segments[k]
<1>1. s.vaddr \in Nat /\ s.size \in Nat /\ l.bias \in Nat
  BY SegmentLine, LoadIs
<1>2. InStart(l, k, a) <=> s.offset = 0 /\ a \in l.bias + s.vaddr .. l.bias + s.vaddr + s.size - 1
  BY DEF InStart
<1>3. Hit(LineOf(l, s), a) <=> s.offset = 0 /\ l.bias + s.vaddr <= a /\ a < l.bias + s.vaddr + s.size
  BY <1>1 DEF Hit, In, LineOf
<1>4. InStart(l, k, a) <=> Hit(LineOf(l, s), a)
  <2> HIDE DEF s
  <2> QED BY <1>1, <1>2, <1>3
<1> QED BY <1>4

LEMMA TrueFileHit ==
  ASSUME loaded \in Loads, NEW a \in Nat, NEW l \in loaded
  PROVE  l \in TrueFile(a) <=> l.name \notin RefusedNames /\ Hit(LineOf(l, Elves[l.elf].segments[1]), a)
<1>1. InStart(l, 1, a) <=> Hit(LineOf(l, Elves[l.elf].segments[1]), a)
  BY FirstSegment, StartHit
<1> QED BY <1>1 DEF TrueFile

\* The mapping of a file that NextLine stops at is that of its first segment,
\* where no later one is mapped from the start of the file.
LEMMA HitFile ==
  ASSUME loaded \in Loads, NEW a \in Nat, NEW m \in GetMapsLine, Hit(m, a), m \notin Others,
         m.name \notin RefusedNames, ~ WrongBase(a)
  PROVE  \E l \in loaded : /\ m = LineOf(l, Elves[l.elf].segments[1])
                           /\ TrueFile(a) = {l}
<1>0. m \in Lines(loaded)
  BY DEF GetMapsLine
<1>2. PICK l \in loaded : \E k \in DOMAIN Elves[l.elf].segments : m = LineOf(l, Elves[l.elf].segments[k])
  BY <1>0, LinesAre
<1>3. PICK k \in DOMAIN Elves[l.elf].segments : m = LineOf(l, Elves[l.elf].segments[k])
  BY <1>2
<1>4. k = 1
  <2>1. InStart(l, k, a)
    BY <1>3, StartHit
  <2> QED BY <2>1 DEF WrongBase
<1>5. l \in TrueFile(a)
  <2>1. m.name = l.name
    BY <1>3 DEF LineOf
  <2> QED BY <1>3, <1>4, <2>1, TrueFileHit
<1>6. ASSUME NEW n \in TrueFile(a) PROVE n = l
  <2>1. n \in loaded
    BY DEF TrueFile
  <2>2. Hit(LineOf(n, Elves[n.elf].segments[1]), a) /\ LineOf(n, Elves[n.elf].segments[1]) \in Lines(loaded)
    BY <2>1, TrueFileHit, FirstSegment, SegmentLine
  <2>3. LineOf(n, Elves[n.elf].segments[1]) = m
    BY <1>0, <2>2, OneLine DEF Hit
  <2>4. n.name = l.name /\ n.bias + Elves[n.elf].segments[1].vaddr = l.bias + Elves[l.elf].segments[1].vaddr
    BY <1>3, <1>4, <2>3 DEF LineOf
  <2>5. n.elf = l.elf
    BY <2>1, <2>4, MapsAssumption
  <2>6. /\ n.bias \in Nat /\ l.bias \in Nat /\ Elves[l.elf].segments[1].vaddr \in Nat
        /\ n = [name |-> n.name, elf |-> n.elf, bias |-> n.bias]
        /\ l = [name |-> l.name, elf |-> l.elf, bias |-> l.bias]
    BY <2>1, LoadIs, FirstSegment, SegmentLine
  <2>7. n.bias = l.bias
    BY <2>4, <2>5, <2>6
  <2> QED BY <2>4, <2>5, <2>6, <2>7
<1> QED BY <1>3, <1>4, <1>5, <1>6

\* Where NextLine stops at no line, or at one of no ELF file or of a refused
\* name, no file has the address.
LEMMA NoFile ==
  ASSUME loaded \in Loads, NEW a \in Nat,
         \/ \A m \in GetMapsLine : ~ Hit(m, a)
         \/ \E m \in GetMapsLine : Hit(m, a) /\ (m \in Others \/ m.name \in RefusedNames)
  PROVE  TrueFile(a) = {}
<1> SUFFICES ASSUME NEW l \in TrueFile(a) PROVE FALSE
  OBVIOUS
<1>1. l \in loaded /\ l.name \notin RefusedNames
  BY DEF TrueFile
<1> DEFINE n == LineOf(l, Elves[l.elf].segments[1])
<1>2. Hit(n, a) /\ n \in GetMapsLine /\ n.name = l.name
  BY <1>1, TrueFileHit, FirstSegment, SegmentLine DEF GetMapsLine, LineOf
<1> HIDE DEF n
<1>3. PICK m \in GetMapsLine : Hit(m, a) /\ (m \in Others \/ m.name \in RefusedNames)
  BY <1>2
<1>4. m = n
  BY <1>2, <1>3, OneLine DEF GetMapsLine, Hit
<1>5. n \notin Others
  BY <1>1, <1>2, LoadIs
<1> QED BY <1>1, <1>2, <1>3, <1>4, <1>5

-----------------------------------------------------------------------------
(* The symbols of a file *)

\* The places of the symbols that have the address, by table and number.
Defs(f, a) == {x \in Nat \X Nat :
                 /\ x[1] \in DOMAIN Elves[f].sections
                 /\ Elves[f].sections[x[1]].type \in {"DYNSYM", "SYMTAB"}
                 /\ x[2] \in DOMAIN Elves[f].sections[x[1]].syms
                 /\ LET s == Elves[f].sections[x[1]].syms[x[2]]
                    IN  s.type \in {"FUNC", "OBJECT"} /\ s.defined /\ Covers(s, a)}

Earlier(x, y) == x[1] < y[1] \/ (x[1] = y[1] /\ x[2] <= y[2])

\* One of them is the first.
LEMMA FirstDef ==
  ASSUME NEW D \in SUBSET (Nat \X Nat), D # {}
  PROVE  \E x \in D : \A y \in D : Earlier(x, y)
<1> DEFINE K == {x[1] : x \in D}
<1>0. \A x \in D : x[1] \in Nat /\ x[2] \in Nat /\ x = <<x[1], x[2]>>
  OBVIOUS
<1>1. K \in SUBSET Nat /\ K # {} /\ \A x \in D : x[1] \in K
  BY <1>0
<1>2. PICK k \in K : \A n \in K : k <= n
  <2> HIDE DEF K
  <2> QED BY <1>1, LeastExists
<1> DEFINE I == {x[2] : x \in {y \in D : y[1] = k}}
<1>3. I \in SUBSET Nat /\ I # {} /\ \A x \in D : x[1] = k => x[2] \in I
  BY <1>0, <1>2
<1>4. PICK j \in I : \A n \in I : j <= n
  <2> HIDE DEF I
  <2> QED BY <1>3, LeastExists
<1>5. PICK x \in D : x[1] = k /\ x[2] = j
  BY <1>4
<1>6. ASSUME NEW y \in D PROVE Earlier(x, y)
  <2>1. k <= y[1] /\ k \in Nat /\ y[1] \in Nat /\ y[2] \in Nat /\ j \in Nat
    BY <1>0, <1>1, <1>2, <1>5
  <2>2. y[1] = k => j <= y[2]
    <3> HIDE DEF I, K
    <3> QED BY <1>3, <1>4
  <2> HIDE DEF I, K
  <2> QED BY <1>5, <2>1, <2>2 DEF Earlier
<1> QED BY <1>6

\* GetDefinitionByAddress finds the first, if there is one.
LEMMA DefinitionIs ==
  ASSUME NEW f \in DOMAIN Elves, NEW a
  PROVE  IF Defs(f, a) = {} THEN GetDefinitionByAddress(f, a) = <<0, 0>>
         ELSE GetDefinitionByAddress(f, a) \in Defs(f, a)
<1> DEFINE tables == {k \in DOMAIN Elves[f].sections : Elves[f].sections[k].type \in {"DYNSYM", "SYMTAB"}}
           good(k) == {j \in DOMAIN Elves[f].sections[k].syms :
                          LET s == Elves[f].sections[k].syms[j]
                          IN  s.type \in {"FUNC", "OBJECT"} /\ s.defined /\ Covers(s, a)}
           pairs(k) == {<<k, i>> : i \in good(k)}
           D == UNION {pairs(k) : k \in tables}
<1>0. \A k \in DOMAIN Elves[f].sections : /\ k \in Nat /\ Elves[f].sections[k].syms \in Seq(Symbol)
                                          /\ DOMAIN Elves[f].sections[k].syms \subseteq Nat
  <2>1. Elves[f].sections \in Seq(Section)
    BY ElfIs
  <2>2. \A k \in DOMAIN Elves[f].sections : k \in Nat /\ Elves[f].sections[k] \in Section
    BY <2>1
  <2> QED BY <2>2 DEF Section
<1>1. ASSUME NEW x PROVE x \in D <=> x \in Defs(f, a)
  <2>1. x \in D <=> \E k \in tables : x \in pairs(k)
    <3> HIDE DEF pairs, tables
    <3> QED OBVIOUS
  <2>2. \A k \in tables : x \in pairs(k) <=> \E i \in good(k) : x = <<k, i>>
    OBVIOUS
  <2>3. ASSUME NEW k \in tables, NEW i \in good(k), x = <<k, i>> PROVE x \in Defs(f, a)
    <3>1. k \in Nat /\ i \in Nat /\ x[1] = k /\ x[2] = i /\ x \in Nat \X Nat
      BY <1>0, <2>3
    <3> QED BY <2>3, <3>1 DEF Defs
  <2>4. ASSUME x \in Defs(f, a) PROVE x[1] \in tables /\ x[2] \in good(x[1]) /\ x = <<x[1], x[2]>>
    BY <2>4 DEF Defs
  <2> HIDE DEF tables, good, pairs, D
  <2> QED BY <2>1, <2>2, <2>3, <2>4
<1>2. D = Defs(f, a)
  <2> HIDE DEF D
  <2> QED BY <1>1
<1>3. GetDefinitionByAddress(f, a) = IF D = {} THEN <<0, 0>> ELSE CHOOSE x \in D : \A y \in D : Earlier(x, y)
  BY DEF GetDefinitionByAddress, Earlier
<1>4. D # {} => \E x \in D : \A y \in D : Earlier(x, y)
  <2>1. D \in SUBSET (Nat \X Nat)
    <3> HIDE DEF D
    <3> QED BY <1>2 DEF Defs
  <2> HIDE DEF D
  <2> QED BY <2>1, FirstDef
<1> HIDE DEF D
<1>5. D # {} => (CHOOSE x \in D : \A y \in D : Earlier(x, y)) \in D
  BY <1>4, Zenon
<1>6. CASE D = {}
  BY <1>2, <1>3, <1>6
<1>7. CASE D # {}
  BY <1>2, <1>3, <1>5, <1>7
<1> QED BY <1>6, <1>7

\* The symbols that have the address, undone the relocation, are the true ones.
LEMMA DefsAreTrue ==
  ASSUME loaded \in Loads, NEW l \in loaded, NEW a \in Nat
  PROVE  /\ \A x \in Defs(l.elf, a - l.bias) : Elves[l.elf].sections[x[1]].syms[x[2]] \in TrueSymbols(l, a)
         /\ TrueSymbols(l, a) # {} => Defs(l.elf, a - l.bias) # {}
<1> DEFINE f == l.elf
           sec(k) == Elves[f].sections[k]
<1>0. f \in DOMAIN Elves /\ l.bias \in Nat
  BY LoadIs
<1>1. \A k \in DOMAIN Elves[f].sections : /\ k \in Nat /\ sec(k).syms \in Seq(Symbol)
                                          /\ sec(k).type \notin {"DYNSYM", "SYMTAB"} => sec(k).syms = <<>>
  <2>1. Elves[f].sections \in Seq(Section)
    BY <1>0, ElfIs
  <2>2. \A k \in DOMAIN Elves[f].sections : k \in Nat /\ sec(k) \in Section
    BY <2>1
  <2> QED BY <1>0, <2>2, ElfIs DEF Section
<1>2. ASSUME NEW k \in DOMAIN Elves[f].sections, NEW j \in DOMAIN sec(k).syms
      PROVE  /\ j \in Nat /\ sec(k).type \in {"DYNSYM", "SYMTAB"}
             /\ Covers(sec(k).syms[j], a - l.bias) <=>
                  a \in l.bias + sec(k).syms[j].value .. l.bias + sec(k).syms[j].value + sec(k).syms[j].size - 1
  <2>1. j \in Nat /\ sec(k).syms[j] \in Symbol /\ sec(k).syms # <<>>
    BY <1>1
  <2>2. PICK v \in Nat, z \in Nat : v = sec(k).syms[j].value /\ z = sec(k).syms[j].size
    BY <2>1 DEF Symbol
  <2>3. (a - l.bias >= v /\ a - l.bias < v + z) <=> a \in l.bias + v .. l.bias + v + z - 1
    BY <1>0
  <2> QED BY <1>1, <2>1, <2>2, <2>3 DEF Covers
<1>3. ASSUME NEW s
      PROVE  s \in TrueSymbols(l, a) <=>
               /\ \E k \in DOMAIN Elves[f].sections : \E j \in DOMAIN sec(k).syms : s = sec(k).syms[j]
               /\ s.defined /\ s.type \in {"FUNC", "OBJECT"}
               /\ a \in l.bias + s.value .. l.bias + s.value + s.size - 1
  <2> DEFINE syms(k) == {sec(k).syms[j] : j \in DOMAIN sec(k).syms}
  <2>1. s \in UNION {syms(k) : k \in DOMAIN Elves[f].sections} <=>
          \E k \in DOMAIN Elves[f].sections : \E j \in DOMAIN sec(k).syms : s = sec(k).syms[j]
    <3>1. s \in UNION {syms(k) : k \in DOMAIN Elves[f].sections} <=> \E k \in DOMAIN Elves[f].sections : s \in syms(k)
      <4> HIDE DEF syms
      <4> QED OBVIOUS
    <3>2. \A k : s \in syms(k) <=> \E j \in DOMAIN sec(k).syms : s = sec(k).syms[j]
      OBVIOUS
    <3> HIDE DEF syms
    <3> QED BY <3>1, <3>2
  <2> QED BY <2>1, Zenon DEF TrueSymbols
<1>4. ASSUME NEW x \in Defs(f, a - l.bias) PROVE sec(x[1]).syms[x[2]] \in TrueSymbols(l, a)
  <2>1. /\ x[1] \in DOMAIN Elves[f].sections /\ x[2] \in DOMAIN sec(x[1]).syms
        /\ sec(x[1]).syms[x[2]].type \in {"FUNC", "OBJECT"} /\ sec(x[1]).syms[x[2]].defined
        /\ Covers(sec(x[1]).syms[x[2]], a - l.bias)
    BY DEF Defs
  <2>2. a \in l.bias + sec(x[1]).syms[x[2]].value .. l.bias + sec(x[1]).syms[x[2]].value + sec(x[1]).syms[x[2]].size - 1
    BY <1>2, <2>1
  <2>3. PICK s : s = sec(x[1]).syms[x[2]]
    OBVIOUS
  <2>4. /\ \E k \in DOMAIN Elves[f].sections : \E j \in DOMAIN sec(k).syms : s = sec(k).syms[j]
        /\ s.defined /\ s.type \in {"FUNC", "OBJECT"}
        /\ a \in l.bias + s.value .. l.bias + s.value + s.size - 1
    <3> HIDE DEF sec, f
    <3> QED BY <2>1, <2>2, <2>3
  <2>5. s \in TrueSymbols(l, a)
    <3> HIDE DEF sec, f
    <3> QED BY <1>3, <2>4, Zenon
  <2> QED BY <2>3, <2>5, Zenon
<1>5. ASSUME NEW s \in TrueSymbols(l, a) PROVE Defs(f, a - l.bias) # {}
  <2>0. PICK k \in DOMAIN Elves[f].sections : \E j \in DOMAIN sec(k).syms : s = sec(k).syms[j]
    BY <1>3, Zenon
  <2>1. PICK j \in DOMAIN sec(k).syms : s = sec(k).syms[j]
    BY <2>0, Zenon
  <2>2. /\ s.defined /\ s.type \in {"FUNC", "OBJECT"}
        /\ a \in l.bias + s.value .. l.bias + s.value + s.size - 1
    BY <1>3, Zenon
  <2>3. k \in Nat /\ j \in Nat /\ sec(k).type \in {"DYNSYM", "SYMTAB"} /\ Covers(s, a - l.bias)
    BY <1>1, <1>2, <2>1, <2>2
  <2>4. <<k, j>> \in Defs(f, a - l.bias)
    BY <2>1, <2>2, <2>3 DEF Defs
  <2> QED BY <2>4
<1> QED BY <1>4, <1>5

-----------------------------------------------------------------------------
(* The answer of Symbolize *)

\* The symbols an answer may name.
Real == UNION {TrueSymbols(l, address) : l \in TrueFile(address)}

\* The debug sections a file has by name.
Sectioned(f) == \A name \in DebugSections :
                   \E k \in DOMAIN Elves[f].sections :
                      LET n == Elves[f].sections[k].name IN n # 0 /\ Elves[f].names[n] = name

\* A section that GetSectionByName finds has the name.
LEMMA SectionIs ==
  ASSUME NEW f \in DOMAIN Elves, NEW name, GetSectionByName(f, name) # 0
  PROVE  \E k \in DOMAIN Elves[f].sections :
            LET n == Elves[f].sections[k].name IN n # 0 /\ Elves[f].names[n] = name
<1> DEFINE places == {k \in DOMAIN Elves[f].names : Elves[f].names[k] = name}
           place == CHOOSE k \in places : \A j \in places : k <= j
           at == {k \in DOMAIN Elves[f].sections : Elves[f].sections[k].name = place}
<1>1. places # {} /\ at # {}
  BY Zenon DEF GetSectionByName
<1>2. places \in SUBSET Nat /\ 0 \notin places
  <2>1. Elves[f].names \in Seq(STRING)
    BY ElfIs
  <2> QED BY <2>1
<1>3. \E m \in places : \A n \in places : m <= n
  <2> HIDE DEF places
  <2> QED BY <1>1, <1>2, LeastExists
<1>4. place \in places
  <2> HIDE DEF places
  <2> QED BY <1>3, Zenon
<1>5. PICK k \in DOMAIN Elves[f].sections : Elves[f].sections[k].name = place
  <2> HIDE DEF place
  <2> QED BY <1>1
<1>6. place # 0 /\ Elves[f].names[place] = name
  <2>1. place # 0
    BY <1>2, <1>4
  <2>2. \A j \in places : Elves[f].names[j] = name
    OBVIOUS
  <2> HIDE DEF place, places
  <2> QED BY <1>4, <2>1, <2>2
<1> HIDE DEF place, places, at
<1> QED BY <1>5, <1>6

\* A file with the debug sections has them by name.
LEMMA DebugIs ==
  ASSUME NEW f \in DOMAIN Elves, HasDebug(f)
  PROVE  Sectioned(f)
<1> SUFFICES ASSUME NEW name \in DebugSections
             PROVE  \E k \in DOMAIN Elves[f].sections :
                       LET n == Elves[f].sections[k].name IN n # 0 /\ Elves[f].names[n] = name
  BY DEF Sectioned
<1>1. GetSectionByName(f, name) # 0
  BY DEF HasDebug
<1> QED BY <1>1, SectionIs

\* The symbol sy is one of them, if there is one.
NamesSymbol(sy) == /\ sy.found <=> Real # {}
                   /\ sy.found => \E s \in Real : sy.name \in {0, s.name}

\* What Symbolize answers about the address: sy, found in the contents f.
Answer(sy, f) == /\ (~ WrongBase(address) /\ ~ WrongFile(address)) => NamesSymbol(sy)
                 /\ sy.debug => Sectioned(f)

\* The property of the runs is about the answer.
LEMMA RightIs ==
  SymbolRight <=> /\ (spc = "idle" /\ out # "" /\ calls > 0) => Answer(symbol, elf_files[mapping.name])
                  /\ spc = "abort" => mapping \in Others /\ mapping.name \notin RefusedNames
BY DEF SymbolRight, Answer, NamesSymbol, Real, Sectioned

\* Where no file has the address, the answer is unknown.
LEMMA UnknownRight ==
  ASSUME TrueFile(address) = {}, NEW f
  PROVE  Answer(NoSymbol, f)
<1>1. Real = {}
  BY DEF Real
<1> QED BY <1>1 DEF Answer, NamesSymbol, NoSymbol

\* The same state of the files, the same answers.
LEMMA SameAnswer ==
  ASSUME UNCHANGED <<loaded, address, elf_files>>, NEW sy, NEW f
  PROVE  Answer(sy, f) <=> (WrongBase(address)' \/ WrongFile(address)' \/ NamesSymbol(sy)') /\ (sy.debug => Sectioned(f))
<1>1. TrueFile(address)' = TrueFile(address)
  BY DEF TrueFile
<1>2. WrongBase(address)' <=> WrongBase(address)
  BY DEF WrongBase
<1>3. WrongFile(address)' <=> WrongFile(address)
  BY <1>1 DEF WrongFile
<1>4. Real' = Real
  BY <1>1 DEF Real
<1>5. NamesSymbol(sy)' <=> NamesSymbol(sy)
  BY <1>4 DEF NamesSymbol
<1> QED BY <1>2, <1>3, <1>5 DEF Answer

\* The lookup answers with a symbol that has the address.
LEMMA LookupRight ==
  ASSUME loaded \in Loads, address \in Nat, mapping \in GetMapsLine, Hit(mapping, address),
         mapping \notin Others, mapping.name \notin RefusedNames, mapping.name \in DOMAIN elf_files,
         NEW f \in DOMAIN Elves, f = elf_files[mapping.name],
         NEW x, x = GetDefinitionByAddress(f, address - mapping.begin + GetBaseAddress(f))
  PROVE  /\ x[1] = 0 => Answer(NoSymbol, f)
         /\ x[1] # 0 => Answer([found |-> TRUE, name |-> GetSymbolName(f, x), debug |-> HasDebug(f)], f)
<1>0. HasDebug(f) => Sectioned(f)
  BY DebugIs
<1>a. CASE WrongBase(address) \/ WrongFile(address)
  BY <1>0, <1>a DEF Answer, NoSymbol
<1> SUFFICES ASSUME ~ WrongBase(address), ~ WrongFile(address)
             PROVE  /\ x[1] = 0 => NamesSymbol(NoSymbol)
                    /\ x[1] # 0 => NamesSymbol([found |-> TRUE, name |-> GetSymbolName(f, x), debug |-> HasDebug(f)])
  BY <1>0, <1>a DEF Answer, NoSymbol
<1>1. PICK l \in loaded : mapping = LineOf(l, Elves[l.elf].segments[1]) /\ TrueFile(address) = {l}
  BY HitFile
<1>2. mapping.name = l.name /\ mapping.begin = l.bias + Elves[l.elf].segments[1].vaddr
  BY <1>1 DEF LineOf
<1>b. f = l.elf
  BY <1>1, <1>2 DEF WrongFile
<1>3. address - mapping.begin + GetBaseAddress(f) = address - l.bias
  <2>1. l.bias \in Nat /\ Elves[l.elf].segments[1].vaddr \in Nat
    BY LoadIs, FirstSegment, SegmentLine
  <2> QED BY <1>b, <1>2, <2>1 DEF GetBaseAddress
<1>4. Real = TrueSymbols(l, address)
  BY <1>1 DEF Real
<1>5. x = GetDefinitionByAddress(f, address - l.bias)
  BY <1>3
<1> DEFINE D == Defs(f, address - l.bias)
<1>6. IF D = {} THEN x = <<0, 0>> ELSE x \in D
  BY <1>5, DefinitionIs
<1>7. \A y \in D : y[1] # 0
  <2>1. Elves[f].sections \in Seq(Section)
    BY ElfIs
  <2>2. 0 \notin DOMAIN Elves[f].sections
    BY <2>1
  <2> QED BY <2>2 DEF Defs
<1>8. /\ \A y \in D : Elves[f].sections[y[1]].syms[y[2]] \in Real
      /\ Real # {} => D # {}
  BY <1>b, <1>4, DefsAreTrue
<1> HIDE DEF D
<1>9. ASSUME x[1] = 0 PROVE NamesSymbol(NoSymbol)
  <2>1. Real = {}
    BY <1>6, <1>7, <1>8, <1>9
  <2> QED BY <2>1 DEF NamesSymbol, NoSymbol
<1>10. ASSUME x[1] # 0
       PROVE  NamesSymbol([found |-> TRUE, name |-> GetSymbolName(f, x), debug |-> HasDebug(f)])
  <2>1. x \in D
    BY <1>6, <1>10
  <2>2. PICK s \in Real : s = Elves[f].sections[x[1]].syms[x[2]]
    BY <1>8, <2>1
  <2>3. GetSymbolName(f, x) \in {0, s.name}
    BY <2>2 DEF GetSymbolName
  <2> QED BY <2>2, <2>3 DEF NamesSymbol
<1> QED BY <1>9, <1>10

-----------------------------------------------------------------------------
\* While Symbolize reads the maps, the lines it has passed do not have the
\* address; once it has stopped at one, that line has it, and it is still
\* mapped; the names it has opened are of ELF files; and the answers are right.
SymbolInv ==
    /\ loaded \in Loads /\ address \in Nat
    /\ spc \in {"idle", "maps", "file", "symbol", "abort"}
    /\ spc = "maps" => maps \subseteq GetMapsLine /\ \A m \in GetMapsLine \ maps : ~ Hit(m, address)
    /\ spc \in {"file", "symbol"} => mapping \in GetMapsLine /\ Hit(mapping, address)
    /\ \A n \in DOMAIN elf_files : elf_files[n] \in DOMAIN Elves /\ \A o \in Others : n # o.name
    /\ spc = "symbol" => mapping.name \in DOMAIN elf_files /\ mapping.name \notin RefusedNames
    /\ SymbolRight

\* The lines of the maps depend on the files loaded only.
LEMMA SameMaps ==
  ASSUME UNCHANGED loaded
  PROVE  GetMapsLine' = GetMapsLine
BY DEF GetMapsLine

\* An answer, or an abort, that is right of the state before is so after.
LEMMA SameRight ==
  ASSUME UNCHANGED <<loaded, address, elf_files, mapping>>, spc' \in {"idle", "maps", "file", "symbol", "abort"},
         spc' = "idle" /\ out' # "" /\ calls' > 0 => Answer(symbol', elf_files[mapping.name]),
         spc' = "abort" => mapping \in Others /\ mapping.name \notin RefusedNames
  PROVE  SymbolRight'
<1>1. PICK sy, f : sy = symbol' /\ f = elf_files[mapping.name]
  OBVIOUS
<1>2. Answer(sy, f) => (WrongBase(address)' \/ WrongFile(address)' \/ NamesSymbol(sy)') /\ (sy.debug => Sectioned(f))
  BY SameAnswer
<1>3. Answer(sy, f) => Answer(symbol, elf_files[mapping.name])'
  BY <1>1, <1>2 DEF Answer, NamesSymbol
<1> QED BY <1>1, <1>3 DEF SymbolRight, Answer, NamesSymbol, Real, Sectioned

LEMMA InitSymbol ==
  ASSUME InitSymbolizer
  PROVE  SymbolInv
BY RightIs DEF InitSymbolizer, SymbolInv

LEMMA StepSymbol ==
  ASSUME SymbolInv, [NextSymbolizer]_symbolizerVars
  PROVE  SymbolInv'
<1> USE DEF SymbolInv
<1>1. ASSUME NEW a \in 0 .. MaxAddr, Symbolize(a) PROVE SymbolInv'
  <2>1. a \in Nat
    OBVIOUS
  <2>2. GetMapsLine' = GetMapsLine
    BY <1>1, SameMaps DEF Symbolize
  <2>3. /\ spc' = "maps" /\ maps' = GetMapsLine' /\ address' = a /\ loaded' = loaded
        /\ elf_files' = elf_files
    BY <1>1, <2>2 DEF Symbolize
  <2>4. SymbolRight'
    BY <2>3 DEF SymbolRight
  <2> QED BY <2>1, <2>3, <2>4
<1>2. ASSUME NextLine PROVE SymbolInv'
  <2>1. UNCHANGED <<loaded, address, elf_files>> /\ spc = "maps"
    BY <1>2 DEF NextLine
  <2>2. GetMapsLine' = GetMapsLine
    BY <2>1, SameMaps
  <2>3. CASE maps = {}
    <3>1. spc' = "idle" /\ symbol' = NoSymbol /\ mapping' = mapping
      BY <1>2, <2>3 DEF NextLine, Finish
    <3>2. Answer(NoSymbol, elf_files[mapping.name])
      BY <2>1, <2>3, NoFile, UnknownRight
    <3>3. SymbolRight'
      BY <2>1, <3>1, <3>2, SameRight
    <3> QED BY <2>1, <3>1, <3>3
  <2>4. CASE maps # {}
    <3> DEFINE mm == CHOOSE x \in maps : \A y \in maps : x.begin <= y.begin
    <3>1. mm \in maps
      <4> DEFINE Begins == {x.begin : x \in maps}
      <4>1. \A x \in maps : x.begin \in Nat
        BY <2>1, LineIs DEF GetMapsLine
      <4>2. Begins \in SUBSET Nat /\ Begins # {} /\ \A x \in maps : x.begin \in Begins
        BY <2>4, <4>1
      <4>3. PICK b \in Begins : \A n \in Begins : b <= n
        <5> HIDE DEF Begins
        <5> QED BY <4>2, LeastExists
      <4>4. \E x \in maps : b = x.begin
        BY <4>3
      <4> HIDE DEF Begins
      <4>5. \E x \in maps : \A y \in maps : x.begin <= y.begin
        BY <4>2, <4>3, <4>4
      <4> QED BY <4>5, Zenon
    <3>2. /\ maps' = maps \ {mm}
          /\ IF mm.offset = 0 /\ mm.begin <= address /\ address < mm.end
             THEN spc' = "file" /\ mapping' = mm
             ELSE UNCHANGED <<spc, mapping>>
      BY <1>2, <2>4 DEF NextLine
    <3> HIDE DEF mm
    <3>3. Hit(mm, address) <=> mm.offset = 0 /\ mm.begin <= address /\ address < mm.end
      BY DEF Hit, In
    <3>4. mm \in GetMapsLine
      BY <2>1, <3>1
    <3>5. CASE Hit(mm, address)
      <4>1. spc' = "file" /\ mapping' = mm
        BY <3>2, <3>3, <3>5
      <4>2. SymbolRight'
        BY <4>1 DEF SymbolRight
      <4> QED BY <2>1, <2>2, <3>4, <3>5, <4>1, <4>2
    <3>6. CASE ~ Hit(mm, address)
      <4>1. spc' = "maps"
        BY <2>1, <3>2, <3>3, <3>6
      <4>2. SymbolRight'
        BY <4>1 DEF SymbolRight
      <4>3. \A m \in GetMapsLine \ maps' : ~ Hit(m, address)
        BY <2>1, <3>2, <3>6
      <4>4. maps' \subseteq GetMapsLine
        BY <2>1, <3>2
      <4> QED BY <2>1, <2>2, <4>1, <4>2, <4>3, <4>4
    <3> QED BY <3>5, <3>6
  <2> QED BY <2>3, <2>4
<1>3. ASSUME Lookup PROVE SymbolInv'
  <2>0. PICK f : f = elf_files[mapping.name]
    OBVIOUS
  <2> DEFINE x == GetDefinitionByAddress(f, address - mapping.begin + GetBaseAddress(f))
  <2>1. /\ spc = "symbol" /\ UNCHANGED <<loaded, address, mapping, elf_files>> /\ spc' = "idle"
        /\ x[1] = 0 => symbol' = NoSymbol
        /\ x[1] # 0 => symbol' = [found |-> TRUE, name |-> GetSymbolName(f, x), debug |-> HasDebug(f)]
    BY <1>3, <2>0 DEF Lookup, Finish
  <2>2. PICK y : y = x
    OBVIOUS
  <2>3. f \in DOMAIN Elves /\ mapping \notin Others /\ mapping.name \in DOMAIN elf_files
    BY <2>0, <2>1
  <2>4. /\ y[1] = 0 => Answer(NoSymbol, f)
        /\ y[1] # 0 => Answer([found |-> TRUE, name |-> GetSymbolName(f, y), debug |-> HasDebug(f)], f)
    BY <2>0, <2>1, <2>2, <2>3, LookupRight
  <2>5. PICK sy : sy = symbol' /\ Answer(sy, f)
    <3> HIDE DEF x
    <3> QED BY <2>1, <2>2, <2>4
  <2>6. SymbolRight'
    BY <2>0, <2>1, <2>5, SameRight
  <2> QED BY <2>1, <2>6
<1>4. ASSUME NEW closing \in BOOLEAN, GetFile(closing) PROVE SymbolInv'
  <2> DEFINE n == mapping.name
             no == n \in RefusedNames \/ (n = "" /\ closing)
             elves == {l.elf : l \in {m \in loaded : m.name = n}}
  <2>1. UNCHANGED <<loaded, address, mapping>> /\ spc = "file"
    BY <1>4 DEF GetFile
  <2>2. GetMapsLine' = GetMapsLine
    BY <2>1, SameMaps
  <2>3. ASSUME no, spc' = "idle", symbol' = NoSymbol, UNCHANGED elf_files PROVE SymbolInv'
    <3>1. n \in RefusedNames \/ mapping \in Others
      <4>1. CASE n = ""
        BY <2>1, <4>1, LoadIs, OtherLine DEF GetMapsLine
      <4> QED BY <2>3, <4>1
    <3>2. Answer(NoSymbol, elf_files[mapping.name])
      BY <2>1, <3>1, NoFile, UnknownRight
    <3>3. SymbolRight'
      BY <2>1, <2>3, <3>2, SameRight
    <3> QED BY <2>1, <2>3, <3>3
  <2>4. ASSUME ~ no, n \in DOMAIN elf_files, spc' = "symbol", UNCHANGED elf_files PROVE SymbolInv'
    <3>1. SymbolRight'
      BY <2>4 DEF SymbolRight
    <3> QED BY <2>1, <2>2, <2>4, <3>1
  <2>5. ASSUME ~ no, NEW e \in elves, spc' = "symbol",
               elf_files' = [m \in DOMAIN elf_files \cup {n} |-> IF m = n THEN e ELSE elf_files[m]]
        PROVE  SymbolInv'
    <3>1. PICK l \in loaded : l.name = n /\ l.elf = e
      OBVIOUS
    <3>2. e \in DOMAIN Elves /\ \A o \in Others : n # o.name
      BY <3>1, LoadIs
    <3>3. \A m \in DOMAIN elf_files' : elf_files'[m] \in DOMAIN Elves /\ \A o \in Others : m # o.name
      BY <2>5, <3>2
    <3>4. SymbolRight'
      BY <2>5 DEF SymbolRight
    <3>5. n \in DOMAIN elf_files'
      BY <2>5
    <3> QED BY <2>1, <2>2, <2>5, <3>3, <3>4, <3>5
  <2>6. ASSUME ~ no, elves = {}, spc' = "abort", UNCHANGED elf_files PROVE SymbolInv'
    <3>1. \A l \in loaded : l.name # n
      BY <2>6
    <3>2. mapping \in Others
      BY <2>1, <3>1, OtherLine DEF GetMapsLine
    <3>3. SymbolRight'
      BY <2>1, <2>6, <3>2 DEF SymbolRight
    <3> QED BY <2>1, <2>6, <3>3
  <2>7. \/ no /\ spc' = "idle" /\ symbol' = NoSymbol /\ UNCHANGED elf_files
        \/ ~ no /\ n \in DOMAIN elf_files /\ spc' = "symbol" /\ UNCHANGED elf_files
        \/ ~ no /\ \E e \in elves : /\ spc' = "symbol"
                                     /\ elf_files' = [m \in DOMAIN elf_files \cup {n} |->
                                                         IF m = n THEN e ELSE elf_files[m]]
        \/ ~ no /\ elves = {} /\ spc' = "abort" /\ UNCHANGED elf_files
    BY <1>4 DEF GetFile, Finish, UseFiles
  <2> HIDE DEF n, no, elves
  <2> QED BY <2>3, <2>4, <2>5, <2>6, <2>7
<1>5. ASSUME NEW l \in Loads, Remap(l) PROVE SymbolInv'
  <2>1. spc' = "idle" /\ out' = "" /\ loaded' \in Loads /\ UNCHANGED <<address, elf_files>>
    BY <1>5 DEF Remap
  <2>2. SymbolRight'
    BY <2>1 DEF SymbolRight
  <2> QED BY <2>1, <2>2
<1>6. CASE UNCHANGED symbolizerVars
  <2>1. UNCHANGED <<spc, loaded, address, maps, mapping, elf_files, symbol, out, calls>>
    BY <1>6 DEF symbolizerVars
  <2>2. GetMapsLine' = GetMapsLine
    BY <2>1, SameMaps
  <2>3. SymbolRight'
    BY <2>1, RightIs, SameRight
  <2> QED BY <2>1, <2>2, <2>3
<1> QED BY <1>1, <1>2, <1>3, <1>4, <1>5, <1>6 DEF NextSymbolizer

\* Symbolize (Symbolizer.cc:74-157): whatever files are loaded, moved, replaced
\* and unloaded between the calls, it names a symbol exactly when the first
\* segment of a loaded file has the address and a symbol of it covers it, and it
\* names such a symbol, unless a later segment mapped from the start of the file
\* has the address or the file of that name was another one when it was opened;
\* and it aborts only on a mapping of no ELF file whose name GetFile lets pass.
THEOREM SymbolsAreRight == SymbolizerSpec => []SymbolRight
<1>1. SymbolInv => SymbolRight
  BY DEF SymbolInv
<1> QED BY <1>1, InitSymbol, StepSymbol, PTL DEF SymbolizerSpec

-----------------------------------------------------------------------------
(* Operands *)

Byte == 0 .. 2 * Radix - 1

\* The payload of the byte number k.
Load(s, k) == s[k] % Radix

LEMMA RadixIs == Radix \in Nat \ {0} /\ Radix \div 2 \in Nat
BY DwarfAssumption

\* The bytes of an operand: all but the ends have the high bit.
LEMMA OperandIs ==
  ASSUME NEW s \in Operands
  PROVE  /\ s \in Seq(Byte) /\ Len(s) \in Nat \ {0}
         /\ \A k \in 1 .. Len(s) : s[k] \in Byte /\ Load(s, k) \in Nat /\ (s[k] < Radix <=> k = Len(s))
         /\ s[Len(s)] \in Nat /\ Load(s, Len(s)) = s[Len(s)]
<1>1. PICK n \in 1 .. MaxBytes : s \in [1 .. n -> Byte]
  BY DEF Operands, Byte
<1>2. n \in Nat \ {0} /\ s \in Seq(Byte) /\ Len(s) = n /\ DOMAIN s = 1 .. n
  BY <1>1
<1>3. \A k \in DOMAIN s : s[k] < Radix <=> k = Len(s)
  BY DEF Operands
<1>4. \A k \in 1 .. n : s[k] \in Byte /\ (s[k] < Radix <=> k = n)
  BY <1>1, <1>2, <1>3
<1>5. \A k \in 1 .. n : Load(s, k) \in Nat
  <2> TAKE k \in 1 .. n
  <2>1. PICK x \in Int : x = s[k]
    BY <1>4, RadixIs DEF Byte
  <2>2. x % Radix \in 0 .. Radix - 1
    BY RadixIs, ModDef
  <2> QED BY <2>1, <2>2, RadixIs DEF Load
<1>6. s[n] \in Nat /\ s[n] < Radix
  BY <1>2, <1>4, RadixIs DEF Byte
<1>7. Load(s, n) = s[n]
  BY <1>6, RadixIs DEF Load
<1> QED BY <1>2, <1>4, <1>5, <1>6, <1>7

\* ReadULEB reads all of the operand.
LEMMA LebLengthIs ==
  ASSUME NEW s \in Operands
  PROVE  LebLength(s) = Len(s)
<1> DEFINE n == Len(s)
           Last(k) == s[k] < Radix /\ \A j \in 1 .. k - 1 : s[j] >= Radix
<1>1. /\ n \in Nat \ {0} /\ DOMAIN s = 1 .. n
      /\ \A k \in 1 .. n : s[k] \in Int /\ (s[k] < Radix <=> k = n)
  BY OperandIs, RadixIs DEF Byte
<1>2. n \in DOMAIN s /\ Last(n)
  <2> HIDE DEF n
  <2>1. n \in 1 .. n /\ \A j \in 1 .. n - 1 : j \in 1 .. n /\ j # n
    BY <1>1
  <2> QED BY <1>1, <2>1, RadixIs
<1>3. \A k \in DOMAIN s : Last(k) => k = n
  BY <1>1
<1>4. LebLength(s) = CHOOSE k \in DOMAIN s : Last(k)
  BY DEF LebLength
<1>5. LebLength(s) = n
  <2> HIDE DEF n, Last
  <2> QED BY <1>2, <1>3, <1>4, Zenon
<1> QED BY <1>5

\* The value and the weight after k bytes.
Reads(s, r) ==
    /\ r \in [0 .. Len(s) -> [value : Nat, weight : Nat]]
    /\ r[0] = [value |-> 0, weight |-> 1]
    /\ \A k \in 1 .. Len(s) :
          r[k] = [value |-> r[k - 1].value + Load(s, k) * r[k - 1].weight, weight |-> r[k - 1].weight * Radix]

LEMMA ReadDef ==
  ASSUME NEW s \in Operands
  PROVE  \E r : Reads(s, r) /\ ReadLEB(s) = r[Len(s)]
<1> DEFINE N == Len(s)
           V == [value : Nat, weight : Nat]
           z == [value |-> 0, weight |-> 1]
           next(v, k) == [value |-> v.value + Load(s, k) * v.weight, weight |-> v.weight * Radix]
           step == [x \in (1 .. N) \X V |-> next(x[2], x[1])]
           body(f) == [k \in 0 .. N |-> IF k = 0 THEN z ELSE next(f[k - 1], k)]
           r == CHOOSE f : f = body(f)
<1>0. N \in Nat /\ z \in V
  BY OperandIs
<1>1. \A k \in 1 .. N, v \in V : next(v, k) \in V
  <2> TAKE k \in 1 .. N, v \in V
  <2>1. Load(s, k) \in Nat /\ v.value \in Nat /\ v.weight \in Nat /\ Radix \in Nat
    BY OperandIs, RadixIs
  <2>2. v.value + Load(s, k) * v.weight \in Nat /\ v.weight * Radix \in Nat
    BY <2>1
  <2> QED BY <2>2
<1>2. ReadLEB(s) = r[N]
  BY LebLengthIs DEF ReadLEB, Load
<1> HIDE DEF next, z, V, N
<1>3. step \in [(1 .. N) \X V -> V] /\ \A k \in 1 .. N, v \in V : step[<<k, v>>] = next(v, k)
  BY <1>1
<1> HIDE DEF step
<1>4. PICK f : Recursive(f, N, V, z, step)
  BY <1>0, <1>3, RecursionExists
<1>5. f \in [0 .. N -> V] /\ f[0] = z /\ \A k \in 1 .. N : f[k] = step[<<k, f[k - 1]>>]
  BY <1>4 DEF Recursive
<1>6. \A k \in 1 .. N : f[k - 1] \in V
  BY <1>0, <1>5
<1>7. f = body(f)
  <2>1. ASSUME NEW k \in 0 .. N PROVE f[k] = IF k = 0 THEN z ELSE next(f[k - 1], k)
    <3>1. k # 0 => k \in 1 .. N
      BY <1>0
    <3> QED BY <1>3, <1>5, <1>6, <3>1
  <2> QED BY <1>5, <2>1
<1>8. r = body(r)
  <2> HIDE DEF body
  <2> QED BY <1>7, Zenon
<1> HIDE DEF r
<1>9. r[0] = z /\ (\A k \in 1 .. N : r[k] = next(r[k - 1], k)) /\ r = [k \in 0 .. N |-> r[k]]
  <2>1. 0 \in 0 .. N /\ \A k \in 1 .. N : k \in 0 .. N /\ k # 0
    BY <1>0
  <2> QED BY <1>8, <2>1
<1>10. Recursive(r, N, V, z, step)
  BY <1>0, <1>3, <1>9, RecursionIs
<1>11. Reads(s, r)
  BY <1>9, <1>10 DEF Recursive, Reads, next, z, V, N
<1> QED BY <1>2, <1>11 DEF N

\* The number of the ends k + 1 bytes.
Numbers(s, first, v) ==
    /\ v \in [0 .. Len(s) - 1 -> Int] /\ v[0] = first
    /\ \A k \in 1 .. Len(s) - 1 : v[k] = Radix * v[k - 1] + Load(s, Len(s) - k)

LEMMA NumberDef ==
  ASSUME NEW s \in Operands, NEW first \in Int
  PROVE  \E v : Numbers(s, first, v) /\ Number(s, first) = v[Len(s) - 1]
<1> DEFINE N == Len(s) - 1
           next(x, k) == Radix * x + Load(s, Len(s) - k)
           step == [x \in (1 .. N) \X Int |-> next(x[2], x[1])]
           body(f) == [k \in 0 .. N |-> IF k = 0 THEN first ELSE next(f[k - 1], k)]
           r == CHOOSE f : f = body(f)
<1>0. N \in Nat
  BY OperandIs
<1>1. \A k \in 1 .. N, x \in Int : next(x, k) \in Int
  <2> TAKE k \in 1 .. N, x \in Int
  <2>1. Len(s) - k \in 1 .. Len(s)
    BY OperandIs
  <2>2. Load(s, Len(s) - k) \in Nat /\ Radix * x \in Int
    BY <2>1, OperandIs, RadixIs
  <2> QED BY <2>2
<1>2. Number(s, first) = r[N]
  BY DEF Number, Load
<1> HIDE DEF next, N
<1>3. step \in [(1 .. N) \X Int -> Int] /\ \A k \in 1 .. N, x \in Int : step[<<k, x>>] = next(x, k)
  BY <1>1
<1> HIDE DEF step
<1>4. PICK f : Recursive(f, N, Int, first, step)
  BY <1>0, <1>3, RecursionExists
<1>5. f \in [0 .. N -> Int] /\ f[0] = first /\ \A k \in 1 .. N : f[k] = step[<<k, f[k - 1]>>]
  BY <1>4 DEF Recursive
<1>6. \A k \in 1 .. N : f[k - 1] \in Int
  BY <1>0, <1>5
<1>7. f = body(f)
  <2>1. ASSUME NEW k \in 0 .. N PROVE f[k] = IF k = 0 THEN first ELSE next(f[k - 1], k)
    <3>1. k # 0 => k \in 1 .. N
      BY <1>0
    <3> QED BY <1>3, <1>5, <1>6, <3>1
  <2> QED BY <1>5, <2>1
<1>8. r = body(r)
  <2> HIDE DEF body
  <2> QED BY <1>7, Zenon
<1> HIDE DEF r
<1>9. r[0] = first /\ (\A k \in 1 .. N : r[k] = next(r[k - 1], k)) /\ r = [k \in 0 .. N |-> r[k]]
  <2>1. 0 \in 0 .. N /\ \A k \in 1 .. N : k \in 0 .. N /\ k # 0
    BY <1>0
  <2> QED BY <1>8, <2>1
<1>10. Recursive(r, N, Int, first, step)
  BY <1>0, <1>3, <1>9, RecursionIs
<1>11. Numbers(s, first, r)
  BY <1>9, <1>10 DEF Recursive, Numbers, next, N
<1> QED BY <1>2, <1>11 DEF N

\* The bytes read, from the least significant one, and the number of the bytes
\* left make the number.
LEMMA ReadRest ==
  ASSUME NEW s \in Operands, NEW first \in Int, NEW r, Reads(s, r), NEW v, Numbers(s, first, v)
  PROVE  \A k \in 0 .. Len(s) - 1 : r[k].value + r[k].weight * v[Len(s) - 1 - k] = v[Len(s) - 1]
<1> DEFINE n == Len(s)
           Sound(k) == r[k].value + r[k].weight * v[n - 1 - k] = v[n - 1]
           S == {k \in Nat : k <= n - 1 => Sound(k)}
<1>0. n \in Nat \ {0} /\ Radix \in Nat
  BY OperandIs, RadixIs
<1>1. \A k \in 0 .. n : r[k].value \in Nat /\ r[k].weight \in Nat
  BY DEF Reads
<1>2. \A k \in 0 .. n - 1 : v[k] \in Int
  BY DEF Numbers
<1>3. 0 \in S
  <2>1. r[0].value = 0 /\ r[0].weight = 1
    BY DEF Reads
  <2>2. v[n - 1] \in Int /\ n - 1 - 0 = n - 1
    BY <1>0, <1>2
  <2> HIDE DEF n
  <2> QED BY <2>1, <2>2
<1>4. ASSUME NEW k \in S PROVE k + 1 \in S
  <2>1. ASSUME k + 1 <= n - 1 PROVE Sound(k + 1)
    <3>1. k \in Nat /\ k <= n - 1 /\ k + 1 \in 1 .. n /\ n - 1 - k \in 1 .. n - 1 /\ n - (n - 1 - k) = k + 1
          /\ (n - 1 - k) - 1 = n - 1 - (k + 1) /\ (k + 1) - 1 = k
      <4> HIDE DEF n
      <4> QED BY <1>0, <2>1
    <3>2. PICK d \in Nat : d = Load(s, k + 1)
      BY <3>1, OperandIs
    <3>3. PICK x \in Int : x = v[n - 1 - (k + 1)]
      <4>1. n - 1 - (k + 1) \in 0 .. n - 1
        BY <3>1, <2>1
      <4> QED BY <1>2, <4>1
    <3>4. PICK a \in Nat, w \in Nat : a = r[k].value /\ w = r[k].weight
      <4>1. k \in 0 .. n
        BY <3>1, <1>0
      <4> QED BY <1>1, <4>1
    <3>5. v[n - 1 - k] = Radix * x + d
      <4>1. v[n - 1 - k] = Radix * v[(n - 1 - k) - 1] + Load(s, n - (n - 1 - k))
        BY <3>1 DEF Numbers
      <4> HIDE DEF n
      <4> QED BY <4>1, <3>1, <3>2, <3>3
    <3>6. r[k + 1].value = a + d * w /\ r[k + 1].weight = w * Radix
      <4>1. r[k + 1] = [value |-> r[(k + 1) - 1].value + Load(s, k + 1) * r[(k + 1) - 1].weight,
                        weight |-> r[(k + 1) - 1].weight * Radix]
        BY <3>1 DEF Reads
      <4> HIDE DEF n
      <4> QED BY <4>1, <3>1, <3>2, <3>4
    <3>7. a + w * (Radix * x + d) = v[n - 1]
      <4>1. Sound(k)
        BY <3>1
      <4> HIDE DEF n
      <4> QED BY <4>1, <3>4, <3>5
    <3>8. a + w * (Radix * x + d) = (a + d * w) + (w * Radix) * x
      BY <1>0
    <3> HIDE DEF n
    <3> QED BY <3>3, <3>6, <3>7, <3>8
  <2> HIDE DEF Sound
  <2> QED BY <2>1
<1>5. S = Nat
  <2> HIDE DEF S
  <2>1. S \in SUBSET Nat
    BY DEF S
  <2> QED BY <1>3, <1>4, <2>1, SetInduction
<1>6. ASSUME NEW k \in 0 .. n - 1 PROVE Sound(k)
  <2>1. k \in Nat /\ k <= n - 1
    BY <1>0
  <2>2. k \in S
    <3> HIDE DEF S
    <3> QED BY <1>5, <2>1
  <2> HIDE DEF Sound
  <2> QED BY <2>1, <2>2
<1> QED BY <1>6

\* The number the code has read, of an operand of first digit first.
LEMMA ReadIs ==
  ASSUME NEW s \in Operands, NEW first \in Int
  PROVE  \E r : /\ r.value \in Nat /\ r.weight \in Nat /\ ReadLEB(s) = r
                /\ \E w \in Nat : /\ r.weight = w * Radix
                                  /\ Number(s, first) = r.value + w * (first - s[Len(s)])
<1>1. PICK r : Reads(s, r) /\ ReadLEB(s) = r[Len(s)]
  BY ReadDef
<1>2. PICK v : Numbers(s, first, v) /\ Number(s, first) = v[Len(s) - 1]
  BY NumberDef
<1>3. Len(s) \in Nat \ {0} /\ Load(s, Len(s)) = s[Len(s)] /\ s[Len(s)] \in Nat /\ Radix \in Nat
  BY OperandIs, RadixIs
<1> DEFINE n == Len(s)
<1>4. r[n - 1].value + r[n - 1].weight * v[n - 1 - (n - 1)] = v[n - 1]
  <2>1. n - 1 \in 0 .. n - 1
    BY <1>3
  <2> QED BY <1>1, <1>2, <2>1, ReadRest
<1> HIDE DEF n
<1>5. v[n - 1 - (n - 1)] = first
  <2>1. n - 1 - (n - 1) = 0
    BY <1>3 DEF n
  <2> QED BY <1>2, <2>1 DEF Numbers
<1>6. PICK a \in Nat, w \in Nat : a = r[n - 1].value /\ w = r[n - 1].weight
  <2>1. n - 1 \in 0 .. n
    BY <1>3 DEF n
  <2> QED BY <1>1, <2>1 DEF Reads, n
<1>7. r[n].value = a + s[n] * w /\ r[n].weight = w * Radix
  <2>1. n \in 1 .. n
    BY <1>3 DEF n
  <2>2. r[n] = [value |-> r[n - 1].value + Load(s, n) * r[n - 1].weight, weight |-> r[n - 1].weight * Radix]
    BY <1>1, <2>1 DEF Reads, n
  <2> QED BY <1>3, <1>6, <2>2 DEF n
<1>8. a + s[n] * w \in Nat /\ w * Radix \in Nat
  BY <1>3 DEF n
<1>9. Number(s, first) = (a + s[n] * w) + w * (first - s[n])
  <2>1. Number(s, first) = a + w * first
    BY <1>2, <1>4, <1>5, <1>6 DEF n
  <2>2. a + w * first = (a + s[n] * w) + w * (first - s[n])
    BY <1>3 DEF n
  <2> QED BY <2>1, <2>2
<1> QED BY <1>1, <1>7, <1>8, <1>9 DEF n

\* ReadULEB (Dwarf.cc:46-56) and ReadSLEB (Dwarf.cc:66-78) read the number the
\* operand stands for, however many bytes it is padded to.
LEMMA ReadsNumbers ==
  ASSUME NEW s \in Operands
  PROVE  /\ ReadULEB(s) = UnsignedValue(s) /\ UnsignedValue(s) \in Nat
         /\ ReadSLEB(s) = SignedValue(s) /\ SignedValue(s) \in Int
<1>1. LebLength(s) = Len(s) /\ Load(s, Len(s)) = s[Len(s)] /\ s[Len(s)] \in Nat
  BY OperandIs, LebLengthIs
<1> DEFINE d == s[Len(s)]
           first == IF d >= Radix \div 2 THEN d - Radix ELSE d
<1>2. d \in Int /\ first \in Int /\ Radix \in Nat
  BY <1>1, RadixIs
<1>3. ReadULEB(s) = UnsignedValue(s) /\ UnsignedValue(s) \in Nat
  <2> HIDE DEF d
  <2>1. PICK r : /\ r.value \in Nat /\ r.weight \in Nat /\ ReadLEB(s) = r
                 /\ \E w \in Nat : r.weight = w * Radix /\ Number(s, d) = r.value + w * (d - d)
    BY <1>2, ReadIs DEF d
  <2>2. \A w \in Nat : w * (d - d) = 0
    BY <1>2
  <2>3. Number(s, d) = r.value
    BY <2>1, <2>2
  <2> QED BY <2>1, <2>3 DEF ReadULEB, UnsignedValue, d
<1>4. ReadSLEB(s) = SignedValue(s) /\ SignedValue(s) \in Int
  <2>0. SignedValue(s) = Number(s, first) /\ ReadSLEB(s) = IF d >= Radix \div 2 THEN ReadLEB(s).value - ReadLEB(s).weight
                                             ELSE ReadLEB(s).value
    BY <1>1 DEF SignedValue, ReadSLEB, Load
  <2>00. first = IF d >= Radix \div 2 THEN d - Radix ELSE d
    OBVIOUS
  <2> HIDE DEF first
  <2>1. PICK r : /\ r.value \in Nat /\ r.weight \in Nat /\ ReadLEB(s) = r
                 /\ \E w \in Nat : r.weight = w * Radix /\ Number(s, first) = r.value + w * (first - d)
    BY <1>2, ReadIs
  <2>2. PICK w \in Nat : r.weight = w * Radix /\ Number(s, first) = r.value + w * (first - d)
    BY <2>1
  <2> HIDE DEF d
  <2>3. CASE d >= Radix \div 2
    <3>1. first - d = - Radix
      BY <1>2, <2>00, <2>3
    <3>2. w * (- Radix) = - (w * Radix)
      BY <1>2
    <3>3. Number(s, first) = r.value - r.weight
      BY <2>1, <2>2, <3>1, <3>2
    <3> QED BY <2>0, <2>1, <2>3, <3>3
  <2>4. CASE ~ (d >= Radix \div 2)
    <3>1. first - d = 0
      BY <1>2, <2>00, <2>4
    <3>2. w * 0 = 0
      OBVIOUS
    <3>3. Number(s, first) = r.value
      BY <2>1, <2>2, <3>1, <3>2
    <3> QED BY <2>0, <2>1, <2>4, <3>3
  <2> QED BY <2>3, <2>4
<1> QED BY <1>3, <1>4

-----------------------------------------------------------------------------
(* Paths *)

\* The characters of a path: strings, one of them the slash.
Char == STRING \cup {"/"}
Text == Seq(Char)
Writing == [text : Text, slash : BOOLEAN]

\* A slash is written after w.
Slashed(w) == [text |-> w.text, slash |-> TRUE]

LEMMA SlashIs == "/" \in Char /\ <<"/">> \in Text /\ Empty \in Text
<1>1. "/" \in Char
  BY DEF Char
<1>2. <<"/">> \in Seq(Char)
  BY <1>1
<1>3. <<>> \in Seq(Char)
  OBVIOUS
<1> QED BY <1>1, <1>2, <1>3 DEF Text, Empty

LEMMA AppendIs ==
  ASSUME NEW s \in Text, NEW c \in Char
  PROVE  /\ Append(s, c) \in Text /\ Append(s, c) # Empty /\ Len(s) \in Nat /\ Len(Append(s, c)) = Len(s) + 1
         /\ (\A k \in 1 .. Len(s) : Append(s, c)[k] = s[k]) /\ Append(s, c)[Len(s) + 1] = c
         /\ \A a \in Text : a \o s \in Text /\ a \o Append(s, c) = Append(a \o s, c)
<1>1. s \in Seq(Char)
  BY DEF Text
<1>2. /\ Append(s, c) \in Seq(Char) /\ Append(s, c) # <<>> /\ Len(s) \in Nat /\ Len(Append(s, c)) = Len(s) + 1
      /\ (\A k \in 1 .. Len(s) : Append(s, c)[k] = s[k]) /\ Append(s, c)[Len(s) + 1] = c
  BY <1>1, AppendProperties
<1>3. ASSUME NEW a \in Seq(Char) PROVE a \o s \in Seq(Char) /\ a \o Append(s, c) = Append(a \o s, c)
  BY <1>1
<1> QED BY <1>2, <1>3 DEF Text, Empty

LEMMA WriteCharType ==
  ASSUME NEW w \in Writing, NEW c \in Char
  PROVE  WriteChar(w, c) \in Writing
<1>1. w.text \in Seq(Char)
  BY DEF Writing, Text
<1>2. <<"/", c>> \in Seq(Char) /\ <<c>> \in Seq(Char)
  BY SlashIs
<1>3. w.text \o <<"/", c>> \in Seq(Char) /\ w.text \o <<c>> \in Seq(Char)
  BY <1>1, <1>2
<1> QED BY <1>1, <1>3 DEF WriteChar, Writing, Text

\* What is written after each character.
Writes(w, s, r) ==
    /\ r \in [0 .. Len(s) -> Writing] /\ r[0] = w
    /\ \A k \in 1 .. Len(s) : r[k] = WriteChar(r[k - 1], s[k])

LEMMA WrittenDef ==
  ASSUME NEW w \in Writing, NEW s \in Text
  PROVE  \E r : Writes(w, s, r) /\ Written(w, s) = r[Len(s)]
<1> DEFINE N == Len(s)
           step == [x \in (1 .. N) \X Writing |-> WriteChar(x[2], s[x[1]])]
           body(f) == [k \in 0 .. N |-> IF k = 0 THEN w ELSE WriteChar(f[k - 1], s[k])]
           r == CHOOSE f : f = body(f)
<1>0. N \in Nat /\ \A k \in 1 .. N : s[k] \in Char
  BY DEF Text
<1>1. \A k \in 1 .. N, v \in Writing : WriteChar(v, s[k]) \in Writing
  BY <1>0, WriteCharType
<1>2. Written(w, s) = r[N]
  BY DEF Written
<1> HIDE DEF N
<1>3. step \in [(1 .. N) \X Writing -> Writing] /\ \A k \in 1 .. N, v \in Writing : step[<<k, v>>] = WriteChar(v, s[k])
  BY <1>1
<1> HIDE DEF step
<1>4. PICK f : Recursive(f, N, Writing, w, step)
  BY <1>0, <1>3, RecursionExists
<1>5. f \in [0 .. N -> Writing] /\ f[0] = w /\ \A k \in 1 .. N : f[k] = step[<<k, f[k - 1]>>]
  BY <1>4 DEF Recursive
<1>6. \A k \in 1 .. N : f[k - 1] \in Writing
  BY <1>0, <1>5
<1>7. f = body(f)
  <2>1. ASSUME NEW k \in 0 .. N PROVE f[k] = IF k = 0 THEN w ELSE WriteChar(f[k - 1], s[k])
    <3>1. k # 0 => k \in 1 .. N
      BY <1>0
    <3> QED BY <1>3, <1>5, <1>6, <3>1
  <2> QED BY <1>5, <2>1
<1>8. r = body(r)
  <2> HIDE DEF body
  <2> QED BY <1>7, Zenon
<1> HIDE DEF r
<1>9. r[0] = w /\ (\A k \in 1 .. N : r[k] = WriteChar(r[k - 1], s[k])) /\ r = [k \in 0 .. N |-> r[k]]
  <2>1. 0 \in 0 .. N /\ \A k \in 1 .. N : k \in 0 .. N /\ k # 0
    BY <1>0
  <2> QED BY <1>8, <2>1
<1>10. Recursive(r, N, Writing, w, step)
  BY <1>0, <1>3, <1>9, RecursionIs
<1>11. Writes(w, s, r)
  BY <1>9, <1>10 DEF Recursive, Writes, N
<1> QED BY <1>2, <1>11 DEF N

\* What is written after the first characters depends on them only.
LEMMA WritesSame ==
  ASSUME NEW w \in Writing, NEW s \in Text, NEW c \in Char,
         NEW r, Writes(w, s, r), NEW q, Writes(w, Append(s, c), q)
  PROVE  r[Len(s)] = q[Len(s)]
<1> DEFINE N == Len(s)
           S == {k \in Nat : k <= N => r[k] = q[k]}
<1>0. N \in Nat /\ Len(Append(s, c)) = N + 1 /\ \A k \in 1 .. N : Append(s, c)[k] = s[k]
  BY AppendIs
<1>1. 0 \in S
  BY DEF Writes
<1>2. ASSUME NEW k \in S PROVE k + 1 \in S
  <2>1. CASE k + 1 <= N
    <3>1. k \in Nat /\ k + 1 \in 1 .. N /\ k + 1 \in 1 .. N + 1 /\ (k + 1) - 1 = k /\ r[k] = q[k]
      BY <1>0, <2>1
    <3>2. r[k + 1] = WriteChar(r[k], s[k + 1])
      BY <3>1 DEF Writes
    <3>3. q[k + 1] = WriteChar(q[k], s[k + 1])
      BY <1>0, <3>1 DEF Writes
    <3> QED BY <3>1, <3>2, <3>3
  <2> QED BY <2>1
<1>3. S = Nat
  <2> HIDE DEF S
  <2>1. S \in SUBSET Nat
    BY DEF S
  <2> QED BY <1>1, <1>2, <2>1, SetInduction
<1>4. N \in S
  <2> HIDE DEF S
  <2> QED BY <1>0, <1>3
<1> QED BY <1>0, <1>4

\* Writing nothing, and one more character.
LEMMA WrittenAppend ==
  ASSUME NEW w \in Writing
  PROVE  /\ Written(w, Empty) = w
         /\ \A s \in Text : Written(w, s) \in Writing
         /\ \A s \in Text, c \in Char : Written(w, Append(s, c)) = WriteChar(Written(w, s), c)
<1>1. Written(w, Empty) = w
  <2>1. PICK r : Writes(w, Empty, r) /\ Written(w, Empty) = r[Len(Empty)]
    BY SlashIs, WrittenDef
  <2>2. Len(Empty) = 0
    BY DEF Empty
  <2> QED BY <2>1, <2>2 DEF Writes
<1>2. ASSUME NEW s \in Text PROVE Written(w, s) \in Writing
  <2>1. PICK r : Writes(w, s, r) /\ Written(w, s) = r[Len(s)]
    BY WrittenDef
  <2>2. Len(s) \in 0 .. Len(s)
    BY DEF Text
  <2> QED BY <2>1, <2>2 DEF Writes
<1>3. ASSUME NEW s \in Text, NEW c \in Char PROVE Written(w, Append(s, c)) = WriteChar(Written(w, s), c)
  <2>1. PICK r : Writes(w, s, r) /\ Written(w, s) = r[Len(s)]
    BY WrittenDef
  <2>2. Append(s, c) \in Text /\ Len(s) \in Nat /\ Len(Append(s, c)) = Len(s) + 1 /\ Append(s, c)[Len(s) + 1] = c
    BY AppendIs
  <2>3. PICK q : Writes(w, Append(s, c), q) /\ Written(w, Append(s, c)) = q[Len(s) + 1]
    BY <2>2, WrittenDef
  <2>4. q[Len(s) + 1] = WriteChar(q[Len(s)], c)
    <3>1. Len(s) + 1 \in 1 .. Len(Append(s, c)) /\ (Len(s) + 1) - 1 = Len(s)
      BY <2>2
    <3> QED BY <2>2, <2>3, <3>1 DEF Writes
  <2>5. q[Len(s)] = r[Len(s)]
    <3>1. Writes(w, s, r) /\ Writes(w, Append(s, c), q)
      BY <2>1, <2>3
    <3> QED BY <3>1, WritesSame
  <2> QED BY <2>1, <2>3, <2>4, <2>5
<1> QED BY <1>1, <1>2, <1>3

\* Writing one text after another.
LEMMA WrittenConcat ==
  ASSUME NEW w \in Writing, NEW a \in Text, NEW b \in Text
  PROVE  Written(w, a \o b) = Written(Written(w, a), b)
<1> DEFINE S == {t \in Seq(Char) : Written(w, a \o t) = Written(Written(w, a), t)}
<1>0. a \in Seq(Char) /\ Written(w, a) \in Writing
  BY WrittenAppend DEF Text
<1>1. <<>> \in S
  <2>1. a \o <<>> = a
    BY <1>0
  <2>2. Written(Written(w, a), <<>>) = Written(w, a)
    BY <1>0, WrittenAppend DEF Empty
  <2> QED BY <2>1, <2>2
<1>2. ASSUME NEW t \in S, NEW c \in Char PROVE Append(t, c) \in S
  <2>1. t \in Seq(Char) /\ a \o t \in Seq(Char) /\ a \o Append(t, c) = Append(a \o t, c) /\ Append(t, c) \in Seq(Char)
    BY AppendIs DEF Text
  <2>2. Written(w, Append(a \o t, c)) = WriteChar(Written(w, a \o t), c)
    BY <2>1, WrittenAppend DEF Text
  <2>3. Written(Written(w, a), Append(t, c)) = WriteChar(Written(Written(w, a), t), c)
    BY <1>0, <2>1, WrittenAppend DEF Text
  <2> QED BY <2>1, <2>2, <2>3
<1>3. S = Seq(Char)
  <2> HIDE DEF S
  <2>1. S \in SUBSET Seq(Char)
    BY DEF S
  <2> QED BY <1>1, <1>2, <2>1, SeqInduction
<1> HIDE DEF S
<1>4. b \in S
  BY <1>3 DEF Text
<1> QED BY <1>4 DEF S

\* Writing slashes.
LEMMA WrittenSlashes ==
  ASSUME NEW w \in Writing, NEW a \in Text, \A k \in 1 .. Len(a) : a[k] = "/"
  PROVE  Written(w, a) = IF a = Empty THEN w ELSE Slashed(w)
<1> DEFINE S == {t \in Seq(Char) : (\A k \in 1 .. Len(t) : t[k] = "/") =>
                                        Written(w, t) = IF t = Empty THEN w ELSE Slashed(w)}
<1>1. <<>> \in S
  BY WrittenAppend DEF Empty
<1>2. ASSUME NEW t \in S, NEW c \in Char PROVE Append(t, c) \in S
  <2>1. /\ t \in Seq(Char) /\ Len(t) \in Nat /\ Append(t, c) \in Seq(Char) /\ Append(t, c) # Empty
        /\ Len(Append(t, c)) = Len(t) + 1 /\ Append(t, c)[Len(t) + 1] = c
        /\ \A k \in 1 .. Len(t) : Append(t, c)[k] = t[k]
    BY AppendIs DEF Text
  <2>2. ASSUME \A k \in 1 .. Len(Append(t, c)) : Append(t, c)[k] = "/" PROVE Written(w, Append(t, c)) = Slashed(w)
    <3>1. c = "/" /\ \A k \in 1 .. Len(t) : t[k] = "/"
      BY <2>1, <2>2
    <3>2. Written(w, t) = w \/ Written(w, t) = Slashed(w)
      BY <3>1
    <3>3. Written(w, Append(t, c)) = WriteChar(Written(w, t), c)
      BY <2>1, WrittenAppend DEF Text
    <3> QED BY <3>1, <3>2, <3>3 DEF WriteChar, Slashed
  <2> QED BY <2>1, <2>2
<1>3. S = Seq(Char)
  <2> HIDE DEF S
  <2>1. S \in SUBSET Seq(Char)
    BY DEF S
  <2> QED BY <1>1, <1>2, <2>1, SeqInduction
<1> HIDE DEF S
<1>4. a \in S
  BY <1>3 DEF Text
<1> QED BY <1>4 DEF S

\* A set of numbers up to n that is not empty has a greatest element.
LEMMA GreatestExists ==
  ASSUME NEW n \in Nat, NEW T \in SUBSET (0 .. n), T # {}
  PROVE  \E m \in T : \A k \in T : k <= m
<1> DEFINE U == {n - k : k \in T}
<1>0. \A k \in T : n - k \in Nat
  OBVIOUS
<1>1. U \in SUBSET Nat /\ U # {} /\ \A k \in T : n - k \in U
  <2>1. PICK k \in T : TRUE
    OBVIOUS
  <2>2. n - k \in U
    BY <2>1
  <2>3. \A u \in U : u \in Nat
    BY <1>0
  <2>4. \A j \in T : n - j \in U
    OBVIOUS
  <2> HIDE DEF U
  <2> QED BY <2>2, <2>3, <2>4
<1>2. PICK u \in U : \A v \in U : u <= v
  <2> HIDE DEF U
  <2> QED BY <1>1, LeastExists
<1>3. PICK m \in T : u = n - m
  BY <1>2
<1>4. ASSUME NEW k \in T PROVE k <= m
  <2>1. n - m <= n - k
    <3> HIDE DEF U
    <3> QED BY <1>1, <1>2, <1>3
  <2> QED BY <2>1
<1> QED BY <1>4

AllSlashes(s) == \A k \in 1 .. Len(s) : s[k] = "/"

\* What StripSlashes takes off.
Strips(s, a, core, b) ==
    /\ a \in Text /\ core \in Text /\ b \in Text /\ s = a \o (core \o b)
    /\ AllSlashes(a) /\ AllSlashes(b) /\ (core = Empty => b = Empty)
    /\ StripSlashes(s, FALSE) = core
    /\ StripSlashes(s, TRUE) = IF a = Empty THEN core ELSE <<"/">> \o core

\* The slashes at the start of s.
LEMMA LeadingSlashes ==
  ASSUME NEW s \in Text
  PROVE  \E k \in 0 .. Len(s) : (\A j \in 1 .. k : s[j] = "/") /\ (k = Len(s) \/ s[k + 1] # "/")
<1> DEFINE n == Len(s)
           T == {k \in Nat : k <= n /\ (k = n \/ s[k + 1] # "/")}
<1>0. n \in Nat
  BY DEF Text
<1>1. T \in SUBSET Nat /\ T # {}
  BY <1>0
<1>2. PICK k \in T : \A j \in T : k <= j
  <2> HIDE DEF T
  <2> QED BY <1>1, LeastExists
<1>3. ASSUME NEW j \in 1 .. k PROVE s[j] = "/"
  <2>1. j - 1 \in Nat /\ j - 1 <= n /\ ~ (k <= j - 1) /\ (j - 1) + 1 = j /\ j - 1 # n
    <3> HIDE DEF n
    <3> QED BY <1>0, <1>2
  <2>2. j - 1 \notin T
    <3> HIDE DEF T
    <3> QED BY <1>2, <2>1
  <2>3. ~ (s[(j - 1) + 1] # "/")
    <3> HIDE DEF n
    <3> QED BY <2>1, <2>2
  <2> QED BY <2>1, <2>3
<1> QED BY <1>0, <1>2, <1>3

LEMMA StripIs ==
  ASSUME NEW s \in Text
  PROVE  \E a, core, b : Strips(s, a, core, b)
<1> DEFINE n == Len(s)
           Lead(k) == (\A j \in 1 .. k : s[j] = "/") /\ (k = n \/ s[k + 1] # "/")
           solid == {k \in DOMAIN s : s[k] # "/"}
           p == CHOOSE k \in 0 .. n : Lead(k)
           q == IF solid = {} THEN p ELSE CHOOSE k \in solid : \A j \in solid : j <= k
<1>0. n \in Nat /\ s \in Seq(Char) /\ DOMAIN s = 1 .. n
  BY DEF Text
<1>1. p \in 0 .. n /\ Lead(p)
  <2>1. \E k \in 0 .. n : Lead(k)
    BY LeadingSlashes
  <2> HIDE DEF Lead, n
  <2> QED BY <2>1, Zenon
<1>2. \A k \in solid : k \in 1 .. n /\ s[k] # "/"
  BY <1>0
<1>3. \A k \in 1 .. n : k \notin solid => s[k] = "/"
  BY <1>0
<1>4. \A keep \in BOOLEAN : StripSlashes(s, keep) = SubSeq(s, IF keep /\ p > 0 THEN p ELSE p + 1, q)
  BY DEF StripSlashes
<1>5. q \in p .. n /\ (\A j \in q + 1 .. n : s[j] = "/") /\ (q = p => q = n)
  <2>1. CASE solid = {}
    <3>1. q = p
      BY <2>1
    <3>2. p = n
      <4>1. p # n => p + 1 \in 1 .. n /\ s[p + 1] # "/"
        <5> HIDE DEF p, n
        <5> QED BY <1>0, <1>1
      <4> HIDE DEF p, n, solid
      <4> QED BY <1>3, <2>1, <4>1
    <3> HIDE DEF p, q, n
    <3> QED BY <1>0, <3>1, <3>2
  <2>2. CASE solid # {}
    <3>1. \E k \in solid : \A j \in solid : j <= k
      <4>1. solid \in SUBSET (0 .. n)
        BY <1>0
      <4> HIDE DEF solid, n
      <4> QED BY <1>0, <2>2, <4>1, GreatestExists
    <3>2. q = CHOOSE k \in solid : \A j \in solid : j <= k
      BY <2>2
    <3> HIDE DEF solid, p, q, n, Lead
    <3>3. q \in solid /\ \A j \in solid : j <= q
      BY <3>1, <3>2, Zenon
    <3>4. q \in 1 .. n /\ s[q] # "/"
      BY <1>2, <3>3
    <3>5. q > p
      BY <1>0, <1>1, <3>4 DEF Lead
    <3>6. ASSUME NEW j \in q + 1 .. n PROVE s[j] = "/"
      <4>1. j \in 1 .. n /\ ~ (j <= q)
        BY <1>0, <3>4
      <4> QED BY <1>3, <3>3, <4>1
    <3> QED BY <1>0, <1>1, <3>4, <3>5, <3>6
  <2> QED BY <2>1, <2>2
<1> HIDE DEF p, q, solid
<1> DEFINE a == SubSeq(s, 1, p)
           core == SubSeq(s, p + 1, q)
           b == SubSeq(s, q + 1, n)
<1> HIDE DEF n
<1>6. p \in Int /\ q \in Int /\ 0 <= p /\ p <= q /\ q <= n
  <2> HIDE DEF Lead
  <2>1. p \in 0 .. n
    BY <1>1
  <2>2. q \in p .. n
    BY <1>5
  <2> QED BY <1>0, <2>1, <2>2
<1>7. a \in Seq(Char) /\ core \in Seq(Char) /\ b \in Seq(Char)
  <2>1. \A i \in 1 .. n : s[i] \in Char
    BY <1>0 DEF n
  <2>2. n = Len(s)
    BY DEF n
  <2> QED BY <1>0, <1>6, <2>1, <2>2
<1>8. s = a \o (core \o b)
  <2>1. core \o b = SubSeq(s, p + 1, n)
    <3>1. p + 1 \in 1 .. Len(s) + 1 /\ q \in (p + 1) - 1 .. Len(s) /\ n \in q .. Len(s)
      BY <1>0, <1>6 DEF n
    <3> QED BY <1>0, <3>1, ConcatAdjacentSubSeq
  <2>2. a \o SubSeq(s, p + 1, n) = SubSeq(s, 1, n)
    <3>1. 1 \in 1 .. Len(s) + 1 /\ p \in 1 - 1 .. Len(s) /\ n \in p .. Len(s)
      BY <1>0, <1>6 DEF n
    <3> QED BY <1>0, <3>1, ConcatAdjacentSubSeq
  <2>3. SubSeq(s, 1, n) = s
    BY <1>0, SubSeqFull DEF n
  <2> HIDE DEF a, core, b
  <2> QED BY <2>1, <2>2, <2>3
<1>9. Len(a) = p /\ Len(core) = q - p /\ Len(b) = n - q
  BY <1>0, <1>6
<1>10. AllSlashes(a)
  <2>1. \A k \in 1 .. p : a[k] = s[k]
    BY <1>0, <1>6
  <2> HIDE DEF a
  <2> QED BY <1>1, <1>9, <2>1 DEF AllSlashes
<1>11. AllSlashes(b)
  <2>1. \A k \in 1 .. n - q : b[k] = s[q + k]
    BY <1>0, <1>6
  <2>2. \A k \in 1 .. n - q : q + k \in q + 1 .. n
    BY <1>0, <1>6
  <2> HIDE DEF b
  <2> QED BY <1>5, <1>9, <2>1, <2>2 DEF AllSlashes
<1>12. core = Empty => b = Empty
  <2>0. Len(Empty) = 0
    BY DEF Empty
  <2>1. core = Empty => Len(core) = 0
    <3> HIDE DEF core
    <3> QED BY <2>0
  <2>2. Len(b) = 0 => b = Empty
    <3> HIDE DEF b
    <3> QED BY <1>7, EmptySeq DEF Empty
  <2> HIDE DEF core, b
  <2> QED BY <1>0, <1>5, <1>6, <1>9, <2>1, <2>2
<1>13. StripSlashes(s, FALSE) = core
  BY <1>4
<1>14. StripSlashes(s, TRUE) = IF a = Empty THEN core ELSE <<"/">> \o core
  <2>1. a = Empty <=> p = 0
    <3>0. Len(Empty) = 0
      BY DEF Empty
    <3>1. a = Empty => Len(a) = 0
      <4> HIDE DEF a
      <4> QED BY <3>0
    <3>2. Len(a) = 0 => a = Empty
      <4> HIDE DEF a
      <4> QED BY <1>7, EmptySeq DEF Empty
    <3> HIDE DEF a
    <3> QED BY <1>6, <1>9, <3>1, <3>2
  <2>2. CASE p = 0
    <3>0. StripSlashes(s, TRUE) = SubSeq(s, IF TRUE /\ p > 0 THEN p ELSE p + 1, q)
      BY <1>4
    <3>2. (IF TRUE /\ p > 0 THEN p ELSE p + 1) = p + 1
      BY <2>2
    <3>1. StripSlashes(s, TRUE) = core
      BY <3>0, <3>2, Zenon
    <3> HIDE DEF a, core
    <3> QED BY <2>1, <2>2, <3>1
  <2>3. CASE p # 0
    <3>1. p > 0 /\ p \in 1 .. Len(s) /\ q \in p .. Len(s)
      BY <1>0, <1>6, <2>3 DEF n
    <3>0. StripSlashes(s, TRUE) = SubSeq(s, IF TRUE /\ p > 0 THEN p ELSE p + 1, q)
      BY <1>4
    <3>2. StripSlashes(s, TRUE) = SubSeq(s, p, q)
      BY <3>0, <3>1
    <3>3. SubSeq(s, p, q) = <<s[p]>> \o core
      BY <1>0, <3>1, SubSeqRecursiveFirst
    <3>4. s[p] = "/"
      BY <1>1, <3>1
    <3> HIDE DEF a, core
    <3> QED BY <2>1, <2>3, <3>2, <3>3, <3>4
  <2> QED BY <2>2, <2>3
<1>15. a \in Text /\ core \in Text /\ b \in Text
  BY <1>7 DEF Text
<1> HIDE DEF a, core, b
<1>16. Strips(s, a, core, b)
  BY <1>8, <1>10, <1>11, <1>12, <1>13, <1>14, <1>15 DEF Strips
<1> QED BY <1>16

\* The writing of s goes on from w as if StripSlashes had not taken anything off.
LEMMA WrittenStripped ==
  ASSUME NEW w \in Writing, NEW s \in Text
  PROVE  /\ StripSlashes(s, TRUE) \in Text /\ StripSlashes(s, FALSE) \in Text
         /\ Written(w, s).text = Written(w, StripSlashes(s, TRUE)).text
         /\ w.slash => Written(w, s).text = Written(w, StripSlashes(s, FALSE)).text
         /\ s # Empty => StripSlashes(s, TRUE) # Empty
<1>1. PICK a, core, b : Strips(s, a, core, b)
  BY StripIs
<1>2. /\ a \in Text /\ core \in Text /\ b \in Text /\ s = a \o (core \o b)
      /\ AllSlashes(a) /\ AllSlashes(b) /\ (core = Empty => b = Empty)
      /\ StripSlashes(s, FALSE) = core
      /\ StripSlashes(s, TRUE) = IF a = Empty THEN core ELSE <<"/">> \o core
  BY <1>1 DEF Strips
<1>3. core \o b \in Text /\ <<"/">> \in Text /\ <<"/">> \o core \in Text /\ AllSlashes(<<"/">>) /\ <<"/">> # Empty
  <2>1. core \in Seq(Char) /\ b \in Seq(Char) /\ <<"/">> \in Seq(Char)
    BY <1>2, SlashIs DEF Text
  <2>2. core \o b \in Seq(Char) /\ <<"/">> \o core \in Seq(Char)
    BY <2>1
  <2>3. AllSlashes(<<"/">>) /\ <<"/">> # Empty
    BY DEF AllSlashes, Empty
  <2> QED BY <2>1, <2>2, <2>3 DEF Text
<1>4. Slashed(w) \in Writing
  BY DEF Slashed, Writing
<1>5. \A v \in Writing : Written(v, core \o b).text = Written(v, core).text
  <2>1. ASSUME NEW v \in Writing PROVE Written(v, core \o b).text = Written(v, core).text
    <3>1. Written(v, core) \in Writing
      BY <1>2, WrittenAppend
    <3>2. Written(v, core \o b) = Written(Written(v, core), b)
      BY <1>2, WrittenConcat
    <3>3. PICK u : u = Written(v, core)
      OBVIOUS
    <3>4. Written(u, b) = IF b = Empty THEN u ELSE Slashed(u)
      BY <1>2, <3>1, <3>3, WrittenSlashes DEF AllSlashes
    <3> QED BY <3>2, <3>3, <3>4 DEF Slashed
  <2> QED BY <2>1
<1>6. Written(w, s) = Written(Written(w, a), core \o b) /\ Written(w, a) = IF a = Empty THEN w ELSE Slashed(w)
  BY <1>2, <1>3, WrittenConcat, WrittenSlashes DEF AllSlashes
<1>7. Written(w, <<"/">> \o core) = Written(Slashed(w), core)
  <2>1. Written(w, <<"/">>) = Slashed(w)
    BY <1>3, WrittenSlashes DEF AllSlashes
  <2> QED BY <1>2, <1>3, <2>1, WrittenConcat
<1>8. Written(w, s).text = Written(w, StripSlashes(s, TRUE)).text
  BY <1>2, <1>4, <1>5, <1>6, <1>7
<1>9. w.slash => Written(w, s).text = Written(w, StripSlashes(s, FALSE)).text
  <2>1. w.slash => Slashed(w) = w
    BY DEF Slashed, Writing
  <2> QED BY <1>2, <1>5, <1>6, <2>1
<1>10. s # Empty => StripSlashes(s, TRUE) # Empty
  <2>1. <<"/">> \o core # Empty
    <3>1. core \in Seq(Char)
      BY <1>2 DEF Text
    <3>2. Len(<<"/">> \o core) = 1 + Len(core) /\ Len(core) \in Nat
      BY <3>1, SlashIs
    <3>3. Len(Empty) = 0
      BY DEF Empty
    <3> QED BY <3>2, <3>3
  <2>2. Empty \o (Empty \o Empty) = Empty
    BY DEF Empty
  <2> QED BY <1>2, <2>1, <2>2
<1> QED BY <1>2, <1>3, <1>8, <1>9, <1>10

\* After a slash, what is written depends on the text before it only.
After(t) == [text |-> t, slash |-> TRUE]

\* Below of ToString.
Below(dest, s) == IF s = Empty THEN dest ELSE dest \o <<"/">> \o s

LEMMA CollapseBelow ==
  ASSUME NEW a \in Text, NEW b \in Text
  PROVE  /\ Collapse(a) \in Text /\ After(Collapse(a)) \in Writing
         /\ a \o <<"/">> \o b \in Text /\ Below(a, b) \in Text
         /\ Collapse(a \o <<"/">> \o b) = Written(After(Collapse(a)), b).text
         /\ Collapse(Below(a, b)) = Written(After(Collapse(a)), b).text
<1> DEFINE none == [text |-> Empty, slash |-> FALSE]
<1>1. none \in Writing
  BY SlashIs DEF Writing
<1>2. Written(none, a) \in Writing /\ Collapse(a) = Written(none, a).text
  BY <1>1, WrittenAppend DEF Collapse
<1>3. Collapse(a) \in Text
  BY <1>2 DEF Writing
<1>4. After(Collapse(a)) \in Writing
  BY <1>3 DEF After, Writing
<1>5. <<"/">> \in Text /\ a \o <<"/">> \in Text /\ a \o <<"/">> \o b \in Text /\ a \o <<"/">> \o b = (a \o <<"/">>) \o b
  <2>1. a \in Seq(Char) /\ b \in Seq(Char) /\ <<"/">> \in Seq(Char)
    BY SlashIs DEF Text
  <2>2. a \o <<"/">> \in Seq(Char)
    BY <2>1
  <2>3. (a \o <<"/">>) \o b \in Seq(Char)
    BY <2>1, <2>2
  <2> QED BY <2>1, <2>2, <2>3 DEF Text
<1>6. Written(none, a \o <<"/">>) = After(Collapse(a))
  <2>1. <<"/">> # Empty /\ \A k \in 1 .. Len(<<"/">>) : <<"/">>[k] = "/"
    BY DEF Empty
  <2>2. Written(Written(none, a), <<"/">>) = Slashed(Written(none, a))
    BY <1>2, <1>5, <2>1, WrittenSlashes
  <2>3. Written(none, a \o <<"/">>) = Written(Written(none, a), <<"/">>)
    <3> HIDE DEF none
    <3> QED BY <1>1, <1>5, WrittenConcat
  <2> HIDE DEF none
  <2> QED BY <1>2, <2>2, <2>3 DEF Slashed, After
<1>7. Collapse(a \o <<"/">> \o b) = Written(After(Collapse(a)), b).text
  <2>1. Written(none, (a \o <<"/">>) \o b) = Written(Written(none, a \o <<"/">>), b)
    <3> HIDE DEF none
    <3> QED BY <1>1, <1>5, WrittenConcat
  <2> QED BY <1>5, <1>6, <2>1 DEF Collapse
<1>8. b = Empty => Written(After(Collapse(a)), b).text = Collapse(a)
  <2>1. Written(After(Collapse(a)), Empty) = After(Collapse(a))
    BY <1>4, WrittenAppend
  <2> QED BY <2>1 DEF After
<1> QED BY <1>3, <1>4, <1>5, <1>7, <1>8 DEF Below

\* Lengths and elements of a text and of a prefix of it.
LEMMA TextIs ==
  ASSUME NEW a \in Text, NEW b \in Text
  PROVE  /\ Len(a) \in Nat /\ a \o b \in Text /\ Len(a \o b) = Len(a) + Len(b)
         /\ \A i \in 1 .. Len(a) + Len(b) : (a \o b)[i] = IF i <= Len(a) THEN a[i] ELSE b[i - Len(a)]
         /\ Len(a) = 0 <=> a = Empty
         /\ (Len(a) = Len(b) /\ \A i \in 1 .. Len(a) : a[i] = b[i]) => a = b
<1>1. a \in Seq(Char) /\ b \in Seq(Char)
  BY DEF Text
<1>2. /\ Len(a) \in Nat /\ a \o b \in Seq(Char) /\ Len(a \o b) = Len(a) + Len(b)
      /\ \A i \in 1 .. Len(a) + Len(b) : (a \o b)[i] = IF i <= Len(a) THEN a[i] ELSE b[i - Len(a)]
  BY <1>1, ConcatProperties, LenProperties
<1>3. Len(a) = 0 <=> a = Empty
  BY <1>1, EmptySeq DEF Empty
<1>4. (Len(a) = Len(b) /\ \A i \in 1 .. Len(a) : a[i] = b[i]) => a = b
  BY <1>1, SeqEqual
<1> QED BY <1>2, <1>3, <1>4 DEF Text

LEMMA PrefixIs ==
  ASSUME NEW s \in Text, NEW m \in 0 .. Len(s)
  PROVE  /\ SubSeq(s, 1, m) \in Text /\ Len(SubSeq(s, 1, m)) = m
         /\ \A i \in 1 .. m : SubSeq(s, 1, m)[i] = s[i]
<1>1. s \in Seq(Char) /\ Len(s) \in Nat /\ m \in Nat
  BY DEF Text
<1>2. \A i \in 1 .. m : s[i] \in Char
  BY <1>1
<1>3. /\ SubSeq(s, 1, m) \in Seq(Char)
      /\ Len(SubSeq(s, 1, m)) = IF 1 <= m THEN m - 1 + 1 ELSE 0
      /\ \A i \in 1 .. m - 1 + 1 : SubSeq(s, 1, m)[i] = s[1 + i - 1]
  BY <1>1, <1>2, SubSeqProperties
<1> HIDE DEF Text
<1>4. Len(SubSeq(s, 1, m)) = m
  BY <1>1, <1>3
<1>5. ASSUME NEW i \in 1 .. m PROVE SubSeq(s, 1, m)[i] = s[i]
  <2>1. i \in 1 .. m - 1 + 1 /\ 1 + i - 1 = i
    BY <1>1
  <2> QED BY <1>3, <2>1
<1> QED BY <1>3, <1>4, <1>5 DEF Text

\* A prefix of two texts is one of the first, or the first and one of the second.
LEMMA PrefixOfConcat ==
  ASSUME NEW a \in Text, NEW b \in Text
  PROVE  /\ \A m \in 0 .. Len(a) : SubSeq(a \o b, 1, m) = SubSeq(a, 1, m)
         /\ \A m \in 0 .. Len(b) : SubSeq(a \o b, 1, Len(a) + m) = a \o SubSeq(b, 1, m)
<1>1. /\ Len(a) \in Nat /\ Len(b) \in Nat /\ a \o b \in Text /\ Len(a \o b) = Len(a) + Len(b)
      /\ \A i \in 1 .. Len(a) + Len(b) : (a \o b)[i] = IF i <= Len(a) THEN a[i] ELSE b[i - Len(a)]
  BY TextIs
<1>2. ASSUME NEW m \in 0 .. Len(a) PROVE SubSeq(a \o b, 1, m) = SubSeq(a, 1, m)
  <2>1. m \in 0 .. Len(a \o b) /\ m \in Nat
    BY <1>1
  <2>2. PICK x : x = SubSeq(a \o b, 1, m)
    OBVIOUS
  <2>3. PICK y : y = SubSeq(a, 1, m)
    OBVIOUS
  <2>4. x \in Text /\ Len(x) = m /\ \A i \in 1 .. m : x[i] = (a \o b)[i]
    BY <1>1, <2>1, <2>2, PrefixIs
  <2>5. y \in Text /\ Len(y) = m /\ \A i \in 1 .. m : y[i] = a[i]
    BY <2>3, PrefixIs
  <2>6. \A i \in 1 .. m : (a \o b)[i] = a[i]
    BY <1>1
  <2>7. \A i \in 1 .. m : x[i] = y[i]
    BY <2>4, <2>5, <2>6
  <2> QED BY <2>2, <2>3, <2>4, <2>5, <2>7, TextIs
<1>3. ASSUME NEW m \in 0 .. Len(b) PROVE SubSeq(a \o b, 1, Len(a) + m) = a \o SubSeq(b, 1, m)
  <2>1. Len(a) + m \in 0 .. Len(a \o b) /\ m \in Nat
    BY <1>1
  <2>2. PICK x : x = SubSeq(a \o b, 1, Len(a) + m)
    OBVIOUS
  <2>3. PICK y : y = SubSeq(b, 1, m)
    OBVIOUS
  <2>4. x \in Text /\ Len(x) = Len(a) + m /\ \A i \in 1 .. Len(a) + m : x[i] = (a \o b)[i]
    <3>1. PICK k : k = Len(a) + m
      OBVIOUS
    <3>2. k \in 0 .. Len(a \o b) /\ x = SubSeq(a \o b, 1, k)
      BY <2>1, <2>2, <3>1
    <3>3. x \in Text /\ Len(x) = k /\ \A i \in 1 .. k : x[i] = (a \o b)[i]
      BY <1>1, <3>2, PrefixIs
    <3> QED BY <3>1, <3>3
  <2>5. y \in Text /\ Len(y) = m /\ \A i \in 1 .. m : y[i] = b[i]
    BY <2>3, PrefixIs
  <2>6. /\ a \o y \in Text /\ Len(a \o y) = Len(a) + m
        /\ \A i \in 1 .. Len(a) + m : (a \o y)[i] = IF i <= Len(a) THEN a[i] ELSE y[i - Len(a)]
    BY <2>5, TextIs
  <2>7. ASSUME NEW i \in 1 .. Len(a) + m PROVE x[i] = (a \o y)[i]
    <3>1. i \in 1 .. Len(a) + Len(b) /\ (i <= Len(a) \/ i - Len(a) \in 1 .. m)
      BY <1>1
    <3>2. (a \o b)[i] = IF i <= Len(a) THEN a[i] ELSE b[i - Len(a)]
      BY <1>1, <3>1
    <3>3. x[i] = (a \o b)[i] /\ (a \o y)[i] = IF i <= Len(a) THEN a[i] ELSE y[i - Len(a)]
      BY <2>4, <2>6
    <3>4. i - Len(a) \in 1 .. m => y[i - Len(a)] = b[i - Len(a)]
      BY <2>5
    <3> QED BY <3>1, <3>2, <3>3, <3>4
  <2>8. x = a \o y
    <3>1. PICK z : z = a \o y
      OBVIOUS
    <3>2. z \in Text /\ Len(z) = Len(x) /\ \A i \in 1 .. Len(x) : x[i] = z[i]
      BY <2>4, <2>6, <2>7, <3>1
    <3>3. x = z
      BY <2>4, <3>2, TextIs
    <3> QED BY <3>1, <3>3
  <2> QED BY <2>2, <2>3, <2>8
<1> QED BY <1>2, <1>3

\* A buffer of n bytes holds as much of whole as it can, and its NUL.
Holds(b, whole, n) ==
    LET fit == IF Len(whole) < n THEN Len(whole) ELSE n - 1
    IN  /\ b.total = Len(whole) /\ b.left = n - fit
        /\ b.text = SubSeq(whole, 1, fit)

LEMMA AppendedHolds ==
  ASSUME NEW n \in Nat \ {0}, NEW whole \in Text, NEW s \in Text, NEW b, Holds(b, whole, n)
  PROVE  Holds(Appended(b, s), whole \o s, n)
<1>1. PICK W, L : W = Len(whole) /\ L = Len(s)
  OBVIOUS
<1>2. W \in Nat /\ L \in Nat /\ Len(whole \o s) = W + L
  BY <1>1, TextIs
<1>3. PICK copy : copy = IF b.left >= 2 THEN (IF L < b.left - 1 THEN L ELSE b.left - 1) ELSE 0
  OBVIOUS
<1>4. Appended(b, s) = [text |-> b.text \o SubSeq(s, 1, copy), left |-> b.left - copy, total |-> b.total + L]
  BY <1>1, <1>3 DEF Appended
<1>5. PICK fit : fit = IF W < n THEN W ELSE n - 1
  OBVIOUS
<1>6. b.total = W /\ b.left = n - fit /\ b.text = SubSeq(whole, 1, fit)
  BY <1>1, <1>5 DEF Holds
<1>7. PICK most : most = IF W + L < n THEN W + L ELSE n - 1
  OBVIOUS
<1>8. /\ fit \in 0 .. W /\ copy \in 0 .. L /\ most = fit + copy
      /\ (copy = 0 \/ fit = W)
  BY <1>2, <1>3, <1>5, <1>6, <1>7
<1>9. b.text \o SubSeq(s, 1, copy) = SubSeq(whole \o s, 1, most)
  <2>1. CASE fit = W
    <3>1. SubSeq(whole, 1, W) = whole
      BY <1>1, SubSeqFull DEF Text
    <3>2. SubSeq(whole \o s, 1, W + copy) = whole \o SubSeq(s, 1, copy)
      BY <1>1, <1>8, PrefixOfConcat
    <3> QED BY <1>6, <1>8, <2>1, <3>1, <3>2
  <2>2. CASE copy = 0 /\ fit # W
    <3>1. SubSeq(whole \o s, 1, fit) = SubSeq(whole, 1, fit)
      BY <1>1, <1>8, PrefixOfConcat
    <3>2. SubSeq(whole, 1, fit) \in Text /\ most = fit
      BY <1>1, <1>2, <1>8, <2>2, PrefixIs
    <3>3. SubSeq(s, 1, 0) = <<>>
      BY SubSeqEmpty
    <3>4. \A x \in Text : x \o <<>> = x
      BY DEF Text
    <3> QED BY <1>6, <2>2, <3>1, <3>2, <3>3, <3>4
  <2> QED BY <1>8, <2>1, <2>2
<1>10. n - most = b.left - copy /\ W + L = b.total + L
  BY <1>2, <1>6, <1>8
<1>11. PICK c : c = Appended(b, s)
  OBVIOUS
<1>12. c.text = SubSeq(whole \o s, 1, most) /\ c.left = n - most /\ c.total = Len(whole \o s)
  <2>1. c.text = b.text \o SubSeq(s, 1, copy) /\ c.left = b.left - copy /\ c.total = b.total + L
    <3>1. PICK x, y, z : x = b.text \o SubSeq(s, 1, copy) /\ y = b.left - copy /\ z = b.total + L
      OBVIOUS
    <3>2. c = [text |-> x, left |-> y, total |-> z]
      BY <1>4, <1>11, <3>1, Zenon
    <3>3. c.text = x /\ c.left = y /\ c.total = z
      BY <3>2
    <3> QED BY <3>1, <3>3
  <2>2. b.total + L = Len(whole \o s)
    BY <1>2, <1>10
  <2> QED BY <1>9, <1>10, <2>1, <2>2
<1>13. most = IF Len(whole \o s) < n THEN Len(whole \o s) ELSE n - 1
  BY <1>2, <1>7
<1>14. Holds(c, whole \o s, n)
  BY <1>12, <1>13 DEF Holds
<1> QED BY <1>11, <1>14

LEMMA BelowHolds ==
  ASSUME NEW n \in Nat \ {0}, NEW whole \in Text, NEW s \in Text, NEW b, Holds(b, whole, n)
  PROVE  /\ Below(whole, s) \in Text
         /\ Len(Below(whole, s)) = Len(whole) + Len(s) + (IF s # Empty THEN 1 ELSE 0)
         /\ Holds(IF s = Empty THEN b ELSE Appended(Appended(b, <<"/">>), s), Below(whole, s), n)
<1>1. <<"/">> \in Text /\ Len(<<"/">>) = 1
  BY SlashIs
<1>2. /\ whole \o <<"/">> \in Text /\ Len(whole \o <<"/">>) = Len(whole) + 1
      /\ whole \o <<"/">> \o s \in Text /\ Len(whole \o <<"/">> \o s) = Len(whole) + 1 + Len(s)
  <2>1. whole \o <<"/">> \in Text /\ Len(whole \o <<"/">>) = Len(whole) + 1
    BY <1>1, TextIs
  <2>2. PICK x : x = whole \o <<"/">>
    OBVIOUS
  <2>3. x \o s \in Text /\ Len(x \o s) = Len(x) + Len(s)
    BY <2>1, <2>2, TextIs
  <2> QED BY <2>1, <2>2, <2>3
<1>3. Len(whole) \in Nat /\ Len(s) \in Nat /\ (s = Empty => Len(s) = 0)
  BY TextIs
<1>4. Below(whole, s) \in Text /\ Len(Below(whole, s)) = Len(whole) + Len(s) + (IF s # Empty THEN 1 ELSE 0)
  <2>1. CASE s = Empty
    BY <1>3, <2>1 DEF Below
  <2>2. CASE s # Empty
    <3>1. Below(whole, s) = whole \o <<"/">> \o s
      BY <2>2 DEF Below
    <3> QED BY <1>2, <1>3, <2>2, <3>1
  <2> QED BY <2>1, <2>2
<1>5. Holds(Appended(b, <<"/">>), whole \o <<"/">>, n)
  BY <1>1, AppendedHolds
<1>6. Holds(Appended(Appended(b, <<"/">>), s), whole \o <<"/">> \o s, n)
  BY <1>2, <1>5, AppendedHolds
<1> QED BY <1>4, <1>6 DEF Below

\* After a slash, or before one, a slash adds nothing.
LEMMA WrittenAbsolute ==
  ASSUME NEW w \in Writing, NEW s \in Text, Absolute(s)
  PROVE  Written(w, s) = Written(Slashed(w), s)
<1>1. s \in Seq(Char) /\ Len(s) \in Nat /\ Len(s) # 0 /\ s[1] = "/"
  BY TextIs DEF Text, Absolute
<1>2. PICK rest : rest = SubSeq(s, 2, Len(s))
  OBVIOUS
<1>3. s = <<"/">> \o rest
  <2>1. 1 \in 1 .. Len(s) /\ Len(s) \in 1 .. Len(s)
    BY <1>1
  <2>2. SubSeq(s, 1, Len(s)) = <<s[1]>> \o SubSeq(s, 1 + 1, Len(s))
    BY <1>1, <2>1, SubSeqRecursiveFirst
  <2>3. SubSeq(s, 1, Len(s)) = s
    BY <1>1, SubSeqFull
  <2> QED BY <1>1, <1>2, <2>2, <2>3
<1>4. rest \in Text
  <2>1. \A i \in 2 .. Len(s) : s[i] \in Char
    BY <1>1
  <2> QED BY <1>1, <1>2, <2>1, SubSeqProperties DEF Text
<1>5. <<"/">> \in Text /\ <<"/">> # Empty /\ \A k \in 1 .. Len(<<"/">>) : <<"/">>[k] = "/"
  BY SlashIs DEF Empty
<1>6. Slashed(w) \in Writing /\ Slashed(Slashed(w)) = Slashed(w)
  BY DEF Slashed, Writing
<1>7. Written(w, <<"/">>) = Slashed(w) /\ Written(Slashed(w), <<"/">>) = Slashed(w)
  BY <1>5, <1>6, WrittenSlashes
<1>8. Written(w, <<"/">> \o rest) = Written(Written(w, <<"/">>), rest)
  BY <1>4, <1>5, WrittenConcat
<1>9. Written(Slashed(w), <<"/">> \o rest) = Written(Written(Slashed(w), <<"/">>), rest)
  BY <1>4, <1>5, <1>6, WrittenConcat
<1> QED BY <1>3, <1>7, <1>8, <1>9

\* What a path of three parts stands for.
Composed(base, sub, file) == Written(After(Written(After(Collapse(base)), sub).text), file).text

LEMMA ComposedIs ==
  ASSUME NEW base \in Text, NEW sub \in Text, NEW file \in Text
  PROVE  /\ Collapse(Below(Below(base, sub), file)) = Composed(base, sub, file)
         /\ Collapse(base \o <<"/">> \o sub \o <<"/">> \o file) = Composed(base, sub, file)
         /\ Composed(base, Empty, file) = Collapse(base \o <<"/">> \o file)
         /\ Composed(StripSlashes(base, TRUE), StripSlashes(sub, FALSE), StripSlashes(file, FALSE)) =
                Composed(base, sub, file)
<1>1. /\ After(Collapse(base)) \in Writing
      /\ Below(base, sub) \in Text /\ Collapse(Below(base, sub)) = Written(After(Collapse(base)), sub).text
      /\ base \o <<"/">> \o sub \in Text
      /\ Collapse(base \o <<"/">> \o sub) = Written(After(Collapse(base)), sub).text
  BY CollapseBelow
<1>2. /\ After(Collapse(Below(base, sub))) \in Writing
      /\ Collapse(Below(Below(base, sub), file)) = Written(After(Collapse(Below(base, sub))), file).text
  BY <1>1, CollapseBelow
<1>3. Collapse((base \o <<"/">> \o sub) \o <<"/">> \o file) =
         Written(After(Collapse(base \o <<"/">> \o sub)), file).text
  BY <1>1, CollapseBelow
<1>4. Collapse(base \o <<"/">> \o sub \o <<"/">> \o file) = Composed(base, sub, file)
  BY <1>1, <1>3 DEF Composed
<1>5. Composed(base, Empty, file) = Collapse(base \o <<"/">> \o file)
  <2>1. Written(After(Collapse(base)), Empty).text = Collapse(base)
    BY <1>1, WrittenAppend DEF After
  <2>2. Collapse(base \o <<"/">> \o file) = Written(After(Collapse(base)), file).text
    BY CollapseBelow
  <2> QED BY <2>1, <2>2 DEF Composed
<1>6. Collapse(StripSlashes(base, TRUE)) = Collapse(base)
  <2>1. [text |-> Empty, slash |-> FALSE] \in Writing
    BY SlashIs DEF Writing
  <2> QED BY <2>1, WrittenStripped DEF Collapse
<1>7. \A t, s \in Text : After(t) \in Writing /\ Written(After(t), StripSlashes(s, FALSE)).text = Written(After(t), s).text
  <2>1. ASSUME NEW t \in Text, NEW s \in Text
        PROVE  After(t) \in Writing /\ Written(After(t), StripSlashes(s, FALSE)).text = Written(After(t), s).text
    <3>1. After(t) \in Writing /\ After(t).slash
      BY DEF After, Writing
    <3> QED BY <3>1, WrittenStripped
  <2> QED BY <2>1
<1>8. Collapse(base) \in Text /\ Written(After(Collapse(base)), sub).text \in Text
  <2>1. Written(After(Collapse(base)), sub) \in Writing
    BY <1>1, WrittenAppend
  <2> QED BY <2>1, CollapseBelow DEF Writing
<1>9. Composed(StripSlashes(base, TRUE), StripSlashes(sub, FALSE), StripSlashes(file, FALSE)) = Composed(base, sub, file)
  <2>1. Written(After(Collapse(base)), StripSlashes(sub, FALSE)).text = Written(After(Collapse(base)), sub).text
    BY <1>7, <1>8
  <2>2. PICK u : u = Written(After(Collapse(base)), sub).text
    OBVIOUS
  <2>3. Written(After(u), StripSlashes(file, FALSE)).text = Written(After(u), file).text
    BY <1>7, <1>8, <2>2
  <2> QED BY <1>6, <2>1, <2>2, <2>3 DEF Composed
<1> QED BY <1>1, <1>2, <1>4, <1>5, <1>9 DEF Composed

\* The parts before StripSlashes.
BaseOf(base, sub, file) ==
    LET b == IF Absolute(file) \/ Absolute(sub) THEN Empty ELSE base
        s == IF Absolute(file) THEN Empty ELSE sub
    IN  IF b = Empty THEN s ELSE b
SubOf(base, sub, file) ==
    LET b == IF Absolute(file) \/ Absolute(sub) THEN Empty ELSE base
        s == IF Absolute(file) THEN Empty ELSE sub
    IN  IF b = Empty THEN Empty ELSE s

LEMMA ComposedResolves ==
  ASSUME NEW base \in Text, NEW sub \in Text, NEW file \in Text, file # Empty
  PROVE  /\ BaseOf(base, sub, file) \in Text /\ SubOf(base, sub, file) \in Text
         /\ SubOf(base, sub, file) # Empty => BaseOf(base, sub, file) # Empty
         /\ Composed(BaseOf(base, sub, file), SubOf(base, sub, file), file) = Resolved(base, sub, file)
<1>1. /\ BaseOf(base, sub, file) \in Text /\ SubOf(base, sub, file) \in Text
      /\ SubOf(base, sub, file) # Empty => BaseOf(base, sub, file) # Empty
  BY SlashIs DEF BaseOf, SubOf
<1>2. CASE Absolute(file)
  <2>1. BaseOf(base, sub, file) = Empty /\ SubOf(base, sub, file) = Empty /\ Resolved(base, sub, file) = Collapse(file)
    BY <1>2 DEF BaseOf, SubOf, Resolved
  <2>2. [text |-> Empty, slash |-> FALSE] \in Writing /\ Slashed([text |-> Empty, slash |-> FALSE]) = After(Empty)
    BY SlashIs DEF Writing, Slashed, After
  <2>3. Collapse(file) = Written(After(Empty), file).text
    BY <1>2, <2>2, WrittenAbsolute DEF Collapse
  <2>4. Collapse(Empty) = Empty
    BY <2>2, WrittenAppend DEF Collapse
  <2>5. After(Empty) \in Writing
    BY SlashIs DEF Writing, After
  <2>6. Written(After(Empty), Empty).text = Empty
    BY <2>5, WrittenAppend DEF After
  <2>7. Composed(Empty, Empty, file) = Written(After(Empty), file).text
    BY <2>4, <2>6 DEF Composed
  <2> QED BY <1>1, <2>1, <2>3, <2>7
<1>3. CASE ~ Absolute(file) /\ (Absolute(sub) \/ (base = Empty /\ sub # Empty))
  <2>1. BaseOf(base, sub, file) = sub /\ SubOf(base, sub, file) = Empty
    BY <1>3 DEF BaseOf, SubOf
  <2>2. Resolved(base, sub, file) = Collapse(sub \o <<"/">> \o file)
    BY <1>3 DEF Resolved
  <2>3. Composed(sub, Empty, file) = Collapse(sub \o <<"/">> \o file)
    BY ComposedIs
  <2> QED BY <1>1, <2>1, <2>2, <2>3
<1>4. CASE ~ Absolute(file) /\ ~ (Absolute(sub) \/ (base = Empty /\ sub # Empty))
  <2>1. BaseOf(base, sub, file) = base /\ SubOf(base, sub, file) = sub
    BY <1>4 DEF BaseOf, SubOf
  <2>2. Resolved(base, sub, file) = Collapse(base \o <<"/">> \o sub \o <<"/">> \o file)
    BY <1>4 DEF Resolved
  <2>3. Collapse(base \o <<"/">> \o sub \o <<"/">> \o file) = Composed(base, sub, file)
    BY ComposedIs
  <2> QED BY <1>1, <2>1, <2>2, <2>3
<1> QED BY <1>2, <1>3, <1>4

\* Size, ToString and ToBuffer agree about any path.
LEMMA BufferIs ==
  ASSUME NEW base \in Text, NEW sub \in Text, NEW file \in Text,
         NEW p, p = [base |-> base, sub |-> sub, file |-> file]
  PROVE  /\ ToString(p) = Below(Below(base, sub), file)
         /\ PathSize(p) = Len(ToString(p))
         /\ \A n \in Nat \ {0} : Holds(ToBuffer(p, n), ToString(p), n)
<1>0. p.base = base /\ p.sub = sub /\ p.file = file
  OBVIOUS
<1>1. ToString(p) = Below(Below(base, sub), file)
  BY <1>0 DEF ToString, Below
<1>2. ASSUME NEW n \in Nat \ {0}
      PROVE  /\ Holds(ToBuffer(p, n), ToString(p), n)
             /\ PathSize(p) = Len(ToString(p))
  <2>1. PICK b : b = Appended([text |-> Empty, left |-> n, total |-> 0], base)
    OBVIOUS
  <2>2. Holds(b, base, n)
    <3>1. PICK none : none = [text |-> Empty, left |-> n, total |-> 0]
      OBVIOUS
    <3>2. Len(Empty) = 0 /\ SubSeq(Empty, 1, 0) = Empty /\ Empty \in Text /\ Empty \o base = base
      <4>1. Len(Empty) = 0 /\ Empty \o base = base
        BY DEF Empty, Text
      <4>2. SubSeq(Empty, 1, 0) = Empty
        BY SubSeqEmpty DEF Empty
      <4> QED BY <4>1, <4>2, SlashIs
    <3>3. Holds(none, Empty, n)
      <4>1. none.text = Empty /\ none.left = n /\ none.total = 0
        BY <3>1
      <4>2. (IF Len(Empty) < n THEN Len(Empty) ELSE n - 1) = 0 /\ n - 0 = n
        BY <3>2
      <4> QED BY <3>2, <4>1, <4>2 DEF Holds
    <3>4. Holds(Appended(none, base), Empty \o base, n)
      BY <3>2, <3>3, AppendedHolds
    <3> QED BY <2>1, <3>1, <3>2, <3>4
  <2>3. PICK c : c = IF sub = Empty THEN b ELSE Appended(Appended(b, <<"/">>), sub)
    OBVIOUS
  <2>4. /\ Below(base, sub) \in Text /\ Holds(c, Below(base, sub), n)
        /\ Len(Below(base, sub)) = Len(base) + Len(sub) + (IF sub # Empty THEN 1 ELSE 0)
    BY <2>2, <2>3, BelowHolds
  <2>5. PICK d : d = IF file = Empty THEN c ELSE Appended(Appended(c, <<"/">>), file)
    OBVIOUS
  <2>6. PICK whole : whole = Below(base, sub)
    OBVIOUS
  <2>7. /\ Holds(d, Below(whole, file), n)
        /\ Len(Below(whole, file)) = Len(whole) + Len(file) + (IF file # Empty THEN 1 ELSE 0)
    BY <2>4, <2>5, <2>6, BelowHolds
  <2>8. ToBuffer(p, n) = d
    BY <1>0, <2>1, <2>3, <2>5 DEF ToBuffer
  <2>9. PathSize(p) = Len(Below(whole, file))
    <3>1. Len(base) \in Nat /\ Len(sub) \in Nat /\ Len(file) \in Nat
      BY TextIs
    <3>2. PathSize(p) = Len(base) + Len(sub) + Len(file) + (IF sub # Empty THEN 1 ELSE 0) + (IF file # Empty THEN 1 ELSE 0)
      BY <1>0 DEF PathSize
    <3> QED BY <2>4, <2>6, <2>7, <3>1, <3>2
  <2> QED BY <1>1, <2>6, <2>7, <2>8, <2>9
<1>3. 1 \in Nat \ {0}
  OBVIOUS
<1> QED BY <1>1, <1>2, <1>3

LEMMA PathIsRight ==
  ASSUME NEW base \in Seq(STRING), NEW sub \in Seq(STRING), NEW file \in Seq(STRING)
  PROVE  PathRight(Path(base, sub, file), base, sub, file)
<1>0. base \in Text /\ sub \in Text /\ file \in Text
  <2>1. STRING \subseteq Char
    BY DEF Char
  <2> QED BY <2>1, SeqMonotonic DEF Text
<1>1. PICK p : p = Path(base, sub, file)
  OBVIOUS
<1>2. \E x, y, z \in Text : p = [base |-> x, sub |-> y, file |-> z] /\ (y # Empty => x # Empty)
                            /\ Composed(x, y, z) = Resolved(base, sub, file)
  <2>1. CASE file = Empty
    <3>1. p = [base |-> Empty, sub |-> Empty, file |-> Empty] /\ Resolved(base, sub, file) = Empty
      BY <1>1, <2>1 DEF Path, Resolved
    <3>2. Composed(Empty, Empty, Empty) = Empty
      <4>1. [text |-> Empty, slash |-> FALSE] \in Writing /\ After(Empty) \in Writing
        BY SlashIs DEF Writing, After
      <4>2. Collapse(Empty) = Empty
        BY <4>1, WrittenAppend DEF Collapse
      <4>3. Written(After(Empty), Empty).text = Empty
        BY <4>1, WrittenAppend DEF After
      <4> QED BY <4>2, <4>3 DEF Composed
    <3> QED BY <3>1, <3>2, SlashIs
  <2>2. CASE file # Empty
    <3>1. PICK x, y : x = BaseOf(base, sub, file) /\ y = SubOf(base, sub, file)
      OBVIOUS
    <3>2. x \in Text /\ y \in Text /\ (y # Empty => x # Empty) /\ Composed(x, y, file) = Resolved(base, sub, file)
      BY <1>0, <2>2, <3>1, ComposedResolves
    <3>3. p = [base |-> StripSlashes(x, TRUE), sub |-> StripSlashes(y, FALSE), file |-> StripSlashes(file, FALSE)]
      BY <1>1, <2>2, <3>1 DEF Path, BaseOf, SubOf
    <3>4. Composed(StripSlashes(x, TRUE), StripSlashes(y, FALSE), StripSlashes(file, FALSE)) = Composed(x, y, file)
      BY <1>0, <3>2, ComposedIs
    <3>5. After(Empty) \in Writing
      BY SlashIs DEF Writing, After
    <3>6. /\ StripSlashes(x, TRUE) \in Text /\ StripSlashes(y, FALSE) \in Text /\ StripSlashes(file, FALSE) \in Text
          /\ x # Empty => StripSlashes(x, TRUE) # Empty
      BY <1>0, <3>2, <3>5, WrittenStripped
    <3>7. y = Empty => StripSlashes(y, FALSE) = Empty
      <4>1. PICK a, core, b : Strips(y, a, core, b)
        BY <3>2, StripIs
      <4>2. a \in Text /\ core \in Text /\ b \in Text /\ core \o b \in Text /\ y = a \o (core \o b) /\ StripSlashes(y, FALSE) = core
        BY <4>1, TextIs DEF Strips
      <4>3. Len(a) \in Nat /\ Len(core) \in Nat /\ Len(b) \in Nat /\ Len(core \o b) = Len(core) + Len(b)
        BY <4>2, TextIs
      <4>4. PICK u : u = core \o b
        OBVIOUS
      <4>5. Len(y) = Len(a) + Len(u)
        BY <4>2, <4>4, TextIs
      <4>6. (Len(y) = 0 <=> y = Empty) /\ (Len(core) = 0 <=> core = Empty)
        BY <3>2, <4>2, TextIs
      <4>7. Len(u) = Len(core) + Len(b)
        BY <4>3, <4>4
      <4>8. Len(y) = 0 => Len(core) = 0
        <5>1. PICK i, j, k : i = Len(a) /\ j = Len(core) /\ k = Len(b)
          OBVIOUS
        <5>2. i \in Nat /\ j \in Nat /\ k \in Nat /\ Len(y) = i + (j + k)
          BY <4>3, <4>5, <4>7, <5>1
        <5>3. i + (j + k) = 0 => j = 0
          BY <5>2
        <5> QED BY <5>1, <5>2, <5>3
      <4> QED BY <4>2, <4>6, <4>8
    <3> QED BY <3>2, <3>3, <3>4, <3>6, <3>7
  <2> QED BY <2>1, <2>2
<1>3. PICK x, y, z \in Text : p = [base |-> x, sub |-> y, file |-> z] /\ (y # Empty => x # Empty)
                               /\ Composed(x, y, z) = Resolved(base, sub, file)
  BY <1>2
<1>4. /\ ToString(p) = Below(Below(x, y), z) /\ PathSize(p) = Len(ToString(p))
      /\ \A n \in Nat \ {0} : Holds(ToBuffer(p, n), ToString(p), n)
  BY <1>3, BufferIs
<1>5. Collapse(ToString(p)) = Resolved(base, sub, file)
  <2>1. Collapse(Below(Below(x, y), z)) = Composed(x, y, z)
    BY <1>3, ComposedIs
  <2> QED BY <1>3, <1>4, <2>1
<1>6. p.sub # Empty => p.base # Empty
  <2>1. p.sub = y /\ p.base = x
    BY <1>3
  <2> QED BY <1>3, <2>1
<1>7. PICK whole : whole = ToString(p)
  OBVIOUS
<1>8. Len(whole) \in Nat
  <2>1. Below(x, y) \in Text
    BY <1>3, CollapseBelow
  <2>2. Below(Below(x, y), z) \in Text
    BY <1>3, <2>1, CollapseBelow
  <2> QED BY <1>4, <1>7, <2>2, TextIs
<1>9. ASSUME NEW n \in 1 .. Len(whole) + 2
      PROVE  LET b == ToBuffer(p, n)
             IN  b.total = Len(whole) /\ b.left >= 1
                 /\ b.text = SubSeq(whole, 1, IF Len(whole) < n THEN Len(whole) ELSE n - 1)
  <2>1. n \in Nat \ {0}
    BY <1>8
  <2>2. Holds(ToBuffer(p, n), whole, n)
    BY <1>4, <1>7, <2>1
  <2>3. PICK b : b = ToBuffer(p, n)
    OBVIOUS
  <2>4. PICK fit : fit = IF Len(whole) < n THEN Len(whole) ELSE n - 1
    OBVIOUS
  <2>5. b.total = Len(whole) /\ b.left = n - fit /\ b.text = SubSeq(whole, 1, fit)
    BY <2>2, <2>3, <2>4 DEF Holds
  <2>6. n - fit >= 1
    BY <1>8, <2>1, <2>4
  <2> QED BY <2>3, <2>4, <2>5, <2>6
<1>10. PathRight(p, base, sub, file)
  BY <1>4, <1>5, <1>6, <1>7, <1>9 DEF PathRight
<1> QED BY <1>1, <1>10


-----------------------------------------------------------------------------
(* The line number program *)

\* The quotient and the remainder of what is made of them.
LEMMA DivMod ==
  ASSUME NEW w \in Nat \ {0}, NEW q \in Int, NEW e \in 0 .. w - 1, NEW x, x = w * q + e
  PROVE  x \div w = q /\ x % w = e
<1>0. x \in Int
  OBVIOUS
<1>1. PICK c \in Int, b \in 0 .. w - 1 : c = x \div w /\ b = x % w /\ x = w * c + b
  BY <1>0, ModDef
<1>2. (q - c) * w = b - e
  <2>1. (q - c) * w = w * q - w * c
    OBVIOUS
  <2> QED BY <1>1, <2>1
<1>3. PICK y \in Int : y = q - c
  OBVIOUS
<1>4. y = 0
  <2>1. y * w = b - e
    BY <1>2, <1>3
  <2>2. y * w < w /\ -w < y * w
    BY <2>1
  <2> QED BY <2>2, NearZero
<1> QED BY <1>1, <1>2, <1>3, <1>4

Registers == [address : Nat, file : Nat, line : Int]

\* The instruction i leads from the registers r to the registers q: neither the
\* type nor the address goes back.
Leads(r, i, q) == /\ Step(r, i).regs = q /\ q \in Registers /\ r.address <= q.address
                  /\ Step(r, i).ret \in {"COMMIT", "CONTINUE", "END"}

LEMMA HeaderIs ==
  /\ MinLength \in Nat /\ LineBase \in Int /\ LineRange \in Nat \ {0}
  /\ OpcodeBase \in Nat /\ OpcodeBase \in 10 .. MaxOpcode /\ MaxOpcode \in Nat
BY DwarfAssumption

\* What an instruction leads to is a record of registers.
LEMMA RegistersIs ==
  ASSUME NEW q
  PROVE  q \in Registers <=> /\ q = [address |-> q.address, file |-> q.file, line |-> q.line]
                             /\ q.address \in Nat /\ q.file \in Nat /\ q.line \in Int
BY DEF Registers

\* A special opcode moves the address and the line by what it was made of.
LEMMA SpecialLeads ==
  ASSUME NEW r \in Registers, NEW da \in Nat, NEW dl \in LineBase .. LineBase + LineRange - 1
  PROVE  Leads(r, [op |-> OpcodeBase + LineRange * da + dl - LineBase],
               [r EXCEPT !.address = @ + MinLength * da, !.line = @ + dl])
<1> DEFINE op == OpcodeBase + LineRange * da + dl - LineBase
           i == [op |-> op]
           a == r.address + MinLength * da
<1>1. /\ r.address \in Nat /\ r.file \in Nat /\ r.line \in Int /\ dl \in Int
      /\ r = [address |-> r.address, file |-> r.file, line |-> r.line]
  BY HeaderIs DEF Registers
<1>2. PICK p \in Nat : p = LineRange * da
  BY HeaderIs
<1>3. op \in Int /\ op >= OpcodeBase /\ op - OpcodeBase = p + (dl - LineBase) /\ dl - LineBase \in 0 .. LineRange - 1
  BY <1>1, <1>2, HeaderIs
<1>4. (op - OpcodeBase) \div LineRange = da /\ (op - OpcodeBase) % LineRange = dl - LineBase
  <2>1. op - OpcodeBase = LineRange * da + (dl - LineBase)
    BY <1>2, <1>3
  <2>2. PICK x, e : x = op - OpcodeBase /\ e = dl - LineBase
    OBVIOUS
  <2>3. LineRange \in Nat \ {0} /\ da \in Int /\ e \in 0 .. LineRange - 1 /\ x = LineRange * da + e
    BY <1>3, <2>1, <2>2, HeaderIs
  <2> HIDE DEF op
  <2>4. x \div LineRange = da /\ x % LineRange = e
    BY <2>3, DivMod
  <2> QED BY <2>2, <2>4
<1>5. MinLength * da \in Nat
  BY HeaderIs
<1> HIDE DEF op
<1>6. Step(r, i) = [regs |-> [address |-> a, file |-> r.file, line |-> r.line + LineBase + (dl - LineBase)], ret |-> "COMMIT"]
  <2>1. i.op = op /\ i.op >= OpcodeBase
    BY <1>3
  <2>2. Step(r, i) = [regs |-> [address |-> r.address + MinLength * ((op - OpcodeBase) \div LineRange), file |-> r.file,
                                line |-> r.line + LineBase + ((op - OpcodeBase) % LineRange)], ret |-> "COMMIT"]
    <3> HIDE DEF i
    <3>1. i.op # 0 /\ i.op # 1 /\ i.op # 2 /\ i.op # 3 /\ i.op # 4 /\ i.op # 8 /\ i.op # 9
      BY <1>3, <2>1, HeaderIs
    <3> QED BY <2>1, <3>1 DEF Step
  <2> QED BY <1>4, <2>2
<1>7. r.line + LineBase + (dl - LineBase) = r.line + dl
  BY <1>1, HeaderIs
<1>8. [r EXCEPT !.address = @ + MinLength * da, !.line = @ + dl] = [address |-> a, file |-> r.file, line |-> r.line + dl]
  <2>1. [r EXCEPT !.address = @ + MinLength * da, !.line = @ + dl] = [[r EXCEPT !.address = a] EXCEPT !.line = @ + dl]
    BY <1>1
  <2>2. [r EXCEPT !.address = a] = [address |-> a, file |-> r.file, line |-> r.line]
    BY <1>1
  <2>3. [[address |-> a, file |-> r.file, line |-> r.line] EXCEPT !.line = @ + dl] = [address |-> a, file |-> r.file, line |-> r.line + dl]
    OBVIOUS
  <2> HIDE DEF a
  <2> QED BY <2>1, <2>2, <2>3
<1>9. a \in Nat /\ r.address <= a /\ r.line + dl \in Int
  BY <1>1, <1>5
<1> HIDE DEF a
<1>10. [address |-> a, file |-> r.file, line |-> r.line + dl] \in Registers
  BY <1>1, <1>9 DEF Registers
<1>11. Leads(r, i, [address |-> a, file |-> r.file, line |-> r.line + dl])
  BY <1>6, <1>7, <1>9, <1>10 DEF Leads
<1> QED BY <1>8, <1>11 DEF op, a

\* The other instructions do what they mean.
LEMMA OperandLeads ==
  ASSUME NEW r \in Registers, NEW s \in Operands
  PROVE  /\ Leads(r, [op |-> 2, arg |-> s], [r EXCEPT !.address = @ + MinLength * UnsignedValue(s)])
         /\ Leads(r, [op |-> 3, arg |-> s], [r EXCEPT !.line = @ + SignedValue(s)])
         /\ Leads(r, [op |-> 4, arg |-> s], [r EXCEPT !.file = UnsignedValue(s)])
<1>1. /\ r.address \in Nat /\ r.file \in Nat /\ r.line \in Int
      /\ r = [address |-> r.address, file |-> r.file, line |-> r.line]
  BY DEF Registers
<1>2. /\ ReadULEB(s) = UnsignedValue(s) /\ UnsignedValue(s) \in Nat
      /\ ReadSLEB(s) = SignedValue(s) /\ SignedValue(s) \in Int
  BY ReadsNumbers
<1>3. MinLength * UnsignedValue(s) \in Nat
  BY <1>2, HeaderIs
<1>4. OpcodeBase \in Nat /\ OpcodeBase > 9
  BY HeaderIs
<1>5. Leads(r, [op |-> 2, arg |-> s], [r EXCEPT !.address = @ + MinLength * UnsignedValue(s)])
  <2> DEFINE q == [address |-> r.address + MinLength * UnsignedValue(s), file |-> r.file, line |-> r.line]
  <2>1. [r EXCEPT !.address = @ + MinLength * UnsignedValue(s)] = q
    BY <1>1
  <2>2. Step(r, [op |-> 2, arg |-> s]) = [regs |-> q, ret |-> "CONTINUE"]
    BY <1>2, <1>4 DEF Step
  <2>3. q \in Registers /\ r.address <= q.address
    BY <1>1, <1>3 DEF Registers
  <2> HIDE DEF q
  <2>4. Leads(r, [op |-> 2, arg |-> s], q)
    BY <2>2, <2>3 DEF Leads
  <2> QED BY <2>1, <2>4, Zenon
<1>6. Leads(r, [op |-> 3, arg |-> s], [r EXCEPT !.line = @ + SignedValue(s)])
  <2> DEFINE q == [address |-> r.address, file |-> r.file, line |-> r.line + SignedValue(s)]
  <2>1. [r EXCEPT !.line = @ + SignedValue(s)] = q
    BY <1>1
  <2>2. Step(r, [op |-> 3, arg |-> s]) = [regs |-> q, ret |-> "CONTINUE"]
    BY <1>2, <1>4 DEF Step
  <2>3. q \in Registers /\ r.address <= q.address
    BY <1>1, <1>2 DEF Registers
  <2> HIDE DEF q
  <2>4. Leads(r, [op |-> 3, arg |-> s], q)
    BY <2>2, <2>3 DEF Leads
  <2> QED BY <2>1, <2>4, Zenon
<1>7. Leads(r, [op |-> 4, arg |-> s], [r EXCEPT !.file = UnsignedValue(s)])
  <2> DEFINE q == [address |-> r.address, file |-> UnsignedValue(s), line |-> r.line]
  <2>1. [r EXCEPT !.file = UnsignedValue(s)] = q
    BY <1>1
  <2>2. Step(r, [op |-> 4, arg |-> s]) = [regs |-> q, ret |-> "CONTINUE"]
    BY <1>2, <1>4 DEF Step
  <2>3. q \in Registers /\ r.address <= q.address
    BY <1>1, <1>2 DEF Registers
  <2> HIDE DEF q
  <2>4. Leads(r, [op |-> 4, arg |-> s], q)
    BY <2>2, <2>3 DEF Leads
  <2> QED BY <2>1, <2>4, Zenon
<1> QED BY <1>5, <1>6, <1>7

LEMMA FixedLeads ==
  ASSUME NEW r \in Registers, NEW n \in Nat
  PROVE  Leads(r, [op |-> 9, arg |-> n], [r EXCEPT !.address = @ + n])
<1>1. /\ r.address \in Nat /\ r.file \in Nat /\ r.line \in Int
      /\ r = [address |-> r.address, file |-> r.file, line |-> r.line]
  BY DEF Registers
<1>2. OpcodeBase \in Nat /\ OpcodeBase > 9
  BY HeaderIs
<1> DEFINE q == [address |-> r.address + n, file |-> r.file, line |-> r.line]
<1>3. [r EXCEPT !.address = @ + n] = q
  BY <1>1
<1>4. Step(r, [op |-> 9, arg |-> n]) = [regs |-> q, ret |-> "CONTINUE"]
  BY <1>2 DEF Step
<1>5. q \in Registers /\ r.address <= q.address
  BY <1>1 DEF Registers
<1> HIDE DEF q
<1>6. Leads(r, [op |-> 9, arg |-> n], q)
  BY <1>4, <1>5 DEF Leads
<1> QED BY <1>3, <1>6, Zenon

LEMMA QuietLeads ==
  ASSUME NEW r \in Registers, NEW op \in {1, 5, 6, 7}
  PROVE  Leads(r, [op |-> op], r)
<1>1. /\ r.address \in Nat /\ r = [address |-> r.address, file |-> r.file, line |-> r.line]
  BY DEF Registers
<1>2. OpcodeBase \in Nat /\ OpcodeBase > 9
  BY HeaderIs
<1>3. Step(r, [op |-> op]).regs = r /\ Step(r, [op |-> op]).ret \in {"COMMIT", "CONTINUE"}
  <2>1. CASE op = 1
    BY <1>1, <1>2, <2>1 DEF Step
  <2>2. CASE op # 1
    BY <1>1, <1>2, <2>2 DEF Step
  <2> QED BY <2>1, <2>2
<1> QED BY <1>1, <1>3 DEF Leads

LEMMA ConstLeads ==
  ASSUME NEW r \in Registers
  PROVE  Leads(r, [op |-> 8], [r EXCEPT !.address = @ + MinLength * ((MaxOpcode - OpcodeBase) \div LineRange)])
<1>1. /\ r.address \in Nat /\ r.file \in Nat /\ r.line \in Int
      /\ r = [address |-> r.address, file |-> r.file, line |-> r.line]
  BY DEF Registers
<1>2. OpcodeBase \in Nat /\ OpcodeBase > 9
  BY HeaderIs
<1>3. PICK d \in Nat : d = (MaxOpcode - OpcodeBase) \div LineRange
  BY HeaderIs
<1>4. MinLength * d \in Nat
  BY HeaderIs
<1> DEFINE q == [address |-> r.address + MinLength * d, file |-> r.file, line |-> r.line]
<1>5. [r EXCEPT !.address = @ + MinLength * d] = q
  BY <1>1
<1>6. Step(r, [op |-> 8]) = [regs |-> q, ret |-> "CONTINUE"]
  BY <1>2, <1>3 DEF Step
<1>7. q \in Registers /\ r.address <= q.address
  BY <1>1, <1>4 DEF Registers
<1> HIDE DEF q
<1>8. Leads(r, [op |-> 8], q)
  BY <1>6, <1>7 DEF Leads
<1> QED BY <1>3, <1>5, <1>8

LEMMA ExtendedLeads ==
  ASSUME NEW r \in Registers, NEW ext \in 1 .. 4, NEW a \in Nat, ext = 2 => a >= r.address
  PROVE  Leads(r, [op |-> 0, ext |-> ext, arg |-> a], IF ext = 2 THEN [r EXCEPT !.address = a] ELSE r)
<1>1. /\ r.address \in Nat /\ r.file \in Nat /\ r.line \in Int
      /\ r = [address |-> r.address, file |-> r.file, line |-> r.line]
  BY DEF Registers
<1>2. OpcodeBase \in Nat /\ OpcodeBase > 9
  BY HeaderIs
<1> DEFINE i == [op |-> 0, ext |-> ext, arg |-> a]
<1>3. CASE ext = 2
  <2> DEFINE q == [address |-> a, file |-> r.file, line |-> r.line]
  <2>1. [r EXCEPT !.address = a] = q
    BY <1>1
  <2>2. Step(r, i) = [regs |-> q, ret |-> "CONTINUE"]
    BY <1>2, <1>3 DEF Step
  <2>3. q \in Registers /\ r.address <= q.address
    BY <1>1, <1>3 DEF Registers
  <2> HIDE DEF q
  <2> QED BY <1>3, <2>1, <2>2, <2>3 DEF Leads
<1>4. CASE ext = 1
  <2>1. Step(r, i) = [regs |-> r, ret |-> "END"]
    BY <1>1, <1>2, <1>4 DEF Step
  <2> QED BY <1>1, <1>4, <2>1 DEF Leads
<1>5. CASE ext \in {3, 4}
  <2>1. Step(r, i) = [regs |-> r, ret |-> "CONTINUE"]
    BY <1>1, <1>2, <1>5 DEF Step
  <2> QED BY <1>1, <1>5, <2>1 DEF Leads
<1> QED BY <1>3, <1>4, <1>5

-----------------------------------------------------------------------------
(* FindAddress *)

\* The location has its fields.
LocationIs == location = [has_main |-> location.has_main, main |-> location.main, has_line |-> location.has_line,
                          file |-> location.file, line |-> location.line]

\* The attributes have the values a unit may have.
SeenIs == /\ "comp_dir" \in DOMAIN seen => seen["comp_dir"] \in Seq(STRING)
          /\ "name" \in DOMAIN seen => seen["name"] \in Seq(STRING)

\* The main file is that of the attributes.
MainIs == location.has_main => "name" \in DOMAIN seen /\ location.main = Path(CompDir, Empty, seen["name"])

\* The scan knows the ends row of the sequence, and whether the sequence has
\* started at or before the target.
RowsAre == \/ row = <<>> /\ scan.state = "START"
          \/ \E x \in Registers :
                /\ row = <<x>> /\ x.address <= meant.address
                /\ \/ scan.state = "LOW_SEQ" /\ x.address <= target /\ scan.prev_file = x.file /\ scan.prev_line = x.line
                   \/ scan.state = "HIGH_SEQ" /\ x.address > target

\* While the program runs, the registers are the ones it means, no row spans the
\* target, and no line is given.
ProgramIs == regs = meant /\ RowsAre /\ owner = <<>> /\ ~ location.has_line

\* What FindAddress has returned.
AnswerIs ==
    /\ answer = "false" => hit = 0
    /\ answer = "true" =>
          /\ hit = unit
          /\ location.has_line <=> (owner # <<>> /\ owner[1].file # 0)
          /\ location.has_line =>
                /\ owner[1].file \in 1 .. Len(FileNames) /\ location.line = owner[1].line
                /\ location.file = Path(CompDir, GetIncludeDirectory(FileNames[owner[1].file].dir),
                                        FileNames[owner[1].file].name)
    /\ (answer = "abort" /\ owner # <<>>) => owner[1].file > Len(FileNames)

DwarfInv ==
    /\ target \in Nat /\ meant \in Registers /\ LocationIs /\ SeenIs /\ MainIs
    /\ dpc \in {"start", "chunk", "range", "unit", "attrs", "vm", "done"}
    /\ dpc \in {"start", "chunk", "range"} => hit = 0
    /\ dpc \in {"unit", "attrs", "vm"} => hit = unit
    /\ dpc \in {"start", "chunk", "range", "unit", "attrs"} => row = <<>> /\ ~ location.has_main
    /\ dpc # "done" => ProgramIs
    /\ dpc = "done" => AnswerIs

\* The location of a row of the table of files, or none of it.
LEMMA LocateIs ==
  ASSUME NEW file \in Nat \ {0}, NEW ln, Locate(file, ln), LocationIs
  PROVE  \/ file > Len(FileNames) /\ answer' = "abort" /\ UNCHANGED location
         \/ /\ file \in 1 .. Len(FileNames) /\ answer' = "true"
            /\ location' = [has_main |-> location.has_main, main |-> location.main, has_line |-> TRUE,
                            file |-> Path(CompDir, GetIncludeDirectory(FileNames[file].dir), FileNames[file].name),
                            line |-> ln]
<1>0. Len(FileNames) \in Nat
  BY DwarfAssumption
<1>1. NextDefineFile = {}
  BY DEF NextDefineFile
<1>2. CASE file > Len(FileNames)
  BY <1>1, <1>2 DEF Locate
<1>3. CASE ~ (file > Len(FileNames))
  <2>1. file \in 1 .. Len(FileNames)
    BY <1>0, <1>3
  <2>2. GetFileName(file) = FileNames[file]
    BY <2>1 DEF GetFileName
  <2> DEFINE p == Path(CompDir, GetIncludeDirectory(FileNames[file].dir), FileNames[file].name)
  <2>3. answer' = "true" /\ location' = [location EXCEPT !.has_line = TRUE, !.line = ln, !.file = p]
    BY <1>3, <2>2 DEF Locate
  <2> HIDE DEF p
  <2>4. [location EXCEPT !.has_line = TRUE, !.line = ln, !.file = p]
          = [has_main |-> location.has_main, main |-> location.main, has_line |-> TRUE, file |-> p, line |-> ln]
    <3>0. PICK yes : yes = TRUE
      OBVIOUS
    <3>1. PICK a, b, c, d, e : location = [has_main |-> a, main |-> b, has_line |-> c, file |-> d, line |-> e]
      BY DEF LocationIs
    <3>2. [location EXCEPT !.has_line = yes, !.line = ln, !.file = p]
            = [[[location EXCEPT !.has_line = yes] EXCEPT !.line = ln] EXCEPT !.file = p]
      BY <3>1
    <3>3. [location EXCEPT !.has_line = yes] = [has_main |-> a, main |-> b, has_line |-> yes, file |-> d, line |-> e]
      BY <3>1
    <3>4. [[has_main |-> a, main |-> b, has_line |-> yes, file |-> d, line |-> e] EXCEPT !.line = ln]
            = [has_main |-> a, main |-> b, has_line |-> yes, file |-> d, line |-> ln]
      OBVIOUS
    <3>5. [[has_main |-> a, main |-> b, has_line |-> yes, file |-> d, line |-> ln] EXCEPT !.file = p]
            = [has_main |-> a, main |-> b, has_line |-> yes, file |-> p, line |-> ln]
      OBVIOUS
    <3>6. a = location.has_main /\ b = location.main
      BY <3>1
    <3>7. [location EXCEPT !.has_line = yes, !.line = ln, !.file = p]
          = [has_main |-> location.has_main, main |-> location.main, has_line |-> yes, file |-> p, line |-> ln]
      BY <3>2, <3>3, <3>4, <3>5, <3>6
    <3> QED BY <3>0, <3>7, Zenon
  <2> QED BY <2>1, <2>3, <2>4 DEF p
<1> QED BY <1>2, <1>3

\* One instruction of the program.
LEMMA ExecuteKeeps ==
  ASSUME DwarfInv, NEW i, NEW means, Execute(i, means), Leads(meant, i, means)
  PROVE  DwarfInv'
<1> DEFINE s == Step(regs, i)
           end == s.ret = "END"
           state == IF scan.state = "START" /\ ~ end
                    THEN (IF s.regs.address <= target THEN "LOW_SEQ" ELSE "HIGH_SEQ")
                    ELSE scan.state
<1>1. dpc = "vm" /\ ProgramIs /\ hit = unit /\ UNCHANGED <<target, unit, seen, hit>>
  BY DEF Execute, DwarfInv, walk
<1>2. /\ regs = meant /\ s.regs = means /\ means \in Registers /\ meant.address <= means.address
      /\ s.ret \in {"COMMIT", "CONTINUE", "END"}
  BY <1>1 DEF ProgramIs, Leads
<1>3. /\ target \in Nat /\ meant \in Registers /\ meant.address \in Nat /\ means.address \in Nat
      /\ [address |-> means.address, file |-> means.file, line |-> means.line] = means
      /\ Reset \in Registers
  BY <1>2 DEF DwarfInv, Registers, Reset
<1>4. meant' = (IF end THEN Reset ELSE means) /\ meant' \in Registers
  BY <1>2, <1>3 DEF Execute
<1>5. /\ owner = <<>> /\ ~ location.has_line /\ LocationIs /\ SeenIs' /\ MainIs
      /\ target' \in Nat /\ CompDir' = CompDir
  BY <1>1 DEF DwarfInv, ProgramIs, SeenIs, CompDir
<1>6. UNCHANGED location => LocationIs' /\ MainIs' /\ ~ location'.has_line
  BY <1>1, <1>5 DEF LocationIs, MainIs
<1>7. CASE s.ret = "CONTINUE"
  <2>1. regs' = means /\ UNCHANGED <<dpc, scan, location, answer, row, owner>> /\ meant' = means
    BY <1>2, <1>4, <1>7 DEF Execute
  <2>2. RowsAre'
    <3>1. CASE row = <<>> /\ scan.state = "START"
      BY <2>1, <3>1 DEF RowsAre
    <3>2. ASSUME NEW x \in Registers,
                 /\ row = <<x>> /\ x.address <= meant.address
                 /\ \/ scan.state = "LOW_SEQ" /\ x.address <= target /\ scan.prev_file = x.file /\ scan.prev_line = x.line
                    \/ scan.state = "HIGH_SEQ" /\ x.address > target
          PROVE  RowsAre'
      <4>1. x.address <= means.address
        BY <1>2, <1>3, <3>2 DEF Registers
      <4> QED BY <1>1, <2>1, <3>2, <4>1 DEF RowsAre
    <3> QED BY <1>1, <3>1, <3>2 DEF ProgramIs, RowsAre
  <2>3. ProgramIs'
    BY <1>5, <1>6, <2>1, <2>2 DEF ProgramIs
  <2> QED BY <1>1, <1>4, <1>5, <1>6, <2>1, <2>3 DEF DwarfInv
<1>8. CASE s.ret # "CONTINUE"
  <2>1. /\ row' = IF end THEN <<>> ELSE <<means>>
        /\ owner' = IF owner = <<>> /\ row # <<>> /\ target \in row[1].address .. means.address - 1 THEN row ELSE owner
        /\ IF state = "LOW_SEQ" /\ Crossed(means.address)
           THEN /\ dpc' = "done"
                /\ IF scan.prev_file = 0 THEN answer' = "true" /\ UNCHANGED location
                   ELSE Locate(scan.prev_file, scan.prev_line)
           ELSE /\ regs' = IF end THEN Reset ELSE means
                /\ scan' = [state |-> IF end THEN "START" ELSE state,
                            prev_file |-> IF state = "LOW_SEQ" THEN means.file ELSE scan.prev_file,
                            prev_line |-> IF state = "LOW_SEQ" THEN means.line ELSE scan.prev_line]
                /\ UNCHANGED <<dpc, location, answer>>
    BY <1>2, <1>3, <1>8 DEF Execute
  <2>2. Crossed(means.address) <=> means.address > target
    BY DEF Crossed
  <2>3. state = IF scan.state = "START" /\ ~ end THEN (IF means.address <= target THEN "LOW_SEQ" ELSE "HIGH_SEQ")
                ELSE scan.state
    BY <1>2
  <2> HIDE DEF s, state
  <2>4. CASE state = "LOW_SEQ" /\ means.address > target
    <3>1. PICK x \in Registers : row = <<x>> /\ x.address <= target /\ scan.prev_file = x.file /\ scan.prev_line = x.line
      <4>1. scan.state = "LOW_SEQ"
        BY <1>3, <2>3, <2>4
      <4> QED BY <1>1, <4>1 DEF ProgramIs, RowsAre
    <3>2. owner' = <<x>>
      <4>1. x.address \in Nat /\ row # <<>> /\ row[1] = x
        BY <3>1 DEF Registers
      <4>2. target \in x.address .. means.address - 1
        BY <1>3, <2>4, <3>1, <4>1
      <4> QED BY <1>5, <2>1, <3>1, <4>1, <4>2
    <3>3. dpc' = "done" /\ IF x.file = 0 THEN answer' = "true" /\ UNCHANGED location ELSE Locate(x.file, x.line)
      BY <2>1, <2>2, <2>4, <3>1
    <3>4. owner'[1] = x /\ owner' # <<>> /\ x.file \in Nat
      BY <3>2 DEF Registers
    <3>5. CASE x.file = 0
      <4>1. AnswerIs'
        BY <1>1, <1>6, <3>3, <3>4, <3>5 DEF AnswerIs
      <4> QED BY <1>4, <1>5, <1>6, <3>3, <3>5, <4>1 DEF DwarfInv
    <3>6. CASE x.file # 0
      <4>0. Locate(x.file, x.line) /\ x.file \in Nat \ {0}
        BY <3>3, <3>4, <3>6
      <4>00. PICK fl, ln : fl = x.file /\ ln = x.line
        OBVIOUS
      <4>1. \/ fl > Len(FileNames) /\ answer' = "abort" /\ UNCHANGED location
            \/ /\ fl \in 1 .. Len(FileNames) /\ answer' = "true"
               /\ location' = [has_main |-> location.has_main, main |-> location.main, has_line |-> TRUE,
                               file |-> Path(CompDir, GetIncludeDirectory(FileNames[fl].dir), FileNames[fl].name),
                               line |-> ln]
        BY <1>5, <4>0, <4>00, LocateIs
      <4>2. CASE fl > Len(FileNames) /\ answer' = "abort" /\ UNCHANGED location
        <5>1. AnswerIs'
          BY <3>4, <4>00, <4>2 DEF AnswerIs
        <5> QED BY <1>4, <1>5, <1>6, <3>3, <4>2, <5>1 DEF DwarfInv
      <4>3. ASSUME fl \in 1 .. Len(FileNames), answer' = "true",
                   location' = [has_main |-> location.has_main, main |-> location.main, has_line |-> TRUE,
                                file |-> Path(CompDir, GetIncludeDirectory(FileNames[fl].dir), FileNames[fl].name),
                                line |-> ln]
            PROVE  DwarfInv'
        <5> DEFINE p == Path(CompDir, GetIncludeDirectory(FileNames[fl].dir), FileNames[fl].name)
        <5>1. /\ location'.has_main = location.has_main /\ location'.main = location.main /\ location'.has_line = TRUE
              /\ location'.line = ln /\ location'.file = p /\ LocationIs'
          <6> HIDE DEF p
          <6>1. location' = [has_main |-> location.has_main, main |-> location.main, has_line |-> TRUE, file |-> p, line |-> ln]
            BY <4>3 DEF p
          <6> QED BY <6>1 DEF LocationIs
        <5>2. MainIs'
          BY <1>1, <1>5, <5>1 DEF MainIs
        <5>3. p = Path(CompDir, GetIncludeDirectory(FileNames[owner[1].file].dir), FileNames[owner[1].file].name)'
          BY <1>5, <3>4, <4>00 DEF GetIncludeDirectory
        <5> HIDE DEF p
        <5>4. AnswerIs'
          BY <1>1, <3>4, <4>0, <4>00, <4>3, <5>1, <5>3 DEF AnswerIs
        <5> QED BY <1>4, <1>5, <3>3, <5>1, <5>2, <5>4 DEF DwarfInv
      <4> QED BY <4>1, <4>2, <4>3
    <3> QED BY <3>5, <3>6
  <2>5. CASE ~ (state = "LOW_SEQ" /\ means.address > target)
    <3>1. /\ regs' = IF end THEN Reset ELSE means
          /\ scan' = [state |-> IF end THEN "START" ELSE state,
                      prev_file |-> IF state = "LOW_SEQ" THEN means.file ELSE scan.prev_file,
                      prev_line |-> IF state = "LOW_SEQ" THEN means.line ELSE scan.prev_line]
          /\ UNCHANGED <<dpc, location, answer>>
      BY <2>1, <2>2, <2>5
    <3>2. owner' = <<>>
      <4>1. ASSUME NEW x \in Registers, row = <<x>>, x.address <= meant.address,
                   \/ scan.state = "LOW_SEQ" /\ x.address <= target
                   \/ scan.state = "HIGH_SEQ" /\ x.address > target
            PROVE  target \notin x.address .. means.address - 1
        <5>1. x.address \in Nat /\ state = scan.state
          BY <2>3, <4>1 DEF Registers
        <5> QED BY <1>3, <2>5, <4>1, <5>1
      <4>2. row = <<>> \/ \E x \in Registers : row = <<x>> /\ target \notin x.address .. means.address - 1
        BY <1>1, <4>1 DEF ProgramIs, RowsAre
      <4>3. ~ (row # <<>> /\ target \in row[1].address .. means.address - 1)
        BY <4>2
      <4> QED BY <1>5, <2>1, <4>3
    <3>3. RowsAre'
      <4>1. CASE end
        <5>1. row' = <<>> /\ scan'.state = "START"
          BY <2>1, <3>1, <4>1
        <5> QED BY <5>1 DEF RowsAre
      <4>2. CASE ~ end
        <5>1. row' = <<means>> /\ meant' = means /\ scan'.state = state
          BY <1>4, <2>1, <3>1, <4>2
        <5>2. CASE state = "LOW_SEQ"
          <6>1. means.address <= target /\ scan'.prev_file = means.file /\ scan'.prev_line = means.line
            BY <1>3, <2>5, <3>1, <5>2
          <6>2. means.address <= means.address
            BY <1>3
          <6> QED BY <1>1, <1>2, <5>1, <5>2, <6>1, <6>2 DEF RowsAre
        <5>3. CASE state # "LOW_SEQ"
          <6>1. state = "HIGH_SEQ" /\ means.address > target
            <7>1. CASE scan.state = "START"
              BY <1>3, <2>3, <4>2, <5>3, <7>1
            <7>2. ASSUME NEW x \in Registers, x.address <= meant.address, scan.state = "HIGH_SEQ", x.address > target
                  PROVE  state = "HIGH_SEQ" /\ means.address > target
              <8>1. x.address \in Nat
                BY DEF Registers
              <8> QED BY <1>2, <1>3, <2>3, <7>2, <8>1
            <7>3. scan.state = "LOW_SEQ" => FALSE
              BY <2>3, <5>3
            <7> QED BY <1>1, <7>1, <7>2, <7>3 DEF ProgramIs, RowsAre
          <6>2. means.address <= means.address
            BY <1>3
          <6> QED BY <1>1, <1>2, <5>1, <6>1, <6>2 DEF RowsAre
        <5> QED BY <5>2, <5>3
      <4> QED BY <4>1, <4>2
    <3>4. ProgramIs'
      BY <1>4, <1>5, <1>6, <3>1, <3>2, <3>3 DEF ProgramIs
    <3> QED BY <1>1, <1>4, <1>5, <1>6, <3>1, <3>4 DEF DwarfInv
  <2> QED BY <2>4, <2>5
<1> QED BY <1>7, <1>8

\* The program keeps the invariant.
LEMMA ProgramKeeps ==
  ASSUME DwarfInv, Program
  PROVE  DwarfInv'
<1>0. meant \in Registers
  BY DEF DwarfInv
<1> DEFINE Reaches == \E i, q : Execute(i, q) /\ Leads(meant, i, q)
<1>1. ASSUME NEW da \in 0 .. MaxAddress, NEW dl \in -MaxLine .. MaxLine, Special(da, dl) PROVE Reaches
  <2> DEFINE i == [op |-> OpcodeBase + LineRange * da + dl - LineBase]
  <2>1. da \in Nat /\ dl \in LineBase .. LineBase + LineRange - 1
    BY <1>1 DEF Special
  <2>2. PICK q : q = [meant EXCEPT !.address = @ + MinLength * da, !.line = @ + dl]
    OBVIOUS
  <2>3. Execute(i, [meant EXCEPT !.address = @ + MinLength * da, !.line = @ + dl])
    BY <1>1 DEF Special
  <2>4. Leads(meant, i, [meant EXCEPT !.address = @ + MinLength * da, !.line = @ + dl])
    BY <1>0, <2>1, SpecialLeads
  <2> HIDE DEF i
  <2>5. Execute(i, q)
    BY <2>2, <2>3
  <2> QED BY <2>2, <2>4, <2>5
<1>2. ASSUME NEW n \in 0 .. MaxAddress, AdvanceFixed(n) PROVE Reaches
  <2>1. PICK q : q = [meant EXCEPT !.address = @ + n]
    OBVIOUS
  <2>2. n \in Nat
    OBVIOUS
  <2>3. Leads(meant, [op |-> 9, arg |-> n], [meant EXCEPT !.address = @ + n])
    BY <1>0, <2>2, FixedLeads
  <2>4. Execute([op |-> 9, arg |-> n], q)
    BY <1>2, <2>1 DEF AdvanceFixed
  <2> QED BY <2>1, <2>3, <2>4
<1>3. ASSUME NEW s \in Operands, Advance(s) PROVE Reaches
  <2>1. PICK q : q = [meant EXCEPT !.address = @ + MinLength * UnsignedValue(s)]
    OBVIOUS
  <2>2. Leads(meant, [op |-> 2, arg |-> s], [meant EXCEPT !.address = @ + MinLength * UnsignedValue(s)])
    BY <1>0, OperandLeads
  <2>3. Execute([op |-> 2, arg |-> s], q)
    BY <1>3, <2>1 DEF Advance
  <2> QED BY <2>1, <2>2, <2>3
<1>4. ASSUME NEW s \in Operands, AdvanceLine(s) PROVE Reaches
  <2>1. PICK q : q = [meant EXCEPT !.line = @ + SignedValue(s)]
    OBVIOUS
  <2>2. Leads(meant, [op |-> 3, arg |-> s], [meant EXCEPT !.line = @ + SignedValue(s)])
    BY <1>0, OperandLeads
  <2>3. Execute([op |-> 3, arg |-> s], q)
    BY <1>4, <2>1 DEF AdvanceLine
  <2> QED BY <2>1, <2>2, <2>3
<1>5. ASSUME NEW s \in Operands, SetFile(s) PROVE Reaches
  <2>1. PICK q : q = [meant EXCEPT !.file = UnsignedValue(s)]
    OBVIOUS
  <2>2. Leads(meant, [op |-> 4, arg |-> s], [meant EXCEPT !.file = UnsignedValue(s)])
    BY <1>0, OperandLeads
  <2>3. Execute([op |-> 4, arg |-> s], q)
    BY <1>5, <2>1 DEF SetFile
  <2> QED BY <2>1, <2>2, <2>3
<1>6. ASSUME NEW op \in {1, 5, 6, 7}, Execute([op |-> op], meant) PROVE Reaches
  <2>1. PICK q : q = meant
    OBVIOUS
  <2>2. Leads(meant, [op |-> op], meant)
    BY <1>0, QuietLeads
  <2>3. Execute([op |-> op], q)
    BY <1>6, <2>1
  <2> QED BY <2>1, <2>2, <2>3
<1>7. ASSUME NEW ext \in 1 .. 4, NEW a \in 0 .. MaxAddress, Extended(ext, a) PROVE Reaches
  <2> DEFINE i == [op |-> 0, ext |-> ext, arg |-> a]
             e == IF ext = 2 THEN [meant EXCEPT !.address = a] ELSE meant
  <2>1. PICK q : q = e
    OBVIOUS
  <2>2. Execute(i, e) /\ (ext = 2 => a >= meant.address) /\ a \in Nat
    BY <1>7 DEF Extended
  <2>3. Leads(meant, i, e)
    BY <1>0, <2>2, ExtendedLeads
  <2> HIDE DEF i, e
  <2>4. Execute(i, q)
    BY <2>1, <2>2
  <2> QED BY <2>1, <2>3, <2>4
<1>8. ASSUME ConstAddPc PROVE Reaches
  <2> DEFINE e == [meant EXCEPT !.address = @ + MinLength * ((MaxOpcode - OpcodeBase) \div LineRange)]
  <2>1. PICK q : q = e
    OBVIOUS
  <2>2. Leads(meant, [op |-> 8], e)
    BY <1>0, ConstLeads
  <2>3. Execute([op |-> 8], e)
    BY <1>8 DEF ConstAddPc
  <2> HIDE DEF e
  <2>4. Execute([op |-> 8], q)
    BY <2>1, <2>3
  <2> QED BY <2>1, <2>2, <2>4
<1>9. ASSUME NEW op \in {5, 6, 7}, Flags(op) PROVE Reaches
  BY <1>6, <1>9 DEF Flags
<1>10. ASSUME Copy PROVE Reaches
  BY <1>6, <1>10 DEF Copy
<1>11. Reaches
  <2> HIDE DEF Reaches
  <2> QED BY <1>1, <1>2, <1>3, <1>4, <1>5, <1>7, <1>8, <1>9, <1>10 DEF Program
<1> QED BY <1>11, ExecuteKeeps

\* The program is at its end: no row spans the target.
LEMMA ProgramEndKeeps ==
  ASSUME DwarfInv, ProgramEnds
  PROVE  DwarfInv'
<1>1. dpc = "vm" /\ dpc' = "done" /\ answer' = "true"
      /\ UNCHANGED <<target, unit, seen, hit, regs, scan, meant, row, owner, location>>
  BY DEF ProgramEnds, walk, line
<1>2. owner' = <<>> /\ ~ location'.has_line /\ hit' = unit'
  BY <1>1 DEF DwarfInv, ProgramIs
<1>3. AnswerIs'
  BY <1>1, <1>2 DEF AnswerIs
<1>4. LocationIs' /\ SeenIs' /\ MainIs' /\ meant' \in Registers /\ target' \in Nat
  BY <1>1 DEF DwarfInv, LocationIs, SeenIs, MainIs, CompDir
<1> QED BY <1>1, <1>3, <1>4 DEF DwarfInv

\* The steps before the program leave its registers and its rows alone.
Early == {"start", "chunk", "range", "unit", "attrs"}

LEMMA EarlyKeeps ==
  ASSUME DwarfInv, dpc \in Early, UNCHANGED <<target, line, location>>
  PROVE  /\ target' \in Nat /\ meant' \in Registers /\ LocationIs' /\ ~ location'.has_main /\ MainIs'
         /\ row' = <<>> /\ owner' = <<>> /\ ~ location'.has_line /\ ProgramIs'
<1>1. UNCHANGED <<target, regs, scan, meant, row, owner, location>>
  BY DEF line
<1>2. dpc # "done" /\ row = <<>> /\ ~ location.has_main /\ ProgramIs /\ scan.state = "START"
  <2>1. dpc # "done" /\ row = <<>> /\ ~ location.has_main /\ ProgramIs
    BY DEF DwarfInv, Early
  <2> QED BY <2>1 DEF ProgramIs, RowsAre
<1>3. RowsAre'
  BY <1>1, <1>2 DEF RowsAre
<1>4. ProgramIs' /\ owner' = <<>> /\ ~ location'.has_line
  BY <1>1, <1>2, <1>3 DEF ProgramIs
<1> QED BY <1>1, <1>2, <1>4 DEF DwarfInv, LocationIs, MainIs

LEMMA WalkKeeps ==
  ASSUME DwarfInv,
         \/ \E all \in BOOLEAN : Sections(all) \/ NextChunk(all)
         \/ \E start, length \in 0 .. MaxAddress : ReadRange(start, length)
         \/ \E abbrs \in Abbreviations : ReadUnit(abbrs, 1)
  PROVE  DwarfInv'
<1>1. dpc \in Early /\ UNCHANGED <<target, seen, line, location>>
  BY DEF Sections, NextChunk, ReadRange, ReadUnit, Early, walk
<1>2. /\ target' \in Nat /\ meant' \in Registers /\ LocationIs' /\ ~ location'.has_main /\ MainIs'
      /\ row' = <<>> /\ owner' = <<>> /\ ~ location'.has_line /\ ProgramIs'
  BY <1>1, EarlyKeeps
<1>3. SeenIs'
  BY <1>1 DEF DwarfInv, SeenIs
<1>4. ASSUME NEW all \in BOOLEAN, Sections(all) PROVE DwarfInv'
  <2>1. dpc = "start" /\ hit = 0 /\ hit' = hit /\ (dpc' = "chunk" \/ (dpc' = "done" /\ answer' = "false"))
    BY <1>4 DEF Sections, Return, DwarfInv, walk
  <2>2. dpc' = "done" => AnswerIs'
    BY <2>1 DEF AnswerIs
  <2> QED BY <1>2, <1>3, <2>1, <2>2 DEF DwarfInv
<1>5. ASSUME NEW more \in BOOLEAN, NextChunk(more) PROVE DwarfInv'
  <2>1. dpc = "chunk" /\ hit = 0 /\ hit' = hit /\ (dpc' = "range" \/ (dpc' = "done" /\ answer' = "false"))
    BY <1>5 DEF NextChunk, Return, DwarfInv
  <2>2. dpc' = "done" => AnswerIs'
    BY <2>1 DEF AnswerIs
  <2> QED BY <1>2, <1>3, <2>1, <2>2 DEF DwarfInv
<1>6. ASSUME NEW start \in 0 .. MaxAddress, NEW length \in 0 .. MaxAddress, ReadRange(start, length) PROVE DwarfInv'
  <2>1. dpc = "range" /\ hit = 0 /\ unit' = unit
    BY <1>6 DEF ReadRange, DwarfInv
  <2>2. target \in Nat /\ start \in Nat /\ length \in Nat
    BY DEF DwarfInv
  <2>3. \/ dpc' \in {"chunk", "range"} /\ hit' = 0
        \/ dpc' = "unit" /\ hit' = unit
    <3>1. (target >= start /\ target < start + length) <=> target \in start .. start + length - 1
      BY <2>2
    <3> QED BY <1>6, <2>1, <3>1 DEF ReadRange
  <2> QED BY <1>2, <1>3, <2>1, <2>3 DEF DwarfInv
<1>7. ASSUME NEW abbrs \in Abbreviations, ReadUnit(abbrs, 1) PROVE DwarfInv'
  <2>1. dpc = "unit" /\ hit' = unit' /\ (dpc' = "attrs" \/ (dpc' = "done" /\ answer' = "abort"))
    BY <1>7 DEF ReadUnit, Return, DwarfInv, walk
  <2>2. dpc' = "done" => AnswerIs'
    BY <1>2, <2>1 DEF AnswerIs
  <2> QED BY <1>2, <1>3, <2>1, <2>2 DEF DwarfInv
<1> QED BY <1>4, <1>5, <1>6, <1>7

\* An attribute is read.
LEMMA AttributeKeeps ==
  ASSUME DwarfInv, NEW name, NEW form, NEW value, NEW ends, ReadAttribute(name, form, value, ends),
         name \in {"comp_dir", "name"} => value \in Seq(STRING)
  PROVE  DwarfInv'
<1>1. dpc = "attrs" /\ dpc \in Early /\ hit' = unit' /\ UNCHANGED <<target, line, location>>
  BY DEF ReadAttribute, Early, DwarfInv
<1>2. /\ target' \in Nat /\ meant' \in Registers /\ LocationIs' /\ ~ location'.has_main /\ MainIs'
      /\ row' = <<>> /\ owner' = <<>> /\ ~ location'.has_line /\ ProgramIs'
  BY <1>1, EarlyKeeps
<1>3. SeenIs /\ \/ seen' = seen /\ dpc' = "done" /\ answer' = "abort"
                \/ /\ seen' = [n \in DOMAIN seen \cup {name} |-> IF n = name THEN value ELSE seen[n]]
                   /\ dpc' = "attrs"
                \/ seen' = seen /\ dpc' = "attrs"
  BY <1>1 DEF ReadAttribute, Return, DwarfInv
<1>4. SeenIs'
  BY <1>3 DEF SeenIs
<1>5. dpc' = "done" => AnswerIs'
  BY <1>1, <1>2, <1>3 DEF AnswerIs
<1> QED BY <1>1, <1>2, <1>3, <1>4, <1>5 DEF DwarfInv

\* The attributes are used.
LEMMA UseKeeps ==
  ASSUME DwarfInv, UseAttributes
  PROVE  DwarfInv'
<1>1. /\ dpc = "attrs" /\ hit' = unit' /\ UNCHANGED <<target, seen, regs, scan, meant, row, owner>>
      /\ dpc' = "vm" \/ (dpc' = "done" /\ answer' = "true")
  BY DEF UseAttributes, Return, DwarfInv, walk, line
<1>2. /\ target' \in Nat /\ meant' \in Registers /\ SeenIs' /\ LocationIs /\ ProgramIs
      /\ row = <<>> /\ ~ location.has_main /\ CompDir' = CompDir
  BY <1>1 DEF DwarfInv, SeenIs, CompDir
<1>3. LocationIs' /\ MainIs' /\ ~ location'.has_line
  <2>1. CASE location' = location
    BY <1>1, <1>2, <2>1 DEF LocationIs, MainIs, ProgramIs
  <2>2. CASE location' # location
    <3> DEFINE p == Path(CompDir, Empty, seen["name"])
    <3>1. "name" \in DOMAIN seen /\ location' = [location EXCEPT !.has_main = TRUE, !.main = p]
      BY <2>2 DEF UseAttributes
    <3>2. p = Path(CompDir', Empty, seen'["name"])
      BY <1>1, <1>2
    <3> HIDE DEF p
    <3>3. PICK yes : yes = TRUE
      OBVIOUS
    <3>4. PICK a, b, c, d, e : location = [has_main |-> a, main |-> b, has_line |-> c, file |-> d, line |-> e]
      BY <1>2 DEF LocationIs
    <3>5. [location EXCEPT !.has_main = yes, !.main = p] = [[location EXCEPT !.has_main = yes] EXCEPT !.main = p]
      BY <3>4
    <3>6. [location EXCEPT !.has_main = yes] = [has_main |-> yes, main |-> b, has_line |-> c, file |-> d, line |-> e]
      BY <3>4
    <3>7. [[has_main |-> yes, main |-> b, has_line |-> c, file |-> d, line |-> e] EXCEPT !.main = p]
            = [has_main |-> yes, main |-> p, has_line |-> c, file |-> d, line |-> e]
      OBVIOUS
    <3>8. location' = [location EXCEPT !.has_main = yes, !.main = p]
      BY <3>1, <3>3, Zenon
    <3>9. location' = [has_main |-> yes, main |-> p, has_line |-> c, file |-> d, line |-> e]
      BY <3>5, <3>6, <3>7, <3>8
    <3>10. location'.main = p /\ location'.has_line = location.has_line
      BY <3>4, <3>9
    <3>11. LocationIs'
      BY <3>9 DEF LocationIs
    <3> QED BY <1>1, <1>2, <3>1, <3>2, <3>10, <3>11 DEF MainIs, ProgramIs
  <2> QED BY <2>1, <2>2
<1>4. RowsAre'
  <2>1. scan.state = "START"
    BY <1>2 DEF ProgramIs, RowsAre
  <2> QED BY <1>1, <1>2, <2>1 DEF RowsAre
<1>5. ProgramIs'
  BY <1>1, <1>2, <1>3, <1>4 DEF ProgramIs
<1>6. dpc' = "done" => AnswerIs'
  BY <1>1, <1>2, <1>3, <1>5 DEF AnswerIs, ProgramIs
<1> QED BY <1>1, <1>2, <1>3, <1>5, <1>6 DEF DwarfInv

LEMMA DwarfStarts ==
  ASSUME InitDwarf
  PROVE  DwarfInv
<1>1. /\ LocationIs /\ ~ location.has_main /\ ~ location.has_line /\ SeenIs /\ MainIs
  BY DEF InitDwarf, LocationIs, SeenIs, MainIs
<1>2. Reset \in Registers
  BY DEF Registers, Reset
<1>3. RowsAre
  BY DEF InitDwarf, RowsAre
<1>4. ProgramIs
  BY <1>1, <1>3 DEF InitDwarf, ProgramIs
<1>5. target \in Nat /\ dpc = "start" /\ hit = 0 /\ row = <<>> /\ meant = Reset
  BY DEF InitDwarf
<1> QED BY <1>1, <1>2, <1>4, <1>5 DEF DwarfInv

LEMMA DwarfSteps ==
  ASSUME DwarfInv, [NextDwarf]_dwarfVars
  PROVE  DwarfInv'
<1>1. ASSUME NEW value \in CompDirs, ReadAttribute("comp_dir", "string", value, FALSE) PROVE DwarfInv'
  <2>1. value \in Seq(STRING)
    BY DwarfAssumption
  <2> QED BY <1>1, <2>1, AttributeKeeps
<1>2. ASSUME NEW value \in MainNames, ReadAttribute("name", "strp", value, FALSE) PROVE DwarfInv'
  <2>1. value \in Seq(STRING)
    BY DwarfAssumption
  <2> QED BY <1>2, <2>1, AttributeKeeps
<1>3. ASSUME ReadAttribute("stmt_list", "sec_offset", <<"0">>, FALSE) PROVE DwarfInv'
  <2>1. "stmt_list" \notin {"comp_dir", "name"}
    OBVIOUS
  <2> QED BY <1>3, <2>1, AttributeKeeps
<1>4. ASSUME NEW ends \in BOOLEAN, ReadAttribute("ranges", "block", <<"0">>, ends) PROVE DwarfInv'
  <2>1. "ranges" \notin {"comp_dir", "name"}
    OBVIOUS
  <2> QED BY <1>4, <2>1, AttributeKeeps
<1>5. ASSUME UNCHANGED dwarfVars PROVE DwarfInv'
  <2>1. UNCHANGED <<dpc, target, unit, seen, regs, scan, location, answer, hit, meant, row, owner>>
    BY <1>5 DEF dwarfVars
  <2>2. LocationIs' /\ SeenIs' /\ MainIs'
    BY <2>1 DEF DwarfInv, LocationIs, SeenIs, MainIs, CompDir
  <2>3. dpc' # "done" => ProgramIs'
    BY <2>1 DEF DwarfInv, ProgramIs, RowsAre
  <2>4. dpc' = "done" => AnswerIs'
    BY <2>1 DEF DwarfInv, AnswerIs, CompDir
  <2> QED BY <2>1, <2>2, <2>3, <2>4 DEF DwarfInv
<1> QED BY <1>1, <1>2, <1>3, <1>4, <1>5, WalkKeeps, UseKeeps, ProgramKeeps, ProgramEndKeeps DEF NextDwarf

\* What FindAddress returns is right once the paths are.
LEMMA DwarfMeans ==
  ASSUME DwarfInv
  PROVE  LocationRight
<1>1. CompDir \in Seq(STRING) /\ Empty \in Seq(STRING)
  <2>1. Empty \in Seq(STRING)
    BY DEF Empty
  <2>2. "comp_dir" \in DOMAIN seen => seen["comp_dir"] \in Seq(STRING)
    BY DEF DwarfInv, SeenIs
  <2> QED BY <2>1, <2>2 DEF CompDir
<1>2. location.has_main => PathRight(location.main, CompDir, Empty, seen["name"])
  <2>1. location.has_main => location.main = Path(CompDir, Empty, seen["name"]) /\ seen["name"] \in Seq(STRING)
    BY DEF DwarfInv, MainIs, SeenIs
  <2> QED BY <1>1, <2>1, PathIsRight
<1>3. ASSUME NEW k \in 1 .. Len(FileNames)
      PROVE  LET f == FileNames[k]
                 d == IF f.dir = 0 THEN Empty ELSE IncludeDirectories[f.dir]
             IN  GetIncludeDirectory(f.dir) = d /\ PathRight(Path(CompDir, d, f.name), CompDir, d, f.name)
  <2> DEFINE f == FileNames[k]
             d == IF f.dir = 0 THEN Empty ELSE IncludeDirectories[f.dir]
  <2>1. FileNames[k] \in [name : Seq(STRING), dir : 0 .. Len(IncludeDirectories)]
    <3> DEFINE R == [name : Seq(STRING), dir : 0 .. Len(IncludeDirectories)]
    <3>1. FileNames \in Seq(R)
      BY DwarfAssumption
    <3> HIDE DEF R
    <3>2. FileNames[k] \in R
      BY <3>1
    <3> QED BY <3>2 DEF R
  <2>2. f.name \in Seq(STRING) /\ f.dir \in 0 .. Len(IncludeDirectories)
    BY <2>1
  <2>3. GetIncludeDirectory(f.dir) = d
    BY DEF GetIncludeDirectory
  <2>4. d \in Seq(STRING)
    <3>1. CASE f.dir = 0
      BY <1>1, <3>1
    <3>2. CASE f.dir # 0
      <4>1. f.dir \in 1 .. Len(IncludeDirectories) /\ IncludeDirectories \in Seq(Seq(STRING))
        BY <2>2, <3>2, DwarfAssumption
      <4>2. IncludeDirectories[f.dir] \in Seq(STRING)
        BY <4>1
      <4> QED BY <3>2, <4>2
    <3> QED BY <3>1, <3>2
  <2> HIDE DEF d, f
  <2>5. PathRight(Path(CompDir, d, f.name), CompDir, d, f.name)
    BY <1>1, <2>2, <2>4, PathIsRight
  <2> QED BY <2>3, <2>5 DEF d, f
<1>4. ASSUME dpc = "done" PROVE AnswerIs
  BY <1>4 DEF DwarfInv
<1> SUFFICES ASSUME dpc = "done" PROVE LocationRight
  BY DEF LocationRight
<1>5. AnswerIs
  BY <1>4
<1>6. ASSUME answer = "true", location.has_line
      PROVE  LET f == FileNames[owner[1].file]
             IN  /\ location.line = owner[1].line
                 /\ PathRight(location.file, CompDir, IF f.dir = 0 THEN Empty ELSE IncludeDirectories[f.dir], f.name)
  <2>1. PICK k \in 1 .. Len(FileNames) : k = owner[1].file
    BY <1>5, <1>6 DEF AnswerIs
  <2>2. /\ location.line = owner[1].line
        /\ location.file = Path(CompDir, GetIncludeDirectory(FileNames[k].dir), FileNames[k].name)
    BY <1>5, <1>6, <2>1 DEF AnswerIs
  <2> QED BY <1>3, <2>1, <2>2
<1>7. /\ answer = "false" => hit = 0
      /\ answer = "true" => hit = unit /\ (location.has_line <=> (owner # <<>> /\ owner[1].file # 0))
      /\ (answer = "abort" /\ "stmt_list" \in DOMAIN seen /\ owner # <<>>) => owner[1].file > Len(FileNames)
  BY <1>5 DEF AnswerIs
<1> QED BY <1>2, <1>6, <1>7, Zenon DEF LocationRight

\* FindAddress (Dwarf.cc:418-545) and LineNumberVM::FindAddress (Dwarf.cc:845-908)
\* give the unit, the line and the file that the debug information gives for the
\* address, whatever its ranges, attributes, sequences and operands are.
THEOREM LocationsAreRight == DwarfSpec => []LocationRight
<1> QED BY DwarfStarts, DwarfSteps, DwarfMeans, PTL DEF DwarfSpec

-----------------------------------------------------------------------------
(* URIs *)

Letter == STRING \cup {"other", "%", "+", " ", "/", "NUL", "0", "2", "5", "B", "F"}
Letters == Seq(Letter)

\* What UriUnescape keeps, and what it should keep after s.
Reading == [ok : BOOLEAN, text : Letters, skip : 0 .. 2]
ReadTo(s) == [ok |-> TRUE, text |-> s, skip |-> 0]

LEMMA LettersAre ==
  ASSUME NEW s \in Letters
  PROVE  /\ <<>> \in Letters /\ Len(s) \in Nat /\ s \o <<>> = s
         /\ \A k \in 1 .. Len(s) : s[k] \in Letter
         /\ \A c \in Letter : /\ Append(s, c) \in Letters /\ Len(Append(s, c)) = Len(s) + 1
                              /\ Append(s, c)[Len(s) + 1] = c
                              /\ \A k \in 1 .. Len(s) : Append(s, c)[k] = s[k]
         /\ \A t \in Letters : /\ s \o t \in Letters /\ Len(s \o t) = Len(s) + Len(t)
                               /\ \A k \in 1 .. Len(s) : (s \o t)[k] = s[k]
                               /\ \A k \in 1 .. Len(t) : (s \o t)[Len(s) + k] = t[k]
<1>1. s \in Seq(Letter) /\ <<>> \in Seq(Letter)
  BY DEF Letters
<1>2. Len(s) \in Nat /\ s \o <<>> = s /\ \A k \in 1 .. Len(s) : s[k] \in Letter
  BY <1>1, LenProperties, ConcatEmptySeq, ElementOfSeq
<1>3. ASSUME NEW c \in Letter
      PROVE  /\ Append(s, c) \in Seq(Letter) /\ Len(Append(s, c)) = Len(s) + 1
             /\ Append(s, c)[Len(s) + 1] = c /\ \A k \in 1 .. Len(s) : Append(s, c)[k] = s[k]
  BY <1>1, AppendProperties
<1>4. ASSUME NEW t \in Seq(Letter)
      PROVE  /\ s \o t \in Seq(Letter) /\ Len(s \o t) = Len(s) + Len(t)
             /\ \A k \in 1 .. Len(s) : (s \o t)[k] = s[k]
             /\ \A k \in 1 .. Len(t) : (s \o t)[Len(s) + k] = t[k]
  <2>1. /\ s \o t \in Seq(Letter) /\ Len(s \o t) = Len(s) + Len(t) /\ Len(t) \in Nat
        /\ \A i \in 1 .. Len(s) + Len(t) : (s \o t)[i] = IF i <= Len(s) THEN s[i] ELSE t[i - Len(s)]
    BY <1>1, ConcatProperties, LenProperties
  <2>2. ASSUME NEW k \in 1 .. Len(s) PROVE (s \o t)[k] = s[k]
    <3>1. k \in 1 .. Len(s) + Len(t) /\ k <= Len(s)
      BY <1>2, <2>1
    <3> QED BY <2>1, <3>1
  <2>3. ASSUME NEW k \in 1 .. Len(t) PROVE (s \o t)[Len(s) + k] = t[k]
    <3>1. PICK i : i = Len(s) + k
      OBVIOUS
    <3>2. i \in 1 .. Len(s) + Len(t) /\ ~ (i <= Len(s)) /\ i - Len(s) = k
      BY <1>2, <2>1, <3>1
    <3>3. (s \o t)[i] = t[k]
      BY <2>1, <3>2
    <3> QED BY <3>1, <3>3
  <2> QED BY <2>1, <2>2, <2>3
<1> QED BY <1>1, <1>2, <1>3, <1>4 DEF Letters

LEMMA PairIs == ASSUME NEW p, NEW x, NEW y, p = <<x, y>> PROVE p[1] = x /\ p[2] = y /\ p = <<p[1], p[2]>>
OBVIOUS

LEMMA HexIs ==
  ASSUME NEW c \in DOMAIN Hex
  PROVE  /\ Hex[c] = <<Hex[c][1], Hex[c][2]>>
         /\ Hex[c][1] \in Letter \ {"NUL"} /\ Hex[c][2] \in Letter \ {"NUL"}
         /\ \A d \in DOMAIN Hex : Hex[d] = Hex[c] => d = c
         /\ \A i \in {1, 2} : Hex[c][i] \in DOMAIN kHexTable /\ kHexTable[Hex[c][i]] = Hex[c][i]
<1>1. c = "%" \/ c = "+" \/ c = " " \/ c = "/" \/ c = "NUL"
  BY DEF Hex
<1>2. /\ Hex["%"] = <<"2", "5">> /\ Hex["+"] = <<"2", "B">> /\ Hex[" "] = <<"2", "0">>
      /\ Hex["/"] = <<"2", "F">> /\ Hex["NUL"] = <<"0", "0">>
  BY DEF Hex
<1>3. \A d \in DOMAIN Hex : d = "%" \/ d = "+" \/ d = " " \/ d = "/" \/ d = "NUL"
  BY DEF Hex
<1>4. "2" \in Letter /\ "5" \in Letter /\ "B" \in Letter /\ "0" \in Letter /\ "F" \in Letter
  BY DEF Letter
<1>5. /\ Hex["%"][1] = "2" /\ Hex["+"][1] = "2" /\ Hex[" "][1] = "2" /\ Hex["/"][1] = "2" /\ Hex["NUL"][1] = "0"
      /\ Hex["%"][2] = "5" /\ Hex["+"][2] = "B" /\ Hex[" "][2] = "0" /\ Hex["/"][2] = "F" /\ Hex["NUL"][2] = "0"
  <2>1. \A p, x, y : p = <<x, y>> => p[1] = x /\ p[2] = y
    BY PairIs
  <2>2. Hex["%"][1] = "2" /\ Hex["%"][2] = "5"
    <3>1. PICK p : p = Hex["%"]
      OBVIOUS
    <3>2. p = <<"2", "5">>
      BY <1>2, <3>1
    <3> QED BY <2>1, <3>1, <3>2
  <2>3. Hex["+"][1] = "2" /\ Hex["+"][2] = "B"
    <3>1. PICK p : p = Hex["+"]
      OBVIOUS
    <3>2. p = <<"2", "B">>
      BY <1>2, <3>1
    <3> QED BY <2>1, <3>1, <3>2
  <2>4. Hex[" "][1] = "2" /\ Hex[" "][2] = "0"
    <3>1. PICK p : p = Hex[" "]
      OBVIOUS
    <3>2. p = <<"2", "0">>
      BY <1>2, <3>1
    <3> QED BY <2>1, <3>1, <3>2
  <2>5. Hex["/"][1] = "2" /\ Hex["/"][2] = "F"
    <3>1. PICK p : p = Hex["/"]
      OBVIOUS
    <3>2. p = <<"2", "F">>
      BY <1>2, <3>1
    <3> QED BY <2>1, <3>1, <3>2
  <2>6. Hex["NUL"][1] = "0" /\ Hex["NUL"][2] = "0"
    <3>1. PICK p : p = Hex["NUL"]
      OBVIOUS
    <3>2. p = <<"0", "0">>
      BY <1>2, <3>1
    <3> QED BY <2>1, <3>1, <3>2
  <2> QED BY <2>2, <2>3, <2>4, <2>5, <2>6
<1>6. ASSUME NEW d \in DOMAIN Hex, Hex[d] = Hex[c] PROVE d = c
  <2>1. d = "%" \/ d = "+" \/ d = " " \/ d = "/" \/ d = "NUL"
    BY <1>3
  <2>2. Hex[d][1] = Hex[c][1] /\ Hex[d][2] = Hex[c][2]
    BY <1>6
  <2> QED BY <1>1, <1>5, <2>1, <2>2
<1>7. Hex[c][1] \in Letter \ {"NUL"} /\ Hex[c][2] \in Letter \ {"NUL"}
  BY <1>1, <1>4, <1>5
<1>8. \E x, y : Hex[c] = <<x, y>>
  BY <1>1, <1>2
<1>9. Hex[c] = <<Hex[c][1], Hex[c][2]>>
  BY <1>8, PairIs
<1>10. ASSUME NEW d \in Digits PROVE d \in DOMAIN kHexTable /\ kHexTable[d] = d
  BY DEF kHexTable
<1>11. "2" \in Digits /\ "5" \in Digits /\ "B" \in Digits /\ "0" \in Digits /\ "F" \in Digits
  BY DEF Digits
<1>12. Hex[c][1] \in Digits /\ Hex[c][2] \in Digits
  BY <1>1, <1>5, <1>11
<1> QED BY <1>6, <1>7, <1>9, <1>10, <1>12

\* A character becomes one that passes, or the escape of it.
LEMMA EscapeIs ==
  ASSUME NEW c \in Letter, NEW mode \in Modes
  PROVE  \/ \E d \in Letter : /\ Escape(c, mode) = <<d>> /\ d # "%" /\ d # "NUL"
                              /\ c = IF d = "+" /\ mode = "QUERY" THEN " " ELSE d
         \/ \E d, e \in Letter : /\ Escape(c, mode) = <<"%", d, e>> /\ d # "NUL" /\ e # "NUL"
                                 /\ c \in DOMAIN Hex /\ Hex[c] = <<d, e>>
<1>0. DOMAIN Hex = {"%", "+", " ", "/", "NUL"} /\ "+" \in Letter
  BY DEF Hex, Letter
<1>1. CASE c = "/" /\ mode = "PATH"
  BY <1>1 DEF Escape
<1>2. CASE c = " " /\ mode = "QUERY"
  <2>1. Escape(c, mode) = <<"+">>
    BY <1>2 DEF Escape
  <2> QED BY <1>0, <1>2, <2>1
<1>3. CASE ~ (c = "/" /\ mode = "PATH") /\ ~ (c = " " /\ mode = "QUERY") /\ c \in DOMAIN Hex
  <2>1. Escape(c, mode) = <<"%", Hex[c][1], Hex[c][2]>>
    BY <1>3 DEF Escape
  <2>2. PICK d, e : d = Hex[c][1] /\ e = Hex[c][2]
    OBVIOUS
  <2>3. Hex[c] = <<d, e>> /\ d \in Letter \ {"NUL"} /\ e \in Letter \ {"NUL"}
    BY <1>3, <2>2, HexIs
  <2> QED BY <1>3, <2>1, <2>2, <2>3
<1>4. CASE ~ (c = "/" /\ mode = "PATH") /\ ~ (c = " " /\ mode = "QUERY") /\ c \notin DOMAIN Hex
  <2>1. Escape(c, mode) = <<c>>
    BY <1>4 DEF Escape
  <2> QED BY <1>0, <1>4, <2>1
<1> QED BY <1>1, <1>2, <1>3, <1>4

LEMMA EscapeType ==
  ASSUME NEW c \in Letter, NEW mode \in Modes
  PROVE  Escape(c, mode) \in Letters /\ \A k \in 1 .. Len(Escape(c, mode)) : Escape(c, mode)[k] # "NUL"
<1>1. ASSUME NEW d \in Letter, Escape(c, mode) = <<d>>, d # "NUL"
      PROVE  Escape(c, mode) \in Letters /\ \A k \in 1 .. Len(Escape(c, mode)) : Escape(c, mode)[k] # "NUL"
  BY <1>1 DEF Letters
<1>2. ASSUME NEW d \in Letter, NEW e \in Letter, Escape(c, mode) = <<"%", d, e>>, d # "NUL", e # "NUL"
      PROVE  Escape(c, mode) \in Letters /\ \A k \in 1 .. Len(Escape(c, mode)) : Escape(c, mode)[k] # "NUL"
  <2>1. "%" \in Letter
    BY DEF Letter
  <2>2. <<"%", d, e>> \in Seq(Letter) /\ \A k \in 1 .. Len(<<"%", d, e>>) : <<"%", d, e>>[k] # "NUL"
    BY <1>2, <2>1
  <2> QED BY <1>2, <2>2 DEF Letters
<1> QED BY <1>1, <1>2, EscapeIs

\* What UriEscape has after each character.
Escapes(s, mode, r) ==
    /\ r \in [0 .. Len(s) -> Letters] /\ r[0] = <<>>
    /\ \A k \in 1 .. Len(s) : r[k] = r[k - 1] \o Escape(s[k], mode)

LEMMA EscapeDef ==
  ASSUME NEW s \in Letters, NEW mode \in Modes
  PROVE  \E r : Escapes(s, mode, r) /\ UriEscape(s, mode) = r[Len(s)]
<1> DEFINE N == Len(s)
           step == [x \in (1 .. N) \X Letters |-> x[2] \o Escape(s[x[1]], mode)]
           body(f) == [k \in 0 .. N |-> IF k = 0 THEN <<>> ELSE f[k - 1] \o Escape(s[k], mode)]
           r == CHOOSE f : f = body(f)
<1>0. N \in Nat /\ (\A k \in 1 .. N : s[k] \in Letter) /\ <<>> \in Letters
  BY LettersAre
<1>1. \A k \in 1 .. N, v \in Letters : v \o Escape(s[k], mode) \in Letters
  BY <1>0, EscapeType, LettersAre
<1>2. UriEscape(s, mode) = r[N]
  BY DEF UriEscape
<1> HIDE DEF N
<1>3. step \in [(1 .. N) \X Letters -> Letters] /\ \A k \in 1 .. N, v \in Letters : step[<<k, v>>] = v \o Escape(s[k], mode)
  BY <1>1
<1> HIDE DEF step
<1>4. PICK f : Recursive(f, N, Letters, <<>>, step)
  BY <1>0, <1>3, RecursionExists
<1>5. f \in [0 .. N -> Letters] /\ f[0] = <<>> /\ \A k \in 1 .. N : f[k] = step[<<k, f[k - 1]>>]
  BY <1>4 DEF Recursive
<1>6. \A k \in 1 .. N : f[k - 1] \in Letters
  BY <1>0, <1>5
<1>7. f = body(f)
  <2>1. ASSUME NEW k \in 0 .. N PROVE f[k] = IF k = 0 THEN <<>> ELSE f[k - 1] \o Escape(s[k], mode)
    <3>1. k # 0 => k \in 1 .. N
      BY <1>0
    <3> QED BY <1>3, <1>5, <1>6, <3>1
  <2> QED BY <1>5, <2>1
<1>8. r = body(r)
  <2> HIDE DEF body
  <2> QED BY <1>7, Zenon
<1> HIDE DEF r
<1>9. r[0] = <<>> /\ (\A k \in 1 .. N : r[k] = r[k - 1] \o Escape(s[k], mode)) /\ r = [k \in 0 .. N |-> r[k]]
  <2>1. 0 \in 0 .. N /\ \A k \in 1 .. N : k \in 0 .. N /\ k # 0
    BY <1>0
  <2> QED BY <1>8, <2>1
<1>10. Recursive(r, N, Letters, <<>>, step)
  BY <1>0, <1>3, <1>9, RecursionIs
<1>11. Escapes(s, mode, r)
  BY <1>9, <1>10 DEF Recursive, Escapes, N
<1> QED BY <1>2, <1>11 DEF N

\* What UriEscape has after the first characters depends on them only.
LEMMA EscapesSame ==
  ASSUME NEW s \in Letters, NEW c \in Letter, NEW mode \in Modes,
         NEW r, Escapes(s, mode, r), NEW q, Escapes(Append(s, c), mode, q)
  PROVE  r[Len(s)] = q[Len(s)]
<1> DEFINE N == Len(s)
           S == {k \in Nat : k <= N => r[k] = q[k]}
<1>0. N \in Nat /\ Len(Append(s, c)) = N + 1 /\ \A k \in 1 .. N : Append(s, c)[k] = s[k]
  BY LettersAre
<1>1. 0 \in S
  BY DEF Escapes
<1>2. ASSUME NEW k \in S PROVE k + 1 \in S
  <2>1. CASE k + 1 <= N
    <3>1. k \in Nat /\ k + 1 \in 1 .. N /\ k + 1 \in 1 .. N + 1 /\ (k + 1) - 1 = k /\ r[k] = q[k]
      BY <1>0, <2>1
    <3>2. r[k + 1] = r[k] \o Escape(s[k + 1], mode)
      BY <3>1 DEF Escapes
    <3>3. q[k + 1] = q[k] \o Escape(s[k + 1], mode)
      BY <1>0, <3>1 DEF Escapes
    <3>4. r[k + 1] = q[k + 1]
      BY <3>1, <3>2, <3>3
    <3> QED BY <3>1, <3>4
  <2> QED BY <2>1
<1>3. S = Nat
  <2> HIDE DEF S
  <2>1. S \in SUBSET Nat
    BY DEF S
  <2> QED BY <1>1, <1>2, <2>1, SetInduction
<1>4. N \in S
  <2> HIDE DEF S
  <2> QED BY <1>0, <1>3
<1> QED BY <1>0, <1>4

LEMMA EscapeAppend ==
  ASSUME NEW mode \in Modes
  PROVE  /\ UriEscape(<<>>, mode) = <<>>
         /\ \A s \in Letters : UriEscape(s, mode) \in Letters
         /\ \A s \in Letters, c \in Letter : UriEscape(Append(s, c), mode) = UriEscape(s, mode) \o Escape(c, mode)
<1>1. UriEscape(<<>>, mode) = <<>>
  <2>1. <<>> \in Letters /\ Len(<<>>) = 0
    BY DEF Letters
  <2>2. PICK r : Escapes(<<>>, mode, r) /\ UriEscape(<<>>, mode) = r[Len(<<>>)]
    BY <2>1, EscapeDef
  <2> QED BY <2>1, <2>2 DEF Escapes
<1>2. ASSUME NEW s \in Letters PROVE UriEscape(s, mode) \in Letters
  <2>1. PICK r : Escapes(s, mode, r) /\ UriEscape(s, mode) = r[Len(s)]
    BY EscapeDef
  <2>2. Len(s) \in Nat
    BY LettersAre
  <2>3. Len(s) \in 0 .. Len(s)
    BY <2>2
  <2> QED BY <2>1, <2>3 DEF Escapes
<1>3. ASSUME NEW s \in Letters, NEW c \in Letter
      PROVE  UriEscape(Append(s, c), mode) = UriEscape(s, mode) \o Escape(c, mode)
  <2>1. PICK r : Escapes(s, mode, r) /\ UriEscape(s, mode) = r[Len(s)]
    BY EscapeDef
  <2>2. Append(s, c) \in Letters /\ Len(s) \in Nat /\ Len(Append(s, c)) = Len(s) + 1 /\ Append(s, c)[Len(s) + 1] = c
    BY LettersAre
  <2>3. PICK q : Escapes(Append(s, c), mode, q) /\ UriEscape(Append(s, c), mode) = q[Len(s) + 1]
    BY <2>2, EscapeDef
  <2>4. q[Len(s) + 1] = q[Len(s)] \o Escape(c, mode)
    <3>1. Len(s) + 1 \in 1 .. Len(Append(s, c)) /\ (Len(s) + 1) - 1 = Len(s)
      BY <2>2
    <3> QED BY <2>2, <2>3, <3>1 DEF Escapes
  <2>5. q[Len(s)] = r[Len(s)]
    <3>1. Escapes(s, mode, r) /\ Escapes(Append(s, c), mode, q)
      BY <2>1, <2>3
    <3> QED BY <3>1, EscapesSame
  <2> QED BY <2>1, <2>3, <2>4, <2>5
<1> QED BY <1>1, <1>2, <1>3

LEMMA UnescapeType ==
  ASSUME NEW r \in Reading, NEW s \in Letters, NEW k \in 1 .. Len(s), NEW mode \in Modes
  PROVE  Unescape(r, s, k, mode) \in Reading
<1>1. r.ok \in BOOLEAN /\ r.text \in Letters /\ r.skip \in 0 .. 2
  BY DEF Reading
<1>2. s[k] \in Letter /\ " " \in Letter /\ \A c \in DOMAIN Hex : c \in Letter
  BY LettersAre DEF Hex, Letter
<1>3. \A t \in Letters, c \in Letter : Append(t, c) \in Letters
  BY LettersAre
<1>4. \A t \in Letters, n \in 0 .. 2, ok \in BOOLEAN : [ok |-> ok, text |-> t, skip |-> n] \in Reading
  BY DEF Reading
<1>5. CASE ~ r.ok
  BY <1>5 DEF Unescape
<1>6. CASE r.ok /\ r.skip > 0
  <2>1. Unescape(r, s, k, mode) = [ok |-> TRUE, text |-> r.text, skip |-> r.skip - 1]
    BY <1>6 DEF Unescape
  <2>2. r.skip - 1 \in 0 .. 2
    BY <1>1, <1>6
  <2> QED BY <1>1, <1>4, <2>1, <2>2
<1>7. CASE r.ok /\ ~ (r.skip > 0) /\ s[k] # "%"
  <2>1. PICK c \in Letter : Unescape(r, s, k, mode) = [ok |-> TRUE, text |-> Append(r.text, c), skip |-> 0]
    BY <1>2, <1>7 DEF Unescape
  <2>2. Append(r.text, c) \in Letters /\ 0 \in 0 .. 2
    BY <1>1, <1>3
  <2> QED BY <1>4, <2>1, <2>2
<1>8. CASE r.ok /\ ~ (r.skip > 0) /\ s[k] = "%" /\ Decoded(s, k) = {}
  <2>1. Unescape(r, s, k, mode) = [ok |-> FALSE, text |-> r.text, skip |-> 0]
    BY <1>8 DEF Unescape
  <2>2. 0 \in 0 .. 2
    OBVIOUS
  <2> QED BY <1>1, <1>4, <2>1, <2>2
<1>9. CASE r.ok /\ ~ (r.skip > 0) /\ s[k] = "%" /\ Decoded(s, k) # {}
  <2>1. PICK c : c = CHOOSE d \in Decoded(s, k) : TRUE
    OBVIOUS
  <2>2. c \in Decoded(s, k)
    BY <1>9, <2>1
  <2>3. c \in Letter
    <3>1. c \in DOMAIN Hex \/ c = "other"
      BY <2>2 DEF Decoded
    <3>2. "other" \in Letter
      BY DEF Letter
    <3> QED BY <1>2, <3>1, <3>2
  <2>4. Unescape(r, s, k, mode) = [ok |-> TRUE, text |-> Append(r.text, c), skip |-> 2]
    BY <1>9, <2>1 DEF Unescape
  <2>5. Append(r.text, c) \in Letters /\ 2 \in 0 .. 2
    BY <1>1, <1>3, <2>3
  <2> QED BY <1>4, <2>4, <2>5
<1> QED BY <1>5, <1>6, <1>7, <1>8, <1>9

\* What UriUnescape has after each character.
Unescapes(s, mode, r) ==
    /\ r \in [0 .. Len(s) -> Reading] /\ r[0] = ReadTo(<<>>)
    /\ \A k \in 1 .. Len(s) : r[k] = Unescape(r[k - 1], s, k, mode)

LEMMA UnescapeDef ==
  ASSUME NEW s \in Letters, NEW mode \in Modes
  PROVE  \E r : Unescapes(s, mode, r) /\ UriUnescape(s, mode) = r[Len(s)]
<1> DEFINE N == Len(s)
           step == [x \in (1 .. N) \X Reading |-> Unescape(x[2], s, x[1], mode)]
           body(f) == [k \in 0 .. N |-> IF k = 0 THEN ReadTo(<<>>) ELSE Unescape(f[k - 1], s, k, mode)]
           r == CHOOSE f : f = body(f)
<1>0. N \in Nat /\ <<>> \in Letters
  BY LettersAre
<1>00. ReadTo(<<>>) \in Reading
  BY <1>0 DEF ReadTo, Reading
<1>1. \A k \in 1 .. N, v \in Reading : Unescape(v, s, k, mode) \in Reading
  BY UnescapeType
<1>2. UriUnescape(s, mode) = r[N]
  BY DEF UriUnescape, ReadTo
<1> HIDE DEF N
<1>3. step \in [(1 .. N) \X Reading -> Reading] /\ \A k \in 1 .. N, v \in Reading : step[<<k, v>>] = Unescape(v, s, k, mode)
  BY <1>1
<1> HIDE DEF step
<1>4. PICK f : Recursive(f, N, Reading, ReadTo(<<>>), step)
  BY <1>0, <1>00, <1>3, RecursionExists
<1>5. f \in [0 .. N -> Reading] /\ f[0] = ReadTo(<<>>) /\ \A k \in 1 .. N : f[k] = step[<<k, f[k - 1]>>]
  BY <1>4 DEF Recursive
<1>6. \A k \in 1 .. N : f[k - 1] \in Reading
  BY <1>0, <1>5
<1>7. f = body(f)
  <2>1. ASSUME NEW k \in 0 .. N PROVE f[k] = IF k = 0 THEN ReadTo(<<>>) ELSE Unescape(f[k - 1], s, k, mode)
    <3>1. k # 0 => k \in 1 .. N
      BY <1>0
    <3> QED BY <1>3, <1>5, <1>6, <3>1
  <2> QED BY <1>5, <2>1
<1>8. r = body(r)
  <2> HIDE DEF body
  <2> QED BY <1>7, Zenon
<1> HIDE DEF r
<1>9. r[0] = ReadTo(<<>>) /\ (\A k \in 1 .. N : r[k] = Unescape(r[k - 1], s, k, mode)) /\ r = [k \in 0 .. N |-> r[k]]
  <2>1. 0 \in 0 .. N /\ \A k \in 1 .. N : k \in 0 .. N /\ k # 0
    BY <1>0
  <2> QED BY <1>8, <2>1
<1>10. Recursive(r, N, Reading, ReadTo(<<>>), step)
  BY <1>0, <1>00, <1>3, <1>9, RecursionIs
<1>11. Unescapes(s, mode, r)
  BY <1>9, <1>10 DEF Recursive, Unescapes, N
<1> QED BY <1>2, <1>11 DEF N

\* Reading the escape of c, wherever it stands.
LEMMA ReadsEscape ==
  ASSUME NEW mode \in Modes, NEW c \in Letter, NEW s \in Letters, NEW e \in Letters, NEW n \in Nat,
         n + Len(Escape(c, mode)) <= Len(e),
         \A k \in 1 .. Len(Escape(c, mode)) : e[n + k] = Escape(c, mode)[k],
         NEW r, Unescapes(e, mode, r), r[n] = ReadTo(s)
  PROVE  r[n + Len(Escape(c, mode))] = ReadTo(Append(s, c))
<1>0. Len(e) \in Nat /\ \A k \in 1 .. Len(e) : r[k] = Unescape(r[k - 1], e, k, mode)
  BY LettersAre DEF Unescapes
<1>00. ReadTo(s).ok = TRUE /\ ReadTo(s).text = s /\ ReadTo(s).skip = 0
  BY DEF ReadTo
<1>1. ASSUME NEW d \in Letter, Escape(c, mode) = <<d>>, d # "%", c = IF d = "+" /\ mode = "QUERY" THEN " " ELSE d
      PROVE  r[n + Len(Escape(c, mode))] = ReadTo(Append(s, c))
  <2>1. Len(<<d>>) = 1 /\ 1 \in 1 .. Len(<<d>>) /\ <<d>>[1] = d
    OBVIOUS
  <2>2. e[n + 1] = d /\ Len(Escape(c, mode)) = 1
    BY <1>1, <2>1
  <2>3. n + 1 \in 1 .. Len(e) /\ (n + 1) - 1 = n
    BY <1>0, <2>2
  <2>4. r[n + 1] = Unescape(ReadTo(s), e, n + 1, mode)
    BY <1>0, <2>3
  <2>5. Unescape(ReadTo(s), e, n + 1, mode) = [ok |-> TRUE, text |-> Append(s, c), skip |-> 0]
    <3>1. PICK q : q = ReadTo(s)
      OBVIOUS
    <3>2. q.ok = TRUE /\ q.text = s /\ q.skip = 0
      BY <1>00, <3>1
    <3>3. ~ (q.skip > 0) /\ e[n + 1] # "%"
      <4>1. ~ (q.skip > 0)
        BY <3>2
      <4> QED BY <1>1, <2>2, <4>1
    <3>4. Unescape(q, e, n + 1, mode) =
             [ok |-> TRUE, text |-> Append(q.text, IF e[n + 1] = "+" /\ mode = "QUERY" THEN " " ELSE e[n + 1]), skip |-> 0]
      BY <3>2, <3>3, Zenon DEF Unescape
    <3>5. (IF e[n + 1] = "+" /\ mode = "QUERY" THEN " " ELSE e[n + 1]) = c
      BY <1>1, <2>2
    <3> QED BY <3>1, <3>2, <3>4, <3>5, Zenon
  <2> QED BY <2>2, <2>4, <2>5 DEF ReadTo
<1>2. ASSUME NEW d \in Letter, NEW f \in Letter, Escape(c, mode) = <<"%", d, f>>, c \in DOMAIN Hex, Hex[c] = <<d, f>>
      PROVE  r[n + Len(Escape(c, mode))] = ReadTo(Append(s, c))
  <2>1. /\ Len(<<"%", d, f>>) = 3 /\ 1 \in 1 .. 3 /\ 2 \in 1 .. 3 /\ 3 \in 1 .. 3
        /\ <<"%", d, f>>[1] = "%" /\ <<"%", d, f>>[2] = d /\ <<"%", d, f>>[3] = f
    OBVIOUS
  <2>2. e[n + 1] = "%" /\ e[n + 2] = d /\ e[n + 3] = f /\ Len(Escape(c, mode)) = 3
    BY <1>2, <2>1
  <2>3. /\ n + 1 \in 1 .. Len(e) /\ n + 2 \in 1 .. Len(e) /\ n + 3 \in 1 .. Len(e) /\ (n + 1) + 2 <= Len(e)
        /\ (n + 1) - 1 = n /\ (n + 2) - 1 = n + 1 /\ (n + 3) - 1 = n + 2 /\ (n + 1) + 1 = n + 2 /\ (n + 1) + 2 = n + 3
    BY <1>0, <2>2
  <2>4. Decoded(e, n + 1) = {c}
    <3>1. \A x : x \in Decoded(e, n + 1) <=> x \in DOMAIN Hex /\ Hex[x] = <<d, f>>
      <4>1. Hex[c][1] = d /\ Hex[c][2] = f
        BY <1>2, PairIs
      <4>2. d \in DOMAIN kHexTable /\ f \in DOMAIN kHexTable /\ kHexTable[d] = d /\ kHexTable[f] = f
        BY <1>2, <4>1, HexIs
      <4>3. PICK known : known = {x \in DOMAIN Hex : Hex[x] = <<d, f>>}
        OBVIOUS
      <4>4. c \in known
        BY <1>2, <4>3
      <4>5. Decoded(e, n + 1) = IF known = {} THEN {"other"} ELSE known
        <5>1. /\ e[(n + 1) + 1] = d /\ e[(n + 1) + 2] = f /\ ~ ((n + 1) + 2 > Len(e))
          BY <1>0, <2>2, <2>3
        <5> QED BY <4>2, <4>3, <5>1 DEF Decoded
      <4> QED BY <4>3, <4>4, <4>5
    <3>2. \A x : x \in Decoded(e, n + 1) <=> x = c
      BY <1>2, <3>1, HexIs
    <3> QED BY <3>2
  <2>5. Unescape(ReadTo(s), e, n + 1, mode) = [ok |-> TRUE, text |-> Append(s, c), skip |-> 2]
    <3>1. Decoded(e, n + 1) # {} /\ (CHOOSE x \in Decoded(e, n + 1) : TRUE) = c
      BY <2>4
    <3>2. PICK q : q = ReadTo(s)
      OBVIOUS
    <3>3. q.ok = TRUE /\ q.text = s /\ q.skip = 0
      BY <1>00, <3>2
    <3>4. ~ (q.skip > 0) /\ e[n + 1] = "%"
      BY <2>2, <3>3
    <3>5. Unescape(q, e, n + 1, mode) =
             [ok |-> TRUE, text |-> Append(q.text, CHOOSE x \in Decoded(e, n + 1) : TRUE), skip |-> 2]
      BY <3>1, <3>3, <3>4, Zenon DEF Unescape
    <3> QED BY <3>1, <3>2, <3>3, <3>5, Zenon
  <2>6. r[n + 1] = [ok |-> TRUE, text |-> Append(s, c), skip |-> 2]
    BY <1>0, <2>3, <2>5
  <2>7. r[n + 2] = [ok |-> TRUE, text |-> Append(s, c), skip |-> 1]
    <3>1. r[n + 2] = Unescape(r[n + 1], e, n + 2, mode)
      BY <1>0, <2>3
    <3>2. r[n + 1].ok = TRUE /\ r[n + 1].text = Append(s, c) /\ r[n + 1].skip = 2
      BY <2>6
    <3>3. 2 > 0 /\ 2 - 1 = 1
      OBVIOUS
    <3> QED BY <3>1, <3>2, <3>3 DEF Unescape
  <2>8. r[n + 3] = [ok |-> TRUE, text |-> Append(s, c), skip |-> 0]
    <3>1. r[n + 3] = Unescape(r[n + 2], e, n + 3, mode)
      BY <1>0, <2>3
    <3>2. r[n + 2].ok = TRUE /\ r[n + 2].text = Append(s, c) /\ r[n + 2].skip = 1
      BY <2>7
    <3>3. 1 > 0 /\ 1 - 1 = 0
      OBVIOUS
    <3> QED BY <3>1, <3>2, <3>3 DEF Unescape
  <2> QED BY <2>2, <2>8 DEF ReadTo
<1> QED BY <1>1, <1>2, EscapeIs

\* After the escape of s, and whatever follows it, UriUnescape has read s.
LEMMA ReadsAll ==
  ASSUME NEW mode \in Modes, NEW s \in Letters
  PROVE  \A x \in Letters : \A r : Unescapes(UriEscape(s, mode) \o x, mode, r) => r[Len(UriEscape(s, mode))] = ReadTo(s)
<1> DEFINE All(t) == \A x \in Letters : \A r : Unescapes(UriEscape(t, mode) \o x, mode, r) =>
                                                  r[Len(UriEscape(t, mode))] = ReadTo(t)
           S == {t \in Seq(Letter) : All(t)}
<1>1. <<>> \in S
  <2>1. UriEscape(<<>>, mode) = <<>> /\ Len(<<>>) = 0 /\ <<>> \in Seq(Letter)
    BY EscapeAppend
  <2> QED BY <2>1 DEF Unescapes
<1>2. ASSUME NEW t \in S, NEW c \in Letter PROVE Append(t, c) \in S
  <2>1. t \in Letters /\ Append(t, c) \in Letters /\ All(t)
    <3>1. t \in Letters /\ All(t)
      BY DEF Letters
    <3> QED BY <3>1, LettersAre
  <2> HIDE DEF S
  <2>2. PICK w, v : w = UriEscape(t, mode) /\ v = Escape(c, mode)
    OBVIOUS
  <2>3. w \in Letters /\ v \in Letters /\ UriEscape(Append(t, c), mode) = w \o v
    BY <2>1, <2>2, EscapeAppend, EscapeType
  <2>4. ASSUME NEW x \in Letters, NEW r, Unescapes((w \o v) \o x, mode, r) PROVE r[Len(w \o v)] = ReadTo(Append(t, c))
    <3>1. PICK y : y = v \o x
      OBVIOUS
    <3>2. y \in Letters /\ w \o y \in Letters /\ (w \o v) \o x = w \o y
      <4>1. w \in Seq(Letter) /\ v \in Seq(Letter) /\ x \in Seq(Letter)
        BY <2>3 DEF Letters
      <4>2. (w \o v) \o x = w \o (v \o x)
        BY <4>1, ConcatAssociative
      <4>3. y \in Letters
        BY <2>3, <3>1, LettersAre
      <4> QED BY <2>3, <3>1, <4>2, <4>3, LettersAre
    <3>3. PICK e : e = w \o y
      OBVIOUS
    <3>4. Unescapes(e, mode, r) /\ e \in Letters
      BY <2>4, <3>2, <3>3
    <3>5. r[Len(w)] = ReadTo(t)
      BY <2>1, <2>2, <3>2, <3>3, <3>4
    <3>6. /\ Len(w) \in Nat /\ Len(v) \in Nat /\ Len(x) \in Nat /\ Len(e) = Len(w) + Len(y) /\ Len(y) = Len(v) + Len(x)
          /\ Len(w \o v) = Len(w) + Len(v)
          /\ \A k \in 1 .. Len(y) : e[Len(w) + k] = y[k]
          /\ \A k \in 1 .. Len(v) : y[k] = v[k]
      <4>1. Len(w) \in Nat /\ Len(v) \in Nat /\ Len(x) \in Nat
        BY <2>3, LettersAre
      <4>2. Len(e) = Len(w) + Len(y) /\ \A k \in 1 .. Len(y) : e[Len(w) + k] = y[k]
        BY <2>3, <3>2, <3>3, LettersAre
      <4>3. Len(y) = Len(v) + Len(x) /\ \A k \in 1 .. Len(v) : y[k] = v[k]
        BY <2>3, <3>1, LettersAre
      <4>4. Len(w \o v) = Len(w) + Len(v)
        BY <2>3, LettersAre
      <4> QED BY <4>1, <4>2, <4>3, <4>4
    <3>7. Len(w) + Len(v) <= Len(e) /\ \A k \in 1 .. Len(v) : e[Len(w) + k] = v[k]
      BY <3>6
    <3>8. PICK n \in Nat : n = Len(w)
      BY <3>6
    <3>9. r[n + Len(Escape(c, mode))] = ReadTo(Append(t, c))
      <4>1. /\ n + Len(Escape(c, mode)) <= Len(e) /\ r[n] = ReadTo(t)
            /\ \A k \in 1 .. Len(Escape(c, mode)) : e[n + k] = Escape(c, mode)[k]
        BY <2>2, <3>5, <3>7, <3>8
      <4> QED BY <2>1, <3>4, <4>1, ReadsEscape
    <3> QED BY <2>2, <3>6, <3>8, <3>9
  <2>5. All(Append(t, c))
    BY <2>3, <2>4
  <2> HIDE DEF All
  <2> QED BY <2>1, <2>5 DEF S, Letters
<1>3. S = Seq(Letter)
  <2> HIDE DEF S
  <2>1. S \in SUBSET Seq(Letter)
    BY DEF S
  <2> QED BY <1>1, <1>2, <2>1, SeqInduction
<1> HIDE DEF S
<1>4. s \in S
  BY <1>3 DEF Letters
<1> QED BY <1>4 DEF S

\* No NUL is left in an escape.
LEMMA NoNul ==
  ASSUME NEW mode \in Modes, NEW s \in Letters
  PROVE  \A k \in 1 .. Len(UriEscape(s, mode)) : UriEscape(s, mode)[k] # "NUL"
<1> DEFINE Free(t) == \A k \in 1 .. Len(t) : t[k] # "NUL"
           S == {t \in Seq(Letter) : Free(UriEscape(t, mode))}
<1>1. <<>> \in S
  <2>1. UriEscape(<<>>, mode) = <<>> /\ Len(<<>>) = 0 /\ <<>> \in Seq(Letter)
    BY EscapeAppend
  <2> QED BY <2>1
<1>2. ASSUME NEW t \in S, NEW c \in Letter PROVE Append(t, c) \in S
  <2>1. t \in Letters /\ Append(t, c) \in Letters /\ Free(UriEscape(t, mode))
    <3>1. t \in Letters /\ Free(UriEscape(t, mode))
      BY DEF Letters
    <3> QED BY <3>1, LettersAre
  <2> HIDE DEF S
  <2>2. PICK w, v : w = UriEscape(t, mode) /\ v = Escape(c, mode)
    OBVIOUS
  <2>3. w \in Letters /\ v \in Letters /\ UriEscape(Append(t, c), mode) = w \o v /\ Free(v) /\ Free(w)
    BY <2>1, <2>2, EscapeAppend, EscapeType
  <2>4. /\ Len(w) \in Nat /\ Len(v) \in Nat /\ Len(w \o v) = Len(w) + Len(v)
        /\ \A k \in 1 .. Len(w) : (w \o v)[k] = w[k]
        /\ \A k \in 1 .. Len(v) : (w \o v)[Len(w) + k] = v[k]
    BY <2>3, LettersAre
  <2>5. ASSUME NEW k \in 1 .. Len(w \o v) PROVE (w \o v)[k] # "NUL"
    <3>1. k \in 1 .. Len(w) \/ \E j \in 1 .. Len(v) : k = Len(w) + j
      <4>1. k \in Nat /\ k <= Len(w) + Len(v) /\ 1 <= k
        BY <2>4
      <4>2. ~ (k <= Len(w)) => k - Len(w) \in 1 .. Len(v) /\ k = Len(w) + (k - Len(w))
        BY <2>4, <4>1
      <4>3. k <= Len(w) => k \in 1 .. Len(w)
        BY <2>4, <4>1
      <4> QED BY <4>2, <4>3, Zenon
    <3> QED BY <2>3, <2>4, <3>1
  <2>6. Free(UriEscape(Append(t, c), mode))
    BY <2>3, <2>5
  <2> HIDE DEF Free
  <2> QED BY <2>1, <2>6 DEF S, Letters
<1>3. S = Seq(Letter)
  <2> HIDE DEF S
  <2>1. S \in SUBSET Seq(Letter)
    BY DEF S
  <2> QED BY <1>1, <1>2, <2>1, SeqInduction
<1> HIDE DEF S
<1>4. s \in S
  BY <1>3 DEF Letters
<1> QED BY <1>4 DEF S

(***************************************************************************)
(* What UriEscape (UriEscape.cc:38-79) writes, UriUnescape reads back      *)
(* (81-129) without throwing, in each mode and whatever the characters:    *)
(* percent signs, pluses, slashes, spaces and what looks like an escape    *)
(* already.  The escape has no NUL, so that ParseFromJson sees all of it   *)
(* in a C string.                                                          *)
(***************************************************************************)
THEOREM EscapesComeBack ==
  ASSUME NEW mode \in Modes, NEW s \in Seq(STRING)
  PROVE  /\ UriUnescape(UriEscape(s, mode), mode) = [ok |-> TRUE, text |-> s, skip |-> 0]
         /\ \A k \in 1 .. Len(UriEscape(s, mode)) : UriEscape(s, mode)[k] # "NUL"
<1>1. s \in Letters
  <2>1. STRING \subseteq Letter
    BY DEF Letter
  <2> QED BY <2>1, SeqMonotonic DEF Letters
<1>2. PICK e : e = UriEscape(s, mode)
  OBVIOUS
<1>3. e \in Letters /\ e \o <<>> = e /\ <<>> \in Letters
  BY <1>1, <1>2, EscapeAppend, LettersAre
<1>4. PICK r : Unescapes(e, mode, r) /\ UriUnescape(e, mode) = r[Len(e)]
  BY <1>3, UnescapeDef
<1>5. r[Len(e)] = ReadTo(s)
  BY <1>1, <1>2, <1>3, <1>4, ReadsAll
<1> QED BY <1>1, <1>2, <1>4, <1>5, NoNul DEF ReadTo

-----------------------------------------------------------------------------
(* JSON *)

Labels == {"optional", "required", "repeated"}

\* The parts of a field; its name tells it from the others of its type.
LEMMA FieldIs ==
  ASSUME NEW types, NEW F, IsType(F, types), NEW f \in F
  PROVE  /\ f.no \in Nat /\ f.name \in STRING /\ f.label \in Labels /\ f.type \in types
         /\ (CHOOSE g \in F : g.name = f.name) = f
<1>1. f \in Field(types)
  BY DEF IsType
<1>2. f.no \in Nat /\ f.name \in STRING /\ f.label \in Labels /\ f.type \in types
  BY <1>1 DEF Field, Labels
<1>3. \A g \in F : g.name = f.name => g = f
  BY DEF IsType
<1> QED BY <1>2, <1>3

\* s is a function on S.
IsMap(s, S) == s = [i \in S |-> s[i]]

\* A function on 1 .. n is a sequence of n.
LEMMA MappedIs ==
  ASSUME NEW n \in Nat, NEW r, IsMap(r, 1 .. n)
  PROVE  IsSeq(r) /\ Len(r) = n /\ DOMAIN r = 1 .. n
<1> DEFINE S == {r[i] : i \in 1 .. n}
<1>0. r = [i \in 1 .. n |-> r[i]]
  BY DEF IsMap
<1>1. r \in [1 .. n -> S]
  BY <1>0
<1>2. r \in Seq(S)
  BY <1>1
<1>3. DOMAIN r = 1 .. n /\ DOMAIN r = 1 .. Len(r) /\ Len(r) \in Nat
  BY <1>1, <1>2
<1>4. Len(r) = n
  BY <1>3
<1> QED BY <1>0, <1>3, <1>4 DEF IsSeq

\* The length and the domain of a sequence.
LEMMA SeqIs ==
  ASSUME NEW s, IsSeq(s)
  PROVE  Len(s) \in Nat /\ DOMAIN s = 1 .. Len(s) /\ (s = <<>> <=> Len(s) = 0)
<1>1. Len(s) \in Nat /\ s = [i \in 1 .. Len(s) |-> s[i]]
  BY DEF IsSeq
<1>2. DOMAIN s = 1 .. Len(s)
  BY <1>1
<1>3. ASSUME Len(s) = 0 PROVE s = <<>>
  <2>1. s = [i \in 1 .. 0 |-> s[i]]
    BY <1>1, <1>3
  <2>2. s \in [1 .. 0 -> {}]
    BY <2>1
  <2>3. s \in Seq({})
    BY <2>2
  <2> QED BY <2>3, <1>3, EmptySeq
<1>4. Len(<<>>) = 0
  OBVIOUS
<1> QED BY <1>1, <1>2, <1>3, <1>4

\* A field of an object, and the items found there.
LEMMA ObjectIs ==
  ASSUME NEW types, NEW F, IsType(F, types), NEW items, NEW f \in F
  PROVE  /\ f.name \in DOMAIN Object(F, items) <=> items[f] # <<>>
         /\ items[f] # <<>> =>
               IF f.label = "repeated" THEN Object(F, items)[f.name].k = "array" /\ Object(F, items)[f.name].v = items[f]
               ELSE Object(F, items)[f.name] = items[f][1]
<1> DEFINE D == {g.name : g \in {h \in F : items[h] # <<>>}}
<1>1. DOMAIN Object(F, items) = D
  BY DEF Object
<1>2. f.name \in D <=> items[f] # <<>>
  <2>1. ASSUME f.name \in D PROVE items[f] # <<>>
    <3>1. PICK h \in F : items[h] # <<>> /\ h.name = f.name
      BY <2>1
    <3>2. h = f
      BY <3>1 DEF IsType
    <3> QED BY <3>1, <3>2
  <2> QED BY <2>1
<1>3. (CHOOSE g \in F : g.name = f.name) = f
  BY FieldIs
<1>4. ASSUME f.name \in D
      PROVE  Object(F, items)[f.name] = IF f.label = "repeated" THEN [k |-> "array", v |-> items[f]] ELSE items[f][1]
  BY <1>3, <1>4 DEF Object
<1> QED BY <1>1, <1>2, <1>4

\* The items written for a field are those found there.
LEMMA ItemsBack ==
  ASSUME NEW types, NEW F, IsType(F, types), NEW items, NEW f \in F,
         IsSeq(items[f]), f.label # "repeated" => Len(items[f]) <= 1
  PROVE  /\ Items(f, Object(F, items)) = items[f]
         /\ (f.label = "repeated" /\ f.name \in DOMAIN Object(F, items)) => Object(F, items)[f.name].k = "array"
<1> DEFINE doc == Object(F, items)
<1>1. /\ f.name \in DOMAIN doc <=> items[f] # <<>>
      /\ items[f] # <<>> => IF f.label = "repeated" THEN doc[f.name].k = "array" /\ doc[f.name].v = items[f]
                            ELSE doc[f.name] = items[f][1]
  BY ObjectIs
<1> HIDE DEF doc
<1>2. CASE items[f] = <<>>
  BY <1>1, <1>2 DEF Items, doc
<1>3. CASE items[f] # <<>> /\ f.label = "repeated"
  BY <1>1, <1>3 DEF Items, doc
<1>4. CASE items[f] # <<>> /\ f.label # "repeated"
  <2>1. Len(items[f]) = 1
    BY <1>4, SeqIs
  <2>2. items[f] = [i \in 1 .. 1 |-> items[f][i]]
    BY <2>1 DEF IsSeq
  <2>3. <<items[f][1]>> = items[f]
    BY <2>2
  <2>4. Items(f, doc) = <<items[f][1]>>
    BY <1>1, <1>4 DEF Items
  <2> QED BY <1>4, <2>3, <2>4 DEF doc
<1> QED BY <1>2, <1>3, <1>4

-----------------------------------------------------------------------------
\* What becomes of a field of whose items none fails, or some with false.
LEMMA FieldParses ==
  ASSUME NEW f, NEW doc, NEW r, IsSeq(r), \A i \in DOMAIN r : r[i].st \in {"true", "false"},
         (f.label = "repeated" /\ f.name \in DOMAIN doc) => doc[f.name].k = "array",
         f.name \notin DOMAIN doc => r = <<>>
  PROVE  /\ ParseField(f, doc, r).st =
              IF (f.name \notin DOMAIN doc /\ f.label = "required") \/ \E i \in DOMAIN r : r[i].st = "false"
              THEN "false" ELSE "true"
         /\ ParseField(f, doc, r).st = "true" => ParseField(f, doc, r).vs = [i \in 1 .. Len(r) |-> r[i].v]
<1> DEFINE bad == {i \in DOMAIN r : r[i].st # "true"}
           first == CHOOSE i \in bad : \A l \in bad : i <= l
<1>1. DOMAIN r = 1 .. Len(r) /\ Len(r) \in Nat /\ (r = <<>> <=> Len(r) = 0)
  BY SeqIs
<1>2. bad # {} => first \in bad
  <2>1. bad \in SUBSET Nat
    BY <1>1
  <2> QED BY <2>1, LeastExists
<1>3. CASE f.name \notin DOMAIN doc
  <2>1. ParseField(f, doc, r) = [st |-> IF f.label = "required" THEN "false" ELSE "true", vs |-> <<>>]
    BY <1>3 DEF ParseField
  <2>2. DOMAIN r = {} /\ <<>> = [i \in 1 .. Len(r) |-> r[i].v]
    <3>1. Len(r) = 0 /\ r = <<>>
      BY <1>1, <1>3
    <3>2. PICK q : q = [i \in 1 .. 0 |-> r[i].v]
      OBVIOUS
    <3>3. IsMap(q, 1 .. 0)
      BY <3>2 DEF IsMap
    <3>4. q = <<>>
      BY <3>3, MappedIs, SeqIs
    <3> QED BY <1>1, <3>1, <3>2, <3>4
  <2>3. ~ \E i \in DOMAIN r : r[i].st = "false"
    BY <2>2
  <2> QED BY <1>3, <2>1, <2>2, <2>3
<1>4. CASE f.name \in DOMAIN doc
  <2>1. ParseField(f, doc, r) = [st |-> IF bad = {} THEN "true" ELSE r[first].st,
                                 vs |-> [i \in 1 .. (IF bad = {} THEN Len(r) ELSE IF r[first].kept THEN first ELSE first - 1) |-> r[i].v]]
    BY <1>4 DEF ParseField
  <2>2. CASE bad = {}
    <3>1. ~ \E i \in DOMAIN r : r[i].st = "false"
      BY <2>2
    <3> QED BY <1>4, <2>1, <2>2, <3>1
  <2>3. CASE bad # {}
    <3>1. first \in DOMAIN r /\ r[first].st = "false"
      BY <1>2, <2>3
    <3> HIDE DEF first, bad
    <3> QED BY <1>4, <2>1, <2>3, <3>1
  <2> QED BY <2>2, <2>3
<1> QED BY <1>3, <1>4

\* A field that is accepted has the values of its items, none of which failed.
LEMMA FieldAccepts ==
  ASSUME NEW f, NEW doc, NEW r, IsSeq(r), ParseField(f, doc, r).st = "true",
         f.name \notin DOMAIN doc => r = <<>>,
         (f.label # "repeated" /\ f.name \in DOMAIN doc) => Len(r) = 1
  PROVE  /\ DOMAIN ParseField(f, doc, r).vs = 1 .. Len(r)
         /\ \A i \in DOMAIN r : ParseField(f, doc, r).vs[i] = r[i].v /\ r[i].st = "true"
         /\ f.label = "required" => ParseField(f, doc, r).vs # <<>>
<1> DEFINE bad == {i \in DOMAIN r : r[i].st # "true"}
           first == CHOOSE i \in bad : \A l \in bad : i <= l
<1>1. DOMAIN r = 1 .. Len(r) /\ Len(r) \in Nat /\ (r = <<>> <=> Len(r) = 0)
  BY SeqIs
<1>2. bad # {} => first \in bad
  <2>1. bad \in SUBSET Nat
    BY <1>1
  <2> QED BY <2>1, LeastExists
<1>3. CASE f.name \notin DOMAIN doc
  <2>1. ParseField(f, doc, r) = [st |-> IF f.label = "required" THEN "false" ELSE "true", vs |-> <<>>]
    BY <1>3 DEF ParseField
  <2>2. f.label # "required" /\ ParseField(f, doc, r).vs = <<>>
    BY <2>1
  <2>3. Len(r) = 0 /\ DOMAIN r = {} /\ DOMAIN <<>> = {} /\ 1 .. 0 = {}
    BY <1>1, <1>3
  <2> QED BY <2>2, <2>3
<1>4. CASE f.name \in DOMAIN doc
  <2>0. ~ (f.label = "repeated" /\ doc[f.name].k # "array")
    <3>1. SUFFICES ASSUME f.label = "repeated" /\ doc[f.name].k # "array" PROVE FALSE
      OBVIOUS
    <3>2. ParseField(f, doc, r) = [st |-> "false", vs |-> <<>>]
      BY <1>4, <3>1 DEF ParseField
    <3> QED BY <3>2
  <2>1. ParseField(f, doc, r) = [st |-> IF bad = {} THEN "true" ELSE r[first].st,
                                 vs |-> [i \in 1 .. (IF bad = {} THEN Len(r) ELSE IF r[first].kept THEN first ELSE first - 1) |-> r[i].v]]
    BY <1>4, <2>0 DEF ParseField
  <2>2. bad = {}
    <3>1. SUFFICES ASSUME bad # {} PROVE FALSE
      OBVIOUS
    <3>2. r[first].st # "true"
      BY <1>2, <3>1
    <3> HIDE DEF first, bad
    <3> QED BY <2>1, <3>1, <3>2
  <2>3. ParseField(f, doc, r).vs = [i \in 1 .. Len(r) |-> r[i].v]
    <3> HIDE DEF first, bad
    <3> QED BY <2>1, <2>2
  <2>4. \A i \in DOMAIN r : r[i].st = "true"
    BY <2>2
  <2>5. f.label = "required" => ParseField(f, doc, r).vs # <<>>
    <3>1. f.label = "required" => 1 \in DOMAIN ParseField(f, doc, r).vs
      BY <1>4, <2>3
    <3> QED BY <3>1
  <2> QED BY <1>1, <2>3, <2>4, <2>5
<1> QED BY <1>3, <1>4

\* The first of the fields that fail is one of them.
LEMMA FirstField ==
  ASSUME NEW types, NEW F, IsType(F, types), NEW bad \in SUBSET F, bad # {}
  PROVE  (CHOOSE f \in bad : \A g \in bad : f.no <= g.no) \in bad
<1> DEFINE S == {f.no : f \in bad}
<1>1. S \in SUBSET Nat /\ S # {}
  BY FieldIs
<1>2. PICK n \in S : \A k \in S : n <= k
  BY <1>1, LeastExists
<1>3. PICK f \in bad : f.no = n
  BY <1>2
<1>4. \A g \in bad : f.no <= g.no
  BY <1>2, <1>3
<1> QED BY <1>4

\* All fields are accepted, or the first that is not decides.
LEMMA FieldsParse ==
  ASSUME NEW types, NEW F, IsType(F, types), NEW p
  PROVE  /\ ParseFields(F, p).st = "true" => \A f \in F : p[f].st = "true"
         /\ (\A f \in F : p[f].st = "true") => ParseFields(F, p).st = "true"
         /\ (\A f \in F : p[f].st \in {"true", "false"}) => ParseFields(F, p).st \in {"true", "false"}
         /\ (\A f \in F : p[f].st = "true") => \A f \in F : ParseFields(F, p).m[f.name] = p[f].vs
<1> DEFINE bad == {f \in F : p[f].st # "true"}
           first == CHOOSE f \in bad : \A g \in bad : f.no <= g.no
<1>1. bad # {} => first \in bad
  BY FirstField
<1>2. bad # {} => p[first].st # "true" /\ first \in F
  BY <1>1
<1>3. ParseFields(F, p) =
        [st |-> IF bad = {} THEN "true" ELSE p[first].st,
         m |-> [n \in {f.name : f \in F} |-> LET f == CHOOSE g \in F : g.name = n
                                            IN  IF bad = {} \/ f.no <= first.no THEN p[f].vs ELSE <<>>]]
  BY DEF ParseFields
<1>4. bad = {} <=> \A f \in F : p[f].st = "true"
  OBVIOUS
<1>5. ParseFields(F, p).st = IF bad = {} THEN "true" ELSE p[first].st
  BY <1>3
<1>6. ASSUME bad = {}, NEW f \in F PROVE ParseFields(F, p).m[f.name] = p[f].vs
  <2>1. PICK N : N = {g.name : g \in F}
    OBVIOUS
  <2>2. PICK c : c = [n \in N |-> CHOOSE g \in F : g.name = n]
    OBVIOUS
  <2>3. f.name \in N /\ c[f.name] = f
    BY <2>1, <2>2, FieldIs
  <2>4. ParseFields(F, p).m = [n \in N |-> p[c[n]].vs]
    BY <1>3, <1>6, <2>1, <2>2
  <2> QED BY <2>3, <2>4
<1> HIDE DEF bad, first
<1> QED BY <1>2, <1>4, <1>5, <1>6

\* The message read has the fields of its type.
LEMMA FieldsMap ==
  ASSUME NEW F, NEW p
  PROVE  IsMap(ParseFields(F, p).m, {f.name : f \in F})
BY DEF ParseFields, IsMap

-----------------------------------------------------------------------------
(* A message at either level: items[f] is what its field f is written as,  *)
(* and R[f] what becomes of that.                                          *)

\* R is what becomes of the items of m, and p of its fields.
Becomes(F, m, items, R, p) ==
    /\ \A f \in F : IsMap(items[f], DOMAIN m[f.name]) /\ IsMap(R[f], DOMAIN m[f.name])
    /\ \A f \in F : \A i \in DOMAIN m[f.name] : R[f][i].st \in {"true", "false"}
    /\ \A f \in F : p[f] = ParseField(f, Object(F, items), R[f])

\* A level comes back when each item does.
LEMMA LevelBack ==
  ASSUME NEW types, NEW F, IsType(F, types), NEW m, SetsFields(F, m), NEW items, NEW R, NEW p,
         Becomes(F, m, items, R, p), NEW q, q = ParseFields(F, p)
  PROVE  /\ q.st = IF Lacking(F, m) \/ \E f \in F : \E i \in DOMAIN m[f.name] : R[f][i].st = "false"
                   THEN "false" ELSE "true"
         /\ (q.st = "true" /\ \A f \in F : \A i \in DOMAIN m[f.name] : R[f][i].v = m[f.name][i]) => q.m = m
<1> DEFINE doc == Object(F, items)
           fails(f) == (f.label = "required" /\ m[f.name] = <<>>) \/ \E i \in DOMAIN m[f.name] : R[f][i].st = "false"
<1>0. /\ \A f \in F : IsMap(items[f], DOMAIN m[f.name]) /\ IsMap(R[f], DOMAIN m[f.name])
      /\ \A f \in F : \A i \in DOMAIN m[f.name] : R[f][i].st \in {"true", "false"}
      /\ \A f \in F : p[f] = ParseField(f, doc, R[f])
  BY DEF Becomes
<1>1. ASSUME NEW f \in F
      PROVE  /\ p[f].st = IF fails(f) THEN "false" ELSE "true"
             /\ p[f].st = "true" => p[f].vs = [i \in DOMAIN m[f.name] |-> R[f][i].v]
  <2>1. IsSeq(m[f.name])
    BY DEF SetsFields
  <2>2. DOMAIN m[f.name] = 1 .. Len(m[f.name]) /\ Len(m[f.name]) \in Nat /\ (m[f.name] = <<>> <=> Len(m[f.name]) = 0)
    BY <2>1, SeqIs
  <2>3. IsSeq(items[f]) /\ Len(items[f]) = Len(m[f.name])
    BY <1>0, <2>2, MappedIs
  <2>4. IsSeq(R[f]) /\ Len(R[f]) = Len(m[f.name]) /\ DOMAIN R[f] = 1 .. Len(m[f.name])
    BY <1>0, <2>2, MappedIs
  <2>5. items[f] = <<>> <=> m[f.name] = <<>>
    BY <2>2, <2>3, SeqIs
  <2>6. f.name \in DOMAIN doc <=> m[f.name] # <<>>
    <3>1. f.name \in DOMAIN Object(F, items) <=> items[f] # <<>>
      BY ObjectIs
    <3> QED BY <2>5, <3>1
  <2>7. (f.label = "repeated" /\ f.name \in DOMAIN doc) => doc[f.name].k = "array"
    <3>1. f.label # "repeated" => Len(items[f]) <= 1
      BY <2>3 DEF SetsFields
    <3> QED BY <2>3, <3>1, ItemsBack
  <2>8. f.name \notin DOMAIN doc => R[f] = <<>>
    BY <2>2, <2>4, <2>6, SeqIs
  <2>9. \A i \in DOMAIN R[f] : R[f][i].st \in {"true", "false"}
    BY <1>0, <2>2, <2>4
  <2>11. p[f] = ParseField(f, doc, R[f])
    BY <1>0
  <2> HIDE DEF doc
  <2>10. /\ ParseField(f, doc, R[f]).st =
              IF (f.name \notin DOMAIN doc /\ f.label = "required") \/ \E i \in DOMAIN R[f] : R[f][i].st = "false"
              THEN "false" ELSE "true"
         /\ ParseField(f, doc, R[f]).st = "true" => ParseField(f, doc, R[f]).vs = [i \in 1 .. Len(R[f]) |-> R[f][i].v]
    BY <2>4, <2>7, <2>8, <2>9, FieldParses
  <2>12. fails(f) <=> (f.name \notin DOMAIN doc /\ f.label = "required") \/ \E i \in DOMAIN R[f] : R[f][i].st = "false"
    BY <2>2, <2>4, <2>6
  <2> HIDE DEF fails
  <2> QED BY <2>2, <2>4, <2>10, <2>11, <2>12
<1>2. /\ q.st = "true" => \A f \in F : p[f].st = "true"
      /\ (\A f \in F : p[f].st = "true") =>
            q.st = "true" /\ \A f \in F : q.m[f.name] = p[f].vs
      /\ (\A f \in F : p[f].st \in {"true", "false"}) => q.st \in {"true", "false"}
  BY FieldsParse
<1>3. (\E f \in F : fails(f)) <=> Lacking(F, m) \/ \E f \in F : \E i \in DOMAIN m[f.name] : R[f][i].st = "false"
  BY DEF Lacking
<1>4. q.st = IF \E f \in F : fails(f) THEN "false" ELSE "true"
  <2> HIDE DEF fails
  <2> QED BY <1>1, <1>2
<1>5. ASSUME q.st = "true", \A f \in F : \A i \in DOMAIN m[f.name] : R[f][i].v = m[f.name][i] PROVE q.m = m
  <2> DEFINE N == {f.name : f \in F}
  <2>1. ASSUME NEW f \in F PROVE p[f].vs = m[f.name]
    <3>1. p[f].vs = [i \in DOMAIN m[f.name] |-> R[f][i].v]
      <4> HIDE DEF fails
      <4> QED BY <1>1, <1>2, <1>5
    <3>2. m[f.name] = [i \in DOMAIN m[f.name] |-> m[f.name][i]]
      <4>1. IsSeq(m[f.name])
        BY DEF SetsFields
      <4>2. DOMAIN m[f.name] = 1 .. Len(m[f.name])
        BY <4>1, SeqIs
      <4> QED BY <4>1, <4>2 DEF IsSeq
    <3>3. [i \in DOMAIN m[f.name] |-> R[f][i].v] = [i \in DOMAIN m[f.name] |-> m[f.name][i]]
      BY <1>5
    <3> QED BY <3>1, <3>2, <3>3
  <2>2. q.m = [n \in N |-> q.m[n]] /\ \A f \in F : q.m[f.name] = p[f].vs
    <3>1. IsMap(q.m, N)
      BY FieldsMap
    <3> QED BY <1>2, <1>5, <3>1 DEF IsMap
  <2>3. \A n \in N : q.m[n] = m[n]
    <3>1. TAKE n \in N
    <3>2. PICK f \in F : n = f.name
      OBVIOUS
    <3> QED BY <2>1, <2>2, <3>2
  <2>4. m = [n \in N |-> m[n]]
    BY DEF SetsFields
  <2> HIDE DEF N
  <2> QED BY <2>2, <2>3, <2>4
<1> HIDE DEF fails
<1> QED BY <1>3, <1>4, <1>5

\* What is accepted has the required fields, and values that did not fail.
LEMMA LevelAccepts ==
  ASSUME NEW types, NEW F, IsType(F, types), NEW doc, HasArrays(doc), NEW R,
         \A f \in F : IsMap(R[f], DOMAIN Items(f, doc)),
         NEW q, q = ParseFields(F, [f \in F |-> ParseField(f, doc, R[f])]), q.st = "true"
  PROVE  /\ ~ Lacking(F, q.m)
         /\ \A f \in F : /\ DOMAIN q.m[f.name] = DOMAIN Items(f, doc)
                         /\ \A i \in DOMAIN q.m[f.name] : q.m[f.name][i] = R[f][i].v /\ R[f][i].st = "true"
<1>p. PICK p : p = [f \in F |-> ParseField(f, doc, R[f])]
  OBVIOUS
<1>1. \A f \in F : p[f].st = "true" /\ q.m[f.name] = p[f].vs
  <2>1. ParseFields(F, p).st = "true" /\ q = ParseFields(F, p)
    BY <1>p
  <2> QED BY <2>1, FieldsParse
<1>2. ASSUME NEW f \in F
      PROVE  /\ f.label = "required" => q.m[f.name] # <<>>
             /\ DOMAIN q.m[f.name] = DOMAIN Items(f, doc)
             /\ \A i \in DOMAIN q.m[f.name] : q.m[f.name][i] = R[f][i].v /\ R[f][i].st = "true"
  <2>1. q.m[f.name] = ParseField(f, doc, R[f]).vs /\ ParseField(f, doc, R[f]).st = "true"
    BY <1>p, <1>1
  <2>2. PICK n \in Nat : /\ DOMAIN Items(f, doc) = 1 .. n
                         /\ f.name \notin DOMAIN doc => n = 0
                         /\ (f.label # "repeated" /\ f.name \in DOMAIN doc) => n = 1
    <3>1. CASE f.name \notin DOMAIN doc
      <4>1. Items(f, doc) = <<>> /\ DOMAIN <<>> = 1 .. 0
        BY <3>1 DEF Items
      <4> QED BY <3>1, <4>1
    <3>2. CASE f.name \in DOMAIN doc /\ f.label # "repeated"
      <4>1. Items(f, doc) = <<doc[f.name]>>
        BY <3>2 DEF Items
      <4>2. DOMAIN Items(f, doc) = 1 .. 1
        BY <4>1
      <4> QED BY <3>2, <4>2
    <3>3. CASE f.name \in DOMAIN doc /\ f.label = "repeated" /\ doc[f.name].k = "array"
      <4>1. Items(f, doc) = doc[f.name].v /\ IsSeq(doc[f.name].v)
        BY <3>3 DEF Items, HasArrays
      <4> QED BY <3>3, <4>1, SeqIs
    <3>4. CASE f.name \in DOMAIN doc /\ f.label = "repeated" /\ doc[f.name].k # "array"
      <4>1. Items(f, doc) = <<>> /\ DOMAIN <<>> = 1 .. 0
        BY <3>4 DEF Items
      <4> QED BY <3>4, <4>1
    <3> QED BY <3>1, <3>2, <3>3, <3>4
  <2>3. IsSeq(R[f]) /\ Len(R[f]) = n /\ DOMAIN R[f] = 1 .. n
    BY <2>2, MappedIs
  <2>4. f.name \notin DOMAIN doc => R[f] = <<>>
    BY <2>2, <2>3, SeqIs
  <2>5. /\ DOMAIN ParseField(f, doc, R[f]).vs = 1 .. Len(R[f])
        /\ \A i \in DOMAIN R[f] : ParseField(f, doc, R[f]).vs[i] = R[f][i].v /\ R[f][i].st = "true"
        /\ f.label = "required" => ParseField(f, doc, R[f]).vs # <<>>
    <3>1. PICK r : r = R[f]
      OBVIOUS
    <3>2. /\ IsSeq(r) /\ ParseField(f, doc, r).st = "true" /\ (f.name \notin DOMAIN doc => r = <<>>)
          /\ (f.label # "repeated" /\ f.name \in DOMAIN doc) => Len(r) = 1
      BY <2>1, <2>2, <2>3, <2>4, <3>1
    <3>3. /\ DOMAIN ParseField(f, doc, r).vs = 1 .. Len(r)
          /\ \A i \in DOMAIN r : ParseField(f, doc, r).vs[i] = r[i].v /\ r[i].st = "true"
          /\ f.label = "required" => ParseField(f, doc, r).vs # <<>>
      BY <3>2, FieldAccepts
    <3> QED BY <3>1, <3>3
  <2> QED BY <2>1, <2>2, <2>3, <2>5
<1> QED BY <1>2 DEF Lacking

-----------------------------------------------------------------------------
(* Scalars *)

\* One value that is not a message comes back, unless it is a single enum.
LEMMA ScalarBack ==
  ASSUME NEW f, f.type \in Types, NEW v \in Scalars(f.type)
  PROVE  LET r == ParseScalar(f, SerializeScalar(f, v, TRUE)) IN
         /\ r.st = IF f.type = "ENUM" /\ f.label # "repeated" THEN "false" ELSE "true"
         /\ (r.st = "true" /\ (f.type = "STRING" => CString(v) = v)) => r.v = v
<1>j. PICK j : j = SerializeScalar(f, v, TRUE)
  OBVIOUS
<1>r. PICK r : r = ParseScalar(f, j)
  OBVIOUS
<1>0. SUFFICES /\ r.st = IF f.type = "ENUM" /\ f.label # "repeated" THEN "false" ELSE "true"
               /\ (r.st = "true" /\ (f.type = "STRING" => CString(v) = v)) => r.v = v
  BY <1>j, <1>r
<1>1. CASE f.type \in {"INT32", "UINT32"}
  <2>1. v \in NumbersOf(f.type) /\ j = [k |-> "int", v |-> v]
    BY <1>j, <1>1 DEF Scalars, SerializeScalar, Integral, Wide
  <2>2. Is(f.type, j)
    BY <1>1, <2>1 DEF Is, Integral, Wide
  <2>3. r = Value(v)
    BY <1>r, <1>1, <2>1, <2>2 DEF ParseScalar, ParseNarrow, Gets, Wide
  <2> QED BY <1>1, <2>3 DEF Value
<1>2. CASE f.type \in Wide
  <2>1. v \in NumbersOf(f.type) /\ j = [k |-> "int", v |-> v]
    BY <1>j, <1>2 DEF Scalars, SerializeScalar, Integral, Wide
  <2>2. Is(f.type, j)
    BY <1>2, <2>1 DEF Is, Integral, Wide
  <2>3. r = Value(v)
    BY <1>r, <1>2, <2>1, <2>2 DEF ParseScalar, ParseWide, Wide
  <2> QED BY <1>2, <2>3 DEF Value, Wide
<1>3. CASE f.type = "ENUM"
  <2>1. v \in DOMAIN EnumNames /\ j = [k |-> "int", v |-> v]
    BY <1>j, <1>3 DEF Scalars, SerializeScalar, Integral, Wide
  <2>2. DOMAIN EnumNames = {1, 2}
    BY DEF EnumNames
  <2>3. v \in NumbersOf("INT32")
    BY <2>1, <2>2, JsonAssumption DEF NumbersOf, Unsigned, Wide, Largest
  <2>4. Is("INT32", j)
    BY <2>1, <2>3 DEF Is, Integral, Wide
  <2>5. r = IF f.label = "repeated" THEN Value(v) ELSE Fails("false")
    BY <1>r, <1>3, <2>1, <2>4 DEF ParseScalar, ParseEnum, Wide
  <2> QED BY <1>3, <2>5 DEF Value, Fails
<1>4. CASE f.type \in {"DOUBLE", "BOOL"}
  <2>1. j = [k |-> IF f.type = "DOUBLE" THEN "double" ELSE "bool", v |-> v]
    BY <1>j, <1>4 DEF SerializeScalar, Integral, Wide
  <2>2. Is(f.type, j)
    BY <1>4, <2>1 DEF Is, Integral, Wide
  <2>3. r = Value(v)
    BY <1>r, <1>4, <2>1, <2>2 DEF ParseScalar, ParseNarrow, Gets, Wide
  <2> QED BY <1>4, <2>3 DEF Value
<1>5. CASE f.type = "STRING"
  <2>1. j = [k |-> "string", v |-> v]
    BY <1>j, <1>5 DEF SerializeScalar, Integral, Wide
  <2>2. r = Value(CString(v))
    BY <1>r, <1>5, <2>1 DEF ParseScalar, ParseString, Wide
  <2> QED BY <1>5, <2>2 DEF Value
<1>6. CASE f.type = "BYTES"
  <2> DEFINE e == UriEscape(v, "ALL")
  <2>1. j = [k |-> "string", v |-> e] /\ v \in Seq(STRING)
    BY <1>j, <1>6 DEF SerializeScalar, Integral, Wide, Scalars
  <2>2. "ALL" \in Modes
    BY DEF Modes
  <2>3. UriUnescape(e, "ALL") = [ok |-> TRUE, text |-> v, skip |-> 0] /\ \A k \in 1 .. Len(e) : e[k] # "NUL"
    BY <2>1, <2>2, EscapesComeBack
  <2>4. DOMAIN e = 1 .. Len(e)
    <3>1. v \in Letters
      <4>1. STRING \subseteq Letter
        BY DEF Letter
      <4> QED BY <2>1, <4>1, SeqMonotonic DEF Letters
    <3>2. e \in Letters
      BY <2>2, <3>1, EscapeAppend
    <3> QED BY <3>2 DEF Letters
  <2> HIDE DEF e
  <2>5. CString(e) = e
    BY <2>3, <2>4 DEF CString
  <2>6. r = Value(v)
    BY <1>r, <1>6, <2>1, <2>3, <2>5 DEF ParseScalar, ParseString, Wide
  <2> QED BY <1>6, <2>6 DEF Value
<1> QED BY <1>1, <1>2, <1>3, <1>4, <1>5, <1>6 DEF Types, Integral

\* An integral number that is accepted is in its range.
LEMMA ScalarFits ==
  ASSUME NEW f, f.type \in Integral, NEW j, ParseScalar(f, j).st = "true"
  PROVE  ParseScalar(f, j).v \in NumbersOf(f.type)
<1>1. CASE Is(f.type, j)
  <2>1. j.v \in NumbersOf(f.type)
    BY <1>1 DEF Is, Integral, Wide
  <2>2. ParseScalar(f, j) = Value(j.v)
    BY <1>1 DEF ParseScalar, ParseNarrow, ParseWide, Gets, Integral, Wide
  <2> QED BY <2>1, <2>2 DEF Value
<1>2. CASE ~ Is(f.type, j) /\ f.type \notin Wide
  <2>1. ParseScalar(f, j) = Fails(IF f.label = "repeated" THEN "false" ELSE "assert")
    BY <1>2 DEF ParseScalar, ParseNarrow, Gets, Integral, Wide
  <2> QED BY <2>1 DEF Fails
<1>3. CASE ~ Is(f.type, j) /\ f.type \in Wide
  <2>1. ParseScalar(f, j) \in {Fails("false"), Fails("throw"), Value(2)}
    BY <1>3 DEF ParseScalar, ParseWide, Wide
  <2>2. ParseScalar(f, j) = Value(2)
    BY <2>1 DEF Fails
  <2>3. 2 \in NumbersOf(f.type)
    BY <1>3, JsonAssumption DEF NumbersOf, Unsigned, Wide, Largest
  <2> QED BY <2>2, <2>3 DEF Value
<1> QED BY <1>1, <1>2, <1>3

-----------------------------------------------------------------------------
(* Messages that are nested *)

\* The items of a field that were written are found again.
LEMMA ItemsFound ==
  ASSUME NEW types, NEW F, IsType(F, types), NEW m, SetsFields(F, m), NEW items, NEW f \in F,
         IsMap(items[f], DOMAIN m[f.name])
  PROVE  Items(f, Object(F, items)) = items[f] /\ IsSeq(items[f])
<1>1. IsSeq(m[f.name]) /\ (f.label # "repeated" => Len(m[f.name]) <= 1)
  BY DEF SetsFields
<1>2. DOMAIN m[f.name] = 1 .. Len(m[f.name]) /\ Len(m[f.name]) \in Nat
  BY <1>1, SeqIs
<1>3. IsSeq(items[f]) /\ Len(items[f]) = Len(m[f.name])
  BY <1>2, MappedIs
<1> QED BY <1>1, <1>3, ItemsBack

\* A nested message comes back.
LEMMA NestedBack ==
  ASSUME NEW m, IsNested(m), NEW q, q = ParseNested(SerializeNested(m, TRUE))
  PROVE  /\ q.st = IF Lacking(Nested, m) \/ SingleEnum(Nested, m) THEN "false" ELSE "true"
         /\ (q.st = "true" /\ CStrings(Nested, m)) => q.m = m
<1>0. IsType(Nested, Types) /\ SetsFields(Nested, m)
  BY JsonAssumption DEF IsNested
<1>1. PICK items : items = [f \in Nested |-> [i \in DOMAIN m[f.name] |-> SerializeScalar(f, m[f.name][i], TRUE)]]
  OBVIOUS
<1>2. PICK doc : doc = Object(Nested, items)
  OBVIOUS
<1>3. PICK R : R = [f \in Nested |-> [i \in DOMAIN Items(f, doc) |-> ParseScalar(f, Items(f, doc)[i])]]
  OBVIOUS
<1>4. ASSUME NEW f \in Nested
      PROVE  /\ items[f] = [i \in DOMAIN m[f.name] |-> SerializeScalar(f, m[f.name][i], TRUE)]
             /\ IsMap(items[f], DOMAIN m[f.name])
  <2>1. items[f] = [i \in DOMAIN m[f.name] |-> SerializeScalar(f, m[f.name][i], TRUE)]
    BY <1>1
  <2> QED BY <2>1 DEF IsMap
<1>5. ASSUME NEW f \in Nested
      PROVE  /\ IsMap(R[f], DOMAIN m[f.name])
             /\ \A i \in DOMAIN m[f.name] : R[f][i] = ParseScalar(f, SerializeScalar(f, m[f.name][i], TRUE))
  <2>1. Items(f, doc) = items[f]
    <3>1. IsMap(items[f], DOMAIN m[f.name])
      BY <1>4
    <3> QED BY <1>0, <1>2, <3>1, ItemsFound
  <2>2. DOMAIN items[f] = DOMAIN m[f.name] /\ \A i \in DOMAIN m[f.name] : items[f][i] = SerializeScalar(f, m[f.name][i], TRUE)
    BY <1>4
  <2>3. R[f] = [i \in DOMAIN Items(f, doc) |-> ParseScalar(f, Items(f, doc)[i])]
    BY <1>3
  <2>4. R[f] = [i \in DOMAIN m[f.name] |-> ParseScalar(f, items[f][i])]
    BY <2>1, <2>2, <2>3
  <2> QED BY <2>2, <2>4 DEF IsMap
<1>6. ASSUME NEW f \in Nested, NEW i \in DOMAIN m[f.name]
      PROVE  /\ R[f][i].st = IF f.type = "ENUM" /\ f.label # "repeated" THEN "false" ELSE "true"
             /\ (R[f][i].st = "true" /\ (f.type = "STRING" => CString(m[f.name][i]) = m[f.name][i]))
                   => R[f][i].v = m[f.name][i]
  <2>1. f.type \in Types
    BY <1>0, FieldIs
  <2>2. PICK v : v = m[f.name][i]
    OBVIOUS
  <2>3. v \in Scalars(f.type) /\ R[f][i] = ParseScalar(f, SerializeScalar(f, v, TRUE))
    BY <1>5, <2>2 DEF IsNested
  <2> QED BY <2>1, <2>2, <2>3, ScalarBack
<1>7. q = ParseFields(Nested, [f \in Nested |-> ParseField(f, Object(Nested, items), R[f])])
  <2>1. \A f \in Nested : R[f] = [i \in DOMAIN Items(f, doc) |-> ParseScalar(f, Items(f, doc)[i])]
    BY <1>3
  <2>2. SerializeNested(m, TRUE) = doc
    BY <1>1, <1>2 DEF SerializeNested
  <2>3. ParseNested(doc) = ParseFields(Nested, [f \in Nested |-> ParseField(f, doc, R[f])])
    BY <2>1 DEF ParseNested
  <2> QED BY <1>2, <2>2, <2>3
<1>8. \A f \in Nested : \A i \in DOMAIN m[f.name] : R[f][i].st \in {"true", "false"}
  BY <1>6
<1>9. /\ q.st = IF Lacking(Nested, m) \/ \E f \in Nested : \E i \in DOMAIN m[f.name] : R[f][i].st = "false"
                THEN "false" ELSE "true"
      /\ (q.st = "true" /\ \A f \in Nested : \A i \in DOMAIN m[f.name] : R[f][i].v = m[f.name][i]) => q.m = m
  <2>1. \A f \in Nested : IsMap(items[f], DOMAIN m[f.name]) /\ IsMap(R[f], DOMAIN m[f.name])
    BY <1>4, <1>5
  <2>2. PICK p : p = [f \in Nested |-> ParseField(f, Object(Nested, items), R[f])]
    OBVIOUS
  <2>3. (\A f \in Nested : p[f] = ParseField(f, Object(Nested, items), R[f])) /\ q = ParseFields(Nested, p)
    BY <1>7, <2>2
  <2>4. Becomes(Nested, m, items, R, p)
    BY <1>8, <2>1, <2>3 DEF Becomes
  <2>5. ParseFields(Nested, p).st =
           IF Lacking(Nested, m) \/ \E f \in Nested : \E i \in DOMAIN m[f.name] : R[f][i].st = "false"
           THEN "false" ELSE "true"
    BY <1>0, <2>4, LevelBack
  <2>6. (ParseFields(Nested, p).st = "true" /\ \A f \in Nested : \A i \in DOMAIN m[f.name] : R[f][i].v = m[f.name][i])
           => ParseFields(Nested, p).m = m
    BY <1>0, <2>4, LevelBack
  <2> QED BY <2>3, <2>5, <2>6
<1>10. (\E f \in Nested : \E i \in DOMAIN m[f.name] : R[f][i].st = "false") <=> SingleEnum(Nested, m)
  <2>1. \A f \in Nested : m[f.name] # <<>> <=> \E i \in DOMAIN m[f.name] : TRUE
    <3>1. TAKE f \in Nested
    <3>2. IsSeq(m[f.name])
      BY <1>0 DEF SetsFields
    <3>3. Len(m[f.name]) \in Nat /\ DOMAIN m[f.name] = 1 .. Len(m[f.name]) /\ (m[f.name] = <<>> <=> Len(m[f.name]) = 0)
      BY <3>2, SeqIs
    <3> QED BY <3>3
  <2> QED BY <1>6, <2>1 DEF SingleEnum
<1>11. ASSUME q.st = "true", CStrings(Nested, m) PROVE \A f \in Nested : \A i \in DOMAIN m[f.name] : R[f][i].v = m[f.name][i]
  <2>1. \A f \in Nested : \A i \in DOMAIN m[f.name] : R[f][i].st = "true"
    BY <1>8, <1>9, <1>11
  <2>2. \A f \in Nested : \A i \in DOMAIN m[f.name] : f.type = "STRING" => CString(m[f.name][i]) = m[f.name][i]
    BY <1>11 DEF CStrings
  <2> QED BY <1>6, <2>1, <2>2
<1> QED BY <1>9, <1>10, <1>11

\* A nested message that is accepted is complete and in range.
LEMMA NestedAccepts ==
  ASSUME NEW doc, HasArrays(doc), NEW q, q = ParseNested(doc), q.st = "true"
  PROVE  ~ Lacking(Nested, q.m) /\ NumbersFit(Nested, q.m)
<1>1. IsType(Nested, Types)
  BY JsonAssumption
<1>2. PICK R : R = [f \in Nested |-> [i \in DOMAIN Items(f, doc) |-> ParseScalar(f, Items(f, doc)[i])]]
  OBVIOUS
<1>3. \A f \in Nested : R[f] = [i \in DOMAIN Items(f, doc) |-> ParseScalar(f, Items(f, doc)[i])]
  BY <1>2
<1>4. \A f \in Nested : IsMap(R[f], DOMAIN Items(f, doc))
  BY <1>3 DEF IsMap
<1>5. q = ParseFields(Nested, [f \in Nested |-> ParseField(f, doc, R[f])])
  BY <1>3 DEF ParseNested
<1>6. /\ ~ Lacking(Nested, q.m)
      /\ \A f \in Nested : /\ DOMAIN q.m[f.name] = DOMAIN Items(f, doc)
                           /\ \A i \in DOMAIN q.m[f.name] : q.m[f.name][i] = R[f][i].v /\ R[f][i].st = "true"
  BY <1>1, <1>4, <1>5, LevelAccepts
<1>7. ASSUME NEW f \in Nested, f.type \in Integral, NEW i \in DOMAIN q.m[f.name]
      PROVE  q.m[f.name][i] \in NumbersOf(f.type)
  <2>1. PICK j : j = Items(f, doc)[i]
    OBVIOUS
  <2>2. R[f][i] = ParseScalar(f, j)
    BY <1>3, <1>6, <1>7, <2>1
  <2>3. q.m[f.name][i] = ParseScalar(f, j).v /\ ParseScalar(f, j).st = "true"
    BY <1>6, <1>7, <2>2
  <2> QED BY <1>7, <2>3, ScalarFits
<1> QED BY <1>6, <1>7 DEF NumbersFit

-----------------------------------------------------------------------------
(* Messages that have others in them *)

\* A value of a field whose JSON is refused, and one whose strings come back.
Refused(f, v) == IF f.type = "MESSAGE" THEN Lacking(Nested, v) \/ SingleEnum(Nested, v)
                 ELSE f.type = "ENUM" /\ f.label # "repeated"
Kept(f, v) == IF f.type = "MESSAGE" THEN CStrings(Nested, v) ELSE f.type = "STRING" => CString(v) = v

\* What is read of an object is what its message is.
LEMMA ParsedObject ==
  ASSUME NEW j, j.k = "object"
  PROVE  ParseMessage(j).st = ParseNested(j.v).st /\ ParseMessage(j).v = ParseNested(j.v).m
BY DEF ParseMessage

\* One value of any type comes back.
LEMMA ItemBack ==
  ASSUME NEW f, f.type \in Types \cup {"MESSAGE"}, NEW v,
         IF f.type = "MESSAGE" THEN IsNested(v) ELSE v \in Scalars(f.type),
         NEW r, r = ParseItem(f, SerializeItem(f, v, TRUE))
  PROVE  /\ r.st = IF Refused(f, v) THEN "false" ELSE "true"
         /\ (r.st = "true" /\ Kept(f, v)) => r.v = v
<1>1. CASE f.type # "MESSAGE"
  <2>1. r = ParseScalar(f, SerializeScalar(f, v, TRUE))
    BY <1>1 DEF ParseItem, SerializeItem
  <2>2. f.type \in Types /\ v \in Scalars(f.type)
    BY <1>1
  <2>3. /\ r.st = IF f.type = "ENUM" /\ f.label # "repeated" THEN "false" ELSE "true"
        /\ (r.st = "true" /\ (f.type = "STRING" => CString(v) = v)) => r.v = v
    BY <2>1, <2>2, ScalarBack
  <2> QED BY <1>1, <2>3 DEF Refused, Kept
<1>2. CASE f.type = "MESSAGE"
  <2>1. PICK d : d = SerializeNested(v, TRUE)
    OBVIOUS
  <2>2. PICK q : q = ParseNested(d)
    OBVIOUS
  <2>3. SerializeItem(f, v, TRUE) = [k |-> "object", v |-> d]
    BY <1>2, <2>1 DEF SerializeItem
  <2>4. PICK j : j = [k |-> "object", v |-> d]
    OBVIOUS
  <2>5. j.k = "object" /\ j.v = d
    BY <2>4
  <2>6. r = ParseMessage(j)
    BY <1>2, <2>3, <2>4 DEF ParseItem
  <2>7. r.st = q.st /\ r.v = q.m
    BY <2>2, <2>5, <2>6, ParsedObject
  <2>8. q = ParseNested(SerializeNested(v, TRUE)) /\ IsNested(v)
    BY <1>2, <2>1, <2>2
  <2>9. /\ q.st = IF Lacking(Nested, v) \/ SingleEnum(Nested, v) THEN "false" ELSE "true"
        /\ (q.st = "true" /\ CStrings(Nested, v)) => q.m = v
    BY <2>8, NestedBack
  <2> QED BY <1>2, <2>7, <2>9 DEF Refused, Kept
<1> QED BY <1>1, <1>2

\* A message comes back.
LEMMA MessageBack ==
  ASSUME NEW F, IsType(F, Types \cup {"MESSAGE"}), NEW m, IsMessage(F, m),
         NEW q, q = ParseFromJsonValue(F, SerializeToJsonValue(F, m, TRUE))
  PROVE  /\ q.st = IF Lacking(F, m) \/ \E f \in F : \E i \in DOMAIN m[f.name] : Refused(f, m[f.name][i])
                   THEN "false" ELSE "true"
         /\ (q.st = "true" /\ \A f \in F : \A i \in DOMAIN m[f.name] : Kept(f, m[f.name][i])) => q.m = m
<1>0. SetsFields(F, m)
  BY DEF IsMessage
<1>1. PICK items : items = [f \in F |-> [i \in DOMAIN m[f.name] |-> SerializeItem(f, m[f.name][i], TRUE)]]
  OBVIOUS
<1>2. PICK doc : doc = Object(F, items)
  OBVIOUS
<1>3. PICK R : R = [f \in F |-> [i \in DOMAIN Items(f, doc) |-> ParseItem(f, Items(f, doc)[i])]]
  OBVIOUS
<1>4. ASSUME NEW f \in F
      PROVE  /\ items[f] = [i \in DOMAIN m[f.name] |-> SerializeItem(f, m[f.name][i], TRUE)]
             /\ IsMap(items[f], DOMAIN m[f.name])
  <2>1. items[f] = [i \in DOMAIN m[f.name] |-> SerializeItem(f, m[f.name][i], TRUE)]
    BY <1>1
  <2> QED BY <2>1 DEF IsMap
<1>5. ASSUME NEW f \in F
      PROVE  /\ IsMap(R[f], DOMAIN m[f.name])
             /\ \A i \in DOMAIN m[f.name] : R[f][i] = ParseItem(f, SerializeItem(f, m[f.name][i], TRUE))
  <2>1. Items(f, doc) = items[f]
    <3>1. IsMap(items[f], DOMAIN m[f.name])
      BY <1>4
    <3> QED BY <1>0, <1>2, <3>1, ItemsFound
  <2>2. DOMAIN items[f] = DOMAIN m[f.name] /\ \A i \in DOMAIN m[f.name] : items[f][i] = SerializeItem(f, m[f.name][i], TRUE)
    BY <1>4
  <2>3. R[f] = [i \in DOMAIN Items(f, doc) |-> ParseItem(f, Items(f, doc)[i])]
    BY <1>3
  <2>4. R[f] = [i \in DOMAIN m[f.name] |-> ParseItem(f, items[f][i])]
    BY <2>1, <2>2, <2>3
  <2> QED BY <2>2, <2>4 DEF IsMap
<1>6. ASSUME NEW f \in F, NEW i \in DOMAIN m[f.name]
      PROVE  /\ R[f][i].st = IF Refused(f, m[f.name][i]) THEN "false" ELSE "true"
             /\ (R[f][i].st = "true" /\ Kept(f, m[f.name][i])) => R[f][i].v = m[f.name][i]
  <2>1. f.type \in Types \cup {"MESSAGE"}
    BY FieldIs
  <2>2. PICK v : v = m[f.name][i]
    OBVIOUS
  <2>3. /\ IF f.type = "MESSAGE" THEN IsNested(v) ELSE v \in Scalars(f.type)
        /\ R[f][i] = ParseItem(f, SerializeItem(f, v, TRUE))
    BY <1>5, <2>2 DEF IsMessage
  <2> QED BY <2>1, <2>2, <2>3, ItemBack
<1>7. PICK p : p = [f \in F |-> ParseField(f, doc, R[f])]
  OBVIOUS
<1>8. q = ParseFields(F, p)
  <2>1. \A f \in F : R[f] = [i \in DOMAIN Items(f, doc) |-> ParseItem(f, Items(f, doc)[i])]
    BY <1>3
  <2>2. SerializeToJsonValue(F, m, TRUE) = doc
    BY <1>1, <1>2 DEF SerializeToJsonValue
  <2>3. ParseFromJsonValue(F, doc) = ParseFields(F, [f \in F |-> ParseField(f, doc, R[f])])
    BY <2>1 DEF ParseFromJsonValue
  <2> QED BY <1>7, <2>2, <2>3
<1>9. \A f \in F : \A i \in DOMAIN m[f.name] : R[f][i].st \in {"true", "false"}
  BY <1>6
<1>10. Becomes(F, m, items, R, p)
  <2>1. \A f \in F : IsMap(items[f], DOMAIN m[f.name]) /\ IsMap(R[f], DOMAIN m[f.name])
    BY <1>4, <1>5
  <2>2. \A f \in F : p[f] = ParseField(f, Object(F, items), R[f])
    BY <1>2, <1>7
  <2> QED BY <1>9, <2>1, <2>2 DEF Becomes
<1>11. ParseFields(F, p).st =
         IF Lacking(F, m) \/ \E f \in F : \E i \in DOMAIN m[f.name] : R[f][i].st = "false" THEN "false" ELSE "true"
  BY <1>0, <1>10, LevelBack
<1>12. (ParseFields(F, p).st = "true" /\ \A f \in F : \A i \in DOMAIN m[f.name] : R[f][i].v = m[f.name][i])
         => ParseFields(F, p).m = m
  BY <1>0, <1>10, LevelBack
<1>13. (\E f \in F : \E i \in DOMAIN m[f.name] : R[f][i].st = "false")
         <=> \E f \in F : \E i \in DOMAIN m[f.name] : Refused(f, m[f.name][i])
  BY <1>6
<1>14. ASSUME q.st = "true", \A f \in F : \A i \in DOMAIN m[f.name] : Kept(f, m[f.name][i])
       PROVE  \A f \in F : \A i \in DOMAIN m[f.name] : R[f][i].v = m[f.name][i]
  <2>1. \A f \in F : \A i \in DOMAIN m[f.name] : R[f][i].st = "true"
    BY <1>8, <1>9, <1>11, <1>14
  <2> QED BY <1>6, <1>14, <2>1
<1> QED BY <1>8, <1>11, <1>12, <1>13, <1>14

\* What is accepted is right at both levels.
LEMMA MessageAccepts ==
  ASSUME NEW F, IsType(F, Types \cup {"MESSAGE"}), NEW doc, IsDocument(doc),
         NEW q, q = ParseFromJsonValue(F, doc), q.st = "true"
  PROVE  /\ ~ Lacking(F, q.m) /\ NumbersFit(F, q.m)
         /\ \A f \in F : f.type = "MESSAGE" => \A i \in DOMAIN q.m[f.name] :
               ~ Lacking(Nested, q.m[f.name][i]) /\ NumbersFit(Nested, q.m[f.name][i])
<1>1. HasArrays(doc)
  BY DEF IsDocument
<1>2. PICK R : R = [f \in F |-> [i \in DOMAIN Items(f, doc) |-> ParseItem(f, Items(f, doc)[i])]]
  OBVIOUS
<1>3. \A f \in F : R[f] = [i \in DOMAIN Items(f, doc) |-> ParseItem(f, Items(f, doc)[i])]
  BY <1>2
<1>4. \A f \in F : IsMap(R[f], DOMAIN Items(f, doc))
  BY <1>3 DEF IsMap
<1>5. q = ParseFields(F, [f \in F |-> ParseField(f, doc, R[f])])
  BY <1>3 DEF ParseFromJsonValue
<1>6. /\ ~ Lacking(F, q.m)
      /\ \A f \in F : /\ DOMAIN q.m[f.name] = DOMAIN Items(f, doc)
                      /\ \A i \in DOMAIN q.m[f.name] : q.m[f.name][i] = R[f][i].v /\ R[f][i].st = "true"
  BY <1>1, <1>4, <1>5, LevelAccepts
<1>7. ASSUME NEW f \in F, NEW i \in DOMAIN q.m[f.name]
      PROVE  q.m[f.name][i] = ParseItem(f, Items(f, doc)[i]).v /\ ParseItem(f, Items(f, doc)[i]).st = "true"
  BY <1>3, <1>6
<1>8. ASSUME NEW f \in F, f.type \in Integral, NEW i \in DOMAIN q.m[f.name]
      PROVE  q.m[f.name][i] \in NumbersOf(f.type)
  <2>1. PICK j : j = Items(f, doc)[i]
    OBVIOUS
  <2>2. f.type # "MESSAGE"
    BY <1>8 DEF Integral, Wide
  <2>3. q.m[f.name][i] = ParseScalar(f, j).v /\ ParseScalar(f, j).st = "true"
    BY <1>7, <2>1, <2>2 DEF ParseItem
  <2> QED BY <1>8, <2>3, ScalarFits
<1>9. ASSUME NEW f \in F, f.type = "MESSAGE", NEW i \in DOMAIN q.m[f.name]
      PROVE  ~ Lacking(Nested, q.m[f.name][i]) /\ NumbersFit(Nested, q.m[f.name][i])
  <2>1. PICK j : j = Items(f, doc)[i]
    OBVIOUS
  <2>2. q.m[f.name][i] = ParseMessage(j).v /\ ParseMessage(j).st = "true"
    BY <1>7, <1>9, <2>1 DEF ParseItem
  <2>3. j.k = "object"
    <3>1. j.k # "object" => ParseMessage(j).st = "false"
      BY DEF ParseMessage, Fails
    <3> QED BY <2>2, <3>1
  <2>4. PICK n : n = ParseNested(j.v)
    OBVIOUS
  <2>5. ParseMessage(j).st = n.st /\ ParseMessage(j).v = n.m
    BY <2>3, <2>4, ParsedObject
  <2>6. n.st = "true" /\ q.m[f.name][i] = n.m
    BY <2>2, <2>5
  <2>7. HasArrays(j.v)
    <3>1. i \in DOMAIN Items(f, doc)
      BY <1>6
    <3>2. f.name \in DOMAIN doc
      BY <3>1 DEF Items
    <3>3. CASE f.label # "repeated"
      <4>1. Items(f, doc) = <<doc[f.name]>>
        BY <3>2, <3>3 DEF Items
      <4>2. i = 1 /\ j = doc[f.name]
        BY <2>1, <3>1, <4>1
      <4> QED BY <2>3, <3>2, <4>2 DEF IsDocument
    <3>4. CASE f.label = "repeated"
      <4>1. doc[f.name].k = "array" /\ Items(f, doc) = doc[f.name].v
        BY <3>1, <3>2, <3>4 DEF Items
      <4> QED BY <2>1, <2>3, <3>1, <3>2, <4>1 DEF IsDocument
    <3> QED BY <3>3, <3>4
  <2> QED BY <2>4, <2>6, <2>7, NestedAccepts
<1> QED BY <1>6, <1>8, <1>9 DEF NumbersFit

-----------------------------------------------------------------------------
(* What is written is a document. *)

\* The arrays of an object that is written are those of its repeated fields.
LEMMA ObjectArrays ==
  ASSUME NEW types, NEW F, IsType(F, types), NEW items,
         \A f \in F : IsSeq(items[f]) /\ \A i \in DOMAIN items[f] : items[f][i].k # "array"
  PROVE  HasArrays(Object(F, items))
<1>1. SUFFICES ASSUME NEW n \in DOMAIN Object(F, items), Object(F, items)[n].k = "array"
               PROVE  IsSeq(Object(F, items)[n].v)
  BY DEF HasArrays
<1>2. PICK f \in F : f.name = n /\ items[f] # <<>>
  BY DEF Object
<1>3. IF f.label = "repeated" THEN Object(F, items)[n].v = items[f] ELSE Object(F, items)[n] = items[f][1]
  BY <1>2, ObjectIs
<1>4. 1 \in DOMAIN items[f]
  BY <1>2, SeqIs
<1> QED BY <1>1, <1>3, <1>4

\* What a value that is not a message is written as.
LEMMA ScalarKind ==
  ASSUME NEW f, f.type \in Types, NEW v, NEW intact
  PROVE  SerializeScalar(f, v, intact).k \in {"int", "double", "bool", "string"}
BY DEF SerializeScalar, Types, Integral, Wide

\* The same for a nested message.
LEMMA NestedArrays ==
  ASSUME NEW m, IsNested(m), NEW intact
  PROVE  HasArrays(SerializeNested(m, intact))
<1>1. IsType(Nested, Types) /\ SetsFields(Nested, m)
  BY JsonAssumption DEF IsNested
<1>2. PICK items : items = [f \in Nested |-> [i \in DOMAIN m[f.name] |-> SerializeScalar(f, m[f.name][i], intact)]]
  OBVIOUS
<1>3. ASSUME NEW f \in Nested
      PROVE  IsSeq(items[f]) /\ \A i \in DOMAIN items[f] : items[f][i].k # "array"
  <2>1. items[f] = [i \in DOMAIN m[f.name] |-> SerializeScalar(f, m[f.name][i], intact)]
    BY <1>2
  <2>2. IsMap(items[f], DOMAIN m[f.name])
    BY <2>1 DEF IsMap
  <2>3. IsSeq(items[f])
    BY <1>1, <2>2, ItemsFound
  <2>4. f.type \in Types
    BY <1>1, FieldIs
  <2>5. ASSUME NEW i \in DOMAIN items[f] PROVE items[f][i].k # "array"
    <3>1. items[f][i] = SerializeScalar(f, m[f.name][i], intact)
      BY <2>1
    <3>2. SerializeScalar(f, m[f.name][i], intact).k \in {"int", "double", "bool", "string"}
      BY <2>4, ScalarKind
    <3> QED BY <3>1, <3>2
  <2> QED BY <2>3, <2>5
<1>4. HasArrays(Object(Nested, items))
  BY <1>1, <1>3, ObjectArrays
<1> QED BY <1>2, <1>4 DEF SerializeNested

\* What a value of any type is written as.
LEMMA ItemKind ==
  ASSUME NEW f, f.type \in Types \cup {"MESSAGE"}, NEW v,
         IF f.type = "MESSAGE" THEN IsNested(v) ELSE v \in Scalars(f.type), NEW intact
  PROVE  /\ SerializeItem(f, v, intact).k # "array"
         /\ SerializeItem(f, v, intact).k = "object" => HasArrays(SerializeItem(f, v, intact).v)
<1>1. CASE f.type = "MESSAGE"
  <2>1. PICK d : d = SerializeNested(v, intact)
    OBVIOUS
  <2>2. SerializeItem(f, v, intact) = [k |-> "object", v |-> d]
    BY <1>1, <2>1 DEF SerializeItem
  <2>3. HasArrays(d)
    BY <1>1, <2>1, NestedArrays
  <2> QED BY <2>2, <2>3
<1>2. CASE f.type # "MESSAGE"
  <2>1. SerializeItem(f, v, intact) = SerializeScalar(f, v, intact) /\ f.type \in Types
    BY <1>2 DEF SerializeItem
  <2>2. SerializeScalar(f, v, intact).k \in {"int", "double", "bool", "string"}
    BY <2>1, ScalarKind
  <2> QED BY <2>1, <2>2
<1> QED BY <1>1, <1>2

\* SerializeToJsonValue writes a document, its strings intact or not.
LEMMA WrittenIsDocument ==
  ASSUME NEW F, IsType(F, Types \cup {"MESSAGE"}), NEW m, IsMessage(F, m), NEW intact
  PROVE  IsDocument(SerializeToJsonValue(F, m, intact))
<1>0. SetsFields(F, m)
  BY DEF IsMessage
<1>1. PICK items : items = [f \in F |-> [i \in DOMAIN m[f.name] |-> SerializeItem(f, m[f.name][i], intact)]]
  OBVIOUS
<1>2. PICK doc : doc = Object(F, items)
  OBVIOUS
<1>3. ASSUME NEW f \in F
      PROVE  /\ IsSeq(items[f])
             /\ \A i \in DOMAIN items[f] : /\ items[f][i].k # "array"
                                           /\ items[f][i].k = "object" => HasArrays(items[f][i].v)
  <2>1. items[f] = [i \in DOMAIN m[f.name] |-> SerializeItem(f, m[f.name][i], intact)]
    BY <1>1
  <2>2. IsMap(items[f], DOMAIN m[f.name])
    BY <2>1 DEF IsMap
  <2>3. IsSeq(items[f])
    BY <1>0, <2>2, ItemsFound
  <2>4. f.type \in Types \cup {"MESSAGE"}
    BY FieldIs
  <2>5. ASSUME NEW i \in DOMAIN items[f]
        PROVE  /\ items[f][i].k # "array"
               /\ items[f][i].k = "object" => HasArrays(items[f][i].v)
    <3>1. PICK v : v = m[f.name][i]
      OBVIOUS
    <3>2. items[f][i] = SerializeItem(f, v, intact)
      BY <2>1, <3>1
    <3>3. IF f.type = "MESSAGE" THEN IsNested(v) ELSE v \in Scalars(f.type)
      BY <2>1, <3>1 DEF IsMessage
    <3>4. /\ SerializeItem(f, v, intact).k # "array"
          /\ SerializeItem(f, v, intact).k = "object" => HasArrays(SerializeItem(f, v, intact).v)
      BY <2>4, <3>3, ItemKind
    <3> QED BY <3>2, <3>4
  <2> QED BY <2>3, <2>5
<1>4. HasArrays(doc)
  <2>1. \A f \in F : IsSeq(items[f]) /\ \A i \in DOMAIN items[f] : items[f][i].k # "array"
    BY <1>3
  <2> QED BY <1>2, <2>1, ObjectArrays
<1>5. ASSUME NEW n \in DOMAIN doc
      PROVE  /\ doc[n].k = "object" => HasArrays(doc[n].v)
             /\ doc[n].k = "array" => \A i \in DOMAIN doc[n].v : doc[n].v[i].k = "object" => HasArrays(doc[n].v[i].v)
  <2>1. PICK f \in F : f.name = n /\ items[f] # <<>>
    BY <1>2 DEF Object
  <2>2. IF f.label = "repeated" THEN doc[n].k = "array" /\ doc[n].v = items[f] ELSE doc[n] = items[f][1]
    BY <1>2, <2>1, ObjectIs
  <2>3. 1 \in DOMAIN items[f]
    BY <1>3, <2>1, SeqIs
  <2> QED BY <1>3, <2>2, <2>3
<1>6. IsDocument(doc)
  BY <1>4, <1>5 DEF IsDocument
<1> QED BY <1>1, <1>2, <1>6 DEF SerializeToJsonValue

-----------------------------------------------------------------------------
(* The messages in a message. *)

\* The messages in m: m, and the values of its MESSAGE fields.
LEMMA PartsAre ==
  ASSUME NEW m, NEW p
  PROVE  p \in Parts(m) <=> \/ p = <<schema, m>>
                            \/ \E f \in schema : /\ f.type = "MESSAGE"
                                                 /\ \E i \in DOMAIN m[f.name] : p = <<Nested, m[f.name][i]>>
BY DEF Parts

\* Some message in m lacks a field or has a single enum when m lacks one or
\* has an item that is refused.
LEMMA RefusedParts ==
  ASSUME IsType(schema, Types \cup {"MESSAGE"}), NEW m, IsMessage(schema, m)
  PROVE  (\E p \in Parts(m) : Lacking(p[1], p[2]) \/ SingleEnum(p[1], p[2]))
           <=> (Lacking(schema, m) \/ \E f \in schema : \E i \in DOMAIN m[f.name] : Refused(f, m[f.name][i]))
<1>1. ASSUME NEW f \in schema PROVE m[f.name] # <<>> <=> \E i \in DOMAIN m[f.name] : TRUE
  <2>1. IsSeq(m[f.name])
    BY DEF IsMessage, SetsFields
  <2>2. PICK s : s = m[f.name]
    OBVIOUS
  <2>3. Len(s) \in Nat /\ DOMAIN s = 1 .. Len(s) /\ (s = <<>> <=> Len(s) = 0)
    BY <2>1, <2>2, SeqIs
  <2>4. s # <<>> => 1 \in DOMAIN s
    BY <2>3
  <2>5. s = <<>> => DOMAIN s = {}
    BY <2>3
  <2> QED BY <2>2, <2>4, <2>5
<1>2. ASSUME NEW p \in Parts(m), Lacking(p[1], p[2]) \/ SingleEnum(p[1], p[2])
      PROVE  Lacking(schema, m) \/ \E f \in schema : \E i \in DOMAIN m[f.name] : Refused(f, m[f.name][i])
  <2>1. CASE p = <<schema, m>>
    <3>1. Lacking(schema, m) \/ SingleEnum(schema, m)
      BY <1>2, <2>1
    <3>2. ASSUME SingleEnum(schema, m)
          PROVE  \E f \in schema : \E i \in DOMAIN m[f.name] : Refused(f, m[f.name][i])
      <4>1. PICK f \in schema : f.type = "ENUM" /\ f.label # "repeated" /\ m[f.name] # <<>>
        BY <3>2 DEF SingleEnum
      <4>2. PICK i \in DOMAIN m[f.name] : TRUE
        BY <1>1, <4>1
      <4>3. Refused(f, m[f.name][i])
        BY <4>1 DEF Refused
      <4> QED BY <4>3
    <3> QED BY <3>1, <3>2
  <2>2. ASSUME NEW f \in schema, f.type = "MESSAGE", NEW i \in DOMAIN m[f.name], p = <<Nested, m[f.name][i]>>
        PROVE  \E g \in schema : \E l \in DOMAIN m[g.name] : Refused(g, m[g.name][l])
    <3>1. Lacking(Nested, m[f.name][i]) \/ SingleEnum(Nested, m[f.name][i])
      BY <1>2, <2>2
    <3>2. Refused(f, m[f.name][i])
      BY <2>2, <3>1 DEF Refused
    <3> QED BY <3>2
  <2> QED BY <2>1, <2>2, PartsAre
<1>3. ASSUME Lacking(schema, m)
      PROVE  \E p \in Parts(m) : Lacking(p[1], p[2]) \/ SingleEnum(p[1], p[2])
  <2>1. <<schema, m>> \in Parts(m)
    BY PartsAre
  <2> QED BY <1>3, <2>1
<1>4. ASSUME NEW f \in schema, NEW i \in DOMAIN m[f.name], Refused(f, m[f.name][i])
      PROVE  \E p \in Parts(m) : Lacking(p[1], p[2]) \/ SingleEnum(p[1], p[2])
  <2>1. CASE f.type = "MESSAGE"
    <3>1. PICK p : p = <<Nested, m[f.name][i]>>
      OBVIOUS
    <3>2. p \in Parts(m)
      BY <2>1, <3>1, PartsAre
    <3>3. Lacking(p[1], p[2]) \/ SingleEnum(p[1], p[2])
      BY <1>4, <2>1, <3>1 DEF Refused
    <3> QED BY <3>2, <3>3
  <2>2. CASE f.type # "MESSAGE"
    <3>1. PICK p : p = <<schema, m>>
      OBVIOUS
    <3>2. p \in Parts(m) /\ p[1] = schema /\ p[2] = m
      BY <3>1, PartsAre
    <3>3. f.type = "ENUM" /\ f.label # "repeated" /\ m[f.name] # <<>>
      BY <1>1, <1>4, <2>2 DEF Refused
    <3>4. SingleEnum(schema, m)
      BY <3>3 DEF SingleEnum
    <3> QED BY <3>2, <3>4
  <2> QED BY <2>1, <2>2
<1> QED BY <1>2, <1>3, <1>4

\* When the strings of all messages in m have no NUL, each item is kept.
LEMMA KeptParts ==
  ASSUME NEW m, \A p \in Parts(m) : CStrings(p[1], p[2]), NEW f \in schema, NEW i \in DOMAIN m[f.name]
  PROVE  Kept(f, m[f.name][i])
<1>1. CASE f.type = "MESSAGE"
  <2>1. PICK p : p = <<Nested, m[f.name][i]>>
    OBVIOUS
  <2>2. p \in Parts(m) /\ p[1] = Nested /\ p[2] = m[f.name][i]
    BY <1>1, <2>1, PartsAre
  <2> QED BY <1>1, <2>2 DEF Kept
<1>2. CASE f.type # "MESSAGE"
  <2>1. PICK p : p = <<schema, m>>
    OBVIOUS
  <2>2. p \in Parts(m) /\ p[1] = schema /\ p[2] = m
    BY <2>1, PartsAre
  <2>3. CStrings(schema, m)
    BY <2>2
  <2> QED BY <1>2, <2>3 DEF Kept, CStrings
<1> QED BY <1>1, <1>2

-----------------------------------------------------------------------------
(* The document of a message that was written intact is its own. *)

JsonInv ==
    /\ schema \in DOMAIN Instances /\ message \in Instances[schema]
    /\ jpc \in {"start", "json", "parsed"}
    /\ jpc = "json" => /\ root.k = "object" => IsDocument(root.v)
                       /\ own => root.k = "object" /\ root.v = SerializeToJsonValue(schema, message, TRUE)
    /\ JsonRoundTrip

\* What ParseFromJson makes of a document.
LEMMA JsonParsed ==
  ASSUME JsonInv, ParseFromJson
  PROVE  JsonRoundTrip'
<1>1. IsType(schema, Types \cup {"MESSAGE"}) /\ IsMessage(schema, message)
  BY JsonAssumption DEF JsonInv
<1>2. PICK q : q = ParseFromJsonValue(schema, root.v)
  OBVIOUS
<1>3. UNCHANGED <<schema, message, root, own>> /\ (root.k = "object" => outcome' = q.st /\ got' = q.m)
  BY <1>2 DEF ParseFromJson
<1>4. /\ root.k = "object" => IsDocument(root.v)
      /\ own => root.k = "object" /\ root.v = SerializeToJsonValue(schema, message, TRUE)
  BY DEF ParseFromJson, JsonInv
<1>5. \A m, p : p \in Parts(m)' <=> p \in Parts(m)
  BY <1>3 DEF Parts
<1>r. CASE root.k # "object"
  <2>1. ~ own /\ (outcome' = "true" => schema = {})
    BY <1>4, <1>r DEF ParseFromJson
  <2>2. ASSUME schema = {}, NEW p \in Parts(got') PROVE ~ Lacking(p[1], p[2]) /\ NumbersFit(p[1], p[2])
    <3>1. p[1] = {}
      BY <2>2 DEF Parts
    <3> QED BY <3>1 DEF Lacking, NumbersFit
  <2> QED BY <1>3, <1>5, <2>1, <2>2 DEF JsonRoundTrip, Parts
<1>o. SUFFICES ASSUME root.k = "object" PROVE JsonRoundTrip'
  BY <1>r
<1>6. ASSUME own
      PROVE  IF \E p \in Parts(message) : Lacking(p[1], p[2]) \/ SingleEnum(p[1], p[2])
             THEN q.st = "false"
             ELSE /\ q.st = "true"
                  /\ (\A p \in Parts(message) : CStrings(p[1], p[2])) => q.m = message
  <2>1. q = ParseFromJsonValue(schema, SerializeToJsonValue(schema, message, TRUE))
    BY <1>2, <1>4, <1>6
  <2>2. q.st = IF Lacking(schema, message) \/ \E f \in schema : \E i \in DOMAIN message[f.name] : Refused(f, message[f.name][i])
               THEN "false" ELSE "true"
    BY <1>1, <2>1, MessageBack
  <2>3. (q.st = "true" /\ \A f \in schema : \A i \in DOMAIN message[f.name] : Kept(f, message[f.name][i])) => q.m = message
    BY <1>1, <2>1, MessageBack
  <2>4. (\E p \in Parts(message) : Lacking(p[1], p[2]) \/ SingleEnum(p[1], p[2]))
           <=> (Lacking(schema, message) \/ \E f \in schema : \E i \in DOMAIN message[f.name] : Refused(f, message[f.name][i]))
    BY <1>1, RefusedParts
  <2>5. (\A p \in Parts(message) : CStrings(p[1], p[2]))
           => \A f \in schema : \A i \in DOMAIN message[f.name] : Kept(f, message[f.name][i])
    BY KeptParts
  <2> QED BY <2>2, <2>3, <2>4, <2>5
<1>7. ASSUME q.st = "true", NEW p \in Parts(q.m)
      PROVE  ~ Lacking(p[1], p[2]) /\ NumbersFit(p[1], p[2])
  <2>1. /\ ~ Lacking(schema, q.m) /\ NumbersFit(schema, q.m)
        /\ \A f \in schema : f.type = "MESSAGE" => \A i \in DOMAIN q.m[f.name] :
              ~ Lacking(Nested, q.m[f.name][i]) /\ NumbersFit(Nested, q.m[f.name][i])
    BY <1>1, <1>2, <1>4, <1>7, <1>o, MessageAccepts
  <2>2. CASE p = <<schema, q.m>>
    BY <2>1, <2>2
  <2>3. ASSUME NEW f \in schema, f.type = "MESSAGE", NEW i \in DOMAIN q.m[f.name], p = <<Nested, q.m[f.name][i]>>
        PROVE  ~ Lacking(p[1], p[2]) /\ NumbersFit(p[1], p[2])
    BY <2>1, <2>3
  <2> QED BY <1>7, <2>2, <2>3, PartsAre
<1> QED BY <1>3, <1>5, <1>6, <1>7, <1>o DEF JsonRoundTrip, Parts

\* ProtobufIO::ParseFromJson of what SerializeToJson wrote gives the message
\* back, or refuses it, as JsonRoundTrip says, and what it accepts of any
\* origin is complete and in range: for all message types nested once, all
\* messages and documents, and integers of any two widths.
THEOREM JsonComesBack == JsonSpec => []JsonRoundTrip
<1>1. InitJson => JsonInv
  BY DEF InitJson, JsonInv, JsonRoundTrip
<1>2. JsonInv /\ [NextJson]_jsonVars => JsonInv'
  <2> SUFFICES ASSUME JsonInv, [NextJson]_jsonVars PROVE JsonInv'
    OBVIOUS
  <2>1. ASSUME NEW intact \in BOOLEAN, SerializeToJson(intact) PROVE JsonInv'
    <3>1. IsType(schema, Types \cup {"MESSAGE"}) /\ IsMessage(schema, message)
      BY JsonAssumption DEF JsonInv
    <3>2. IsDocument(SerializeToJsonValue(schema, message, intact))
      BY <3>1, WrittenIsDocument
    <3>3. own' => intact = TRUE
      BY <2>1 DEF SerializeToJson
    <3> QED BY <2>1, <3>2, <3>3 DEF SerializeToJson, JsonInv, JsonRoundTrip
  <2>2. ASSUME NEW d \in DOMAIN Documents, ForeignJson(Documents[d]) PROVE JsonInv'
    BY <2>2, JsonAssumption DEF ForeignJson, JsonInv, JsonRoundTrip
  <2>3. CASE ParseFromJson
    <3>1. JsonRoundTrip'
      BY <2>3, JsonParsed
    <3> QED BY <2>3, <3>1 DEF ParseFromJson, JsonInv
  <2>4. CASE UNCHANGED jsonVars
    <3>1. /\ schema' = schema /\ message' = message /\ jpc' = jpc /\ root' = root
          /\ own' = own /\ outcome' = outcome /\ got' = got
      BY <2>4 DEF jsonVars
    <3>2. JsonRoundTrip'
      <4>1. JsonRoundTrip
        BY DEF JsonInv
      <4>2. Parts(message)' = Parts(message) /\ Parts(got)' = Parts(got)
        BY <3>1 DEF Parts
      <4> QED BY <3>1, <4>1, <4>2 DEF JsonRoundTrip
    <3> QED BY <3>1, <3>2 DEF JsonInv
  <2> QED BY <2>1, <2>2, <2>3, <2>4 DEF NextJson
<1>3. JsonInv => JsonRoundTrip
  BY DEF JsonInv
<1> QED BY <1>1, <1>2, <1>3, PTL DEF JsonSpec
=============================================================================
