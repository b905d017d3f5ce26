---------------------------- MODULE IngestProofs ----------------------------
(***************************************************************************)
(* Theorems about Ingest for any files, replacements, columns, limits and  *)
(* word size.                                                              *)
(***************************************************************************)
EXTENDS Ingest, DataInduction, FunctionTheorems, TLAPS

-----------------------------------------------------------------------------
\* Running totals.

LEMMA FcnLength ==
    ASSUME NEW n \in Nat, NEW w, DOMAIN w = 1..n
    PROVE  Len(w) = n
OBVIOUS

LEMMA TotalIs ==
    ASSUME NEW n \in Nat, NEW w, DOMAIN w = 1..n, \A k \in 1..n : w[k] \in Int
    PROVE  /\ TotalTo(w, 0) = 0
           /\ \A k \in 0..n : TotalTo(w, k) \in Int
           /\ \A k \in 1..n : TotalTo(w, k) = TotalTo(w, k - 1) + w[k]
<1> DEFINE Body2(h) == [k \in 0..n |-> IF k = 0 THEN 0 ELSE h[k - 1] + w[k]]
           total == CHOOSE h : h = Body2(h)
<1>1. PICK h : Running(h, 0, w, n)
  BY RunningExists
<1>2. h \in [0..n -> Int] /\ h[0] = 0 /\ \A k \in 1..n : h[k] = h[k - 1] + w[k]
  BY <1>1 DEF Running
<1>3. h = Body2(h)
  <2>1. h = [k \in 0..n |-> h[k]]
    BY <1>2
  <2>2. \A k \in 0..n : h[k] = IF k = 0 THEN 0 ELSE h[k - 1] + w[k]
    BY <1>2
  <2> QED BY ONLY <2>1, <2>2
<1>4. total = Body2(total)
  BY <1>3
<1>5. Len(w) = n
  BY FcnLength
<1>6. \A k : TotalTo(w, k) = total[k]
  BY <1>5, Zenon DEF TotalTo
<1> HIDE DEF total
<1>7. total[0] = 0 /\ \A k \in 1..n : total[k] = total[k - 1] + w[k]
  BY <1>4
<1>8. \A k \in 0..n : total[k] \in Int
  <2> DEFINE S == {k \in 0..n : total[k] \in Int}
  <2>1. 0 \in S
    BY <1>7
  <2>2. \A k \in 0..(n - 1) : k \in S => k + 1 \in S
    BY <1>7
  <2>3. \A k \in 0..n : k \in S
    <3> HIDE DEF S
    <3> QED BY ONLY <2>1, <2>2, n \in Nat, UpTo
  <2> QED BY <2>3
<1> QED BY <1>6, <1>7, <1>8

\* A function on 0..n that never falls, and one that stays where it is.
LEMMA Rises ==
    ASSUME NEW n \in Nat, NEW t, \A k \in 0..n : t[k] \in Int, \A k \in 1..n : t[k - 1] <= t[k]
    PROVE  \A i, j \in 0..n : i <= j => t[i] <= t[j]
<1> SUFFICES ASSUME NEW i \in 0..n PROVE \A j \in 0..n : i <= j => t[i] <= t[j]
  OBVIOUS
<1> DEFINE S == {j \in 0..n : i <= j => t[i] <= t[j]}
<1>1. 0 \in S
  OBVIOUS
<1>2. \A k \in 0..(n - 1) : k \in S => k + 1 \in S
  <2> SUFFICES ASSUME NEW k \in 0..(n - 1), k \in S, i <= k + 1 PROVE t[i] <= t[k + 1]
    OBVIOUS
  <2>1. k + 1 \in 1..n /\ (k + 1) - 1 = k /\ k \in 0..n
    OBVIOUS
  <2>2. t[k] <= t[k + 1] /\ t[k] \in Int /\ t[k + 1] \in Int /\ t[i] \in Int
    BY <2>1
  <2>3. CASE i = k + 1
    BY <2>2, <2>3
  <2>4. CASE i <= k
    BY <2>2, <2>4
  <2> QED BY <2>3, <2>4
<1>3. \A k \in 0..n : k \in S
  <2> HIDE DEF S
  <2> QED BY ONLY <1>1, <1>2, n \in Nat, UpTo
<1> QED BY <1>3

LEMMA Stays ==
    ASSUME NEW n \in Nat, NEW t, NEW i \in 0..n, NEW j \in 0..n, i <= j,
           \A k \in (i + 1)..j : t[k] = t[k - 1]
    PROVE  t[j] = t[i]
<1> DEFINE S == {k \in 0..n : i <= k /\ k <= j => t[k] = t[i]}
<1>1. 0 \in S
  OBVIOUS
<1>2. \A k \in 0..(n - 1) : k \in S => k + 1 \in S
  <2> SUFFICES ASSUME NEW k \in 0..(n - 1), k \in S, i <= k + 1, k + 1 <= j PROVE t[k + 1] = t[i]
    OBVIOUS
  <2>1. CASE i = k + 1
    BY <2>1
  <2>2. CASE i <= k
    <3>1. k + 1 \in (i + 1)..j /\ (k + 1) - 1 = k
      BY <2>2
    <3> QED BY <2>2, <3>1
  <2> QED BY <2>1, <2>2
<1>3. \A k \in 0..n : k \in S
  <2> HIDE DEF S
  <2> QED BY ONLY <1>1, <1>2, n \in Nat, UpTo
<1> QED BY <1>3

-----------------------------------------------------------------------------
\* What a file counts up to each of its entries.

LEMMA FileIs ==
    ASSUME NEW f \in Files
    PROVE  /\ End(f) \in Nat /\ DOMAIN f.entries = 1..End(f)
           /\ \A i \in 1..End(f) : f.entries[i].height \in Nat /\ f.entries[i].height >= 1
                                   /\ f.entries[i].size \in Nat
<1>1. f.entries \in Seq(Range(f.entries))
  BY FilesAssumption
<1>2. End(f) \in Nat /\ DOMAIN f.entries = 1..End(f)
  BY <1>1 DEF End
<1>3. \A i \in DOMAIN f.entries : f.entries[i].height \in Nat \ {0} /\ f.entries[i].size \in Nat
  BY FilesAssumption
<1> QED BY <1>2, <1>3

\* A count that starts with 0, grows by the weight of each entry and never falls.
Counts(t, n, w) ==
    /\ \A k \in 0..n : t[k] \in Nat
    /\ t[0] = 0
    /\ \A k \in 1..n : t[k] = t[k - 1] + w[k]
    /\ \A i, j \in 0..n : i <= j => t[i] <= t[j]

LEMMA TotalCounts ==
    ASSUME NEW n \in Nat, NEW w, DOMAIN w = 1..n, \A k \in 1..n : w[k] \in Nat,
           NEW t, \A k \in 0..n : t[k] = TotalTo(w, k)
    PROVE  Counts(t, n, w)
<1>0. \A k \in 1..n : w[k] \in Int
  OBVIOUS
<1>1. /\ TotalTo(w, 0) = 0
      /\ \A k \in 0..n : TotalTo(w, k) \in Int
      /\ \A k \in 1..n : TotalTo(w, k) = TotalTo(w, k - 1) + w[k]
  BY <1>0, TotalIs
<1>2. \A k \in 0..n : t[k] \in Int
  BY <1>1
<1>3. t[0] = 0
  BY <1>1
<1>4. \A k \in 1..n : t[k] = t[k - 1] + w[k]
  <2> SUFFICES ASSUME NEW k \in 1..n PROVE t[k] = t[k - 1] + w[k]
    OBVIOUS
  <2>1. k \in 0..n /\ k - 1 \in 0..n
    OBVIOUS
  <2> QED BY <1>1, <2>1
<1>5. \A k \in 1..n : t[k - 1] <= t[k]
  BY ONLY <1>2, <1>4, n \in Nat, \A k \in 1..n : w[k] \in Nat
<1>6. \A i, j \in 0..n : i <= j => t[i] <= t[j]
  BY ONLY <1>2, <1>5, n \in Nat, Rises
<1>7. \A k \in 0..n : t[k] \in Nat
  BY ONLY <1>2, <1>3, <1>6, n \in Nat
<1> QED BY <1>3, <1>4, <1>6, <1>7 DEF Counts

LEMMA LinesAre ==
    ASSUME NEW f \in Files
    PROVE  /\ \A k \in 0..End(f) : LinesTo(f, k) \in Nat
           /\ LinesTo(f, 0) = 0
           /\ \A k \in 1..End(f) : LinesTo(f, k) = LinesTo(f, k - 1) + f.entries[k].height
           /\ \A i, j \in 0..End(f) : i <= j => LinesTo(f, i) <= LinesTo(f, j)
<1> DEFINE n == End(f)
           w == [k \in 1..n |-> f.entries[k].height]
           t == [k \in 0..n |-> LinesTo(f, k)]
<1>1. n \in Nat /\ DOMAIN w = 1..n /\ (\A k \in 1..n : w[k] \in Nat)
  BY FileIs
<1>2. \A k \in 0..n : t[k] = TotalTo(w, k)
  BY DEF LinesTo
<1>3. Counts(t, n, w)
  <2> HIDE DEF n, w, t
  <2> QED BY ONLY <1>1, <1>2, TotalCounts
<1>4. n \in Nat /\ \A k \in 1..n : w[k] = f.entries[k].height
  BY <1>1
<1>5. \A k \in 0..n : t[k] = LinesTo(f, k)
  OBVIOUS
<1> HIDE DEF n, w, t
<1>6. n = End(f)
  BY DEF n
<1>7. /\ \A k \in 0..n : t[k] \in Nat
      /\ t[0] = 0
      /\ \A k \in 1..n : t[k] = t[k - 1] + w[k]
      /\ \A i, j \in 0..n : i <= j => t[i] <= t[j]
  BY <1>3 DEF Counts
<1>8. \A k \in 1..n : LinesTo(f, k) = LinesTo(f, k - 1) + f.entries[k].height
  <2> SUFFICES ASSUME NEW k \in 1..n PROVE LinesTo(f, k) = LinesTo(f, k - 1) + f.entries[k].height
    OBVIOUS
  <2>1. k \in 0..n /\ k - 1 \in 0..n
    BY <1>4
  <2> QED BY ONLY <2>1, <1>7, <1>5, <1>4, k \in 1..n
<1> QED BY ONLY <1>4, <1>5, <1>6, <1>7, <1>8

LEMMA BytesAre ==
    ASSUME NEW f \in Files
    PROVE  /\ \A k \in 0..End(f) : BytesTo(f, k) \in Nat
           /\ BytesTo(f, 0) = 0
           /\ \A i, j \in 0..End(f) : i <= j => BytesTo(f, i) <= BytesTo(f, j)
<1> DEFINE n == End(f)
           w == [k \in 1..n |-> f.entries[k].size]
           t == [k \in 0..n |-> BytesTo(f, k)]
<1>1. n \in Nat /\ DOMAIN w = 1..n /\ (\A k \in 1..n : w[k] \in Nat)
  BY FileIs
<1>2. \A k \in 0..n : t[k] = TotalTo(w, k)
  BY DEF BytesTo
<1>3. Counts(t, n, w)
  <2> HIDE DEF n, w, t
  <2> QED BY ONLY <1>1, <1>2, TotalCounts
<1>5. \A k \in 0..n : t[k] = BytesTo(f, k)
  OBVIOUS
<1> HIDE DEF n, w, t
<1>6. n = End(f)
  BY DEF n
<1>7. /\ \A k \in 0..n : t[k] \in Nat
      /\ t[0] = 0
      /\ \A i, j \in 0..n : i <= j => t[i] <= t[j]
  BY <1>3 DEF Counts
<1> QED BY ONLY <1>1, <1>5, <1>6, <1>7

LEMMA FilledIs ==
    ASSUME NEW f \in Files
    PROVE  /\ \A k \in 0..End(f) : FilledTo(f, k) \in Nat
           /\ FilledTo(f, 0) = 0
           /\ \A k \in 1..End(f) :
                 FilledTo(f, k) = FilledTo(f, k - 1) + (IF Blank(f, k) THEN 0 ELSE 1)
           /\ \A i, j \in 0..End(f) : i <= j => FilledTo(f, i) <= FilledTo(f, j)
<1> DEFINE n == End(f)
           w == [k \in 1..n |-> IF Blank(f, k) THEN 0 ELSE 1]
           t == [k \in 0..n |-> FilledTo(f, k)]
<1>1. n \in Nat /\ DOMAIN w = 1..n /\ (\A k \in 1..n : w[k] \in Nat)
  BY FileIs
<1>2. \A k \in 0..n : t[k] = TotalTo(w, k)
  BY DEF FilledTo
<1>3. Counts(t, n, w)
  <2> HIDE DEF n, w, t
  <2> QED BY ONLY <1>1, <1>2, TotalCounts
<1>4. n \in Nat /\ \A k \in 1..n : w[k] = IF Blank(f, k) THEN 0 ELSE 1
  BY <1>1
<1>5. \A k \in 0..n : t[k] = FilledTo(f, k)
  OBVIOUS
<1> HIDE DEF n, w, t
<1>6. n = End(f)
  BY DEF n
<1>7. /\ \A k \in 0..n : t[k] \in Nat
      /\ t[0] = 0
      /\ \A k \in 1..n : t[k] = t[k - 1] + w[k]
      /\ \A i, j \in 0..n : i <= j => t[i] <= t[j]
  BY <1>3 DEF Counts
<1>8. \A k \in 1..n : FilledTo(f, k) = FilledTo(f, k - 1) + (IF Blank(f, k) THEN 0 ELSE 1)
  <2> SUFFICES ASSUME NEW k \in 1..n
               PROVE  FilledTo(f, k) = FilledTo(f, k - 1) + (IF Blank(f, k) THEN 0 ELSE 1)
    OBVIOUS
  <2>1. k \in 0..n /\ k - 1 \in 0..n
    BY <1>4
  <2> QED BY ONLY <2>1, <1>7, <1>5, <1>4, k \in 1..n
<1> QED BY ONLY <1>4, <1>5, <1>6, <1>7, <1>8

-----------------------------------------------------------------------------
\* What Read passes over.

NextFrom(f, a) == Min({i \in a..End(f) : ~Blank(f, i)} \cup {End(f) + 1})

LEMMA MinIs ==
    ASSUME NEW T, T \subseteq Nat, T # {}
    PROVE  Min(T) \in T /\ \A x \in T : Min(T) <= x
<1>1. \E n \in T : \A m \in T : n <= m
  BY Least
<1> QED BY <1>1, Zenon DEF Min

LEMMA NextIs ==
    ASSUME NEW f \in Files, NEW a \in 1..(End(f) + 1), NEW n, n = NextFrom(f, a)
    PROVE  /\ n \in a..(End(f) + 1)
           /\ n <= End(f) => ~Blank(f, n)
           /\ \A k \in a..(n - 1) : Blank(f, k)
<1> DEFINE T == {i \in a..End(f) : ~Blank(f, i)} \cup {End(f) + 1}
<1>0. End(f) \in Nat
  BY FileIs
<1>1. T \subseteq Nat /\ T # {} /\ End(f) + 1 \in T
  BY <1>0
<1>2. n \in T /\ \A x \in T : n <= x
  <2>1. n = Min(T)
    BY DEF NextFrom
  <2> HIDE DEF T
  <2> QED BY <1>1, <2>1, MinIs
<1>3. n \in a..(End(f) + 1)
  BY <1>0, <1>2
<1>4. n <= End(f) => ~Blank(f, n)
  BY <1>0, <1>2
<1>5. ASSUME NEW k \in a..(n - 1) PROVE Blank(f, k)
  <2>1. k \in a..End(f) /\ ~(n <= k)
    BY <1>0, <1>3
  <2>2. k \notin T
    <3> HIDE DEF T
    <3> QED BY <1>2, <2>1
  <2> QED BY <2>1, <2>2
<1> QED BY <1>3, <1>4, <1>5

\* Only the entry itself is counted.
LEMMA FilledOver ==
    ASSUME NEW f \in Files, NEW a \in 1..(End(f) + 1), NEW n, n = NextFrom(f, a)
    PROVE  /\ FilledTo(f, n - 1) = FilledTo(f, a - 1)
           /\ n <= End(f) => FilledTo(f, n) = FilledTo(f, a - 1) + 1
<1> DEFINE e == End(f)
           t == [k \in 0..e |-> FilledTo(f, k)]
<1>1. e \in Nat /\ n \in a..(e + 1) /\ (n <= e => ~Blank(f, n)) /\ \A k \in a..(n - 1) : Blank(f, k)
  BY FileIs, NextIs
<1>2. /\ \A k \in 0..e : FilledTo(f, k) \in Nat
      /\ \A k \in 1..e : FilledTo(f, k) = FilledTo(f, k - 1) + (IF Blank(f, k) THEN 0 ELSE 1)
  BY FilledIs
<1>3. a \in 1..(e + 1)
  OBVIOUS
<1>4. \A k \in 0..e : t[k] = FilledTo(f, k)
  OBVIOUS
<1> HIDE DEF e, t
<1>5. a - 1 \in 0..e /\ n - 1 \in 0..e /\ a - 1 <= n - 1
  BY ONLY <1>1, <1>3
<1>6. \A k \in ((a - 1) + 1)..(n - 1) : t[k] = t[k - 1]
  <2> SUFFICES ASSUME NEW k \in ((a - 1) + 1)..(n - 1) PROVE t[k] = t[k - 1]
    OBVIOUS
  <2>1. k \in 1..e /\ k \in 0..e /\ k - 1 \in 0..e /\ k \in a..(n - 1)
    BY ONLY <1>1, <1>3, k \in ((a - 1) + 1)..(n - 1)
  <2> QED BY ONLY <2>1, <1>1, <1>2, <1>4
<1>7. t[n - 1] = t[a - 1]
  BY ONLY <1>1, <1>5, <1>6, Stays
<1>8. FilledTo(f, n - 1) = FilledTo(f, a - 1)
  BY ONLY <1>4, <1>5, <1>7
<1>9. ASSUME n <= e PROVE FilledTo(f, n) = FilledTo(f, a - 1) + 1
  <2>1. n \in 1..e
    BY ONLY <1>1, <1>3, <1>9
  <2> QED BY ONLY <2>1, <1>1, <1>2, <1>8, <1>9
<1> QED BY <1>8, <1>9 DEF e

\* At most one element of a set of numbers with 0 is the largest.
LEMMA MaxIs ==
    ASSUME NEW T, T \subseteq Nat, NEW m \in T, \A x \in T : x <= m
    PROVE  Max(T) = m
<1>0. \A x \in T : m >= x
  OBVIOUS
<1>1. Max(T) \in T /\ \A x \in T : Max(T) >= x
  BY <1>0, Zenon DEF Max
<1>2. Max(T) \in Nat /\ m \in Nat /\ Max(T) >= m /\ m >= Max(T)
  BY <1>0, <1>1
<1> QED BY ONLY <1>2

\* Before the entry that Read returns only blank lines follow the last one it returned.
LEMMA BytesAtIs ==
    ASSUME NEW f \in Files, NEW a \in 1..(End(f) + 1), a > 1 => ~Blank(f, a - 1),
           NEW n, n = NextFrom(f, a), n <= End(f)
    PROVE  BytesAt(f, n) = BytesTo(f, n) - BytesTo(f, a - 1)
<1> DEFINE T == {0} \cup {j \in 1..(n - 1) : ~Blank(f, j)}
<1>1. End(f) \in Nat /\ n \in a..(End(f) + 1) /\ \A k \in a..(n - 1) : Blank(f, k)
  BY FileIs, NextIs
<1>2. T \subseteq Nat /\ a - 1 \in T
  BY <1>1
<1>3. \A x \in T : x <= a - 1
  BY <1>1
<1>4. Max(T) = a - 1
  <2> HIDE DEF T
  <2> QED BY <1>2, <1>3, MaxIs
<1> QED BY <1>4 DEF BytesAt

-----------------------------------------------------------------------------
\* The header and the records after it.

IsHeader(f, i) == f.entries[i].kind = "header"

LEMMA HeaderIs ==
    ASSUME NEW f \in Files
    PROVE  /\ HeaderAt(f) \in 0..End(f)
           /\ HeaderAt(f) > 0 => IsHeader(f, HeaderAt(f))
           /\ \A i \in 1..End(f) : IsHeader(f, i) => 0 < HeaderAt(f) /\ HeaderAt(f) <= i
<1> DEFINE S == {i \in 1..End(f) : IsHeader(f, i)}
           T == {0} \cup {i \in 1..End(f) : IsHeader(f, i) /\ \A j \in 1..(i - 1) : ~IsHeader(f, j)}
<1>0. End(f) \in Nat
  BY FileIs
<1>1. HeaderAt(f) = Max(T)
  BY DEF HeaderAt, IsHeader
<1>2. T \subseteq Nat /\ 0 \in T
  BY <1>0
<1>3. CASE S = {}
  <2>1. \A x \in T : x <= 0
    BY <1>3
  <2>2. HeaderAt(f) = 0
    <3> HIDE DEF T
    <3> QED BY <1>1, <1>2, <2>1, MaxIs
  <2> QED BY <1>0, <1>3, <2>2
<1>4. CASE S # {}
  <2>1. S \subseteq Nat
    BY <1>0
  <2>2. PICK m \in S : \A x \in S : m <= x
    <3> HIDE DEF S
    <3> QED BY <1>4, <2>1, Least
  <2>3. m \in 1..End(f) /\ IsHeader(f, m)
    OBVIOUS
  <2>4. \A j \in 1..(m - 1) : ~IsHeader(f, j)
    <3> SUFFICES ASSUME NEW j \in 1..(m - 1), IsHeader(f, j) PROVE FALSE
      OBVIOUS
    <3>1. j \in S /\ ~(m <= j)
      BY <1>0, <2>3
    <3> HIDE DEF S
    <3> QED BY <2>2, <3>1
  <2>5. m \in T
    BY <2>3, <2>4
  <2>6. ASSUME NEW x \in T PROVE x <= m
    <3>1. CASE x = 0
      BY <1>0, <2>3, <3>1
    <3>2. CASE x # 0
      <4>1. x \in 1..End(f) /\ \A j \in 1..(x - 1) : ~IsHeader(f, j)
        BY <3>2
      <4>2. m \notin 1..(x - 1)
        BY <2>3, <4>1
      <4> QED BY <1>0, <2>3, <4>1, <4>2
    <3> QED BY <3>1, <3>2
  <2>7. HeaderAt(f) = m
    <3> HIDE DEF T, S
    <3> QED BY <1>1, <1>2, <2>5, <2>6, MaxIs
  <2>8. \A i \in 1..End(f) : IsHeader(f, i) => m <= i
    BY <2>2
  <2> QED BY <1>0, <2>3, <2>7, <2>8
<1> QED BY <1>3, <1>4

\* The entries after the header that are not blank are numbered from 1.
LEMMA OrdinalIs ==
    ASSUME NEW f \in Files
    PROVE  /\ \A i \in HeaderAt(f)..End(f) : Ordinal(f, i) \in Nat
           /\ Ordinal(f, HeaderAt(f)) = 0
           /\ \A i \in (HeaderAt(f) + 1)..End(f) :
                 Ordinal(f, i) = Ordinal(f, i - 1) + (IF Blank(f, i) THEN 0 ELSE 1)
           /\ \A i, j \in HeaderAt(f)..End(f) : i <= j => Ordinal(f, i) <= Ordinal(f, j)
<1> DEFINE h == HeaderAt(f)
           e == End(f)
           F(i) == FilledTo(f, i)
<1>1. h \in 0..e /\ e \in Nat
  BY FileIs, HeaderIs
<1>2. /\ \A k \in 0..e : F(k) \in Nat
      /\ \A k \in 1..e : F(k) = F(k - 1) + (IF Blank(f, k) THEN 0 ELSE 1)
      /\ \A i, j \in 0..e : i <= j => F(i) <= F(j)
  BY FilledIs
<1>3. \A i : Ordinal(f, i) = F(i) - F(h)
  BY DEF Ordinal
<1> HIDE DEF h, e, F
<1>4. \A i \in h..e : Ordinal(f, i) \in Nat
  <2> SUFFICES ASSUME NEW i \in h..e PROVE Ordinal(f, i) \in Nat
    OBVIOUS
  <2>1. i \in 0..e /\ h \in 0..e /\ h <= i
    BY <1>1
  <2>2. F(i) \in Nat /\ F(h) \in Nat /\ F(h) <= F(i)
    BY <1>2, <2>1
  <2> QED BY <1>3, <2>2
<1>5. Ordinal(f, h) = 0
  BY <1>1, <1>2, <1>3
<1>6. \A i \in (h + 1)..e : Ordinal(f, i) = Ordinal(f, i - 1) + (IF Blank(f, i) THEN 0 ELSE 1)
  <2> SUFFICES ASSUME NEW i \in (h + 1)..e
               PROVE  Ordinal(f, i) = Ordinal(f, i - 1) + (IF Blank(f, i) THEN 0 ELSE 1)
    OBVIOUS
  <2>1. i \in 1..e /\ i - 1 \in 0..e /\ h \in 0..e
    BY <1>1
  <2>2. F(i) = F(i - 1) + (IF Blank(f, i) THEN 0 ELSE 1) /\ F(i - 1) \in Nat /\ F(h) \in Nat
    BY <1>2, <2>1
  <2> QED BY ONLY <1>3, <2>2
<1>7. \A i, j \in h..e : i <= j => Ordinal(f, i) <= Ordinal(f, j)
  <2> SUFFICES ASSUME NEW i \in h..e, NEW j \in h..e, i <= j PROVE Ordinal(f, i) <= Ordinal(f, j)
    OBVIOUS
  <2>1. i \in 0..e /\ j \in 0..e /\ h \in 0..e
    BY <1>1
  <2>2. F(i) <= F(j) /\ F(i) \in Nat /\ F(j) \in Nat /\ F(h) \in Nat
    BY <1>2, <2>1
  <2> QED BY ONLY <1>3, <2>2
<1> QED BY <1>4, <1>5, <1>6, <1>7 DEF h, e

\* A row's number says how far its entry is.
LEMMA OrdinalOrder ==
    ASSUME NEW f \in Files, NEW i \in Body(f), NEW a \in HeaderAt(f)..End(f)
    PROVE  /\ i \in (HeaderAt(f) + 1)..End(f) /\ ~Blank(f, i)
           /\ Ordinal(f, i) \in Nat /\ Ordinal(f, i) >= 1 /\ Ordinal(f, a) \in Nat
           /\ i <= a <=> Ordinal(f, i) <= Ordinal(f, a)
<1> DEFINE h == HeaderAt(f)
           e == End(f)
<1>1. h \in 0..e /\ e \in Nat
  BY FileIs, HeaderIs
<1>2. i \in (h + 1)..e /\ ~Blank(f, i)
  BY DEF Body
<1>3. /\ \A k \in h..e : Ordinal(f, k) \in Nat
      /\ \A k \in (h + 1)..e : Ordinal(f, k) = Ordinal(f, k - 1) + (IF Blank(f, k) THEN 0 ELSE 1)
      /\ \A k, j \in h..e : k <= j => Ordinal(f, k) <= Ordinal(f, j)
  BY OrdinalIs
<1>4. a \in h..e
  OBVIOUS
<1> HIDE DEF h, e
<1>5. i \in h..e /\ i - 1 \in h..e
  BY <1>1, <1>2
<1>6. /\ Ordinal(f, i) \in Nat /\ Ordinal(f, i - 1) \in Nat /\ Ordinal(f, a) \in Nat
      /\ Ordinal(f, i) = Ordinal(f, i - 1) + 1
  BY <1>2, <1>3, <1>4, <1>5
<1>7. i <= a => Ordinal(f, i) <= Ordinal(f, a)
  BY <1>3, <1>4, <1>5
<1>8. a <= i - 1 => Ordinal(f, a) <= Ordinal(f, i - 1)
  BY <1>3, <1>4, <1>5
<1>9. i <= a \/ a <= i - 1
  BY ONLY <1>1, <1>2, <1>4
<1>10. i <= a <=> Ordinal(f, i) <= Ordinal(f, a)
  BY ONLY <1>6, <1>7, <1>8, <1>9
<1> QED BY <1>2, <1>6, <1>10 DEF h, e

LEMMA BodyNumbered ==
    ASSUME NEW f \in Files
    PROVE  /\ \A i \in Body(f) : Ordinal(f, i) \in 1..Ordinal(f, End(f))
           /\ \A m \in 1..Ordinal(f, End(f)) : \E i \in Body(f) : Ordinal(f, i) = m
           /\ \A i, j \in Body(f) : Ordinal(f, i) = Ordinal(f, j) => i = j
           /\ Cardinality(Body(f)) = Ordinal(f, End(f))
           /\ Ordinal(f, End(f)) \in Nat
<1> DEFINE h == HeaderAt(f)
           e == End(f)
           B == Body(f)
           O(i) == Ordinal(f, i)
           g == [i \in B |-> O(i)]
<1>1. h \in 0..e /\ e \in Nat
  BY FileIs, HeaderIs
<1>2. e \in h..e
  BY <1>1
<1>3. \A i \in B : i \in (h + 1)..e /\ ~Blank(f, i) /\ O(i) \in Nat /\ O(i) >= 1
  BY <1>2, OrdinalOrder
<1>4. \A i \in B : \A a \in h..e : i <= a <=> O(i) <= O(a)
  BY OrdinalOrder
<1>5. /\ \A k \in h..e : O(k) \in Nat
      /\ O(h) = 0
      /\ \A k \in (h + 1)..e : O(k) = O(k - 1) + (IF Blank(f, k) THEN 0 ELSE 1)
  BY OrdinalIs
<1>6. \A i \in (h + 1)..e : ~Blank(f, i) => i \in B
  BY DEF Body
<1> HIDE DEF h, e, O, B
<1>7. \A i \in B : O(i) \in 1..O(e)
  <2> SUFFICES ASSUME NEW i \in B PROVE O(i) \in 1..O(e)
    OBVIOUS
  <2>1. i \in (h + 1)..e /\ O(i) \in Nat /\ O(i) >= 1
    BY <1>3
  <2>2. O(i) <= O(e) /\ O(e) \in Nat
    BY <1>1, <1>2, <1>4, <1>5, <2>1
  <2> QED BY ONLY <2>1, <2>2
<1>8. ASSUME NEW m \in 1..O(e) PROVE \E i \in B : O(i) = m
  <2> DEFINE T == {k \in h..e : O(k) >= m}
  <2>1. T \subseteq Nat /\ e \in T
    BY <1>1, <1>2, <1>5
  <2>2. PICK i \in T : \A k \in T : i <= k
    <3> HIDE DEF T
    <3> QED BY <2>1, Least
  <2>3. i \in h..e /\ O(i) >= m /\ O(i) \in Nat
    BY <1>5
  <2>4. i # h
    BY <1>5, <2>3
  <2>5. i \in (h + 1)..e /\ i - 1 \in h..e
    BY <1>1, <2>3, <2>4
  <2>6. O(i - 1) \in Nat /\ ~(O(i - 1) >= m)
    <3>1. i - 1 \notin T
      <4>1. ~(i <= i - 1)
        BY <1>1, <2>3
      <4> HIDE DEF T
      <4> QED BY <2>2, <4>1
    <3> QED BY <1>5, <2>5, <3>1
  <2>7. O(i) = O(i - 1) + (IF Blank(f, i) THEN 0 ELSE 1)
    BY <1>5, <2>5
  <2>8. ~Blank(f, i) /\ O(i) = m
    BY ONLY <2>3, <2>6, <2>7, <1>5, <1>2, m \in 1..O(e)
  <2> QED BY <1>6, <2>5, <2>8
<1>9. ASSUME NEW i \in B, NEW j \in B, O(i) = O(j) PROVE i = j
  <2>1. i \in h..e /\ j \in h..e /\ O(i) \in Nat
    BY <1>1, <1>3
  <2>2. i <= j /\ j <= i
    BY <1>4, <1>9, <2>1
  <2> QED BY ONLY <1>1, <2>1, <2>2
<1>10. IsFiniteSet(B)
  <2>1. B \subseteq 1..e
    BY <1>1, <1>3
  <2>2. IsFiniteSet(1..e)
    BY <1>1, FS_Interval
  <2> QED BY <2>1, <2>2, FS_Subset
<1>11. Numbers(g, B, 1..O(e))
  BY <1>7, <1>8, <1>9, <1>10 DEF Numbers
<1>12. O(e) \in Nat
  BY <1>2, <1>5
<1>13. Cardinality(1..O(e)) = Cardinality(B)
  <2> HIDE DEF g
  <2> QED BY ONLY <1>11, NumbersCount
<1>14. Cardinality(1..O(e)) = O(e)
  <2> QED BY <1>12, FS_Interval
<1>15. Cardinality(B) = O(e)
  BY <1>13, <1>14
<1> QED BY <1>7, <1>8, <1>9, <1>12, <1>15 DEF B, O, e

-----------------------------------------------------------------------------
\* What the parsers check of a record is what a clerk would check.

LEMMA AddFits ==
    ASSUME NEW a \in Int64, NEW b \in Int64
    PROVE  Add(a, b) = IF a + b \in Int64 THEN a + b ELSE Overflow
  BY WordAssumption DEF Add, Wrap, Int64, MinInt, WordSize

LEMMA Int64Type == Int64 \subseteq Int /\ 0 \in Int64 /\ Overflow \notin Int64
  BY WordAssumption, OverflowAssumption DEF Int64, MinInt

LEMMA ColumnsAre ==
    /\ Len(Columns) \in Nat /\ DOMAIN Columns = 1..Len(Columns)
    /\ \A k \in 1..Len(Columns) : Columns[k] \in Range(Columns)
<1>1. Columns \in Seq(Range(Columns))
  BY ColumnAssumption
<1> QED BY <1>1

PartsOf(d) == [k \in DOMAIN Columns |-> d.parts[Columns[k]]]

\* SumOf is the exact total if no running total leaves the word, and Overflow otherwise.
LEMMA SumOfIs ==
    ASSUME NEW d, \A k \in 1..Len(Columns) : d.parts[Columns[k]] \in Int64
    PROVE  IF \A k \in 1..Len(Columns) : TotalTo(PartsOf(d), k) \in Int64
           THEN SumOf(d) = TotalTo(PartsOf(d), Len(Columns)) /\ SumOf(d) \in Int64
           ELSE SumOf(d) = Overflow
<1> DEFINE n == Len(Columns)
           w == PartsOf(d)
           V == Int64 \cup {Overflow}
           P(v, k) == IF v = Overflow THEN Overflow ELSE Add(v, d.parts[Columns[k]])
           g == [k \in 1..n |-> [v \in V |-> P(v, k)]]
           Eqn(h) == [k \in 0..n |-> IF k = 0 THEN 0
                                     ELSE IF h[k - 1] = Overflow THEN Overflow
                                     ELSE Add(h[k - 1], d.parts[Columns[k]])]
           sum == CHOOSE h : h = Eqn(h)
           t == [k \in 0..n |-> TotalTo(w, k)]
           Fits(k) == \A j \in 1..k : t[j] \in Int64
           Right(k) == IF Fits(k) THEN sum[k] = t[k] /\ t[k] \in Int64 ELSE sum[k] = Overflow
           S == {k \in 0..n : Right(k)}
<1>0. n \in Nat /\ DOMAIN w = 1..n /\ 0 \in V
  BY ColumnsAre, Int64Type DEF PartsOf
<1>a. \A k \in 1..n : w[k] = d.parts[Columns[k]] /\ w[k] \in Int64
  BY <1>0 DEF PartsOf
<1>1. \A k \in 1..n : \A v \in V : P(v, k) \in V
  BY <1>a, AddFits
<1>2. g \in [1..n -> [V -> V]]
  BY <1>1
<1>3. PICK h : History(h, V, 0, g, n)
  <2> HIDE DEF n, V, g
  <2> QED BY ONLY <1>0, <1>2, HistoryExists
<1>4. h \in [0..n -> V] /\ h[0] = 0 /\ \A k \in 1..n : h[k] = g[k][h[k - 1]]
  <2> HIDE DEF n, V, g
  <2> QED BY <1>3 DEF History
<1>5. h = Eqn(h)
  <2>1. \A k \in 1..n : h[k] = P(h[k - 1], k)
    <3> SUFFICES ASSUME NEW k \in 1..n PROVE h[k] = P(h[k - 1], k)
      OBVIOUS
    <3>1. k - 1 \in 0..n
      BY <1>0
    <3>2. h[k - 1] \in V
      <4> HIDE DEF V
      <4> QED BY <1>4, <3>1
    <3> QED BY <1>4, <3>2
  <2>2. h = [k \in 0..n |-> h[k]]
    <3> HIDE DEF V
    <3> QED BY <1>4
  <2>3. \A k \in 0..n : h[k] = IF k = 0 THEN 0 ELSE P(h[k - 1], k)
    <3> HIDE DEF V, P
    <3> QED BY <1>0, <1>4, <2>1
  <2> QED BY ONLY <2>2, <2>3
<1>6. sum = Eqn(sum)
  BY <1>5
<1>7. SumOf(d) = sum[n]
  BY Zenon DEF SumOf
<1> HIDE DEF sum
<1>8. sum[0] = 0 /\ \A k \in 1..n : sum[k] = P(sum[k - 1], k)
  <2> HIDE DEF n
  <2> QED BY <1>0, <1>6
<1>9. t[0] = 0 /\ (\A k \in 0..n : t[k] \in Int) /\ \A k \in 1..n : t[k] = t[k - 1] + w[k]
  <2>1. \A k \in 1..n : w[k] \in Int
    BY <1>a, Int64Type
  <2>2. /\ TotalTo(w, 0) = 0
        /\ \A k \in 0..n : TotalTo(w, k) \in Int
        /\ \A k \in 1..n : TotalTo(w, k) = TotalTo(w, k - 1) + w[k]
    <3> HIDE DEF n, w
    <3> QED BY ONLY <1>0, <2>1, TotalIs
  <2> HIDE DEF w, n
  <2>3. \A k \in 1..n : k \in 0..n /\ k - 1 \in 0..n
    BY <1>0
  <2> QED BY <1>0, <2>2, <2>3
<1>10. \A k \in 0..n : t[k] = TotalTo(w, k)
  OBVIOUS
<1> HIDE DEF t, w, n
<1>11. 0 \in S
  BY <1>0, <1>8, <1>9, Int64Type
<1>12. \A k \in 0..(n - 1) : k \in S => k + 1 \in S
  <2> SUFFICES ASSUME NEW k \in 0..(n - 1), Right(k) PROVE Right(k + 1)
    BY <1>0
  <2>1. k + 1 \in 1..n /\ (k + 1) - 1 = k /\ k \in 0..n /\ k + 1 \in 0..n
    BY <1>0
  <2>2. /\ sum[k + 1] = IF sum[k] = Overflow THEN Overflow ELSE Add(sum[k], w[k + 1])
        /\ t[k + 1] = t[k] + w[k + 1] /\ w[k + 1] \in Int64
    BY <1>8, <1>9, <1>a, <2>1
  <2>3. Fits(k + 1) <=> Fits(k) /\ t[k + 1] \in Int64
    <3>1. \A j : j \in 1..(k + 1) <=> j \in 1..k \/ j = k + 1
      BY <2>1
    <3> QED BY ONLY <3>1
  <2>4. CASE Fits(k)
    <3>1. sum[k] = t[k] /\ t[k] \in Int64 /\ sum[k] # Overflow
      BY <2>4, Int64Type
    <3>2. sum[k + 1] = IF t[k + 1] \in Int64 THEN t[k + 1] ELSE Overflow
      <4>1. sum[k + 1] = Add(t[k], w[k + 1])
        BY <2>2, <3>1
      <4> QED BY <2>2, <3>1, <4>1, AddFits
    <3> QED BY <2>3, <2>4, <3>2
  <2>5. CASE ~Fits(k)
    <3>1. sum[k + 1] = Overflow
      BY <2>2, <2>5
    <3> QED BY <2>3, <2>5, <3>1
  <2> QED BY <2>4, <2>5
<1>13. \A k \in 0..n : k \in S
  <2> HIDE DEF S
  <2> QED BY ONLY <1>0, <1>11, <1>12, UpTo
<1>14. n \in 0..n /\ Right(n)
  BY <1>0, <1>13
<1>15. \A j \in 1..n : t[j] = TotalTo(w, j)
  BY <1>0, <1>10
<1>16. t[n] = TotalTo(w, n)
  BY <1>10, <1>14
<1>17. Fits(n) <=> \A k \in 1..n : TotalTo(w, k) \in Int64
  BY <1>15
<1>18. IF \A k \in 1..n : TotalTo(w, k) \in Int64
       THEN sum[n] = TotalTo(w, n) /\ sum[n] \in Int64
       ELSE sum[n] = Overflow
  <2> HIDE DEF Fits
  <2> QED BY <1>14, <1>16, <1>17
<1> QED BY <1>7, <1>18 DEF w, n

LEMMA RecordIs ==
    ASSUME NEW f \in Files, NEW i \in 1..End(f), f.entries[i].kind = "record", NEW d, d = f.entries[i].data
    PROVE  /\ IsPayments(f) => /\ d.posted \in Date /\ d.release \in Date /\ d.total \in Amount
                               /\ d.parts \in [Range(Columns) -> Amount]
           /\ ~IsPayments(f) => /\ d.time \in Date /\ d.date \in Date
                                /\ d.amount \in Amount /\ d.header \in Amount
<1>1. i \in DOMAIN f.entries
  BY FileIs
<1>2. LET e == f.entries[i]
          c == e.data
      IN  /\ e.kind = "record" /\ f.source = "payment" =>
                /\ {c.posted, c.release} \subseteq Date /\ c.total \in Amount
                /\ c.parts \in [Range(Columns) -> Amount]
          /\ e.kind = "record" /\ f.source # "payment" =>
                {c.time, c.date} \subseteq Date /\ {c.amount, c.header} \subseteq Amount
  BY <1>1, FilesAssumption, Zenon
<1>3. CASE f.source = "payment"
  BY <1>2, <1>3 DEF IsPayments
<1>4. CASE f.source # "payment"
  BY <1>2, <1>4 DEF IsPayments
<1> QED BY <1>3, <1>4

LEMMA NumericIs ==
    ASSUME NEW d, d.total \in Amount, d.parts \in [Range(Columns) -> Amount]
    PROVE  Numeric(d) <=> ({d.total} \cup Range(d.parts)) \cap {Bad, Empty} = {}
<1> DEFINE T == {d.total} \cup Range(d.parts)
<1>1. T \subseteq Amount
  <2>1. \A x \in Range(d.parts) : x \in Amount
    BY DEF Range
  <2> QED BY <2>1
<1>2. \A x \in Amount : x \in Int64 <=> x \notin {Bad, Empty}
  BY TextAssumption, Int64Type DEF Amount
<1>3. Numeric(d) <=> T \subseteq Int64
  BY DEF Numeric
<1> HIDE DEF T
<1>4. T \subseteq Int64 <=> T \cap {Bad, Empty} = {}
  BY <1>1, <1>2
<1> QED BY <1>3, <1>4 DEF T

LEMMA AddsUpIs ==
    ASSUME NEW d, d.parts \in [Range(Columns) -> Amount], Numeric(d)
    PROVE  AddsUp(d) <=> SumOf(d) = d.total
<1>1. \A k \in 1..Len(Columns) : d.parts[Columns[k]] \in Int64
  <2> SUFFICES ASSUME NEW k \in 1..Len(Columns) PROVE d.parts[Columns[k]] \in Int64
    OBVIOUS
  <2>1. Columns[k] \in DOMAIN d.parts
    BY ColumnsAre
  <2>2. d.parts[Columns[k]] \in Range(d.parts)
    BY <2>1 DEF Range
  <2> QED BY <2>2 DEF Numeric
<1>2. d.total \in Int64
  BY DEF Numeric
<1>3. d.total # Overflow
  BY <1>2, Int64Type
<1>4. IF \A k \in 1..Len(Columns) : TotalTo(PartsOf(d), k) \in Int64
      THEN SumOf(d) = TotalTo(PartsOf(d), Len(Columns)) /\ SumOf(d) \in Int64
      ELSE SumOf(d) = Overflow
  BY <1>1, SumOfIs
<1>5. AddsUp(d) <=> /\ TotalTo(PartsOf(d), Len(Columns)) = d.total
                    /\ \A k \in 1..Len(Columns) : TotalTo(PartsOf(d), k) \in Int64
  BY ColumnsAre DEF AddsUp, PartsOf
<1> QED BY <1>3, <1>4, <1>5

LEMMA SettlementIs ==
    ASSUME NEW d, {d.time, d.date} \subseteq Date, {d.amount, d.header} \subseteq Amount
    PROVE  SettlementRecord(d) <=> SettlementOK(d)
<1>1. /\ d.header \in Int64 <=> d.header \notin {Bad, Empty}
      /\ d.amount \in Int64 <=> d.amount \notin {Bad, Empty}
      /\ d.date \in Time <=> d.date \notin {Bad, Empty}
      /\ d.time \in Time <=> d.time \notin {Bad, Empty}
  <2>1. d.header \in Amount /\ d.amount \in Amount /\ d.date \in Date /\ d.time \in Date
    OBVIOUS
  <2>2. \A x \in Amount : x \in Int64 <=> x \notin {Bad, Empty}
    BY TextAssumption, Int64Type DEF Amount
  <2>3. \A x \in Date : x \in Time <=> x \notin {Bad, Empty}
    BY TextAssumption DEF Date
  <2> HIDE DEF Time, Date, Amount
  <2> QED BY ONLY <2>1, <2>2, <2>3
<1>2. Bad # Empty
  BY TextAssumption
<1>3. {d.time, d.date} \subseteq Time <=> d.time \in Time /\ d.date \in Time
  OBVIOUS
<1>4. SettlementRecord(d) <=>
        /\ d.sid # "" /\ d.time # Bad /\ d.date # Bad
        /\ (d.time \in Time /\ d.date \in Time => Day(d.time) = Day(d.date))
        /\ \/ d.tx = "" /\ d.header \in Int64 /\ d.amount = Empty /\ d.cur # ""
           \/ d.tx # "" /\ d.amount \in Int64 /\ d.date \in Time
  BY <1>3, Zenon DEF SettlementRecord, Day
<1>5. CASE d.tx = ""
  <2>1. IsMetadata(d) <=> d.header # Empty
    BY <1>5 DEF IsMetadata
  <2>2. SettlementOK(d) <=>
          /\ d.header # Empty /\ d.amount = Empty /\ d.time # Bad /\ d.date # Bad
          /\ (d.time # Empty /\ d.date # Empty => Day(d.time) = Day(d.date))
          /\ d.sid # "" /\ d.cur # "" /\ d.header # Bad
    BY ONLY <1>2, <1>5, <2>1 DEF SettlementOK
  <2> QED BY ONLY <1>1, <1>2, <1>4, <1>5, <2>2
<1>6. CASE d.tx # ""
  <2>1. ~IsMetadata(d)
    BY <1>6 DEF IsMetadata
  <2>2. SettlementOK(d) <=>
          /\ d.amount # Empty /\ d.amount # Bad /\ d.time # Bad /\ d.date # Bad
          /\ (d.time # Empty /\ d.date # Empty => Day(d.time) = Day(d.date))
          /\ d.sid # "" /\ d.date # Empty
    BY ONLY <1>2, <1>6 DEF SettlementOK, IsMetadata
  <2> QED BY ONLY <1>1, <1>2, <1>4, <1>6, <2>2
<1> QED BY <1>5, <1>6

LEMMA ClericalIs ==
    ASSUME NEW f \in Files, NEW i \in 1..End(f)
    PROVE  Clerical(f, f.entries[i]) <=> RecordOK(f, f.entries[i])
<1> DEFINE e == f.entries[i]
           d == e.data
<1>1. CASE e.kind # "record"
  BY <1>1 DEF Clerical, RecordOK
<1>2. CASE e.kind = "record" /\ ~IsPayments(f)
  <2>1. {d.time, d.date} \subseteq Date /\ {d.amount, d.header} \subseteq Amount
    BY <1>2, RecordIs
  <2>2. SettlementRecord(d) <=> SettlementOK(d)
    BY <2>1, SettlementIs
  <2> QED BY <1>2, <2>2, Zenon DEF Clerical, RecordOK
<1>3. CASE e.kind = "record" /\ IsPayments(f)
  <2>1. d.total \in Amount /\ d.parts \in [Range(Columns) -> Amount]
    BY <1>3, RecordIs
  <2>2. Numeric(d) <=> ({d.total} \cup Range(d.parts)) \cap {Bad, Empty} = {}
    BY <2>1, NumericIs
  <2>3. Numeric(d) => (AddsUp(d) <=> SumOf(d) = d.total)
    BY <2>1, AddsUpIs
  <2> HIDE DEF d
  <2>4. PaymentOK(d) <=> PaymentRecord(d)
    <3>1. PaymentOK(d) <=> /\ Numeric(d) /\ SumOf(d) = d.total
                           /\ d.posted # Bad /\ d.release # Bad /\ d.posted # Empty
                           /\ d.status \in {"Released", "Deferred"}
                           /\ (d.status = "Released" => d.release # Empty)
      BY <2>2, Zenon DEF PaymentOK
    <3> QED BY ONLY <2>3, <3>1 DEF PaymentRecord
  <2>5. Clerical(f, e) <=> e.wide /\ PaymentOK(d)
    BY <1>3, <2>4, Zenon DEF Clerical, d
  <2>6. RecordOK(f, e) <=> e.wide /\ PaymentOK(d)
    BY <1>3, Zenon DEF RecordOK, d
  <2> QED BY <2>5, <2>6
<1> QED BY <1>1, <1>2, <1>3

-----------------------------------------------------------------------------
\* The inductive invariant.

\* The files that are accepted, as one condition: short of the limit, in any currency.
Accepted(f) ==
    /\ Mark(f) + BytesTo(f, End(f)) <= MaxBytes
    /\ Tame(f)
    /\ HeaderAt(f) > 0 /\ ~f.entries[HeaderAt(f)].dup
    /\ FilledTo(f, HeaderAt(f) - 1) <= Preamble(f)
    /\ Cardinality(Body(f)) < MaxRows
    /\ \A i \in Body(f) : Clerical(f, f.entries[i])
    /\ IsPayments(f) \/ Settled(f)

TameAt(f, i) == ~Blank(f, i) => f.entries[i].sane /\ BytesAt(f, i) <= MaxRecord

IsSeq(s) == s \in Seq(Range(s))

\* The parser reads the file it hashed; it stands after an entry that is not blank, and
\* knows its line and offset.
CursorInv ==
    /\ atPath \in Files /\ fd \in Files /\ hashed = fd
    /\ pc \in {"open", "clean", "header", "record", "post", "ok", "failed"}
    /\ at \in 1..(End(fd) + 1) /\ (at > 1 => ~Blank(fd, at - 1))
    /\ pc \in {"open", "clean"} => at = 1 /\ line = 1 /\ tried = 0
    /\ pc \in {"header", "record"} =>
          line = 1 + LinesTo(fd, at - 1) /\ offset = Mark(fd) + BytesTo(fd, at - 1)

\* What it has read is as a well-formed file has it.
HeaderInv ==
    /\ pc \in {"clean", "header", "record", "post"} =>
          Mark(fd) + BytesTo(fd, End(fd)) <= MaxBytes
    /\ pc = "header" =>
          tried = FilledTo(fd, at - 1) /\ \A i \in 1..(at - 1) : ~IsHeader(fd, i) /\ TameAt(fd, i)
    /\ pc \in {"record", "post"} =>
          /\ HeaderAt(fd) \in 1..(at - 1) /\ ~fd.entries[HeaderAt(fd)].dup
          /\ FilledTo(fd, HeaderAt(fd) - 1) <= Preamble(fd)
          /\ \A i \in 1..(at - 1) : TameAt(fd, i)

RowFields == {"ord", "lines", "bytes", "kind", "sid", "cur", "status", "amount", "comp",
              "keydate", "event"}

\* The row made of entry i.
Filed(f, i, row) ==
    LET r == RowOf(f, f.entries[i]) IN
    /\ DOMAIN row = RowFields /\ row.ord = Ordinal(f, i)
    /\ row.kind = r.kind /\ row.sid = r.sid /\ row.cur = r.cur /\ row.status = r.status
    /\ row.amount = r.amount /\ row.comp = r.comp /\ row.keydate = r.keydate

\* There is one row for every record read.
RowsInv ==
    /\ pc \in {"open", "clean", "header"} => rows = <<>>
    /\ pc \in {"record", "post"} =>
          /\ IsSeq(rows) /\ Len(rows) = Ordinal(fd, at - 1)
          /\ \A i \in Body(fd) : i < at =>
                RecordOK(fd, fd.entries[i]) /\ Filed(fd, i, rows[Ordinal(fd, i)])
    /\ pc = "post" => Len(rows) < MaxRows /\ \A i \in at..End(fd) : Blank(fd, i)

OutcomeInv ==
    /\ pc = "failed" => ~Accepted(fd)
    /\ pc = "ok" => Accepted(fd) /\ RowsOfHashedFile /\ ContractHolds /\ KeyDatesFollowTime

Inv == CursorInv /\ HeaderInv /\ RowsInv /\ SpansTile /\ OutcomeInv

LEMMA MarkIs == \A f : Mark(f) \in Nat
BY DEF Mark

LEMMA EmptyIs == DOMAIN <<>> = {} /\ Len(<<>>) = 0 /\ IsSeq(<<>>)
BY DEF IsSeq, Range

LEMMA InitInv == Init => Inv
<1> SUFFICES ASSUME Init PROVE Inv
  OBVIOUS
<1>1. atPath \in Files /\ fd = atPath /\ hashed = atPath /\ pc = "open" /\ at = 1 /\ line = 1
      /\ tried = 0 /\ rows = <<>>
  BY DEF Init
<1>2. End(fd) \in Nat
  BY <1>1, FileIs
<1>3. CursorInv
  BY <1>1, <1>2 DEF CursorInv
<1>4. HeaderInv /\ RowsInv /\ OutcomeInv
  BY <1>1 DEF HeaderInv, RowsInv, OutcomeInv
<1>5. SpansTile
  BY <1>1, EmptyIs DEF SpansTile
<1> QED BY <1>3, <1>4, <1>5 DEF Inv

\* The file is too large to be well formed.
LEMMA OpenStep == ASSUME Inv, Open PROVE Inv'
<1>1. /\ pc = "open" /\ hashed' = atPath /\ fd' = atPath
      /\ atPath' = atPath /\ at' = at /\ line' = line /\ tried' = tried /\ rows' = rows
      /\ (IF Mark(atPath) + BytesTo(atPath, End(atPath)) > MaxBytes THEN pc' = "failed" ELSE pc' = "clean")
  BY DEF Open, Fail, environment, cursor
<1>2. atPath \in Files /\ at = 1 /\ line = 1 /\ tried = 0 /\ rows = <<>>
  BY <1>1 DEF Inv, CursorInv, RowsInv
<1>3. End(atPath) \in Nat
  BY <1>2, FileIs
<1>4. Mark(atPath) + BytesTo(atPath, End(atPath)) \in Nat /\ MaxBytes \in Nat
  <2>1. End(atPath) \in 0..End(atPath)
    BY <1>3
  <2>2. BytesTo(atPath, End(atPath)) \in Nat
    BY <1>2, <2>1, BytesAre
  <2> QED BY <2>2, MarkIs, LimitAssumption
<1>5. pc' \in {"clean", "failed"}
  BY <1>1, Zenon
<1>6. CursorInv'
  BY <1>1, <1>2, <1>3, <1>5 DEF CursorInv
<1>7. HeaderInv'
  <2>1. pc' = "clean" => Mark(fd') + BytesTo(fd', End(fd')) <= MaxBytes
    BY <1>1, <1>4
  <2> QED BY <1>5, <2>1 DEF HeaderInv
<1>8. RowsInv' /\ SpansTile'
  BY <1>1, <1>2, <1>5, EmptyIs DEF RowsInv, SpansTile
<1>9. OutcomeInv'
  <2>1. pc' = "failed" => ~(Mark(fd') + BytesTo(fd', End(fd')) <= MaxBytes)
    BY <1>1, <1>4
  <2>2. pc' = "failed" => ~Accepted(fd')
    BY <2>1, Zenon DEF Accepted
  <2> QED BY <1>5, <2>2, Zenon DEF OutcomeInv
<1> QED BY <1>6, <1>7, <1>8, <1>9 DEF Inv

LEMMA CleanStep == ASSUME Inv, Clean PROVE Inv'
<1>1. /\ pc = "clean" /\ fd' = hashed /\ offset' = Mark(fd') /\ pc' = "header"
      /\ hashed' = hashed /\ atPath' = atPath /\ at' = at /\ line' = line /\ tried' = tried /\ rows' = rows
  BY DEF Clean, Descriptor, environment
<1>2. /\ atPath \in Files /\ fd \in Files /\ hashed = fd /\ at = 1 /\ line = 1 /\ tried = 0
      /\ rows = <<>> /\ Mark(fd) + BytesTo(fd, End(fd)) <= MaxBytes
  BY <1>1 DEF Inv, CursorInv, HeaderInv, RowsInv
<1>3. End(fd) \in Nat /\ LinesTo(fd, 0) = 0 /\ BytesTo(fd, 0) = 0 /\ FilledTo(fd, 0) = 0
  BY <1>2, FileIs, LinesAre, BytesAre, FilledIs
<1>4. fd' = fd /\ at' = 1 /\ at' - 1 = 0 /\ Mark(fd) \in Nat
  BY <1>1, <1>2, MarkIs
<1>5. CursorInv'
  BY <1>1, <1>2, <1>3, <1>4 DEF CursorInv
<1>6. HeaderInv'
  BY <1>1, <1>2, <1>3, <1>4 DEF HeaderInv
<1>7. RowsInv' /\ SpansTile'
  BY <1>1, <1>2, EmptyIs DEF RowsInv, SpansTile
<1>8. OutcomeInv'
  BY <1>1 DEF OutcomeInv
<1> QED BY <1>5, <1>6, <1>7, <1>8 DEF Inv

\* What a Read does to the cursor.
LEMMA ReadIs ==
    ASSUME CursorInv, pc \in {"header", "record"}, ~AtEOF, Advance, NEW n, n = NextEntry
    PROVE  /\ n \in at..End(fd) /\ ~Blank(fd, n) /\ \A k \in at..(n - 1) : Blank(fd, k)
           /\ at' = n + 1 /\ Entry = fd.entries[n]
           /\ line' = 1 + LinesTo(fd, n) /\ offset' = Mark(fd) + BytesTo(fd, n)
           /\ FilledTo(fd, n - 1) = FilledTo(fd, at - 1) /\ FilledTo(fd, n) = FilledTo(fd, at - 1) + 1
           /\ Sane <=> TameAt(fd, n)
           /\ LineStart = 1 + LinesTo(fd, n - 1) /\ LineEnd = LinesTo(fd, n)
<1>1. /\ fd \in Files /\ at \in 1..(End(fd) + 1) /\ (at > 1 => ~Blank(fd, at - 1))
      /\ line = 1 + LinesTo(fd, at - 1) /\ offset = Mark(fd) + BytesTo(fd, at - 1)
  BY DEF CursorInv
<1>2. n = NextFrom(fd, at)
  BY DEF NextEntry, NextFrom
<1>3. End(fd) \in Nat
  BY <1>1, FileIs
<1>4. n \in at..(End(fd) + 1) /\ (n <= End(fd) => ~Blank(fd, n)) /\ \A k \in at..(n - 1) : Blank(fd, k)
  BY <1>1, <1>2, NextIs
<1>5. n <= End(fd)
  <2>1. ~(n > End(fd))
    BY DEF AtEOF
  <2> QED BY <1>1, <1>3, <1>4, <2>1
<1>6. n \in at..End(fd) /\ ~Blank(fd, n)
  BY <1>1, <1>3, <1>4, <1>5
<1>7. FilledTo(fd, n - 1) = FilledTo(fd, at - 1) /\ FilledTo(fd, n) = FilledTo(fd, at - 1) + 1
  BY <1>1, <1>2, <1>5, FilledOver
<1>8. BytesAt(fd, n) = BytesTo(fd, n) - BytesTo(fd, at - 1)
  BY <1>1, <1>2, <1>5, BytesAtIs
<1>9. n \in 1..End(fd) /\ n \in 0..End(fd) /\ at - 1 \in 0..End(fd) /\ n - 1 \in 0..End(fd)
  BY <1>1, <1>3, <1>6
<1>10. /\ LinesTo(fd, n) \in Nat /\ LinesTo(fd, at - 1) \in Nat /\ LinesTo(fd, n - 1) \in Nat
       /\ BytesTo(fd, n) \in Nat /\ BytesTo(fd, at - 1) \in Nat
       /\ LinesTo(fd, n) = LinesTo(fd, n - 1) + fd.entries[n].height
       /\ fd.entries[n].height \in Nat /\ Mark(fd) \in Nat
  BY <1>1, <1>9, LinesAre, BytesAre, FileIs, MarkIs
<1>11. /\ at' = n + 1
       /\ line' = line + (LinesTo(fd, n) - LinesTo(fd, at - 1))
       /\ offset' = offset + (BytesTo(fd, n) - BytesTo(fd, at - 1))
  BY DEF Advance, Consumed
<1>12. line' = 1 + LinesTo(fd, n) /\ offset' = Mark(fd) + BytesTo(fd, n)
  BY ONLY <1>1, <1>10, <1>11
<1>13. Entry = fd.entries[n]
  BY DEF Entry
<1>14. Sane <=> TameAt(fd, n)
  BY <1>6, <1>8, <1>13, Zenon DEF Sane, Consumed, TameAt
<1>15. LineStart = line + (LinesTo(fd, n - 1) - LinesTo(fd, at - 1))
  BY DEF LineStart
<1>16. LineStart = 1 + LinesTo(fd, n - 1)
  BY ONLY <1>1, <1>10, <1>15
<1>17. LineEnd = LineStart + fd.entries[n].height - 1
  BY <1>13 DEF LineEnd
<1>18. LineEnd = LinesTo(fd, n)
  BY ONLY <1>10, <1>16, <1>17
<1> QED BY <1>4, <1>6, <1>7, <1>11, <1>12, <1>13, <1>14, <1>16, <1>18

\* Nothing follows but blank lines.
LEMMA EndIs ==
    ASSUME CursorInv, AtEOF
    PROVE  \A k \in at..End(fd) : Blank(fd, k)
<1>1. fd \in Files /\ at \in 1..(End(fd) + 1)
  BY DEF CursorInv
<1>2. NextEntry = NextFrom(fd, at)
  BY DEF NextEntry, NextFrom
<1>3. End(fd) \in Nat
  BY <1>1, FileIs
<1>4. NextEntry \in at..(End(fd) + 1) /\ \A k \in at..(NextEntry - 1) : Blank(fd, k)
  BY <1>1, <1>2, NextIs
<1>5. NextEntry > End(fd)
  BY DEF AtEOF
<1>6. NextEntry - 1 = End(fd)
  BY <1>1, <1>3, <1>4, <1>5
<1> QED BY <1>4, <1>6

\* An entry that is not sane.
LEMMA NotTame ==
    ASSUME NEW f \in Files, NEW n \in 1..End(f), ~TameAt(f, n)
    PROVE  ~Accepted(f)
BY Zenon DEF Accepted, Tame, TameAt

LEMMA BlankNoHeader == ASSUME NEW f, NEW i, Blank(f, i) PROVE ~IsHeader(f, i) /\ TameAt(f, i)
BY DEF Blank, IsHeader, TameAt

LEMMA HeaderStep == ASSUME Inv, HeaderCandidate PROVE Inv'
<1>1. /\ pc = "header" /\ atPath' = atPath /\ fd' = fd /\ hashed' = hashed /\ rows' = rows
  BY DEF HeaderCandidate, environment
<1>2. /\ CursorInv /\ fd \in Files /\ rows = <<>> /\ tried = FilledTo(fd, at - 1)
      /\ at \in 1..(End(fd) + 1)
      /\ Mark(fd) + BytesTo(fd, End(fd)) <= MaxBytes
      /\ \A i \in 1..(at - 1) : ~IsHeader(fd, i) /\ TameAt(fd, i)
  BY <1>1 DEF Inv, CursorInv, HeaderInv, RowsInv
<1>3. SpansTile'
  BY <1>1, <1>2, EmptyIs DEF SpansTile
<1>4. End(fd) \in Nat /\ Preamble(fd) \in Nat
  BY <1>2, FileIs, LimitAssumption DEF Preamble
<1>5. /\ HeaderAt(fd) \in 0..End(fd)
      /\ HeaderAt(fd) > 0 => IsHeader(fd, HeaderAt(fd))
      /\ \A i \in 1..End(fd) : IsHeader(fd, i) => 0 < HeaderAt(fd) /\ HeaderAt(fd) <= i
  BY <1>2, HeaderIs
<1>6. CASE AtEOF \/ tried > Preamble(fd)
  <2>1. pc' = "failed" /\ at' = at
    BY <1>6 DEF HeaderCandidate, Fail, cursor
  <2>2. ~Accepted(fd)
    <3>1. CASE ~(HeaderAt(fd) > 0)
      BY <3>1, Zenon DEF Accepted
    <3>2. CASE HeaderAt(fd) > 0
      <4>1. HeaderAt(fd) \in at..End(fd)
        BY <1>2, <1>4, <1>5, <3>2
      <4>2. ~AtEOF
        <5> SUFFICES ASSUME AtEOF PROVE FALSE
          OBVIOUS
        <5>1. Blank(fd, HeaderAt(fd))
          BY <1>2, <4>1, EndIs
        <5> QED BY <1>5, <3>2, <5>1, BlankNoHeader
      <4>3. FilledTo(fd, at - 1) > Preamble(fd)
        BY <1>2, <1>6, <4>2
      <4>4. at - 1 \in 0..End(fd) /\ HeaderAt(fd) - 1 \in 0..End(fd) /\ at - 1 <= HeaderAt(fd) - 1
        BY <1>2, <1>4, <4>1
      <4>5. /\ FilledTo(fd, at - 1) <= FilledTo(fd, HeaderAt(fd) - 1)
            /\ FilledTo(fd, at - 1) \in Nat /\ FilledTo(fd, HeaderAt(fd) - 1) \in Nat
        BY <1>2, <4>4, FilledIs
      <4>6. ~(FilledTo(fd, HeaderAt(fd) - 1) <= Preamble(fd))
        BY ONLY <1>4, <4>3, <4>5
      <4> QED BY <4>6, Zenon DEF Accepted
    <3> QED BY <3>1, <3>2
  <2>3. CursorInv'
    BY <1>1, <1>2, <2>1 DEF CursorInv
  <2>4. HeaderInv' /\ RowsInv'
    BY <2>1 DEF HeaderInv, RowsInv
  <2>5. OutcomeInv'
    BY <1>1, <2>1, <2>2 DEF OutcomeInv
  <2> QED BY <1>3, <2>3, <2>4, <2>5 DEF Inv
<1>7. CASE ~(AtEOF \/ tried > Preamble(fd))
  <2> DEFINE n == NextEntry
  <2>1. /\ Advance /\ tried' = tried + 1 /\ ~AtEOF /\ tried <= Preamble(fd)
        /\ IF ~Sane \/ (Entry.kind = "header" /\ Entry.dup)
           THEN pc' = "failed"
           ELSE pc' = (IF Entry.kind = "header" THEN "record" ELSE pc)
    <3>1. at - 1 \in 0..End(fd)
      BY <1>2, <1>4
    <3>2. tried \in Nat
      BY <1>2, <3>1, FilledIs
    <3> QED BY <1>4, <1>7, <3>2 DEF HeaderCandidate, Fail
  <2>2. /\ n \in at..End(fd) /\ ~Blank(fd, n) /\ (\A k \in at..(n - 1) : Blank(fd, k))
        /\ at' = n + 1 /\ Entry = fd.entries[n]
        /\ line' = 1 + LinesTo(fd, n) /\ offset' = Mark(fd) + BytesTo(fd, n)
        /\ FilledTo(fd, n - 1) = FilledTo(fd, at - 1) /\ FilledTo(fd, n) = FilledTo(fd, at - 1) + 1
        /\ (Sane <=> TameAt(fd, n))
    BY <1>1, <1>2, <2>1, ReadIs
  <2> HIDE DEF n
  <2>3. n \in 1..End(fd) /\ at' - 1 = n /\ at' \in 1..(End(fd) + 1)
    BY <1>2, <1>4, <2>2
  <2>4. \A i \in 1..(n - 1) : ~IsHeader(fd, i) /\ TameAt(fd, i)
    <3> SUFFICES ASSUME NEW i \in 1..(n - 1) PROVE ~IsHeader(fd, i) /\ TameAt(fd, i)
      OBVIOUS
    <3>1. i \in 1..(at - 1) \/ i \in at..(n - 1)
      BY <1>2, <1>4, <2>3
    <3> QED BY <1>2, <2>2, <3>1, BlankNoHeader
  <2>5. pc' \in {"failed", "record", "header"}
    BY <1>1, <2>1, Zenon
  <2>6. CursorInv'
    <3>1. atPath \in Files /\ hashed = fd
      BY <1>2 DEF CursorInv
    <3> QED BY <1>1, <1>2, <2>2, <2>3, <2>5, <3>1 DEF CursorInv
  <2>7. IsHeader(fd, n) <=> Entry.kind = "header"
    BY <2>2 DEF IsHeader
  <2>8. CASE ~Sane
    <3>1. pc' = "failed"
      BY <2>1, <2>8
    <3>2. ~Accepted(fd)
      BY <1>2, <2>2, <2>3, <2>8, NotTame
    <3>3. HeaderInv' /\ RowsInv'
      BY <3>1 DEF HeaderInv, RowsInv
    <3>4. OutcomeInv'
      BY <1>1, <3>1, <3>2 DEF OutcomeInv
    <3> QED BY <1>3, <2>6, <3>3, <3>4 DEF Inv
  <2>9. CASE Sane /\ IsHeader(fd, n)
    <3>1. HeaderAt(fd) = n
      <4>1. 0 < HeaderAt(fd) /\ HeaderAt(fd) <= n /\ IsHeader(fd, HeaderAt(fd))
        BY <1>5, <2>3, <2>9
      <4>2. HeaderAt(fd) \notin 1..(n - 1)
        BY <2>4, <4>1
      <4> QED BY <1>4, <1>5, <2>3, <4>1, <4>2
    <3>2. CASE fd.entries[n].dup
      <4>1. pc' = "failed"
        BY <2>1, <2>2, <2>7, <2>9, <3>2
      <4>2. ~Accepted(fd)
        BY <3>1, <3>2, Zenon DEF Accepted
      <4>3. HeaderInv' /\ RowsInv'
        BY <4>1 DEF HeaderInv, RowsInv
      <4>4. OutcomeInv'
        BY <1>1, <4>1, <4>2 DEF OutcomeInv
      <4> QED BY <1>3, <2>6, <4>3, <4>4 DEF Inv
    <3>3. CASE ~fd.entries[n].dup
      <4>1. pc' = "record"
        BY <2>1, <2>2, <2>7, <2>9, <3>3
      <4>2. FilledTo(fd, n - 1) <= Preamble(fd)
        BY <1>2, <2>1, <2>2
      <4>3. \A i \in 1..n : TameAt(fd, i)
        BY <2>2, <2>3, <2>4, <2>9
      <4>4. HeaderInv'
        <5>1. HeaderAt(fd) \in 1..(at' - 1)
          <6>1. n \in Nat /\ n >= 1
            BY <1>4, <2>3
          <6>2. n \in 1..n
            BY ONLY <6>1
          <6>3. at' - 1 = n
            BY <2>3, Zenon
          <6> QED BY <3>1, <6>2, <6>3, Zenon
        <5> QED BY <1>1, <1>2, <2>3, <3>1, <3>3, <4>1, <4>2, <4>3, <5>1 DEF HeaderInv
      <4>5. RowsInv'
        <5>1. Ordinal(fd, n) = 0
          BY <1>2, <3>1, OrdinalIs
        <5>2. \A i \in Body(fd) : ~(i < at')
          BY <1>4, <2>2, <2>3, <3>1 DEF Body
        <5> QED BY <1>1, <1>2, <2>3, <4>1, <5>1, <5>2, EmptyIs DEF RowsInv
      <4>6. OutcomeInv'
        BY <4>1 DEF OutcomeInv
      <4> QED BY <1>3, <2>6, <4>4, <4>5, <4>6 DEF Inv
    <3> QED BY <3>2, <3>3
  <2>10. CASE Sane /\ ~IsHeader(fd, n)
    <3>1. pc' = "header"
      BY <1>1, <2>1, <2>7, <2>10
    <3>2. \A i \in 1..n : ~IsHeader(fd, i) /\ TameAt(fd, i)
      BY <2>2, <2>3, <2>4, <2>10
    <3>3. HeaderInv'
      BY <1>1, <1>2, <2>1, <2>2, <2>3, <3>1, <3>2 DEF HeaderInv
    <3>4. RowsInv' /\ OutcomeInv'
      BY <1>1, <1>2, <3>1 DEF RowsInv, OutcomeInv
    <3> QED BY <1>3, <2>6, <3>3, <3>4 DEF Inv
  <2> QED BY <2>8, <2>9, <2>10
<1> QED BY <1>6, <1>7

LEMMA SeqFacts ==
    ASSUME NEW s, IsSeq(s)
    PROVE  DOMAIN s = 1..Len(s) /\ Len(s) \in Nat
BY DEF IsSeq

\* t is s with c behind it.
Extended(s, c, t) ==
    /\ IsSeq(t) /\ Len(t) = Len(s) + 1 /\ t[Len(s) + 1] = c
    /\ \A i \in 1..Len(s) : t[i] = s[i]

LEMMA AppendRow ==
    ASSUME NEW s, IsSeq(s), NEW c
    PROVE  Extended(s, c, Append(s, c))
<1> DEFINE t == Append(s, c)
<1> DEFINE X == Range(s) \cup {c}
<1>1. s \in Seq(X)
  <2>1. s \in [1..Len(s) -> Range(s)] /\ Len(s) \in Nat
    BY DEF IsSeq
  <2>2. s \in [1..Len(s) -> X]
    <3>1. Range(s) \subseteq X
      OBVIOUS
    <3> HIDE DEF X
    <3> QED BY <2>1, <3>1
  <2> HIDE DEF X
  <2> QED BY <2>1, <2>2
<1>2. c \in X
  OBVIOUS
<1> HIDE DEF X
<1>3. /\ t \in Seq(X) /\ Len(t) = Len(s) + 1 /\ t[Len(s) + 1] = c
      /\ \A i \in 1..Len(s) : t[i] = s[i]
  BY <1>1, <1>2, AppendProperties
<1> HIDE DEF t
<1>4. IsSeq(t)
  <2>0. \A Y : \A q \in Seq(Y) : DOMAIN q = 1..Len(q) /\ Len(q) \in Nat /\ q \in [1..Len(q) -> Y]
    OBVIOUS
  <2>1. DOMAIN t = 1..Len(t) /\ Len(t) \in Nat /\ t \in [1..Len(t) -> X]
    BY <1>3, <2>0, Zenon
  <2>2. \A i \in 1..Len(t) : t[i] \in Range(t)
    BY <2>1 DEF Range
  <2>3. t \in [1..Len(t) -> Range(t)]
    BY <2>1, <2>2
  <2>4. \A n \in Nat : \A Y : \A q \in [1..n -> Y] : q \in Seq(Y)
    OBVIOUS
  <2> QED BY <2>1, <2>3, <2>4, Zenon DEF IsSeq
<1> QED BY <1>3, <1>4, Zenon DEF Extended, t

\* A row that gets its place.
Placed(f, i, o, l, b) == [RowOf(f, f.entries[i]) EXCEPT !.ord = o, !.lines = l, !.bytes = b]

FiledAt(f, i, l, b, row) == Filed(f, i, row) /\ row.lines = l /\ row.bytes = b

LEMMA FiledRow ==
    ASSUME NEW f, NEW i, NEW l, NEW b
    PROVE  FiledAt(f, i, l, b, Placed(f, i, Ordinal(f, i), l, b))
<1> DEFINE d == f.entries[i].data
           r == RowOf(f, f.entries[i])
           o == Ordinal(f, i)
           row == Placed(f, i, o, l, b)
<1>1. DOMAIN r = RowFields
  <2>1. DOMAIN PaymentRow(d) = RowFields
    BY DEF PaymentRow, RowFields
  <2>2. DOMAIN SettlementRow(d) = RowFields
    BY DEF SettlementRow, RowFields
  <2> QED BY <2>1, <2>2, Zenon DEF RowOf
<1>2. row = [r EXCEPT !.ord = o, !.lines = l, !.bytes = b]
  BY DEF Placed
<1> HIDE DEF r, o, row
<1>3. /\ DOMAIN row = RowFields /\ row.ord = o /\ row.lines = l /\ row.bytes = b
      /\ row.kind = r.kind /\ row.sid = r.sid /\ row.cur = r.cur /\ row.status = r.status
      /\ row.amount = r.amount /\ row.comp = r.comp /\ row.keydate = r.keydate
  BY ONLY <1>1, <1>2 DEF RowFields
<1>4. Filed(f, i, row)
  BY <1>3, Zenon DEF Filed, r, o
<1> QED BY <1>3, <1>4, Zenon DEF FiledAt, row, o

\* Where the rows of the records read so far are.
LEMMA ReadSoFar ==
    ASSUME CursorInv, HeaderInv, RowsInv, pc \in {"record", "post"}
    PROVE  /\ fd \in Files /\ End(fd) \in Nat /\ at \in 2..(End(fd) + 1) /\ ~Blank(fd, at - 1)
           /\ HeaderAt(fd) \in 1..(at - 1) /\ at - 1 \in HeaderAt(fd)..End(fd)
           /\ IsSeq(rows) /\ DOMAIN rows = 1..Len(rows) /\ Len(rows) \in Nat
           /\ Len(rows) = Ordinal(fd, at - 1)
           /\ \A i \in Body(fd) : /\ Ordinal(fd, i) \in Nat /\ Ordinal(fd, i) >= 1
                                  /\ i < at <=> Ordinal(fd, i) \in DOMAIN rows
<1>1. /\ fd \in Files /\ at \in 1..(End(fd) + 1) /\ (at > 1 => ~Blank(fd, at - 1))
      /\ HeaderAt(fd) \in 1..(at - 1) /\ IsSeq(rows) /\ Len(rows) = Ordinal(fd, at - 1)
  BY DEF CursorInv, HeaderInv, RowsInv
<1>2. End(fd) \in Nat
  BY <1>1, FileIs
<1>3. at \in 2..(End(fd) + 1) /\ ~Blank(fd, at - 1) /\ at - 1 \in HeaderAt(fd)..End(fd)
  BY <1>1, <1>2
<1>4. DOMAIN rows = 1..Len(rows) /\ Len(rows) \in Nat
  BY <1>1, SeqFacts
<1>5. ASSUME NEW i \in Body(fd)
      PROVE  /\ Ordinal(fd, i) \in Nat /\ Ordinal(fd, i) >= 1
             /\ i < at <=> Ordinal(fd, i) \in DOMAIN rows
  <2>1. /\ i \in (HeaderAt(fd) + 1)..End(fd) /\ Ordinal(fd, i) \in Nat /\ Ordinal(fd, i) >= 1
        /\ i <= at - 1 <=> Ordinal(fd, i) <= Ordinal(fd, at - 1)
    BY <1>1, <1>3, OrdinalOrder
  <2>2. i \in Int /\ at \in Int
    BY <1>1, <1>2, <1>3, <2>1
  <2>3. i < at <=> i <= at - 1
    BY ONLY <2>2
  <2>4. Ordinal(fd, i) <= Len(rows) <=> Ordinal(fd, i) \in 1..Len(rows)
    BY ONLY <1>4, <2>1
  <2>5. Ordinal(fd, i) <= Len(rows) <=> i < at
    BY <1>1, <2>1, <2>3, Zenon
  <2> QED BY <1>4, <2>1, <2>4, <2>5, Zenon
<1> QED BY <1>1, <1>2, <1>3, <1>4, <1>5

\* The last row ends where the cursor is.
LEMMA LastRow ==
    ASSUME CursorInv, HeaderInv, RowsInv, SpansTile, pc = "record"
    PROVE  /\ Len(rows) = 0 => at - 1 = HeaderAt(fd)
           /\ Len(rows) # 0 => /\ rows[Len(rows)].bytes[2] = Mark(fd) + BytesTo(fd, at - 1)
                               /\ rows[Len(rows)].lines[2] = LinesTo(fd, at - 1)
<1>1. /\ fd \in Files /\ End(fd) \in Nat /\ at \in 2..(End(fd) + 1) /\ ~Blank(fd, at - 1)
      /\ HeaderAt(fd) \in 1..(at - 1) /\ at - 1 \in HeaderAt(fd)..End(fd)
      /\ DOMAIN rows = 1..Len(rows) /\ Len(rows) \in Nat /\ Len(rows) = Ordinal(fd, at - 1)
      /\ \A i \in Body(fd) : Ordinal(fd, i) >= 1
  BY ReadSoFar
<1>2. ASSUME at - 1 # HeaderAt(fd) PROVE at - 1 \in Body(fd)
  BY <1>1, <1>2 DEF Body
<1>3. Len(rows) = 0 => at - 1 = HeaderAt(fd)
  BY <1>1, <1>2
<1>4. ASSUME Len(rows) # 0
      PROVE  /\ rows[Len(rows)].bytes[2] = Mark(fd) + BytesTo(fd, at - 1)
             /\ rows[Len(rows)].lines[2] = LinesTo(fd, at - 1)
  <2>1. at - 1 # HeaderAt(fd)
    BY <1>1, <1>4, OrdinalIs
  <2>2. at - 1 \in Body(fd) /\ Ordinal(fd, at - 1) \in DOMAIN rows
    BY <1>1, <1>2, <1>4, <2>1
  <2>3. /\ rows[Ordinal(fd, at - 1)].bytes[2] = Mark(fd) + BytesTo(fd, at - 1)
        /\ rows[Ordinal(fd, at - 1)].lines[2] = LinesTo(fd, at - 1)
    BY <2>2, Zenon DEF SpansTile
  <2> QED BY <1>1, <2>3, Zenon
<1> QED BY <1>3, <1>4

\* The records read so far are already too many.
LEMMA TooMany ==
    ASSUME NEW f \in Files, NEW a \in HeaderAt(f)..End(f), Ordinal(f, a) >= MaxRows
    PROVE  ~Accepted(f)
<1>1. End(f) \in HeaderAt(f)..End(f) /\ a <= End(f)
  BY FileIs, HeaderIs
<1>2. Ordinal(f, a) <= Ordinal(f, End(f)) /\ Ordinal(f, a) \in Nat
  BY <1>1, OrdinalIs
<1>3. Ordinal(f, End(f)) \in Nat /\ Cardinality(Body(f)) = Ordinal(f, End(f)) /\ MaxRows \in Nat
  BY BodyNumbered, LimitAssumption
<1>4. ~(Cardinality(Body(f)) < MaxRows)
  BY ONLY <1>2, <1>3, Ordinal(f, a) >= MaxRows
<1> QED BY <1>4, Zenon DEF Accepted

LEMMA BadRecord ==
    ASSUME NEW f \in Files, NEW n \in Body(f), ~RecordOK(f, f.entries[n])
    PROVE  ~Accepted(f)
<1>1. n \in 1..End(f)
  BY FileIs, HeaderIs DEF Body
<1>2. ~Clerical(f, f.entries[n])
  BY <1>1, ClericalIs
<1> QED BY <1>2, Zenon DEF Accepted

\* The entry that the loop reads becomes the next row.
LEMMA NextRecord ==
    ASSUME CursorInv, HeaderInv, RowsInv, pc = "record", ~AtEOF, Advance, NEW n, n = NextEntry
    PROVE  /\ n \in Body(fd) /\ n \in at..End(fd) /\ n \in 1..End(fd) /\ at' = n + 1
           /\ Ordinal(fd, n) = Len(rows) + 1
           /\ \A k \in at..(n - 1) : Blank(fd, k)
           /\ \A i \in Body(fd) : i < at' => i < at \/ i = n
<1>1. /\ fd \in Files /\ End(fd) \in Nat /\ at \in 2..(End(fd) + 1)
      /\ HeaderAt(fd) \in 1..(at - 1) /\ at - 1 \in HeaderAt(fd)..End(fd)
      /\ Len(rows) \in Nat /\ Len(rows) = Ordinal(fd, at - 1)
  BY ReadSoFar
<1>2. /\ n \in at..End(fd) /\ ~Blank(fd, n) /\ (\A k \in at..(n - 1) : Blank(fd, k)) /\ at' = n + 1
      /\ FilledTo(fd, n) = FilledTo(fd, at - 1) + 1
  BY ReadIs
<1>3. n \in Body(fd) /\ n \in 1..End(fd)
  BY <1>1, <1>2 DEF Body
<1>4. Ordinal(fd, n) = Len(rows) + 1
  <2>1. at - 1 \in 0..End(fd) /\ HeaderAt(fd) \in 0..End(fd)
    BY <1>1
  <2>2. FilledTo(fd, at - 1) \in Nat /\ FilledTo(fd, HeaderAt(fd)) \in Nat
    BY <1>1, <2>1, FilledIs
  <2>3. Ordinal(fd, n) = FilledTo(fd, n) - FilledTo(fd, HeaderAt(fd))
        /\ Len(rows) = FilledTo(fd, at - 1) - FilledTo(fd, HeaderAt(fd))
    BY <1>1, Zenon DEF Ordinal
  <2> QED BY ONLY <1>2, <2>2, <2>3
<1>5. ASSUME NEW i \in Body(fd), i < at' PROVE i < at \/ i = n
  <2>1. i \in 1..End(fd) /\ ~Blank(fd, i)
    BY <1>1 DEF Body
  <2>2. i \notin at..(n - 1)
    BY <1>2, <2>1
  <2> QED BY <1>1, <1>2, <1>5, <2>1, <2>2
<1> QED BY <1>2, <1>3, <1>4, <1>5

LEMMA NewRow ==
    ASSUME CursorInv, HeaderInv, RowsInv, pc = "record", ~AtEOF, Advance,
           rows' = Append(rows, [RowOf(fd, Entry) EXCEPT !.ord = Len(rows) + 1,
                                    !.lines = <<LineStart, LineEnd>>, !.bytes = Span])
    PROVE  \E row : /\ FiledAt(fd, NextEntry, <<LineStart, LineEnd>>, Span, row)
                    /\ Extended(rows, row, rows')
<1> DEFINE n == NextEntry
           row == [RowOf(fd, Entry) EXCEPT !.ord = Len(rows) + 1,
                       !.lines = <<LineStart, LineEnd>>, !.bytes = Span]
<1>1. Ordinal(fd, n) = Len(rows) + 1 /\ Entry = fd.entries[n]
  BY NextRecord, ReadIs
<1>2. row = Placed(fd, n, Ordinal(fd, n), <<LineStart, LineEnd>>, Span)
  BY <1>1, Zenon DEF Placed
<1>3. IsSeq(rows) /\ rows' = Append(rows, row)
  BY ReadSoFar
<1> HIDE DEF n, row
<1>4. FiledAt(fd, n, <<LineStart, LineEnd>>, Span, row)
  BY <1>2, FiledRow, Zenon
<1>5. Extended(rows, row, rows')
  BY <1>3, AppendRow, Zenon
<1> QED BY <1>4, <1>5, Zenon DEF n

LEMMA RecordRead ==
    ASSUME CursorInv, HeaderInv, RowsInv, pc = "record", ~AtEOF, Advance,
           pc' = pc, fd' = fd, Sane, RecordOK(fd, Entry),
           NEW row, FiledAt(fd, NextEntry, <<LineStart, LineEnd>>, Span, row), Extended(rows, row, rows')
    PROVE  RowsInv' /\ HeaderInv'
<1> DEFINE n == NextEntry
<1>1. /\ n \in Body(fd) /\ n \in at..End(fd) /\ n \in 1..End(fd) /\ at' = n + 1
      /\ Ordinal(fd, n) = Len(rows) + 1 /\ (\A k \in at..(n - 1) : Blank(fd, k))
      /\ \A i \in Body(fd) : i < at' => i < at \/ i = n
  BY NextRecord
<1>2. Entry = fd.entries[n] /\ TameAt(fd, n)
  BY ReadIs
<1>3. /\ fd \in Files /\ End(fd) \in Nat /\ at \in 2..(End(fd) + 1)
      /\ HeaderAt(fd) \in 1..(at - 1)
      /\ IsSeq(rows) /\ DOMAIN rows = 1..Len(rows) /\ Len(rows) \in Nat
      /\ \A i \in Body(fd) : (i < at) <=> (Ordinal(fd, i) \in DOMAIN rows)
  BY ReadSoFar
<1>4. Filed(fd, n, row)
  BY Zenon DEF FiledAt
<1> HIDE DEF n
<1>6. /\ IsSeq(rows') /\ Len(rows') = Len(rows) + 1 /\ rows'[Len(rows) + 1] = row
      /\ \A i \in 1..Len(rows) : rows'[i] = rows[i]
  BY Zenon DEF Extended
<1>7. at' - 1 = n
  BY <1>1, <1>3
<1>8. ASSUME NEW i \in Body(fd), i < at'
      PROVE  RecordOK(fd, fd.entries[i]) /\ Filed(fd, i, rows'[Ordinal(fd, i)])
  <2>1. CASE i = n
    <3>1. rows'[Ordinal(fd, i)] = row
      BY <1>1, <1>6, <2>1, Zenon
    <3> QED BY <1>2, <1>4, <2>1, <3>1, Zenon
  <2>2. CASE i < at
    <3>1. rows'[Ordinal(fd, i)] = rows[Ordinal(fd, i)]
      BY <1>3, <1>6, <2>2, Zenon
    <3>2. RecordOK(fd, fd.entries[i]) /\ Filed(fd, i, rows[Ordinal(fd, i)])
      BY <2>2, Zenon DEF RowsInv
    <3> QED BY <3>1, <3>2, Zenon
  <2> QED BY <1>1, <1>8, <2>1, <2>2
<1>9. Len(rows') = Ordinal(fd, at' - 1)
  BY <1>1, <1>6, <1>7, Zenon
<1>10. RowsInv'
  <2>1. pc' = "record"
    OBVIOUS
  <2> QED BY <1>6, <1>8, <1>9, <2>1 DEF RowsInv
<1>11. \A i \in 1..(at' - 1) : TameAt(fd, i)
  <2> SUFFICES ASSUME NEW i \in 1..(at' - 1) PROVE TameAt(fd, i)
    OBVIOUS
  <2>1. i \in 1..(at - 1) \/ i \in at..(n - 1) \/ i = n
    BY <1>1, <1>3, <1>7
  <2> QED BY <1>1, <1>2, <2>1, BlankNoHeader DEF HeaderInv
<1>12. HeaderAt(fd) \in 1..(at' - 1)
  BY <1>1, <1>3, <1>7
<1>13. HeaderInv'
  <2>1. /\ Mark(fd) + BytesTo(fd, End(fd)) <= MaxBytes /\ ~fd.entries[HeaderAt(fd)].dup
        /\ FilledTo(fd, HeaderAt(fd) - 1) <= Preamble(fd)
    BY DEF HeaderInv
  <2>2. pc' = "record"
    OBVIOUS
  <2> QED BY <1>11, <1>12, <2>1, <2>2 DEF HeaderInv
<1> QED BY <1>10, <1>13

LEMMA RecordTiles ==
    ASSUME CursorInv, HeaderInv, RowsInv, SpansTile, pc = "record", ~AtEOF, Advance, fd' = fd,
           NEW row, FiledAt(fd, NextEntry, <<LineStart, LineEnd>>, Span, row), Extended(rows, row, rows')
    PROVE  SpansTile'
<1> DEFINE n == NextEntry
           m == Len(rows)
           B(k) == Mark(fd) + BytesTo(fd, k)
           L(k) == LinesTo(fd, k)
<1>1. n \in Body(fd) /\ n \in at..End(fd) /\ n \in 1..End(fd) /\ Ordinal(fd, n) = m + 1
  BY NextRecord
<1>2. /\ offset' = B(n) /\ LineStart = 1 + L(n - 1) /\ LineEnd = L(n)
  BY ReadIs
<1>3. /\ fd \in Files /\ End(fd) \in Nat /\ at \in 2..(End(fd) + 1)
      /\ DOMAIN rows = 1..m /\ m \in Nat
      /\ \A i \in Body(fd) : Ordinal(fd, i) \in Nat
  BY ReadSoFar
<1>4. row.bytes = Span /\ row.lines = <<LineStart, LineEnd>>
  BY Zenon DEF FiledAt
<1>5. offset = B(at - 1)
  BY DEF CursorInv
<1>6. row.bytes[1] = B(at - 1) /\ row.bytes[2] = B(n) /\ row.lines[1] = 1 + L(n - 1) /\ row.lines[2] = L(n)
  BY <1>2, <1>4, <1>5 DEF Span
<1>7. /\ m = 0 => at - 1 = HeaderAt(fd)
      /\ m # 0 => rows[m].bytes[2] = B(at - 1) /\ rows[m].lines[2] = L(at - 1)
  BY LastRow
<1>8. L(at - 1) \in Nat /\ L(n - 1) \in Nat /\ L(n) \in Nat /\ L(at - 1) <= L(n - 1) /\ L(n) >= 1 + L(n - 1)
  <2>1. at - 1 \in 0..End(fd) /\ n - 1 \in 0..End(fd) /\ n \in 0..End(fd) /\ at - 1 <= n - 1
    BY <1>1, <1>3
  <2>2. L(at - 1) \in Nat /\ L(n - 1) \in Nat /\ L(n) \in Nat /\ L(at - 1) <= L(n - 1)
    BY <1>3, <2>1, LinesAre
  <2>3. L(n) = L(n - 1) + fd.entries[n].height /\ fd.entries[n].height \in Nat /\ fd.entries[n].height >= 1
    BY <1>1, <1>3, LinesAre, FileIs
  <2> QED BY ONLY <2>2, <2>3
<1>9. /\ IsSeq(rows') /\ Len(rows') = m + 1 /\ rows'[m + 1] = row
      /\ \A i \in 1..m : rows'[i] = rows[i]
  BY Zenon DEF Extended
<1>10. DOMAIN rows' = 1..(m + 1)
  <2>1. DOMAIN rows' = 1..Len(rows')
    BY <1>9, SeqFacts, Zenon
  <2> QED BY <1>9, <2>1, Zenon
<1> HIDE DEF n, m, L, B
<1>11. ASSUME NEW i \in DOMAIN rows'
       PROVE  /\ rows'[i].bytes[1] = IF i = 1 THEN B(HeaderAt(fd)) ELSE rows'[i - 1].bytes[2]
              /\ rows'[i].lines[1] <= rows'[i].lines[2]
              /\ i > 1 => rows'[i - 1].lines[2] < rows'[i].lines[1]
  <2>1. CASE i \in 1..m
    <3>1. /\ rows[i].bytes[1] = IF i = 1 THEN B(HeaderAt(fd)) ELSE rows[i - 1].bytes[2]
          /\ rows[i].lines[1] <= rows[i].lines[2]
          /\ i > 1 => rows[i - 1].lines[2] < rows[i].lines[1]
      BY <1>3, <2>1, Zenon DEF SpansTile, B
    <3>2. rows'[i] = rows[i]
      BY <1>9, <2>1, Zenon
    <3>3. CASE i = 1
      <4>1. ~(i > 1)
        BY ONLY <3>3
      <4> QED BY <3>1, <3>2, <3>3, <4>1, Zenon
    <3>4. CASE i # 1
      <4>1. i - 1 \in 1..m
        BY ONLY <1>3, <2>1, <3>4
      <4>2. rows'[i - 1] = rows[i - 1]
        BY <1>9, <4>1, Zenon
      <4> QED BY <3>1, <3>2, <3>4, <4>2, Zenon
    <3> QED BY <3>3, <3>4
  <2>2. CASE i = m + 1
    <3>1. rows'[i] = row
      BY <1>9, <2>2, Zenon
    <3>2. rows'[i].lines[1] <= rows'[i].lines[2]
      <4>1. row.lines[1] <= row.lines[2]
        BY ONLY <1>6, <1>8
      <4> QED BY <3>1, <4>1, Zenon
    <3>3. CASE m = 0
      <4>1. i = 1 /\ ~(i > 1)
        BY ONLY <2>2, <3>3
      <4>2. row.bytes[1] = B(HeaderAt(fd))
        BY <1>6, <1>7, <3>3, Zenon
      <4> QED BY <3>1, <3>2, <4>1, <4>2, Zenon
    <3>4. CASE m # 0
      <4>1. i # 1 /\ i - 1 = m /\ m \in 1..m
        BY ONLY <1>3, <2>2, <3>4
      <4>2. rows'[i - 1] = rows[m]
        BY <1>9, <4>1, Zenon
      <4>3. rows[m].bytes[2] = B(at - 1) /\ rows[m].lines[2] = L(at - 1)
        BY <1>7, <3>4
      <4>4. rows[m].lines[2] < row.lines[1]
        BY ONLY <1>6, <1>8, <4>3
      <4>5. row.bytes[1] = rows[m].bytes[2]
        BY <1>6, <4>3, Zenon
      <4> QED BY <3>1, <3>2, <4>1, <4>2, <4>4, <4>5, Zenon
    <3> QED BY <3>3, <3>4
  <2>3. i \in 1..m \/ i = m + 1
    BY ONLY <1>3, <1>10, i \in DOMAIN rows'
  <2> QED BY <2>1, <2>2, <2>3
<1>12. ASSUME NEW i \in Body(fd), Ordinal(fd, i) \in DOMAIN rows'
       PROVE  /\ rows'[Ordinal(fd, i)].bytes[2] = B(i)
              /\ rows'[Ordinal(fd, i)].lines[2] = L(i)
  <2>1. CASE Ordinal(fd, i) \in 1..m
    <3>1. rows[Ordinal(fd, i)].bytes[2] = B(i) /\ rows[Ordinal(fd, i)].lines[2] = L(i)
      BY <1>3, <2>1, Zenon DEF SpansTile, B, L
    <3> QED BY <1>9, <2>1, <3>1, Zenon
  <2>2. CASE Ordinal(fd, i) = m + 1
    <3>1. i = n
      BY <1>1, <1>3, <2>2, BodyNumbered
    <3> QED BY <1>6, <1>9, <2>2, <3>1, Zenon
  <2>3. Ordinal(fd, i) \in 1..m \/ Ordinal(fd, i) = m + 1
    <3>1. Ordinal(fd, i) \in 1..(m + 1)
      BY <1>10, <1>12, Zenon
    <3> QED BY ONLY <1>3, <3>1
  <2> QED BY <2>1, <2>2, <2>3
<1> QED BY <1>11, <1>12, Zenon DEF SpansTile, B, L

LEMMA RecordStep == ASSUME Inv, ReadRecord PROVE Inv'
<1>1. /\ pc = "record" /\ atPath' = atPath /\ fd' = fd /\ hashed' = hashed /\ tried' = tried
  BY DEF ReadRecord, environment
<1>2. CursorInv /\ HeaderInv /\ RowsInv /\ SpansTile
  BY DEF Inv
<1>3. /\ fd \in Files /\ End(fd) \in Nat /\ at \in 2..(End(fd) + 1) /\ ~Blank(fd, at - 1)
      /\ HeaderAt(fd) \in 1..(at - 1) /\ at - 1 \in HeaderAt(fd)..End(fd)
      /\ Len(rows) \in Nat /\ Len(rows) = Ordinal(fd, at - 1)
  BY <1>1, <1>2, ReadSoFar
<1>4. MaxRows \in Nat
  BY LimitAssumption
<1>5. CASE AtLimit
  <2>1. pc' = "failed" /\ at' = at /\ rows' = rows
    BY <1>5 DEF ReadRecord, Fail, cursor
  <2>2. Ordinal(fd, at - 1) >= MaxRows
    <3>1. Len(rows) + 1 > MaxRows
      BY <1>5 DEF AtLimit
    <3> QED BY ONLY <1>3, <1>4, <3>1
  <2>3. ~Accepted(fd)
    BY <1>3, <2>2, TooMany
  <2>4. CursorInv'
    BY <1>1, <1>2, <2>1 DEF CursorInv
  <2>5. HeaderInv' /\ RowsInv'
    BY <2>1 DEF HeaderInv, RowsInv
  <2>6. SpansTile'
    BY <1>1, <1>2, <2>1 DEF SpansTile
  <2>7. OutcomeInv'
    BY <1>1, <2>1, <2>3 DEF OutcomeInv
  <2> QED BY <2>4, <2>5, <2>6, <2>7 DEF Inv
<1>6. CASE ~AtLimit /\ AtEOF
  <2>1. pc' = "post" /\ at' = at /\ rows' = rows
    BY <1>6 DEF ReadRecord, Fail, cursor
  <2>2. Len(rows) < MaxRows
    <3>1. ~(Len(rows) + 1 > MaxRows)
      BY <1>6 DEF AtLimit
    <3> QED BY ONLY <1>3, <1>4, <3>1
  <2>3. \A i \in at..End(fd) : Blank(fd, i)
    BY <1>2, <1>6, EndIs
  <2>4. CursorInv'
    BY <1>1, <1>2, <2>1 DEF CursorInv
  <2>5. HeaderInv'
    BY <1>1, <1>2, <2>1 DEF HeaderInv
  <2>6. RowsInv'
    BY <1>1, <1>2, <2>1, <2>2, <2>3 DEF RowsInv
  <2>7. SpansTile'
    BY <1>1, <1>2, <2>1 DEF SpansTile
  <2>8. OutcomeInv'
    BY <2>1 DEF OutcomeInv
  <2> QED BY <2>4, <2>5, <2>6, <2>7, <2>8 DEF Inv
<1>7. CASE ~AtLimit /\ ~AtEOF
  <2>1. Advance
    BY <1>7 DEF ReadRecord
  <2>2. /\ NextEntry \in Body(fd) /\ NextEntry \in at..End(fd) /\ NextEntry \in 1..End(fd)
        /\ at' = NextEntry + 1
    BY <1>1, <1>2, <1>7, <2>1, NextRecord
  <2>3. /\ ~Blank(fd, NextEntry) /\ Entry = fd.entries[NextEntry]
        /\ line' = 1 + LinesTo(fd, NextEntry) /\ offset' = Mark(fd) + BytesTo(fd, NextEntry)
        /\ (Sane <=> TameAt(fd, NextEntry))
    BY <1>1, <1>2, <1>7, <2>1, ReadIs
  <2>4. at' - 1 = NextEntry /\ at' \in 1..(End(fd) + 1)
    BY <1>3, <2>2
  <2>5. ASSUME pc' \in {"record", "failed"} PROVE CursorInv'
    <3>1. atPath \in Files /\ hashed = fd
      BY <1>2 DEF CursorInv
    <3> QED BY <1>1, <1>3, <2>3, <2>4, <2>5, <3>1 DEF CursorInv
  <2>6. CASE Sane /\ RecordOK(fd, Entry)
    <3>1. /\ pc' = pc
          /\ rows' = Append(rows, [RowOf(fd, Entry) EXCEPT !.ord = Len(rows) + 1,
                                        !.lines = <<LineStart, LineEnd>>, !.bytes = Span])
      BY <1>7, <2>6 DEF ReadRecord
    <3>2. PICK row : /\ FiledAt(fd, NextEntry, <<LineStart, LineEnd>>, Span, row)
                     /\ Extended(rows, row, rows')
      BY <1>1, <1>2, <1>7, <2>1, <3>1, NewRow
    <3>3. RowsInv' /\ HeaderInv'
      BY <1>1, <1>2, <1>7, <2>1, <2>6, <3>1, <3>2, RecordRead
    <3>4. SpansTile'
      BY <1>1, <1>2, <1>7, <2>1, <3>2, RecordTiles
    <3>5. CursorInv'
      BY <1>1, <2>5, <3>1
    <3>6. OutcomeInv'
      BY <1>1, <3>1 DEF OutcomeInv
    <3> QED BY <3>3, <3>4, <3>5, <3>6 DEF Inv
  <2>7. CASE ~(Sane /\ RecordOK(fd, Entry))
    <3>1. pc' = "failed" /\ rows' = rows
      BY <1>7, <2>7 DEF ReadRecord, Fail
    <3>2. ~Accepted(fd)
      BY <1>3, <2>2, <2>3, <2>7, NotTame, BadRecord
    <3>3. CursorInv'
      BY <2>5, <3>1
    <3>4. HeaderInv' /\ RowsInv'
      BY <3>1 DEF HeaderInv, RowsInv
    <3>5. SpansTile'
      BY <1>1, <1>2, <3>1 DEF SpansTile
    <3>6. OutcomeInv'
      BY <1>1, <3>1, <3>2 DEF OutcomeInv
    <3> QED BY <3>3, <3>4, <3>5, <3>6 DEF Inv
  <2> QED BY <2>6, <2>7
<1> QED BY <1>5, <1>6, <1>7

-----------------------------------------------------------------------------
\* The whole file has been read.

\* One row for every record, and every record is right.
Complete(f, rs) ==
    /\ DOMAIN rs = 1..Cardinality(Body(f)) /\ Cardinality(Body(f)) \in Nat
    /\ \A i \in Body(f) : /\ Ordinal(f, i) \in DOMAIN rs
                          /\ RecordOK(f, f.entries[i]) /\ Filed(f, i, rs[Ordinal(f, i)])
    /\ \A m \in DOMAIN rs : \E i \in Body(f) : Ordinal(f, i) = m
    /\ \A i, j \in Body(f) : Ordinal(f, i) = Ordinal(f, j) => i = j

LEMMA AllRead ==
    ASSUME CursorInv, HeaderInv, RowsInv, pc = "post"
    PROVE  Complete(fd, rows) /\ Len(rows) = Cardinality(Body(fd)) /\ \A i \in 1..End(fd) : TameAt(fd, i)
<1> DEFINE O(i) == Ordinal(fd, i)
           m == Len(rows)
           last == Ordinal(fd, End(fd))
<1>1. /\ fd \in Files /\ End(fd) \in Nat /\ at \in 2..(End(fd) + 1)
      /\ HeaderAt(fd) \in 1..(at - 1) /\ at - 1 \in HeaderAt(fd)..End(fd)
      /\ DOMAIN rows = 1..m /\ m \in Nat /\ m = O(at - 1)
      /\ \A i \in Body(fd) : (i < at) <=> (O(i) \in DOMAIN rows)
  BY ReadSoFar
<1>2. \A i \in at..End(fd) : Blank(fd, i)
  BY DEF RowsInv
<1>3. ASSUME NEW i \in Body(fd) PROVE i < at
  <2>1. i \in 1..End(fd) /\ ~Blank(fd, i)
    BY <1>1 DEF Body
  <2>2. i \notin at..End(fd)
    BY <1>2, <2>1
  <2> QED BY <1>1, <2>1, <2>2
<1>4. /\ \A i \in Body(fd) : O(i) \in 1..last
      /\ \A k \in 1..last : \E i \in Body(fd) : O(i) = k
      /\ \A i, j \in Body(fd) : O(i) = O(j) => i = j
      /\ Cardinality(Body(fd)) = last /\ last \in Nat
  BY <1>1, BodyNumbered
<1>5. m <= last
  <2>1. End(fd) \in HeaderAt(fd)..End(fd) /\ at - 1 <= End(fd)
    BY <1>1
  <2> QED BY <1>1, <2>1, OrdinalIs
<1>6. \A i \in Body(fd) : O(i) \in 1..m
  BY <1>1, <1>3
<1> HIDE DEF O, m, last
<1>7. last = m
  <2> SUFFICES ASSUME last # m PROVE FALSE
    OBVIOUS
  <2>1. last \in 1..last /\ last \notin 1..m
    BY ONLY <1>1, <1>4, <1>5, last # m
  <2> QED BY <1>4, <1>6, <2>1
<1>8. \A i \in Body(fd) : RecordOK(fd, fd.entries[i]) /\ Filed(fd, i, rows[O(i)])
  BY <1>3, Zenon DEF RowsInv, O
<1>9. Complete(fd, rows)
  <2>1. DOMAIN rows = 1..Cardinality(Body(fd)) /\ Cardinality(Body(fd)) \in Nat
    BY <1>1, <1>4, <1>7, Zenon
  <2>2. \A i \in Body(fd) : O(i) \in DOMAIN rows
    BY <1>1, <1>6, Zenon
  <2>3. \A k \in DOMAIN rows : \E i \in Body(fd) : O(i) = k
    BY <1>1, <1>4, <1>7, Zenon
  <2> QED BY <1>4, <1>8, <2>1, <2>2, <2>3, Zenon DEF Complete, O
<1>10. ASSUME NEW i \in 1..End(fd) PROVE TameAt(fd, i)
  <2>1. i \in 1..(at - 1) \/ i \in at..End(fd)
    BY <1>1
  <2> QED BY <1>2, <2>1, BlankNoHeader DEF HeaderInv
<1>11. Len(rows) = Cardinality(Body(fd))
  BY <1>4, <1>7, Zenon DEF m
<1> QED BY <1>9, <1>10, <1>11

\* Two families of rows that agree under a one to one numbering.
SameRows(rs, s, g) ==
    /\ \A i \in DOMAIN s : g[i] \in DOMAIN rs
    /\ \A m \in DOMAIN rs : \E i \in DOMAIN s : g[i] = m
    /\ \A i, j \in DOMAIN s : g[i] = g[j] => i = j
    /\ \A i \in DOMAIN s : rs[g[i]].kind = s[i].kind /\ rs[g[i]].sid = s[i].sid /\ rs[g[i]].cur = s[i].cur

LEMMA PostSame ==
    ASSUME NEW rs, NEW s, NEW g, SameRows(rs, s, g)
    PROVE  PostOK(rs) <=> PostOK(s)
<1>1. \A i : i \in Metadata(s) <=> i \in DOMAIN s /\ g[i] \in Metadata(rs)
  BY DEF Metadata, SameRows
<1>2. ASSUME PostOK(rs) PROVE PostOK(s)
  <2>1. ASSUME NEW i \in Metadata(s), NEW j \in Metadata(s), s[i].sid = s[j].sid PROVE i = j
    <3>1. /\ i \in DOMAIN s /\ j \in DOMAIN s /\ g[i] \in Metadata(rs) /\ g[j] \in Metadata(rs)
      BY <1>1
    <3>2. rs[g[i]].sid = rs[g[j]].sid
      BY <2>1, <3>1 DEF SameRows
    <3>3. g[i] = g[j]
      BY <1>2, <3>1, <3>2, Zenon DEF PostOK
    <3> QED BY <3>1, <3>3 DEF SameRows
  <2>2. ASSUME NEW i \in DOMAIN s
        PROVE  \E m \in Metadata(s) : s[m].sid = s[i].sid /\ s[i].cur \in {"", s[m].cur}
    <3>1. PICK k \in Metadata(rs) : rs[k].sid = rs[g[i]].sid /\ rs[g[i]].cur \in {"", rs[k].cur}
      BY <1>2, <2>2 DEF PostOK, SameRows
    <3>2. PICK m \in DOMAIN s : g[m] = k
      BY <3>1 DEF SameRows, Metadata
    <3>3. m \in Metadata(s)
      BY <1>1, <3>1, <3>2
    <3>4. s[m].sid = s[i].sid /\ s[i].cur \in {"", s[m].cur}
      BY <2>2, <3>1, <3>2 DEF SameRows
    <3> QED BY <3>3, <3>4
  <2> QED BY <2>1, <2>2 DEF PostOK
<1>3. ASSUME PostOK(s) PROVE PostOK(rs)
  <2>1. ASSUME NEW k \in Metadata(rs), NEW l \in Metadata(rs), rs[k].sid = rs[l].sid PROVE k = l
    <3>1. k \in DOMAIN rs /\ l \in DOMAIN rs
      BY DEF Metadata
    <3>2. PICK i \in DOMAIN s : g[i] = k
      BY <3>1 DEF SameRows
    <3>3. PICK j \in DOMAIN s : g[j] = l
      BY <3>1 DEF SameRows
    <3>4. i \in Metadata(s) /\ j \in Metadata(s) /\ s[i].sid = s[j].sid
      BY <1>1, <2>1, <3>2, <3>3 DEF SameRows
    <3>5. i = j
      BY <1>3, <3>4 DEF PostOK
    <3> QED BY <3>2, <3>3, <3>5
  <2>2. ASSUME NEW k \in DOMAIN rs
        PROVE  \E l \in Metadata(rs) : rs[l].sid = rs[k].sid /\ rs[k].cur \in {"", rs[l].cur}
    <3>1. PICK i \in DOMAIN s : g[i] = k
      BY <2>2 DEF SameRows
    <3>2. PICK m \in Metadata(s) : s[m].sid = s[i].sid /\ s[i].cur \in {"", s[m].cur}
      BY <1>3, <3>1 DEF PostOK
    <3>3. g[m] \in Metadata(rs) /\ m \in DOMAIN s
      BY <1>1, <3>2
    <3>4. rs[g[m]].sid = rs[k].sid /\ rs[k].cur \in {"", rs[g[m]].cur}
      BY <3>1, <3>2, <3>3 DEF SameRows
    <3> QED BY <3>3, <3>4
  <2> QED BY <2>1, <2>2 DEF PostOK
<1> QED BY <1>2, <1>3

LEMMA PostIs ==
    ASSUME NEW f, NEW rs, Complete(f, rs), ~IsPayments(f)
    PROVE  PostOK(rs) <=> PostOK([i \in Body(f) |-> SettlementRow(f.entries[i].data)])
<1> DEFINE s == [i \in Body(f) |-> SettlementRow(f.entries[i].data)]
           g == [i \in Body(f) |-> Ordinal(f, i)]
<1>1. /\ \A i \in Body(f) : Ordinal(f, i) \in DOMAIN rs /\ Filed(f, i, rs[Ordinal(f, i)])
      /\ \A m \in DOMAIN rs : \E i \in Body(f) : Ordinal(f, i) = m
      /\ \A i, j \in Body(f) : Ordinal(f, i) = Ordinal(f, j) => i = j
  BY Zenon DEF Complete
<1>2. DOMAIN s = Body(f) /\ \A i \in Body(f) : g[i] = Ordinal(f, i) /\ s[i] = RowOf(f, f.entries[i])
  BY DEF RowOf
<1> HIDE DEF s, g
<1>3. ASSUME NEW i \in Body(f)
      PROVE  rs[g[i]].kind = s[i].kind /\ rs[g[i]].sid = s[i].sid /\ rs[g[i]].cur = s[i].cur
  <2>1. Filed(f, i, rs[g[i]])
    BY <1>1, <1>2
  <2>2. s[i] = RowOf(f, f.entries[i])
    BY <1>2
  <2> QED BY <2>1, <2>2, Zenon DEF Filed
<1>4. SameRows(rs, s, g)
  <2>1. \A i \in DOMAIN s : g[i] \in DOMAIN rs
    BY <1>1, <1>2
  <2>2. \A m \in DOMAIN rs : \E i \in DOMAIN s : g[i] = m
    BY <1>1, <1>2
  <2>3. \A i, j \in DOMAIN s : g[i] = g[j] => i = j
    BY <1>1, <1>2
  <2>4. \A i \in DOMAIN s : /\ rs[g[i]].kind = s[i].kind /\ rs[g[i]].sid = s[i].sid
                             /\ rs[g[i]].cur = s[i].cur
    BY <1>2, <1>3
  <2> QED BY <2>1, <2>2, <2>3, <2>4, Zenon DEF SameRows
<1> QED BY <1>4, PostSame DEF s

\* With all its records in order, the second pass accepts a file that is settled.
LEMMA SettledIs ==
    ASSUME NEW f, ~IsPayments(f), \A i \in Body(f) : SettlementRecord(f.entries[i].data)
    PROVE  PostOK([i \in Body(f) |-> SettlementRow(f.entries[i].data)]) <=> Settled(f)
<1> DEFINE s == [i \in Body(f) |-> SettlementRow(f.entries[i].data)]
           B == Body(f)
           d(i) == f.entries[i].data
<1>1. DOMAIN s = B /\ \A i \in B : s[i] = SettlementRow(d(i))
  OBVIOUS
<1>2. ASSUME NEW i \in B PROVE s[i].sid = d(i).sid /\ s[i].cur = d(i).cur
  BY <1>1, Zenon DEF SettlementRow
<1>3. ASSUME NEW i \in B PROVE s[i].kind = "settlement_metadata" <=> d(i).tx = ""
  <2>1. SettlementRecord(d(i))
    BY <1>3
  <2>2. IsMetadata(d(i)) <=> d(i).tx = ""
    <3>1. d(i).tx = "" => d(i).header \in Int64
      BY <2>1, Zenon DEF SettlementRecord
    <3>2. Empty \notin Int64
      BY TextAssumption, Int64Type
    <3> QED BY <3>1, <3>2, Zenon DEF IsMetadata
  <2>3. s[i].kind = IF IsMetadata(d(i)) THEN "settlement_metadata" ELSE "transaction"
    BY <1>1, <1>3, Zenon DEF SettlementRow
  <2> QED BY <2>2, <2>3
<1> HIDE DEF s
<1>4. \A i : i \in Metadata(s) <=> i \in B /\ d(i).tx = ""
  BY <1>1, <1>3 DEF Metadata
<1>5. PostOK(s) <=> /\ \A i, j \in Metadata(s) : d(i).sid = d(j).sid => i = j
                    /\ \A i \in B : \E m \in Metadata(s) :
                          d(m).sid = d(i).sid /\ d(i).cur \in {"", d(m).cur}
  <2>1. \A i \in Metadata(s) : i \in B
    BY <1>4
  <2>2. PostOK(s) <=> /\ \A i, j \in Metadata(s) : s[i].sid = s[j].sid => i = j
                      /\ \A i \in B : \E m \in Metadata(s) :
                            s[m].sid = s[i].sid /\ s[i].cur \in {"", s[m].cur}
    BY <1>1, Zenon DEF PostOK
  <2> HIDE DEF B, d
  <2>3. ASSUME NEW i \in B, NEW m \in B
        PROVE  /\ s[m].sid = s[i].sid <=> d(m).sid = d(i).sid
               /\ s[i].cur \in {"", s[m].cur} <=> d(i).cur \in {"", d(m).cur}
    <3>1. /\ s[i].sid = d(i).sid /\ s[i].cur = d(i).cur
          /\ s[m].sid = d(m).sid /\ s[m].cur = d(m).cur
      BY <1>2
    <3> QED BY ONLY <3>1
  <2>4. (\A i, j \in Metadata(s) : s[i].sid = s[j].sid => i = j)
           <=> \A i, j \in Metadata(s) : d(i).sid = d(j).sid => i = j
    BY ONLY <2>1, <2>3
  <2>5. ASSUME NEW i \in B
        PROVE  (\E m \in Metadata(s) : s[m].sid = s[i].sid /\ s[i].cur \in {"", s[m].cur})
                 <=> \E m \in Metadata(s) : d(m).sid = d(i).sid /\ d(i).cur \in {"", d(m).cur}
    BY ONLY <2>1, <2>3, <2>5
  <2> QED BY ONLY <2>2, <2>4, <2>5
<1>6. Settled(f) <=> \A i \in B : \E m \in B :
        /\ d(m).tx = "" /\ d(m).sid = d(i).sid /\ d(i).cur \in {"", d(m).cur}
        /\ \A k \in B : d(k).tx = "" /\ d(k).sid = d(i).sid => k = m
  BY Zenon DEF Settled
<1> HIDE DEF B, d
<1>7. ASSUME PostOK(s) PROVE Settled(f)
  <2> SUFFICES ASSUME NEW i \in B
               PROVE  \E m \in B :
                        /\ d(m).tx = "" /\ d(m).sid = d(i).sid /\ d(i).cur \in {"", d(m).cur}
                        /\ \A k \in B : d(k).tx = "" /\ d(k).sid = d(i).sid => k = m
    BY <1>6
  <2>1. PICK m \in Metadata(s) : d(m).sid = d(i).sid /\ d(i).cur \in {"", d(m).cur}
    BY <1>5, <1>7
  <2>2. ASSUME NEW k \in B, d(k).tx = "", d(k).sid = d(i).sid PROVE k = m
    BY <1>4, <1>5, <1>7, <2>1, <2>2
  <2> QED BY <1>4, <2>1, <2>2
<1>8. ASSUME Settled(f) PROVE PostOK(s)
  <2>1. ASSUME NEW i \in Metadata(s), NEW j \in Metadata(s), d(i).sid = d(j).sid PROVE i = j
    <3>1. i \in B /\ j \in B /\ d(i).tx = "" /\ d(j).tx = ""
      BY <1>4
    <3>2. PICK m \in B : \A k \in B : d(k).tx = "" /\ d(k).sid = d(i).sid => k = m
      BY <1>6, <1>8, <3>1
    <3> QED BY <2>1, <3>1, <3>2
  <2>2. ASSUME NEW i \in B
        PROVE  \E m \in Metadata(s) : d(m).sid = d(i).sid /\ d(i).cur \in {"", d(m).cur}
    <3>1. PICK m \in B : d(m).tx = "" /\ d(m).sid = d(i).sid /\ d(i).cur \in {"", d(m).cur}
      BY <1>6, <1>8
    <3> QED BY <1>4, <3>1
  <2> QED BY <1>5, <2>1, <2>2
<1> QED BY <1>7, <1>8 DEF s

LEMMA AcceptedIs ==
    ASSUME CursorInv, HeaderInv, RowsInv, pc = "post"
    PROVE  Accepted(fd) <=> IsPayments(fd) \/ PostOK(rows)
<1>1. /\ Complete(fd, rows) /\ Len(rows) = Cardinality(Body(fd))
      /\ \A i \in 1..End(fd) : TameAt(fd, i)
  BY AllRead
<1>2. /\ fd \in Files /\ End(fd) \in Nat /\ HeaderAt(fd) \in 1..(at - 1) /\ at \in 2..(End(fd) + 1)
  BY ReadSoFar
<1>3. Mark(fd) + BytesTo(fd, End(fd)) <= MaxBytes
  BY DEF HeaderInv
<1>4. Tame(fd)
  BY <1>1, Zenon DEF Tame, TameAt
<1>5. HeaderAt(fd) > 0
  BY <1>2
<1>6. ~fd.entries[HeaderAt(fd)].dup /\ FilledTo(fd, HeaderAt(fd) - 1) <= Preamble(fd)
  BY DEF HeaderInv
<1>7. Cardinality(Body(fd)) < MaxRows
  BY <1>1 DEF RowsInv
<1>8. ASSUME NEW i \in Body(fd) PROVE Clerical(fd, fd.entries[i])
  <2>1. i \in 1..End(fd)
    BY <1>2 DEF Body
  <2>2. RecordOK(fd, fd.entries[i])
    BY <1>1, <1>8, Zenon DEF Complete
  <2> QED BY <1>2, <2>1, <2>2, ClericalIs
<1>9. ~IsPayments(fd) => (PostOK(rows) <=> Settled(fd))
  <2> SUFFICES ASSUME ~IsPayments(fd) PROVE PostOK(rows) <=> Settled(fd)
    OBVIOUS
  <2>1. \A i \in Body(fd) : SettlementRecord(fd.entries[i].data)
    BY <1>8, Zenon DEF Clerical
  <2>2. PostOK([i \in Body(fd) |-> SettlementRow(fd.entries[i].data)]) <=> Settled(fd)
    BY <2>1, SettledIs
  <2> QED BY <1>1, <2>2, PostIs
<1> QED BY <1>3, <1>4, <1>5, <1>6, <1>7, <1>8, <1>9, Zenon DEF Accepted

-----------------------------------------------------------------------------
\* What the accepted rows are.

\* The record behind a row.
LEMMA RowIs ==
    ASSUME NEW f \in Files, NEW rs, Complete(f, rs), NEW m \in DOMAIN rs
    PROVE  \E i \in Body(f) : /\ i \in 1..End(f) /\ Ordinal(f, i) = m
                              /\ RecordOK(f, f.entries[i]) /\ Filed(f, i, rs[m])
<1>1. PICK i \in Body(f) : Ordinal(f, i) = m
  BY Zenon DEF Complete
<1>2. RecordOK(f, f.entries[i]) /\ Filed(f, i, rs[m])
  BY <1>1, Zenon DEF Complete
<1>3. i \in 1..End(f)
  BY FileIs, HeaderIs DEF Body
<1> QED BY <1>1, <1>2, <1>3

\* Adding the columns in order gives their sum.
LEMMA TotalIsSum ==
    ASSUME NEW d, \A k \in 1..Len(Columns) : d.parts[Columns[k]] \in Int,
           NEW comp, \A c \in Range(Columns) : comp[c] = d.parts[c]
    PROVE  SumFunctionOnSet(comp, Range(Columns)) = TotalTo(PartsOf(d), Len(Columns))
<1> DEFINE n == Len(Columns)
           w == PartsOf(d)
           T == Range(Columns)
           S == {k \in 0..n : TotalTo(w, k) = SumFunctionOnSet(w, 1..k)}
<1>1. n \in Nat /\ DOMAIN Columns = 1..n /\ \A k \in 1..n : Columns[k] \in T
  BY ColumnsAre
<1>2. DOMAIN w = 1..n /\ \A k \in 1..n : w[k] \in Int /\ w[k] = comp[Columns[k]]
  BY <1>1 DEF PartsOf
<1>3. Numbers(Columns, 1..n, T)
  <2>1. IsFiniteSet(1..n)
    BY <1>1, FS_Interval
  <2>2. \A x \in T : \E k \in 1..n : Columns[k] = x
    BY <1>1, Zenon DEF Range
  <2>3. \A i, j \in 1..n : Columns[i] = Columns[j] => i = j
    BY <1>1, ColumnAssumption, Zenon
  <2> HIDE DEF n, T
  <2> QED BY <1>1, <2>1, <2>2, <2>3, Zenon DEF Numbers
<1>4. SumFunctionOnSet(comp, T) = SumFunctionOnSet(w, 1..n)
  <2> DEFINE K == 1..n
  <2>1. Numbers(Columns, K, T) /\ \A i \in K : comp[Columns[i]] \in Int /\ w[i] = comp[Columns[i]]
    BY <1>2, <1>3
  <2> HIDE DEF n, T, w, K
  <2>2. SumFunctionOnSet(comp, T) = SumFunctionOnSet(w, K)
    BY ONLY <2>1, SumOnto
  <2> QED BY <2>2 DEF K
<1> HIDE DEF n, T, w
<1>5. /\ TotalTo(w, 0) = 0
      /\ \A k \in 1..n : TotalTo(w, k) = TotalTo(w, k - 1) + w[k]
  <2>1. \A k \in 1..n : w[k] \in Int
    BY <1>2
  <2> QED BY ONLY <1>1, <1>2, <2>1, TotalIs
<1>6. 0 \in S
  <2>1. 1..0 = {}
    OBVIOUS
  <2>2. SumFunctionOnSet(w, 1..0) = SumFunctionOnSet(w, {})
    BY <2>1, Zenon
  <2> QED BY <1>1, <1>5, <2>2, SumEmpty
<1>7. \A k \in 0..(n - 1) : k \in S => k + 1 \in S
  <2> SUFFICES ASSUME NEW k \in 0..(n - 1), TotalTo(w, k) = SumFunctionOnSet(w, 1..k)
               PROVE  TotalTo(w, k + 1) = SumFunctionOnSet(w, 1..(k + 1))
    BY <1>1
  <2>1. k \in Nat /\ k + 1 \in 1..n /\ (k + 1) - 1 = k /\ \A j \in 1..(k + 1) : j \in 1..n
    BY <1>1
  <2>2. \A j \in 1..(k + 1) : w[j] \in Int
    BY <1>2, <2>1
  <2>3. SumFunctionOnSet(w, 1..(k + 1)) = SumFunctionOnSet(w, 1..k) + w[k + 1]
    BY ONLY <2>1, <2>2, SumNext
  <2>4. TotalTo(w, k + 1) = TotalTo(w, (k + 1) - 1) + w[k + 1]
    BY <1>5, <2>1
  <2>5. TotalTo(w, k + 1) = TotalTo(w, k) + w[k + 1]
    BY <2>1, <2>4
  <2> QED BY <2>3, <2>5
<1>8. \A k \in 0..n : k \in S
  <2> HIDE DEF S
  <2> QED BY ONLY <1>1, <1>6, <1>7, UpTo
<1>9. TotalTo(w, n) = SumFunctionOnSet(w, 1..n)
  BY <1>1, <1>8
<1> QED BY <1>4, <1>9, Zenon DEF n, T, w

LEMMA PaymentIs ==
    ASSUME NEW f \in Files, NEW i \in 1..End(f), IsPayments(f), RecordOK(f, f.entries[i]),
           NEW d, d = f.entries[i].data
    PROVE  /\ PaymentOK(d) /\ RowOf(f, f.entries[i]) = PaymentRow(d)
           /\ d.total = SumFunctionOnSet(PaymentRow(d).comp, Range(Columns))
           /\ d.status = "Released" => d.release \in Time
<1>1. f.entries[i].kind = "record" /\ PaymentOK(d)
  BY DEF RecordOK
<1>2. d.release \in Date /\ d.total \in Amount /\ d.parts \in [Range(Columns) -> Amount]
  BY <1>1, RecordIs
<1>3. RowOf(f, f.entries[i]) = PaymentRow(d)
  BY DEF RowOf
<1>4. Numeric(d)
  BY <1>1, <1>2, NumericIs, Zenon DEF PaymentOK
<1>5. AddsUp(d)
  BY <1>1, <1>2, <1>4, AddsUpIs, Zenon DEF PaymentOK
<1>6. d.total = TotalTo(PartsOf(d), Len(Columns))
  BY <1>5, Zenon DEF AddsUp, PartsOf
<1>7. \A k \in 1..Len(Columns) : d.parts[Columns[k]] \in Int
  <2> SUFFICES ASSUME NEW k \in 1..Len(Columns) PROVE d.parts[Columns[k]] \in Int
    OBVIOUS
  <2>1. Columns[k] \in DOMAIN d.parts
    BY <1>2, ColumnsAre
  <2>2. d.parts[Columns[k]] \in Range(d.parts)
    BY <2>1 DEF Range
  <2> QED BY <1>4, <2>2, Int64Type DEF Numeric
<1>8. \A c \in Range(Columns) : PaymentRow(d).comp[c] = d.parts[c]
  BY ColumnAssumption DEF PaymentRow
<1>9. SumFunctionOnSet(PaymentRow(d).comp, Range(Columns)) = TotalTo(PartsOf(d), Len(Columns))
  <2> DEFINE comp == PaymentRow(d).comp
  <2>1. \A c \in Range(Columns) : comp[c] = d.parts[c]
    BY <1>8
  <2> HIDE DEF comp
  <2>2. SumFunctionOnSet(comp, Range(Columns)) = TotalTo(PartsOf(d), Len(Columns))
    BY ONLY <1>7, <2>1, TotalIsSum
  <2> QED BY <2>2 DEF comp
<1>10. d.status = "Released" => d.release \in Time
  BY <1>1, <1>2 DEF PaymentOK, Date
<1> QED BY <1>1, <1>3, <1>6, <1>9, <1>10, Zenon

LEMMA PaymentsKept ==
    ASSUME NEW f \in Files, IsPayments(f), NEW rs, Complete(f, rs)
    PROVE  PaymentsGuaranteed(rs)
<1> SUFFICES ASSUME NEW m \in DOMAIN rs
             PROVE  LET r == rs[m] IN
                    /\ r.ord = m
                    /\ r.kind = "transaction" /\ r.cur = "AUD" /\ r.status \in {"Released", "Deferred"}
                    /\ r.comp["total"] = r.amount
                    /\ r.amount = SumFunctionOnSet(r.comp, DOMAIN r.comp \ {"total"})
  BY Zenon DEF PaymentsGuaranteed, Numbering
<1>1. PICK i \in Body(f) : /\ i \in 1..End(f) /\ Ordinal(f, i) = m
                           /\ RecordOK(f, f.entries[i]) /\ Filed(f, i, rs[m])
  BY RowIs
<1> DEFINE d == f.entries[i].data
           r == rs[m]
           p == PaymentRow(d)
<1>2. /\ PaymentOK(d) /\ RowOf(f, f.entries[i]) = p
      /\ d.total = SumFunctionOnSet(p.comp, Range(Columns))
  BY <1>1, PaymentIs
<1>3. /\ r.ord = m /\ r.kind = p.kind /\ r.cur = p.cur /\ r.status = p.status
      /\ r.comp = p.comp /\ r.amount = p.amount
  BY <1>1, <1>2, Zenon DEF Filed
<1>4. /\ p.kind = "transaction" /\ p.cur = "AUD" /\ p.status = d.status /\ p.amount = d.total
      /\ p.comp["total"] = d.total /\ DOMAIN p.comp = Range(Columns) \cup {"total"}
  BY DEF PaymentRow
<1>5. d.status \in {"Released", "Deferred"}
  BY <1>2 DEF PaymentOK
<1>6. DOMAIN p.comp \ {"total"} = Range(Columns)
  BY <1>4, ColumnAssumption
<1> HIDE DEF r, p, d
<1> QED BY <1>2, <1>3, <1>4, <1>5, <1>6, Zenon DEF r

LEMMA DayIs ==
    ASSUME NEW a \in Time, NEW b \in Time
    PROVE  /\ Instant(a) <= Instant(b) => Day(a) <= Day(b)
           /\ Instant(a) - Instant(b) >= 24 => Day(a) > Day(b)
<1>1. Instant(a) \in Int /\ Instant(b) \in Int
  BY DEF Instant, Time
<1>2. \A x, y \in Int : (x <= y => x \div 24 <= y \div 24) /\ (x - y >= 24 => x \div 24 > y \div 24)
  OBVIOUS
<1> QED BY <1>1, <1>2 DEF Day

LEMMA DatesKept ==
    ASSUME NEW f \in Files, IsPayments(f), NEW rs, Complete(f, rs), NEW i \in Body(f), NEW j \in Body(f),
           f.entries[i].data.status = "Released", f.entries[j].data.status = "Released"
    PROVE  LET a == f.entries[i].data.release
               b == f.entries[j].data.release
               day == rs[Ordinal(f, i)].keydate
               other == rs[Ordinal(f, j)].keydate
           IN  /\ Instant(a) <= Instant(b) => day <= other
               /\ Instant(a) - Instant(b) >= 24 => day > other
<1>1. ASSUME NEW k \in Body(f), f.entries[k].data.status = "Released"
      PROVE  /\ f.entries[k].data.release \in Time
             /\ rs[Ordinal(f, k)].keydate = Day(f.entries[k].data.release)
  <2> DEFINE d == f.entries[k].data
  <2>1. k \in 1..End(f)
    BY FileIs, HeaderIs DEF Body
  <2>2. RecordOK(f, f.entries[k]) /\ Filed(f, k, rs[Ordinal(f, k)])
    BY Zenon DEF Complete
  <2>3. RowOf(f, f.entries[k]) = PaymentRow(d) /\ d.release \in Time
    BY <1>1, <2>1, <2>2, PaymentIs
  <2>4. PaymentRow(d).keydate = Day(d.release)
    BY <1>1 DEF PaymentRow
  <2>5. rs[Ordinal(f, k)].keydate = PaymentRow(d).keydate
    BY <2>2, <2>3, Zenon DEF Filed
  <2> QED BY <2>3, <2>4, <2>5, Zenon
<1> QED BY <1>1, DayIs
\* Taking the currency of the metadata row changes nothing else.
TakesCurrency(rs, t) ==
    /\ DOMAIN t = DOMAIN rs
    /\ \A m \in DOMAIN rs :
          /\ t[m].ord = rs[m].ord /\ t[m].lines = rs[m].lines /\ t[m].bytes = rs[m].bytes
          /\ t[m].kind = rs[m].kind /\ t[m].sid = rs[m].sid /\ t[m].amount = rs[m].amount
          /\ \E k \in Metadata(rs) : rs[k].sid = rs[m].sid /\ t[m].cur = rs[k].cur

LEMMA CurrencyTaken ==
    ASSUME NEW f \in Files, NEW rs, Complete(f, rs), PostOK(rs)
    PROVE  TakesCurrency(rs, WithCurrency(rs))
<1> DEFINE t == WithCurrency(rs)
           K(m) == CHOOSE k \in Metadata(rs) : rs[k].sid = rs[m].sid
<1>1. DOMAIN t = DOMAIN rs /\ \A m \in DOMAIN rs : t[m] = [rs[m] EXCEPT !.cur = rs[K(m)].cur]
  BY DEF WithCurrency
<1>2. ASSUME NEW m \in DOMAIN rs PROVE K(m) \in Metadata(rs) /\ rs[K(m)].sid = rs[m].sid
  <2>1. \E k \in Metadata(rs) : rs[k].sid = rs[m].sid
    BY Zenon DEF PostOK
  <2> QED BY <2>1
<1> HIDE DEF t, K
<1>3. ASSUME NEW m \in DOMAIN rs
      PROVE  /\ t[m].ord = rs[m].ord /\ t[m].lines = rs[m].lines /\ t[m].bytes = rs[m].bytes
             /\ t[m].kind = rs[m].kind /\ t[m].sid = rs[m].sid /\ t[m].amount = rs[m].amount
             /\ t[m].cur = rs[K(m)].cur
  <2>1. PICK i \in Body(f) : Filed(f, i, rs[m])
    BY RowIs
  <2>2. DOMAIN rs[m] = RowFields
    BY <2>1, Zenon DEF Filed
  <2>3. t[m] = [rs[m] EXCEPT !.cur = rs[K(m)].cur]
    BY <1>1
  <2> QED BY ONLY <2>2, <2>3 DEF RowFields
<1>4. ASSUME NEW m \in DOMAIN rs
      PROVE  \E k \in Metadata(rs) : rs[k].sid = rs[m].sid /\ t[m].cur = rs[k].cur
  BY <1>2, <1>3
<1> QED BY <1>1, <1>3, <1>4, Zenon DEF TakesCurrency, t

LEMMA SettlementsKept ==
    ASSUME NEW f \in Files, ~IsPayments(f), NEW rs, Complete(f, rs), PostOK(rs),
           NEW t, TakesCurrency(rs, t)
    PROVE  SettlementsGuaranteed(t)
<1> DEFINE meta == {m \in DOMAIN t : t[m].kind = "settlement_metadata"}
<1>1. DOMAIN t = DOMAIN rs /\ meta = Metadata(rs)
  BY DEF TakesCurrency, Metadata
<1>2. ASSUME NEW m \in DOMAIN rs
      PROVE  /\ t[m].ord = m /\ rs[m].sid # ""
             /\ rs[m].kind = "settlement_metadata" => rs[m].cur # ""
  <2>1. PICK i \in Body(f) : /\ Ordinal(f, i) = m
                             /\ RecordOK(f, f.entries[i]) /\ Filed(f, i, rs[m])
    BY RowIs
  <2> DEFINE d == f.entries[i].data
  <2>2. SettlementOK(d) /\ RowOf(f, f.entries[i]) = SettlementRow(d)
    BY <2>1 DEF RecordOK, RowOf
  <2>3. /\ rs[m].ord = m /\ rs[m].sid = SettlementRow(d).sid /\ rs[m].cur = SettlementRow(d).cur
        /\ rs[m].kind = SettlementRow(d).kind
    BY <2>1, <2>2, Zenon DEF Filed
  <2>4. /\ SettlementRow(d).sid = d.sid /\ SettlementRow(d).cur = d.cur
        /\ SettlementRow(d).kind = "settlement_metadata" => IsMetadata(d)
    BY DEF SettlementRow
  <2>5. d.sid # "" /\ (IsMetadata(d) => d.cur # "")
    BY <2>2 DEF SettlementOK
  <2>6. t[m].ord = rs[m].ord
    BY DEF TakesCurrency
  <2> QED BY <2>3, <2>4, <2>5, <2>6, Zenon
<1> HIDE DEF meta
<1>3. ASSUME NEW i \in meta, NEW j \in meta, t[i].sid = t[j].sid PROVE i = j
  <2>1. i \in Metadata(rs) /\ j \in Metadata(rs) /\ i \in DOMAIN rs /\ j \in DOMAIN rs
    BY <1>1 DEF Metadata
  <2>2. rs[i].sid = rs[j].sid
    BY <1>3, <2>1 DEF TakesCurrency
  <2> QED BY <2>1, <2>2, Zenon DEF PostOK
<1>4. ASSUME NEW i \in DOMAIN t
      PROVE  /\ \E j \in meta : t[i].sid = t[j].sid /\ t[i].cur = t[j].cur
             /\ t[i].sid # "" /\ t[i].cur # ""
  <2>0. i \in DOMAIN rs
    BY <1>1
  <2>1. PICK j \in Metadata(rs) : rs[j].sid = rs[i].sid /\ t[i].cur = rs[j].cur
    BY <2>0, Zenon DEF TakesCurrency
  <2>2. j \in DOMAIN rs /\ rs[j].kind = "settlement_metadata"
    BY DEF Metadata
  <2>3. PICK k \in Metadata(rs) : rs[k].sid = rs[j].sid /\ t[j].cur = rs[k].cur
    BY <2>2, Zenon DEF TakesCurrency
  <2>4. k = j
    BY <2>1, <2>3, Zenon DEF PostOK
  <2>5. t[i].sid = rs[i].sid /\ t[j].sid = rs[j].sid
    BY <2>0, <2>2, Zenon DEF TakesCurrency
  <2>6. t[i].sid = t[j].sid /\ t[i].cur = t[j].cur
    BY <2>1, <2>3, <2>4, <2>5, Zenon
  <2>7. rs[j].cur # "" /\ rs[i].sid # ""
    BY <1>2, <2>0, <2>2
  <2>8. j \in meta
    BY <1>1, <2>1, Zenon
  <2> QED BY <2>1, <2>5, <2>6, <2>7, <2>8, Zenon
<1>5. Numbering(t)
  BY <1>1, <1>2, Zenon DEF Numbering
<1> QED BY <1>3, <1>4, <1>5, Zenon DEF SettlementsGuaranteed, meta

\* Rows that agree with the complete ones in their source and amount are those of the file.
LEMMA RowsKept ==
    ASSUME NEW f \in Files, NEW rs, Complete(f, rs), NEW t, DOMAIN t = DOMAIN rs,
           \A m \in DOMAIN rs : t[m].sid = rs[m].sid /\ t[m].amount = rs[m].amount
    PROVE  /\ Len(t) = Cardinality(Body(f))
           /\ \A i \in Body(f) :
                 LET d == f.entries[i].data
                     row == t[Ordinal(f, i)]
                 IN  /\ Ordinal(f, i) \in DOMAIN t
                     /\ row.sid = d.sid
                     /\ row.amount = IF IsPayments(f) THEN d.total
                                     ELSE IF IsMetadata(d) THEN d.header ELSE d.amount
<1>1. Len(t) = Cardinality(Body(f))
  <2>1. Cardinality(Body(f)) \in Nat /\ DOMAIN t = 1..Cardinality(Body(f))
    BY Zenon DEF Complete
  <2> QED BY ONLY <2>1, FcnLength
<1>2. ASSUME NEW i \in Body(f)
      PROVE  LET d == f.entries[i].data
                 row == t[Ordinal(f, i)]
             IN  /\ Ordinal(f, i) \in DOMAIN t
                 /\ row.sid = d.sid
                 /\ row.amount = IF IsPayments(f) THEN d.total
                                 ELSE IF IsMetadata(d) THEN d.header ELSE d.amount
  <2> DEFINE d == f.entries[i].data
             r == RowOf(f, f.entries[i])
             old == rs[Ordinal(f, i)]
             row == t[Ordinal(f, i)]
  <2>1. Ordinal(f, i) \in DOMAIN rs /\ Filed(f, i, old)
    BY Zenon DEF Complete
  <2>2. row.sid = old.sid /\ row.amount = old.amount
    BY <2>1
  <2>3. old.sid = r.sid /\ old.amount = r.amount
    BY <2>1, Zenon DEF Filed
  <2>4. r.sid = d.sid /\ r.amount = IF IsPayments(f) THEN d.total
                                    ELSE IF IsMetadata(d) THEN d.header ELSE d.amount
    BY DEF RowOf, PaymentRow, SettlementRow
  <2> HIDE DEF d, r, old, row
  <2>5. row.sid = d.sid /\ row.amount = IF IsPayments(f) THEN d.total
                                        ELSE IF IsMetadata(d) THEN d.header ELSE d.amount
    BY <2>2, <2>3, <2>4, Zenon
  <2>6. Ordinal(f, i) \in DOMAIN t
    BY <2>1
  <2> QED BY <2>5, <2>6, Zenon DEF d, row
<1> QED BY <1>1, <1>2

LEMMA PostStep == ASSUME Inv, PostPass PROVE Inv'
<1>1. /\ pc = "post" /\ atPath' = atPath /\ fd' = fd /\ hashed' = hashed /\ at' = at
  BY DEF PostPass, environment, cursor
<1>2. CursorInv /\ HeaderInv /\ RowsInv /\ SpansTile /\ fd \in Files /\ hashed = fd
  BY DEF Inv, CursorInv
<1>3. Complete(fd, rows)
  BY <1>1, <1>2, AllRead
<1>4. Accepted(fd) <=> IsPayments(fd) \/ PostOK(rows)
  BY <1>1, <1>2, AcceptedIs
<1>5. ASSUME pc' \in {"ok", "failed"} PROVE CursorInv' /\ HeaderInv' /\ RowsInv'
  BY <1>1, <1>2, <1>5 DEF CursorInv, HeaderInv, RowsInv
<1>6. CASE ~(IsPayments(fd) \/ PostOK(rows))
  <2>1. pc' = "failed" /\ rows' = rows
    BY <1>6 DEF PostPass, Fail
  <2>2. SpansTile'
    BY <1>1, <1>2, <2>1 DEF SpansTile
  <2>3. OutcomeInv'
    BY <1>1, <1>4, <1>6, <2>1 DEF OutcomeInv
  <2> QED BY <1>5, <2>1, <2>2, <2>3 DEF Inv
<1>7. CASE IsPayments(fd)
  <2>1. pc' = "ok" /\ rows' = rows
    BY <1>7 DEF PostPass
  <2>2. SpansTile'
    BY <1>1, <1>2, <2>1 DEF SpansTile
  <2>3. RowsOfHashedFile'
    BY <1>1, <1>2, <1>3, <2>1, RowsKept DEF RowsOfHashedFile
  <2>4. ContractHolds'
    BY <1>1, <1>2, <1>3, <1>7, <2>1, PaymentsKept DEF ContractHolds
  <2>5. KeyDatesFollowTime'
    BY <1>1, <1>2, <1>3, <1>7, <2>1, DatesKept DEF KeyDatesFollowTime
  <2>6. OutcomeInv'
    BY <1>1, <1>4, <1>7, <2>1, <2>3, <2>4, <2>5 DEF OutcomeInv
  <2> QED BY <1>5, <2>1, <2>2, <2>6 DEF Inv
<1>8. CASE ~IsPayments(fd) /\ PostOK(rows)
  <2>1. pc' = "ok" /\ rows' = WithCurrency(rows)
    BY <1>8 DEF PostPass
  <2>2. TakesCurrency(rows, rows')
    BY <1>2, <1>3, <1>8, <2>1, CurrencyTaken, Zenon
  <2>3. /\ DOMAIN rows' = DOMAIN rows
        /\ \A m \in DOMAIN rows : /\ rows'[m].lines = rows[m].lines /\ rows'[m].bytes = rows[m].bytes
                                  /\ rows'[m].sid = rows[m].sid /\ rows'[m].amount = rows[m].amount
    BY <2>2, Zenon DEF TakesCurrency
  <2>4. SpansTile'
    <3>1. DOMAIN rows = 1..Cardinality(Body(fd)) /\ Cardinality(Body(fd)) \in Nat
      BY <1>3, Zenon DEF Complete
    <3>2. \A m \in DOMAIN rows : m # 1 => m - 1 \in DOMAIN rows
      BY ONLY <3>1
    <3>3. \A m \in DOMAIN rows : m > 1 => m # 1
      BY ONLY <3>1
    <3>4. ASSUME NEW m \in DOMAIN rows
          PROVE  /\ rows'[m].bytes[1] = IF m = 1 THEN Mark(fd) + BytesTo(fd, HeaderAt(fd))
                                        ELSE rows'[m - 1].bytes[2]
                 /\ rows'[m].lines[1] <= rows'[m].lines[2]
                 /\ m > 1 => rows'[m - 1].lines[2] < rows'[m].lines[1]
      <4>1. /\ rows[m].bytes[1] = IF m = 1 THEN Mark(fd) + BytesTo(fd, HeaderAt(fd))
                                  ELSE rows[m - 1].bytes[2]
            /\ rows[m].lines[1] <= rows[m].lines[2]
            /\ m > 1 => rows[m - 1].lines[2] < rows[m].lines[1]
        BY <1>2, Zenon DEF SpansTile
      <4>2. rows'[m].lines = rows[m].lines /\ rows'[m].bytes = rows[m].bytes
        BY <2>3
      <4>3. CASE m = 1
        BY <3>3, <4>1, <4>2, <4>3, Zenon
      <4>4. CASE m # 1
        <5>1. rows'[m - 1].lines = rows[m - 1].lines /\ rows'[m - 1].bytes = rows[m - 1].bytes
          BY <2>3, <3>2, <4>4, Zenon
        <5> QED BY <4>1, <4>2, <4>4, <5>1, Zenon
      <4> QED BY <4>3, <4>4
    <3>5. ASSUME NEW i \in Body(fd), Ordinal(fd, i) \in DOMAIN rows
          PROVE  /\ rows'[Ordinal(fd, i)].bytes[2] = Mark(fd) + BytesTo(fd, i)
                 /\ rows'[Ordinal(fd, i)].lines[2] = LinesTo(fd, i)
      BY <1>2, <2>3, <3>5, Zenon DEF SpansTile
    <3> QED BY <1>1, <2>3, <3>4, <3>5, Zenon DEF SpansTile
  <2>5. RowsOfHashedFile'
    BY <1>1, <1>2, <1>3, <2>1, <2>3, RowsKept DEF RowsOfHashedFile
  <2>6. ContractHolds'
    BY <1>1, <1>2, <1>3, <1>8, <2>1, <2>2, SettlementsKept DEF ContractHolds
  <2>7. KeyDatesFollowTime'
    BY <1>1, <1>2, <1>8, <2>1 DEF KeyDatesFollowTime
  <2>8. OutcomeInv'
    BY <1>1, <1>4, <1>8, <2>1, <2>5, <2>6, <2>7 DEF OutcomeInv
  <2> QED BY <1>5, <2>1, <2>4, <2>8 DEF Inv
<1> QED BY <1>6, <1>7, <1>8

LEMMA Invariance == Spec => []Inv
<1>1. Init => Inv
  BY InitInv
<1>2. ASSUME Inv, [Next]_vars PROVE Inv'
  <2>1. ASSUME UNCHANGED <<fd, hashed, pc, at, line, offset, tried, rows>>, atPath' \in Files
        PROVE  Inv'
    BY <1>2, <2>1 DEF Inv, CursorInv, HeaderInv, RowsInv, SpansTile, OutcomeInv, RowsOfHashedFile,
                      ContractHolds, KeyDatesFollowTime
  <2>2. atPath \in Files
    BY <1>2 DEF Inv, CursorInv
  <2>3. CASE Open
    BY <1>2, <2>3, OpenStep
  <2>4. CASE Clean
    BY <1>2, <2>4, CleanStep
  <2>5. CASE HeaderCandidate
    BY <1>2, <2>5, HeaderStep
  <2>6. CASE ReadRecord
    BY <1>2, <2>6, RecordStep
  <2>7. CASE PostPass
    BY <1>2, <2>7, PostStep
  <2>8. CASE Replace
    <3>1. atPath' \in Files
      BY <2>8, FilesAssumption DEF Replace
    <3> QED BY <2>1, <2>8, <3>1 DEF Replace, cursor
  <2>9. CASE Over \/ UNCHANGED vars
    BY <2>1, <2>2, <2>9 DEF Over, vars
  <2> QED BY <1>2, <2>3, <2>4, <2>5, <2>6, <2>7, <2>8, <2>9 DEF Next
<1> QED BY <1>1, <1>2, PTL DEF Spec

-----------------------------------------------------------------------------
\* Being accepted is being documented, but for the two deviations.
LEMMA DeviationsAre ==
    ASSUME NEW f \in Files
    PROVE  Accepted(f) <=> (Documented(f) /\ ~RefusedAtLimit(f)) \/ AcceptedForeign(f)
<1> DEFINE n == Cardinality(Body(f))
<1>1. n \in Nat /\ MaxRows \in Nat
  <2>1. Ordinal(f, End(f)) \in Nat
    BY OrdinalIs, FileIs, HeaderIs, BodyNumbered
  <2> QED BY <2>1, BodyNumbered, LimitAssumption
<1> HIDE DEF n
<1>2. n < MaxRows <=> n <= MaxRows /\ n # MaxRows
  BY <1>1
<1>3. Accepted(f) <=> WellFormed(f) /\ n < MaxRows
  BY <1>2, Zenon DEF Accepted, WellFormed, n
<1>4. /\ Documented(f) <=> WellFormed(f) /\ ~Foreign(f)
      /\ RefusedAtLimit(f) <=> Documented(f) /\ n = MaxRows
      /\ AcceptedForeign(f) <=> WellFormed(f) /\ Foreign(f) /\ n < MaxRows
  BY Zenon DEF Documented, RefusedAtLimit, AcceptedForeign, n
<1>5. WellFormed(f) => n <= MaxRows
  BY Zenon DEF WellFormed, n
<1> QED BY ONLY <1>2, <1>3, <1>4, <1>5

\* ParsePayments and ParseSettlements accept exactly the files that the limits, the error
\* messages and README.md:103 describe, said without the order of the checks, except that
\* they refuse exactly maxInputRows records and accept any currency: whatever the limits,
\* the columns and the word size, no other check of the loops, of readHeader, of
\* validateRecord or of the second pass is missing, too strict or dependent on what happens
\* at the path.
THEOREM AcceptedExactlyHolds == Spec => []AcceptedExactly
<1>1. Inv => AcceptedExactly
  <2> SUFFICES ASSUME Inv PROVE AcceptedExactly
    OBVIOUS
  <2>1. fd \in Files
    BY DEF Inv, CursorInv
  <2>2. Accepted(fd) <=> (Documented(fd) /\ ~RefusedAtLimit(fd)) \/ AcceptedForeign(fd)
    BY <2>1, DeviationsAre
  <2>3. (pc = "failed" => ~Accepted(fd)) /\ (pc = "ok" => Accepted(fd))
    BY DEF Inv, OutcomeInv
  <2> QED BY ONLY <2>2, <2>3 DEF AcceptedExactly
<1> QED BY <1>1, Invariance, PTL

\* The rows that a parser returns are, one by one and in order, those of the file whose
\* SHA-256 open returned, however often the path is replaced while it reads.
THEOREM RowsOfHashedFileHolds == Spec => []RowsOfHashedFile
<1>1. Inv => RowsOfHashedFile
  <2> SUFFICES ASSUME Inv PROVE RowsOfHashedFile
    OBVIOUS
  <2>1. CASE pc = "ok"
    BY <2>1 DEF Inv, OutcomeInv
  <2>2. CASE pc # "ok"
    BY <2>2 DEF RowsOfHashedFile
  <2> QED BY <2>1, <2>2
<1> QED BY <1>1, Invariance, PTL

\* The line and byte spans that the loops record tile the file after its header: blank
\* lines, records over several lines and a byte order mark included.
THEOREM SpansTileHolds == Spec => []SpansTile
<1>1. Inv => SpansTile
  BY DEF Inv
<1> QED BY <1>1, Invariance, PTL

\* What the parsers return keeps the contract the reconciliation relies on: payments that
\* add up exactly, although the components were added in checked 64-bit steps, and
\* settlements with one metadata row each, whose currency all their rows take.
THEOREM ContractHoldsAlways == Spec => []ContractHolds
<1>1. Inv => ContractHolds
  <2> SUFFICES ASSUME Inv PROVE ContractHolds
    OBVIOUS
  <2>1. CASE pc = "ok"
    BY <2>1 DEF Inv, OutcomeInv
  <2>2. CASE pc # "ok"
    BY <2>2 DEF ContractHolds
  <2> QED BY <2>1, <2>2
<1> QED BY <1>1, Invariance, PTL

\* The key date of a released payment follows the instant of its release and not the
\* zone its text is written in.
THEOREM KeyDatesFollowTimeHolds == Spec => []KeyDatesFollowTime
<1>1. Inv => KeyDatesFollowTime
  <2> SUFFICES ASSUME Inv PROVE KeyDatesFollowTime
    OBVIOUS
  <2>1. CASE pc = "ok"
    BY <2>1 DEF Inv, OutcomeInv
  <2>2. CASE pc # "ok"
    BY <2>2 DEF KeyDatesFollowTime
  <2> QED BY <2>1, <2>2
<1> QED BY <1>1, Invariance, PTL
=============================================================================
