---------------------------- MODULE DataInduction ----------------------------
(***************************************************************************)
(* Induction over the data of the models: naturals, finite sets, recursive *)
(* functions and sums.  The schemes quantify over sets and functions, not  *)
(* over operators, so that they can be cited wherever they are needed.     *)
(***************************************************************************)
EXTENDS Integers, FiniteSets, SequencesExt, FiniteSetTheorems, SequenceTheorems,
        WellFoundedInduction, TLAPS

-----------------------------------------------------------------------------
\* Naturals.

LEMMA Least ==
    ASSUME NEW T, T \subseteq Nat, T # {}
    PROVE  \E n \in T : \A m \in T : n <= m
<1> DEFINE R == {ss \in Nat \X Nat : ss[1] < ss[2]}
<1>1. IsWellFoundedOn(R, Nat)
  BY NatLessThanWellFounded DEF OpToRel
<1>2. PICK n \in T : \A m \in T : <<m, n>> \notin R
  <2> HIDE DEF R
  <2> QED BY <1>1, WFMin
<1>3. \A m \in T : n <= m
  <2> SUFFICES ASSUME NEW m \in T PROVE ~(m < n)
    OBVIOUS
  <2>1. <<m, n>> \notin R
    BY <1>2
  <2> QED BY <2>1
<1> QED BY <1>3

\* A set that has 0 and with every number its successor has all numbers.
LEMMA NatInd ==
    ASSUME NEW S, 0 \in S, \A n \in Nat : n \in S => n + 1 \in S
    PROVE  \A n \in Nat : n \in S
<1> SUFFICES ASSUME NEW n \in Nat, n \notin S PROVE FALSE
  OBVIOUS
<1> DEFINE T == {m \in Nat : m \notin S}
<1>1. PICK k \in T : \A m \in T : k <= m
  <2>1. T \subseteq Nat /\ T # {}
    OBVIOUS
  <2> HIDE DEF T
  <2> QED BY <2>1, Least
<1>2. k # 0 /\ k - 1 \in Nat /\ k - 1 \notin T
  BY <1>1
<1>3. k - 1 \in S
  BY <1>2
<1>4. (k - 1) + 1 \in S
  BY <1>2, <1>3
<1> QED BY <1>4, <1>1

\* The same up to a bound.
LEMMA UpTo ==
    ASSUME NEW n \in Nat, NEW S, 0 \in S, \A k \in 0..(n - 1) : k \in S => k + 1 \in S
    PROVE  \A k \in 0..n : k \in S
<1> DEFINE T == {k \in Nat : k <= n => k \in S}
<1>1. 0 \in T
  OBVIOUS
<1>2. \A k \in Nat : k \in T => k + 1 \in T
  OBVIOUS
<1>3. \A k \in Nat : k \in T
  <2> HIDE DEF T
  <2> QED BY <1>1, <1>2, NatInd
<1> QED BY <1>3

-----------------------------------------------------------------------------
\* Recursive functions on 0..n: a step function has exactly one history.

History(h, V, b, g, n) ==
    /\ h \in [0..n -> V]
    /\ h[0] = b
    /\ \A k \in 1..n : h[k] = g[k][h[k - 1]]

LEMMA HistoryExists ==
    ASSUME NEW V, NEW b, b \in V, NEW n \in Nat, NEW g, g \in [1..n -> [V -> V]]
    PROVE  \E h : History(h, V, b, g, n)
<1> DEFINE S == {k \in Nat : k <= n =>
                    \E h \in [0..k -> V] : h[0] = b /\ \A i \in 1..k : h[i] = g[i][h[i - 1]]}
<1>1. 0 \in S
  <2> DEFINE h0 == [i \in 0..0 |-> b]
  <2>1. h0 \in [0..0 -> V] /\ h0[0] = b /\ \A i \in 1..0 : h0[i] = g[i][h0[i - 1]]
    OBVIOUS
  <2> QED BY <2>1
<1>2. \A k \in Nat : k \in S => k + 1 \in S
  <2> SUFFICES ASSUME NEW k \in Nat, k \in S, k + 1 <= n
               PROVE  \E h \in [0..(k + 1) -> V] :
                         h[0] = b /\ \A i \in 1..(k + 1) : h[i] = g[i][h[i - 1]]
    OBVIOUS
  <2>1. PICK h \in [0..k -> V] : h[0] = b /\ \A i \in 1..k : h[i] = g[i][h[i - 1]]
    OBVIOUS
  <2> DEFINE e == [i \in 0..(k + 1) |-> IF i = k + 1 THEN g[k + 1][h[k]] ELSE h[i]]
  <2>2. e \in [0..(k + 1) -> V]
    <3>1. k + 1 \in 1..n /\ k \in 0..k /\ h[k] \in V
      OBVIOUS
    <3>2. g[k + 1][h[k]] \in V
      BY <3>1
    <3>3. \A i \in 0..(k + 1) : i # k + 1 => i \in 0..k
      OBVIOUS
    <3> QED BY <3>2, <3>3
  <2>3. e[0] = b
    BY <2>1
  <2>4. \A i \in 1..(k + 1) : e[i] = g[i][e[i - 1]]
    <3> SUFFICES ASSUME NEW i \in 1..(k + 1) PROVE e[i] = g[i][e[i - 1]]
      OBVIOUS
    <3>1. e[i - 1] = h[i - 1]
      OBVIOUS
    <3> QED BY <2>1, <3>1
  <2> HIDE DEF e
  <2> QED BY <2>2, <2>3, <2>4
<1>3. \A k \in Nat : k \in S
  <2> HIDE DEF S
  <2> QED BY <1>1, <1>2, NatInd
<1>4. n \in S
  BY <1>3
<1> QED BY <1>4 DEF History

\* Two histories of one step function are the same.
LEMMA HistoryUnique ==
    ASSUME NEW n \in Nat, NEW h, NEW e, NEW g, h[0] = e[0],
           \A k \in 1..n : h[k] = g[k][h[k - 1]],
           \A k \in 1..n : e[k] = g[k][e[k - 1]]
    PROVE  \A k \in 0..n : h[k] = e[k]
<1> DEFINE S == {k \in Nat : k <= n => h[k] = e[k]}
<1>1. 0 \in S
  OBVIOUS
<1>2. \A k \in Nat : k \in S => k + 1 \in S
  <2> SUFFICES ASSUME NEW k \in Nat, k \in S, k + 1 <= n PROVE h[k + 1] = e[k + 1]
    OBVIOUS
  <2>1. k + 1 \in 1..n /\ (k + 1) - 1 = k
    OBVIOUS
  <2> QED BY <2>1
<1>3. \A k \in Nat : k \in S
  <2> HIDE DEF S
  <2> QED BY <1>1, <1>2, NatInd
<1> QED BY <1>3

\* A running total: t[k] is the base and the first k of the weights.
Running(t, b, w, n) ==
    /\ t \in [0..n -> Int]
    /\ t[0] = b
    /\ \A k \in 1..n : t[k] = t[k - 1] + w[k]

LEMMA RunningExists ==
    ASSUME NEW n \in Nat, NEW b \in Int, NEW w, \A k \in 1..n : w[k] \in Int
    PROVE  \E t : Running(t, b, w, n)
<1> DEFINE V == Int
           g == [k \in 1..n |-> [v \in V |-> v + w[k]]]
<1>1. b \in V /\ g \in [1..n -> [V -> V]]
  OBVIOUS
<1>a. PICK h : History(h, V, b, g, n)
  <2> HIDE DEF g, V
  <2> QED BY ONLY <1>1, n \in Nat, HistoryExists
<1>2. h \in [0..n -> V] /\ h[0] = b /\ \A k \in 1..n : h[k] = g[k][h[k - 1]]
  <2> HIDE DEF g, V
  <2> QED BY <1>a DEF History
<1>3. \A k \in 1..n : h[k] = h[k - 1] + w[k]
  <2> SUFFICES ASSUME NEW k \in 1..n PROVE h[k] = h[k - 1] + w[k]
    OBVIOUS
  <2>1. h[k - 1] \in Int
    BY <1>2
  <2>2. g[k][h[k - 1]] = h[k - 1] + w[k]
    BY <2>1
  <2>3. h[k] = g[k][h[k - 1]]
    BY <1>2
  <2> HIDE DEF g
  <2> QED BY <2>2, <2>3
<1> QED BY <1>2, <1>3 DEF Running

-----------------------------------------------------------------------------
\* Finite sets.

LEMMA FiniteInd ==
    ASSUME NEW S, IsFiniteSet(S), NEW F, {} \in F,
           \A A \in SUBSET S : \A x \in S \ A : A \in F => A \cup {x} \in F
    PROVE  \A A \in SUBSET S : A \in F
<1> DEFINE T == {n \in Nat : \A A \in SUBSET S : Cardinality(A) = n => A \in F}
<1>0. \A A \in SUBSET S : IsFiniteSet(A) /\ Cardinality(A) \in Nat
  BY FS_Subset, FS_CardinalityType
<1>1. 0 \in T
  BY <1>0, FS_EmptySet
<1>2. \A n \in Nat : n \in T => n + 1 \in T
  <2> SUFFICES ASSUME NEW n \in Nat, n \in T, NEW A \in SUBSET S, Cardinality(A) = n + 1
               PROVE  A \in F
    OBVIOUS
  <2>a. IsFiniteSet(A) /\ Cardinality(A) # 0
    BY <1>0
  <2>1. A # {}
    BY ONLY <2>a, FS_EmptySet
  <2>2. PICK x \in A : TRUE
    BY <2>1
  <2>b. Cardinality(A \ {x}) = Cardinality(A) - 1
    BY ONLY <2>a, <2>2, FS_RemoveElement
  <2>3. Cardinality(A \ {x}) = n
    BY <2>b
  <2>4. A \ {x} \in F
    BY <2>3
  <2>5. (A \ {x}) \cup {x} = A
    BY <2>2
  <2> QED BY <2>4, <2>5
<1>3. \A n \in Nat : n \in T
  <2> HIDE DEF T
  <2> QED BY <1>1, <1>2, NatInd
<1> QED BY <1>0, <1>3

-----------------------------------------------------------------------------
\* Sums over finite sets.  Functions!SumFunctionOnSet takes the elements in some
\* order; what follows shows that the order does not matter.

Chosen(s) == CHOOSE x \in s : TRUE

IsSum(it, S, f) ==
    /\ it \in [SUBSET S -> Int]
    /\ it[{}] = 0
    /\ \A s \in SUBSET S : s # {} => it[s] = f[Chosen(s)] + it[s \ {Chosen(s)}]

LEMMA ChosenIn == ASSUME NEW s, s # {} PROVE Chosen(s) \in s
BY DEF Chosen

LEMMA SumExists ==
    ASSUME NEW S, IsFiniteSet(S), NEW f, \A x \in S : f[x] \in Int
    PROVE  \E it : IsSum(it, S, f)
<1> DEFINE n == Cardinality(S)
           V == [SUBSET S -> Int]
           b == [s \in SUBSET S |-> 0]
           Grow(v) == [s \in SUBSET S |->
                          IF s = {} THEN 0 ELSE f[Chosen(s)] + v[s \ {Chosen(s)}]]
           g == [k \in 1..n |-> [v \in V |-> Grow(v)]]
<1>1. n \in Nat
  BY FS_CardinalityType
<1>2. b \in V
  OBVIOUS
<1>3. \A v \in V : Grow(v) \in V
  <2> SUFFICES ASSUME NEW v \in V, NEW s \in SUBSET S, s # {}
               PROVE  f[Chosen(s)] + v[s \ {Chosen(s)}] \in Int
    OBVIOUS
  <2> QED BY ChosenIn
<1>4. g \in [1..n -> [V -> V]]
  BY <1>3
<1>a. PICK h : History(h, V, b, g, n)
  <2> HIDE DEF n, V, b, g
  <2> QED BY ONLY <1>1, <1>2, <1>4, HistoryExists
<1>5. h \in [0..n -> V] /\ h[0] = b /\ \A k \in 1..n : h[k] = g[k][h[k - 1]]
  <2> HIDE DEF n, V, b, g
  <2> QED BY <1>a DEF History
<1> DEFINE it == [s \in SUBSET S |-> h[Cardinality(s)][s]]
<1>6. \A s \in SUBSET S : IsFiniteSet(s) /\ Cardinality(s) \in 0..n
  BY FS_Subset, FS_CardinalityType
<1>7. it \in [SUBSET S -> Int]
  BY <1>5, <1>6
<1>8. it[{}] = 0
  BY <1>5, FS_EmptySet
<1>9. ASSUME NEW s \in SUBSET S, s # {}
      PROVE  it[s] = f[Chosen(s)] + it[s \ {Chosen(s)}]
  <2> DEFINE t == s \ {Chosen(s)}
             k == Cardinality(s)
  <2>1. Chosen(s) \in s /\ t \in SUBSET S
    BY <1>9, ChosenIn
  <2>2. k \in 1..n /\ Cardinality(t) = k - 1
    BY <1>6, <1>9, <2>1, FS_RemoveElement, FS_EmptySet
  <2>3. h[k] = Grow(h[k - 1])
    <3>1. h[k - 1] \in V /\ h[k] = g[k][h[k - 1]]
      <4> HIDE DEF V, g, k, n
      <4>1. k - 1 \in 0..n
        BY <1>1, <2>2
      <4> QED BY <1>5, <2>2, <4>1
    <3> QED BY <2>2, <3>1
  <2>4. h[k][s] = f[Chosen(s)] + h[k - 1][t]
    BY <2>3, <1>9
  <2> HIDE DEF k
  <2> QED BY <2>1, <2>2, <2>4 DEF k
<1> HIDE DEF it
<1> QED BY <1>7, <1>8, <1>9 DEF IsSum

LEMMA SumAgrees ==
    ASSUME NEW S, IsFiniteSet(S), NEW T \in SUBSET S, NEW f, NEW e, \A x \in T : f[x] = e[x],
           NEW it, IsSum(it, S, f), NEW jt, IsSum(jt, T, e)
    PROVE  \A s \in SUBSET T : it[s] = jt[s]
<1> DEFINE N == {k \in Nat : \A s \in SUBSET T : Cardinality(s) = k => it[s] = jt[s]}
<1>0. \A s \in SUBSET T : IsFiniteSet(s) /\ Cardinality(s) \in Nat
  BY FS_Subset, FS_CardinalityType
<1>1. 0 \in N
  BY <1>0, FS_EmptySet DEF IsSum
<1>2. \A k \in Nat : k \in N => k + 1 \in N
  <2> SUFFICES ASSUME NEW k \in Nat, k \in N, NEW s \in SUBSET T, Cardinality(s) = k + 1
               PROVE  it[s] = jt[s]
    OBVIOUS
  <2> DEFINE c == Chosen(s)
  <2>1. IsFiniteSet(s) /\ Cardinality(s) # 0
    BY <1>0
  <2>2. s # {}
    BY ONLY <2>1, FS_EmptySet
  <2>3. c \in s
    BY <2>2, ChosenIn
  <2>4. Cardinality(s \ {c}) = Cardinality(s) - 1
    BY ONLY <2>1, <2>3, FS_RemoveElement
  <2>5. it[s \ {c}] = jt[s \ {c}]
    BY <2>4
  <2>6. it[s] = f[c] + it[s \ {c}] /\ jt[s] = e[c] + jt[s \ {c}]
    BY <2>2 DEF IsSum
  <2> QED BY <2>3, <2>5, <2>6
<1>3. \A k \in Nat : k \in N
  <2> HIDE DEF N
  <2> QED BY <1>1, <1>2, NatInd
<1> QED BY <1>0, <1>3

LEMMA SumAnyOrder ==
    ASSUME NEW S, IsFiniteSet(S), NEW f, \A x \in S : f[x] \in Int, NEW it, IsSum(it, S, f)
    PROVE  \A s \in SUBSET S : \A x \in s : it[s] = f[x] + it[s \ {x}]
<1> DEFINE InAnyOrder(s) == \A x \in s : it[s] = f[x] + it[s \ {x}]
           N == {k \in Nat : \A s \in SUBSET S : Cardinality(s) = k =>
                                InAnyOrder(s)}
<1>0. \A s \in SUBSET S : IsFiniteSet(s) /\ Cardinality(s) \in Nat
  BY FS_Subset, FS_CardinalityType
<1>1. 0 \in N
  BY <1>0, FS_EmptySet
<1>2. \A k \in Nat : k \in N => k + 1 \in N
  <2> SUFFICES ASSUME NEW k \in Nat, k \in N, NEW s \in SUBSET S, Cardinality(s) = k + 1
               PROVE  InAnyOrder(s)
    <3> HIDE DEF InAnyOrder
    <3> QED OBVIOUS
  <2> SUFFICES ASSUME NEW x \in s PROVE it[s] = f[x] + it[s \ {x}]
    OBVIOUS
  <2> DEFINE c == Chosen(s)
  <2>1. IsFiniteSet(s)
    BY <1>0
  <2>2. c \in s
    BY ChosenIn
  <2>3. it[s] = f[c] + it[s \ {c}]
    BY DEF IsSum
  <2>4. Cardinality(s \ {c}) = Cardinality(s) - 1 /\ Cardinality(s \ {x}) = Cardinality(s) - 1
    BY ONLY <2>1, <2>2, x \in s, FS_RemoveElement
  <2>5. CASE c # x
    <3>1. it[s \ {c}] = f[x] + it[(s \ {c}) \ {x}]
      <4>1. x \in s \ {c} /\ Cardinality(s \ {c}) = k
        BY <2>4, <2>5
      <4> QED BY <4>1
    <3>2. it[s \ {x}] = f[c] + it[(s \ {x}) \ {c}]
      <4>1. c \in s \ {x} /\ Cardinality(s \ {x}) = k
        BY <2>2, <2>4, <2>5
      <4> QED BY <4>1
    <3>3. (s \ {c}) \ {x} = (s \ {x}) \ {c}
      OBVIOUS
    <3>4. f[x] \in Int /\ f[c] \in Int /\ it[(s \ {x}) \ {c}] \in Int
      BY <2>2 DEF IsSum
    <3> DEFINE rest == it[(s \ {x}) \ {c}]
    <3>5. it[s \ {c}] = f[x] + rest /\ it[s \ {x}] = f[c] + rest
      BY <3>1, <3>2, <3>3
    <3>6. f[c] + (f[x] + rest) = f[x] + (f[c] + rest)
      BY <3>4
    <3> HIDE DEF rest, c
    <3> QED BY ONLY <2>3, <3>5, <3>6
  <2>6. CASE c = x
    <3>1. s \ {c} = s \ {x} /\ f[c] = f[x]
      BY <2>6
    <3> QED BY ONLY <2>3, <3>1
  <2> QED BY <2>5, <2>6
<1>3. \A k \in Nat : k \in N
  <2> HIDE DEF N
  <2> QED BY <1>1, <1>2, NatInd
<1> QED BY <1>0, <1>3

LEMMA SumIs ==
    ASSUME NEW S, IsFiniteSet(S), NEW f, \A x \in S : f[x] \in Int
    PROVE  \E it : IsSum(it, S, f) /\ SumFunctionOnSet(f, S) = it[S]
<1> DEFINE Body(it) == [s \in SUBSET S |->
                           IF s = {} THEN 0
                           ELSE f[CHOOSE x \in s : TRUE] + it[s \ {CHOOSE x \in s : TRUE}]]
           sum == CHOOSE it : it = Body(it)
<1>1. PICK it : IsSum(it, S, f)
  BY SumExists
<1>2. it = Body(it)
  BY <1>1 DEF IsSum, Chosen
<1>3. sum = Body(sum)
  BY <1>2
<1>4. IsSum(sum, S, f)
  <2> HIDE DEF sum
  <2> QED BY <1>3 DEF IsSum, Chosen
<1>5. SumFunctionOnSet(f, S) = sum[S]
  BY DEF SumFunctionOnSet, FoldFunctionOnSet, MapThenFoldSet
<1> QED BY <1>4, <1>5

\* The sum over no elements, and one element more or less.
LEMMA SumEmpty == \A f : SumFunctionOnSet(f, {}) = 0
<1> SUFFICES ASSUME NEW f PROVE SumFunctionOnSet(f, {}) = 0
  OBVIOUS
<1>1. PICK it : IsSum(it, {}, f) /\ SumFunctionOnSet(f, {}) = it[{}]
  BY SumIs, FS_EmptySet
<1> QED BY <1>1 DEF IsSum

LEMMA SumType ==
    ASSUME NEW S, IsFiniteSet(S), NEW f, \A x \in S : f[x] \in Int
    PROVE  SumFunctionOnSet(f, S) \in Int
<1>1. PICK it : IsSum(it, S, f) /\ SumFunctionOnSet(f, S) = it[S]
  BY SumIs
<1> QED BY <1>1 DEF IsSum

\* Only the values on the set matter.
LEMMA SumSame ==
    ASSUME NEW S, IsFiniteSet(S), NEW f, NEW e, \A x \in S : f[x] \in Int /\ f[x] = e[x]
    PROVE  SumFunctionOnSet(f, S) = SumFunctionOnSet(e, S)
<1>1. PICK it : IsSum(it, S, f) /\ SumFunctionOnSet(f, S) = it[S]
  BY SumIs
<1>2. PICK jt : IsSum(jt, S, e) /\ SumFunctionOnSet(e, S) = jt[S]
  BY SumIs
<1>3. it[S] = jt[S]
  BY <1>1, <1>2, SumAgrees
<1> QED BY <1>1, <1>2, <1>3

LEMMA SumRemove ==
    ASSUME NEW S, IsFiniteSet(S), NEW f, \A x \in S : f[x] \in Int, NEW x \in S
    PROVE  SumFunctionOnSet(f, S) = f[x] + SumFunctionOnSet(f, S \ {x})
<1> DEFINE T == S \ {x}
<1>1. PICK it : IsSum(it, S, f) /\ SumFunctionOnSet(f, S) = it[S]
  BY SumIs
<1>2. IsFiniteSet(T) /\ T \in SUBSET S
  BY FS_Subset
<1>3. PICK jt : IsSum(jt, T, f) /\ SumFunctionOnSet(f, T) = jt[T]
  BY <1>2, SumIs
<1>4. it[T] = jt[T]
  BY <1>1, <1>2, <1>3, SumAgrees
<1>5. it[S] = f[x] + it[T]
  BY <1>1, SumAnyOrder
<1> QED BY <1>1, <1>3, <1>4, <1>5

LEMMA SumAdd ==
    ASSUME NEW S, IsFiniteSet(S), NEW f, \A y \in S : f[y] \in Int, NEW x, x \notin S, f[x] \in Int
    PROVE  SumFunctionOnSet(f, S \cup {x}) = SumFunctionOnSet(f, S) + f[x]
<1> DEFINE T == S \cup {x}
<1>1. IsFiniteSet(T) /\ T \ {x} = S /\ \A y \in T : f[y] \in Int
  BY FS_AddElement
<1>2. SumFunctionOnSet(f, T) = f[x] + SumFunctionOnSet(f, T \ {x})
  <2> HIDE DEF T
  <2> QED BY <1>1, SumRemove DEF T
<1>3. SumFunctionOnSet(f, S) \in Int
  BY SumType
<1>4. SumFunctionOnSet(f, T \ {x}) = SumFunctionOnSet(f, S)
  BY <1>1, Zenon
<1> HIDE DEF T
<1>5. SumFunctionOnSet(f, T) = SumFunctionOnSet(f, S) + f[x]
  BY ONLY <1>2, <1>3, <1>4, f[x] \in Int
<1> QED BY <1>5 DEF T

\* Disjoint parts add up.
LEMMA SumUnion ==
    ASSUME NEW S, NEW T, IsFiniteSet(S), IsFiniteSet(T), S \cap T = {}, NEW f,
           \A x \in S \cup T : f[x] \in Int
    PROVE  SumFunctionOnSet(f, S \cup T) = SumFunctionOnSet(f, S) + SumFunctionOnSet(f, T)
<1> DEFINE Good == {A \in SUBSET T :
                      SumFunctionOnSet(f, S \cup A) = SumFunctionOnSet(f, S) + SumFunctionOnSet(f, A)}
<1>0. SumFunctionOnSet(f, S) \in Int
  BY SumType
<1>1. {} \in Good
  <2>1. S \cup {} = S
    OBVIOUS
  <2> QED BY <1>0, <2>1, SumEmpty
<1>2. \A A \in SUBSET T : \A x \in T \ A : A \in Good => A \cup {x} \in Good
  <2> SUFFICES ASSUME NEW A \in SUBSET T, NEW x \in T \ A, A \in Good
               PROVE  A \cup {x} \in Good
    OBVIOUS
  <2> DEFINE U == S \cup A
  <2>1. IsFiniteSet(A) /\ IsFiniteSet(U)
    BY FS_Subset, FS_Union
  <2>2. x \notin U /\ (\A y \in U : f[y] \in Int) /\ f[x] \in Int
    OBVIOUS
  <2>3. SumFunctionOnSet(f, U \cup {x}) = SumFunctionOnSet(f, U) + f[x]
    <3> HIDE DEF U
    <3> QED BY <2>1, <2>2, SumAdd
  <2>4. SumFunctionOnSet(f, A \cup {x}) = SumFunctionOnSet(f, A) + f[x]
    BY <2>1, SumAdd
  <2>5. SumFunctionOnSet(f, A) \in Int
    BY <2>1, SumType
  <2>6. S \cup (A \cup {x}) = U \cup {x}
    OBVIOUS
  <2>7. SumFunctionOnSet(f, U) = SumFunctionOnSet(f, S) + SumFunctionOnSet(f, A)
    OBVIOUS
  <2>9. SumFunctionOnSet(f, S \cup (A \cup {x})) = SumFunctionOnSet(f, U \cup {x})
    BY <2>6, Zenon
  <2>8. SumFunctionOnSet(f, S \cup (A \cup {x}))
           = SumFunctionOnSet(f, S) + SumFunctionOnSet(f, A \cup {x})
    <3> HIDE DEF U
    <3> QED BY ONLY <1>0, <2>2, <2>3, <2>4, <2>5, <2>9, <2>7
  <2> QED BY <2>8
<1>3. T \in Good
  <2> HIDE DEF Good
  <2>1. \A A \in SUBSET T : A \in Good
    BY <1>1, <1>2, FiniteInd
  <2> QED BY <2>1
<1> QED BY <1>3

LEMMA SumZero ==
    ASSUME NEW S, IsFiniteSet(S), NEW f, \A x \in S : f[x] = 0
    PROVE  SumFunctionOnSet(f, S) = 0
<1> DEFINE Good == {A \in SUBSET S : SumFunctionOnSet(f, A) = 0}
<1>1. {} \in Good
  BY SumEmpty
<1>2. ASSUME NEW A \in SUBSET S, NEW x \in S \ A, A \in Good PROVE A \cup {x} \in Good
  <2>1. IsFiniteSet(A) /\ x \notin A /\ f[x] = 0 /\ \A y \in A : f[y] \in Int
    BY FS_Subset
  <2>2. SumFunctionOnSet(f, A) = 0 /\ A \cup {x} \in SUBSET S
    BY <1>2
  <2>3. SumFunctionOnSet(f, A \cup {x}) = SumFunctionOnSet(f, A) + f[x]
    BY ONLY <2>1, SumAdd
  <2>4. SumFunctionOnSet(f, A \cup {x}) = 0
    BY ONLY <2>1, <2>2, <2>3
  <2> QED BY <2>2, <2>4
<1>3. S \in Good
  <2> HIDE DEF Good
  <2>1. \A A \in SUBSET S : A \in Good
    BY <1>1, <1>2, FiniteInd
  <2> QED BY <2>1
<1> QED BY <1>3

\* A sum over a part is a sum over the whole with zeros elsewhere.
LEMMA SumOnPart ==
    ASSUME NEW S, IsFiniteSet(S), NEW T \in SUBSET S, NEW f, NEW e,
           \A x \in T : f[x] \in Int /\ e[x] = f[x], \A x \in S \ T : e[x] = 0
    PROVE  SumFunctionOnSet(f, T) = SumFunctionOnSet(e, S)
<1> DEFINE R == S \ T
<1>1. /\ IsFiniteSet(T) /\ IsFiniteSet(R) /\ T \cap R = {} /\ T \cup R = S
      /\ \A x \in T \cup R : e[x] \in Int
  BY FS_Subset
<1>a. \A x \in R : e[x] = 0
  OBVIOUS
<1> HIDE DEF R
<1>2. SumFunctionOnSet(e, T \cup R) = SumFunctionOnSet(e, T) + SumFunctionOnSet(e, R)
  BY ONLY <1>1, SumUnion
<1>3. SumFunctionOnSet(e, R) = 0
  BY ONLY <1>1, <1>a, SumZero
<1>4. SumFunctionOnSet(f, T) = SumFunctionOnSet(e, T) /\ SumFunctionOnSet(e, T) \in Int
  <2>1. \A x \in T : f[x] \in Int /\ f[x] = e[x]
    OBVIOUS
  <2>2. SumFunctionOnSet(f, T) = SumFunctionOnSet(e, T)
    BY ONLY <1>1, <2>1, SumSame
  <2>3. SumFunctionOnSet(e, T) \in Int
    BY ONLY <1>1, SumType
  <2> QED BY <2>2, <2>3
<1>5. SumFunctionOnSet(e, S) = SumFunctionOnSet(e, T \cup R)
  BY <1>1, Zenon
<1> QED BY ONLY <1>2, <1>3, <1>4, <1>5

\* g numbers the elements of T by the elements of I.
Numbers(g, I, T) ==
    /\ IsFiniteSet(I)
    /\ \A i \in I : g[i] \in T
    /\ \A x \in T : \E i \in I : g[i] = x
    /\ \A i, j \in I : g[i] = g[j] => i = j

\* A sum over such a set is a sum over the numbers.
LEMMA SumOnto ==
    ASSUME NEW I, NEW T, NEW g, Numbers(g, I, T), NEW f, NEW e,
           \A i \in I : f[g[i]] \in Int /\ e[i] = f[g[i]]
    PROVE  SumFunctionOnSet(f, T) = SumFunctionOnSet(e, I) /\ IsFiniteSet(T)
<1> DEFINE Im(A) == {g[i] : i \in A}
           Good == {A \in SUBSET I : IsFiniteSet(Im(A)) /\ SumFunctionOnSet(f, Im(A)) = SumFunctionOnSet(e, A)}
<1>0. IsFiniteSet(I) /\ \A i, j \in I : g[i] = g[j] => i = j
  BY DEF Numbers
<1>1. {} \in Good
  <2>1. Im({}) = {}
    OBVIOUS
  <2>2. SumFunctionOnSet(f, Im({})) = SumFunctionOnSet(f, {}) /\ (IsFiniteSet(Im({})) <=> IsFiniteSet({}))
    <3> HIDE DEF Im
    <3> QED BY <2>1, Zenon
  <2>3. SumFunctionOnSet(f, Im({})) = SumFunctionOnSet(e, {}) /\ IsFiniteSet(Im({}))
    <3> HIDE DEF Im
    <3> QED BY ONLY <2>2, SumEmpty, FS_EmptySet
  <2> HIDE DEF Im
  <2> QED BY <2>3
<1>2. ASSUME NEW A \in SUBSET I, NEW x \in I \ A, A \in Good PROVE A \cup {x} \in Good
  <2> DEFINE B == A \cup {x}
  <2>1. IsFiniteSet(A) /\ x \notin A /\ \A y \in A : e[y] \in Int
    BY <1>0, FS_Subset
  <2>a. e[x] \in Int /\ f[g[x]] = e[x] /\ f[g[x]] \in Int
    OBVIOUS
  <2>2. Im(B) = Im(A) \cup {g[x]} /\ g[x] \notin Im(A) /\ \A y \in Im(A) : f[y] \in Int
    BY <1>0
  <2>3. IsFiniteSet(Im(A)) /\ SumFunctionOnSet(f, Im(A)) = SumFunctionOnSet(e, A)
    BY <1>2
  <2>4. B \in SUBSET I
    OBVIOUS
  <2> HIDE DEF Im
  <2>5. SumFunctionOnSet(f, Im(A) \cup {g[x]}) = SumFunctionOnSet(f, Im(A)) + f[g[x]]
    BY ONLY <2>a, <2>2, <2>3, SumAdd
  <2>6. SumFunctionOnSet(e, A \cup {x}) = SumFunctionOnSet(e, A) + e[x]
    BY ONLY <2>1, <2>a, SumAdd
  <2>7. SumFunctionOnSet(f, Im(B)) = SumFunctionOnSet(f, Im(A) \cup {g[x]})
    <3> HIDE DEF B
    <3> QED BY ONLY <2>2, Zenon
  <2>8. IsFiniteSet(Im(A) \cup {g[x]})
    BY ONLY <2>3, FS_AddElement
  <2>9. IsFiniteSet(Im(B))
    <3> HIDE DEF B
    <3> QED BY ONLY <2>2, <2>8, Zenon
  <2>10. SumFunctionOnSet(f, Im(B)) = SumFunctionOnSet(e, B)
    BY ONLY <2>a, <2>3, <2>5, <2>6, <2>7
  <2> HIDE DEF B
  <2>11. B \in Good
    BY <2>4, <2>9, <2>10
  <2> QED BY <2>11 DEF B
<1>3. I \in Good
  <2> HIDE DEF Good
  <2>1. \A A \in SUBSET I : A \in Good
    BY <1>0, <1>1, <1>2, FiniteInd
  <2> QED BY <2>1
<1>4. Im(I) = T
  BY DEF Numbers
<1>5. SumFunctionOnSet(f, Im(I)) = SumFunctionOnSet(e, I) /\ IsFiniteSet(Im(I))
  <2> HIDE DEF Im
  <2> QED BY <1>3
<1> HIDE DEF Im
<1> QED BY ONLY <1>4, <1>5, Zenon

\* A sum can be taken class by class.
Splits(I, h, J, f, part) ==
    /\ IsFiniteSet(I) /\ IsFiniteSet(J)
    /\ \A i \in I : h[i] \in J /\ f[i] \in Int
    /\ \A j \in J : part[j] = SumFunctionOnSet(f, {i \in I : h[i] = j})

LEMMA SumFibres ==
    ASSUME NEW I, NEW J, NEW h, NEW f, NEW part, Splits(I, h, J, f, part)
    PROVE  SumFunctionOnSet(part, J) = SumFunctionOnSet(f, I)
<1> USE DEF Splits
<1> DEFINE Over(A) == {i \in I : h[i] \in A}
           One(j) == {i \in I : h[i] = j}
           Good == {A \in SUBSET J : SumFunctionOnSet(part, A) = SumFunctionOnSet(f, Over(A))}
<1>0. \A A : IsFiniteSet(Over(A)) /\ \A j : IsFiniteSet(One(j))
  BY FS_Subset
<1>p. \A j \in J : part[j] = SumFunctionOnSet(f, One(j)) /\ part[j] \in Int
  <2> SUFFICES ASSUME NEW j \in J PROVE part[j] = SumFunctionOnSet(f, One(j)) /\ part[j] \in Int
    OBVIOUS
  <2>1. part[j] = SumFunctionOnSet(f, One(j))
    OBVIOUS
  <2>2. IsFiniteSet(One(j)) /\ \A i \in One(j) : f[i] \in Int
    BY <1>0
  <2> HIDE DEF One
  <2>3. SumFunctionOnSet(f, One(j)) \in Int
    BY ONLY <2>2, SumType
  <2> QED BY <2>1, <2>3
<1>1. {} \in Good
  <2>1. Over({}) = {}
    OBVIOUS
  <2> HIDE DEF Over
  <2>2. SumFunctionOnSet(f, Over({})) = SumFunctionOnSet(f, {})
    BY <2>1, Zenon
  <2> QED BY <2>2, SumEmpty
<1>2. ASSUME NEW A \in SUBSET J, NEW x \in J \ A, A \in Good PROVE A \cup {x} \in Good
  <2> DEFINE B == A \cup {x}
  <2>1. IsFiniteSet(A) /\ x \notin A /\ part[x] \in Int /\ \A y \in A : part[y] \in Int
    BY <1>p, FS_Subset
  <2>2. Over(B) = Over(A) \cup One(x) /\ Over(A) \cap One(x) = {} /\ B \in SUBSET J
    OBVIOUS
  <2>3. /\ IsFiniteSet(Over(A)) /\ IsFiniteSet(One(x))
        /\ \A i \in Over(A) \cup One(x) : f[i] \in Int
    BY <1>0
  <2>4. SumFunctionOnSet(part, A) = SumFunctionOnSet(f, Over(A))
    BY <1>2
  <2>5. part[x] = SumFunctionOnSet(f, One(x))
    BY <1>p
  <2> HIDE DEF Over, One
  <2>6. SumFunctionOnSet(part, A \cup {x}) = SumFunctionOnSet(part, A) + part[x]
    BY ONLY <2>1, SumAdd
  <2>7. SumFunctionOnSet(f, Over(A) \cup One(x)) = SumFunctionOnSet(f, Over(A)) + SumFunctionOnSet(f, One(x))
    BY ONLY <2>2, <2>3, SumUnion
  <2>8. SumFunctionOnSet(f, Over(B)) = SumFunctionOnSet(f, Over(A) \cup One(x))
    <3> HIDE DEF B
    <3> QED BY ONLY <2>2, Zenon
  <2>9. SumFunctionOnSet(part, B) = SumFunctionOnSet(f, Over(B))
    BY ONLY <2>4, <2>5, <2>6, <2>7, <2>8
  <2> HIDE DEF B
  <2>10. B \in Good
    BY <2>2, <2>9
  <2> QED BY <2>10 DEF B
<1>3. J \in Good
  <2> HIDE DEF Good
  <2>1. \A A \in SUBSET J : A \in Good
    BY <1>1, <1>2, FiniteInd
  <2> QED BY <2>1
<1>4. Over(J) = I
  OBVIOUS
<1>5. SumFunctionOnSet(part, J) = SumFunctionOnSet(f, Over(J))
  BY <1>3
<1> HIDE DEF Over
<1>6. SumFunctionOnSet(f, Over(J)) = SumFunctionOnSet(f, I)
  BY ONLY <1>4, Zenon
<1> QED BY <1>5, <1>6

\* A running total, one index further.
LEMMA SumNext ==
    ASSUME NEW n \in Nat, NEW f, \A k \in 1..(n + 1) : f[k] \in Int
    PROVE  /\ SumFunctionOnSet(f, 1..n) \in Int
           /\ SumFunctionOnSet(f, 1..(n + 1)) = SumFunctionOnSet(f, 1..n) + f[n + 1]
<1>1. 1..(n + 1) = (1..n) \cup {n + 1} /\ n + 1 \notin 1..n /\ IsFiniteSet(1..n)
  BY FS_Interval
<1>2. f[n + 1] \in Int /\ \A k \in 1..n : f[k] \in Int
  OBVIOUS
<1>3. SumFunctionOnSet(f, 1..(n + 1)) = SumFunctionOnSet(f, (1..n) \cup {n + 1})
  BY <1>1, Zenon
<1>4. SumFunctionOnSet(f, (1..n) \cup {n + 1}) = SumFunctionOnSet(f, 1..n) + f[n + 1]
  <2> DEFINE S == 1..n
             x == n + 1
  <2>1. IsFiniteSet(S) /\ x \notin S /\ f[x] \in Int /\ \A y \in S : f[y] \in Int
    BY <1>1, <1>2
  <2> HIDE DEF S, x
  <2>2. SumFunctionOnSet(f, S \cup {x}) = SumFunctionOnSet(f, S) + f[x]
    BY ONLY <2>1, SumAdd
  <2> QED BY <2>2 DEF S, x
<1>5. SumFunctionOnSet(f, 1..n) \in Int
  BY ONLY <1>1, <1>2, SumType
<1> QED BY <1>3, <1>4, <1>5

-----------------------------------------------------------------------------
\* FlattenSeq, when every part has at most one element: the result is the elements of
\* the nonempty parts, in order.  `from` says which part each of them comes from.

Places(seqs, k) == {i \in 1..k : seqs[i] # <<>>}

InOrder(from, out, seqs, k) ==
    /\ from \in [1..Len(out) -> Places(seqs, k)]
    /\ \A i \in Places(seqs, k) : \E j \in 1..Len(out) : from[j] = i
    /\ \A i, j \in 1..Len(out) : i < j => from[i] < from[j]
    /\ \A j \in 1..Len(out) : out[j] = seqs[from[j]][1]

LEMMA InOrderStep ==
    ASSUME NEW S, NEW k \in Nat, NEW seqs, seqs[k + 1] \in Seq(S), Len(seqs[k + 1]) <= 1,
           NEW out \in Seq(S), NEW from, InOrder(from, out, seqs, k)
    PROVE  \E e : InOrder(e, out \o seqs[k + 1], seqs, k + 1)
<1> DEFINE new == seqs[k + 1]
           n == Len(out)
<1>0. n \in Nat
  OBVIOUS
<1>1. CASE new = <<>>
  <2>1. Places(seqs, k + 1) = Places(seqs, k)
    BY <1>1 DEF Places
  <2>2. out \o new = out
    BY <1>1
  <2>3. InOrder(from, out \o new, seqs, k + 1)
    BY <2>1, <2>2 DEF InOrder
  <2> QED BY <2>3
<1>2. CASE new # <<>>
  <2> DEFINE e == [j \in 1..(n + 1) |-> IF j = n + 1 THEN k + 1 ELSE from[j]]
             all == out \o new
  <2>a. Len(new) = 1
    <3>1. new \in Seq(S) /\ Len(new) <= 1
      OBVIOUS
    <3> HIDE DEF new
    <3>2. Len(new) \in Nat /\ Len(new) # 0
      <4>1. Len(new) \in Nat
        BY ONLY <3>1
      <4>2. Len(new) = 0 => new = <<>>
        BY ONLY <3>1
      <4> QED BY ONLY <1>2, <4>1, <4>2
    <3>3. \A m \in Nat : m # 0 /\ m <= 1 => m = 1
      OBVIOUS
    <3> QED BY ONLY <3>1, <3>2, <3>3, Zenon
  <2>1. /\ Len(all) = n + 1
        /\ all[n + 1] = new[1]
        /\ \A j \in 1..n : all[j] = out[j]
    <3>1. /\ Len(all) = n + Len(new)
          /\ \A i \in 1..(n + Len(new)) : all[i] = IF i <= n THEN out[i] ELSE new[i - n]
      BY ConcatProperties
    <3> HIDE DEF all, new, n
    <3> QED BY ONLY <1>0, <2>a, <3>1
  <2>2. Places(seqs, k + 1) = Places(seqs, k) \cup {k + 1}
    BY <1>2 DEF Places
  <2>3. Places(seqs, k) \subseteq 1..k
    BY DEF Places
  <2>4. /\ from \in [1..n -> Places(seqs, k)]
        /\ \A i \in Places(seqs, k) : \E j \in 1..n : from[j] = i
        /\ \A i, j \in 1..n : i < j => from[i] < from[j]
        /\ \A j \in 1..n : out[j] = seqs[from[j]][1]
    BY DEF InOrder
  <2>5. e[n + 1] = k + 1 /\ \A j \in 1..n : e[j] = from[j]
    BY <1>0
  <2>6. e \in [1..(n + 1) -> Places(seqs, k + 1)]
    BY <1>0, <2>2, <2>4
  <2>7. \A i \in Places(seqs, k + 1) : \E j \in 1..(n + 1) : e[j] = i
    <3> HIDE DEF e
    <3> QED BY <1>0, <2>2, <2>4, <2>5
  <2>8. \A i, j \in 1..(n + 1) : i < j => e[i] < e[j]
    <3> HIDE DEF e
    <3> SUFFICES ASSUME NEW i \in 1..(n + 1), NEW j \in 1..(n + 1), i < j PROVE e[i] < e[j]
      OBVIOUS
    <3>1. i \in 1..n /\ e[i] = from[i] /\ from[i] \in 1..k
      BY <1>0, <2>3, <2>4, <2>5
    <3>2. CASE j = n + 1
      <4>1. e[j] = k + 1
        BY <3>2, <2>5
      <4> QED BY <3>1, <4>1
    <3>3. CASE j # n + 1
      <4>1. j \in 1..n
        BY <1>0, <3>3
      <4>2. e[j] = from[j] /\ from[i] < from[j]
        BY <2>4, <2>5, <3>1, <4>1
      <4> QED BY <3>1, <4>2
    <3> QED BY <3>2, <3>3
  <2>9. \A j \in 1..(n + 1) : all[j] = seqs[e[j]][1]
    <3> HIDE DEF e, all
    <3> QED BY <1>0, <2>1, <2>4, <2>5
  <2>10. InOrder(e, all, seqs, k + 1)
    <3> HIDE DEF e, all
    <3> QED BY <2>1, <2>6, <2>7, <2>8, <2>9 DEF InOrder
  <2> QED BY <2>10
<1> QED BY <1>1, <1>2

LEMMA FlattenInOrder ==
    ASSUME NEW S, NEW seqs \in Seq(Seq(S)), \A i \in 1..Len(seqs) : Len(seqs[i]) <= 1
    PROVE  /\ FlattenSeq(seqs) \in Seq(S)
           /\ \E from : InOrder(from, FlattenSeq(seqs), seqs, Len(seqs))
<1> DEFINE n == Len(seqs)
           V == Seq(S)
           g == [k \in 1..n |-> [v \in V |-> v \o seqs[k]]]
           base == <<>>
           Body(h) == [i \in 1..n |-> IF i = 1 THEN seqs[i] ELSE h[i - 1] \o seqs[i]]
           flatten == CHOOSE h : h = Body(h)
<1>1. n \in Nat /\ \A k \in 1..n : seqs[k] \in Seq(S)
  OBVIOUS
<1>2. base \in V
  OBVIOUS
<1>3. g \in [1..n -> [V -> V]]
  BY <1>1
<1>a. PICK h : History(h, V, base, g, n)
  <2> HIDE DEF n, V, g, base
  <2> QED BY ONLY <1>1, <1>2, <1>3, HistoryExists
<1>4. h \in [0..n -> V] /\ h[0] = base /\ \A k \in 1..n : h[k] = g[k][h[k - 1]]
  <2> HIDE DEF n, V, g, base
  <2> QED BY <1>a DEF History
<1>5. \A k \in 1..n : h[k - 1] \in Seq(S) /\ h[k] = h[k - 1] \o seqs[k]
  <2> SUFFICES ASSUME NEW k \in 1..n PROVE h[k - 1] \in V /\ h[k] = h[k - 1] \o seqs[k]
    OBVIOUS
  <2>1. h[k - 1] \in V
    <3>1. k - 1 \in 0..n
      BY <1>1
    <3> HIDE DEF V
    <3> QED BY <1>4, <3>1
  <2>2. g[k][h[k - 1]] = h[k - 1] \o seqs[k]
    BY <2>1
  <2> QED BY <1>4, <2>1, <2>2
<1>6. \A k \in 0..n : h[k] \in Seq(S) /\ \E from : InOrder(from, h[k], seqs, k)
  <2> DEFINE Ordered(k) == \E from : InOrder(from, h[k], seqs, k)
             T == {k \in Nat : k <= n => Ordered(k)}
  <2>1. 0 \in T
    <3>1. h[0] = <<>> /\ Len(<<>>) = 0
      BY <1>4
    <3>2. Places(seqs, 0) = {}
      BY DEF Places
    <3>3. InOrder(<<>>, <<>>, seqs, 0)
      BY <3>2 DEF InOrder
    <3> QED BY <3>1, <3>3
  <2>2. \A k \in Nat : k \in T => k + 1 \in T
    <3> SUFFICES ASSUME NEW k \in Nat, k \in T, k + 1 <= n
                 PROVE  Ordered(k + 1)
      <4> HIDE DEF Ordered
      <4> QED BY <1>1
    <3>0. Ordered(k)
      <4> HIDE DEF Ordered
      <4> QED BY <1>1
    <3>1. PICK from : InOrder(from, h[k], seqs, k)
      BY <3>0
    <3>a. k + 1 \in 1..n /\ (k + 1) - 1 = k
      BY <1>1
    <3>b. h[(k + 1) - 1] \in Seq(S) /\ h[k + 1] = h[(k + 1) - 1] \o seqs[k + 1]
      BY ONLY <1>5, <3>a
    <3>2. k + 1 \in 1..n /\ h[k] \in Seq(S) /\ h[k + 1] = h[k] \o seqs[k + 1]
      BY ONLY <3>a, <3>b
    <3>3. seqs[k + 1] \in Seq(S) /\ Len(seqs[k + 1]) <= 1
      BY <1>1, <3>2
    <3>4. \E e : InOrder(e, h[k] \o seqs[k + 1], seqs, k + 1)
      BY ONLY <3>1, <3>2, <3>3, k \in Nat, InOrderStep
    <3> QED BY <3>2, <3>4
  <2>3. \A k \in Nat : k \in T
    <3> HIDE DEF T
    <3> QED BY ONLY <2>1, <2>2, NatInd
  <2> QED BY <1>1, <1>4, <2>3
<1>7. CASE n = 0
  <2>1. FlattenSeq(seqs) = seqs /\ seqs = <<>>
    BY <1>7 DEF FlattenSeq
  <2>2. h[0] = <<>>
    BY <1>4
  <2> QED BY <1>6, <1>7, <2>1, <2>2
<1>8. CASE n # 0
  <2> DEFINE flat == [i \in 1..n |-> h[i]]
  <2>1. flat = Body(flat)
    <3>1. \A i \in 1..n : h[i] = IF i = 1 THEN seqs[i] ELSE flat[i - 1] \o seqs[i]
      <4> SUFFICES ASSUME NEW i \in 1..n
                   PROVE  h[i] = IF i = 1 THEN seqs[i] ELSE flat[i - 1] \o seqs[i]
        OBVIOUS
      <4>1. CASE i = 1
        <5>a. 1 \in 1..n /\ 1 - 1 = 0
          BY <1>1, <4>1
        <5>b. h[1] = h[1 - 1] \o seqs[1] /\ seqs[1] \in Seq(S)
          BY ONLY <1>1, <1>5, <5>a
        <5>1. h[1] = h[0] \o seqs[1] /\ h[0] = <<>> /\ seqs[1] \in Seq(S)
          BY <1>4, <5>a, <5>b
        <5>2. <<>> \o seqs[1] = seqs[1]
          BY <5>1
        <5> QED BY <4>1, <5>1, <5>2
      <4>2. CASE i # 1
        <5>1. flat[i - 1] = h[i - 1]
          BY <1>1, <4>2
        <5> QED BY <1>5, <4>2, <5>1
      <4> QED BY <4>1, <4>2
    <3> QED BY <3>1
  <2>2. flatten = Body(flatten)
    <3> HIDE DEF flat
    <3> QED BY <2>1
  <2>3. \A k \in 1..n : flatten[k] = h[k]
    <3> DEFINE T == {k \in Nat : k + 1 <= n => flatten[k + 1] = h[k + 1]}
    <3> HIDE DEF flatten
    <3>0. \A k \in 1..n : flatten[k] = IF k = 1 THEN seqs[k] ELSE flatten[k - 1] \o seqs[k]
      BY <2>2
    <3>a. \A k \in 1..n : h[k] = IF k = 1 THEN seqs[k] ELSE h[k - 1] \o seqs[k]
      <4>1. \A k \in 1..n : k # 1 => flat[k - 1] = h[k - 1]
        BY <1>1
      <4>2. \A k \in 1..n : flat[k] = h[k] /\ Body(flat)[k] = IF k = 1 THEN seqs[k] ELSE flat[k - 1] \o seqs[k]
        OBVIOUS
      <4> HIDE DEF flat, Body
      <4> QED BY <2>1, <4>1, <4>2
    <3>1. 0 \in T
      BY <1>1, <3>0, <3>a
    <3>2. \A k \in Nat : k \in T => k + 1 \in T
      <4> SUFFICES ASSUME NEW k \in Nat, k \in T, (k + 1) + 1 <= n
                   PROVE  flatten[(k + 1) + 1] = h[(k + 1) + 1]
        OBVIOUS
      <4>1. flatten[k + 1] = h[k + 1]
        BY <1>1
      <4>2. (k + 1) + 1 \in 1..n /\ (k + 1) + 1 # 1 /\ ((k + 1) + 1) - 1 = k + 1
        BY <1>1
      <4> QED BY <3>0, <3>a, <4>1, <4>2
    <3>3. \A k \in Nat : k \in T
      <4> HIDE DEF T
      <4> QED BY ONLY <3>1, <3>2, NatInd
    <3> QED
      <4> SUFFICES ASSUME NEW k \in 1..n PROVE flatten[k] = h[k]
        OBVIOUS
      <4>1. (k - 1) \in T /\ (k - 1) + 1 = k
        <5> HIDE DEF T
        <5> QED BY <1>1, <3>3
      <4> QED BY <1>1, <4>1
  <2>4. FlattenSeq(seqs) = flatten[n]
    BY <1>8 DEF FlattenSeq
  <2>5. FlattenSeq(seqs) = h[n]
    <3> HIDE DEF flatten
    <3> QED BY <1>1, <1>8, <2>3, <2>4
  <2> QED BY <1>1, <1>6, <2>5
<1> QED BY <1>7, <1>8

\* A numbered set is finite, and has as many elements as there are numbers.
LEMMA NumbersCount ==
    ASSUME NEW I, NEW T, NEW g, Numbers(g, I, T)
    PROVE  IsFiniteSet(T) /\ Cardinality(T) = Cardinality(I)
<1> DEFINE b == [i \in I |-> g[i]]
<1>1. IsFiniteSet(I)
  BY DEF Numbers
<1>2. b \in Bijection(I, T)
  BY DEF Numbers, Bijection, Injection, Surjection, IsInjective
<1>3. ExistsBijection(I, T)
  BY <1>2 DEF ExistsBijection
<1> QED BY <1>1, <1>3, FS_Bijection

\* A set is finite when it falls into finitely many finite classes.
Classes(T, h, J) ==
    /\ IsFiniteSet(J)
    /\ \A x \in T : h[x] \in J
    /\ \A j \in J : IsFiniteSet({x \in T : h[x] = j})

LEMMA FiniteClasses ==
    ASSUME NEW T, NEW h, NEW J, Classes(T, h, J)
    PROVE  IsFiniteSet(T)
<1> USE DEF Classes
<1> DEFINE Over(A) == {x \in T : h[x] \in A}
           One(j) == {x \in T : h[x] = j}
           Good == {A \in SUBSET J : IsFiniteSet(Over(A))}
<1>1. {} \in Good
  <2>1. Over({}) = {}
    OBVIOUS
  <2> HIDE DEF Over
  <2>2. IsFiniteSet(Over({}))
    BY <2>1, FS_EmptySet, Zenon
  <2> QED BY <2>2
<1>2. ASSUME NEW A \in SUBSET J, NEW x \in J \ A, A \in Good PROVE A \cup {x} \in Good
  <2> DEFINE B == A \cup {x}
  <2>1. Over(B) = Over(A) \cup One(x) /\ B \in SUBSET J
    OBVIOUS
  <2>2. IsFiniteSet(Over(A)) /\ IsFiniteSet(One(x))
    BY <1>2
  <2> HIDE DEF Over, One
  <2>3. IsFiniteSet(Over(A) \cup One(x))
    BY ONLY <2>2, FS_Union
  <2> HIDE DEF B
  <2>4. IsFiniteSet(Over(B))
    BY ONLY <2>1, <2>3, Zenon
  <2>5. B \in Good
    BY <2>1, <2>4
  <2> QED BY <2>5 DEF B
<1>3. J \in Good
  <2> HIDE DEF Good
  <2>1. \A A \in SUBSET J : A \in Good
    BY <1>1, <1>2, FiniteInd
  <2> QED BY <2>1
<1>4. Over(J) = T
  OBVIOUS
<1> HIDE DEF Over
<1> QED BY <1>3, <1>4, Zenon
==============================================================================
