------------------------ MODULE ReconciliationProofs ------------------------
(***************************************************************************)
(* Theorems about Reconciliation for any input files, configuration, word  *)
(* size and summary fields.                                                *)
(***************************************************************************)
EXTENDS Reconciliation, DataInduction, FunctionTheorems, TLAPS

-----------------------------------------------------------------------------
\* Amounts.

LEMMA AddFits ==
    ASSUME NEW a \in Int64, NEW b \in Int64
    PROVE  Add(a, b) = IF a + b \in Int64 THEN a + b ELSE Overflow
  BY WordAssumption DEF Add, Wrap, Int64, MinInt, WordSize

LEMMA Int64Type == Int64 \subseteq Int /\ 0 \in Int64 /\ Overflow \notin Int64 /\ Overflow # 0
  BY WordAssumption, OverflowAssumption DEF Int64, MinInt

\* AddAll returns the exact sum, or Overflow.
LEMMA AddAllIs ==
    ASSUME NEW a \in Int64, NEW w, Len(w) \in Nat, \A k \in 1..Len(w) : w[k] \in Int64,
           AddAll(a, w) # Overflow
    PROVE  /\ AddAll(a, w) \in Int64
           /\ AddAll(a, w) = a + SumFunctionOnSet(w, 1..Len(w))
<1> DEFINE n == Len(w)
           V == Int64 \cup {Overflow}
           g == [k \in 1..n |-> [v \in V |-> Plus(v, w[k])]]
           Body(h) == [k \in 0..n |-> IF k = 0 THEN a ELSE Plus(h[k - 1], w[k])]
           total == CHOOSE h : h = Body(h)
           Right(k) == total[k] # Overflow =>
                          total[k] \in Int64 /\ total[k] = a + SumFunctionOnSet(w, 1..k)
           T == {k \in Nat : k <= n => Right(k)}
<1>0. n \in Nat /\ a \in V
  OBVIOUS
<1>1. \A k \in 1..n : \A v \in V : Plus(v, w[k]) \in V
  BY AddFits DEF Plus
<1>2. g \in [1..n -> [V -> V]]
  BY <1>1
<1>3. PICK h : History(h, V, a, g, n)
  <2> HIDE DEF n, V, g
  <2> QED BY ONLY <1>0, <1>2, HistoryExists
<1>4. h \in [0..n -> V] /\ h[0] = a /\ \A k \in 1..n : h[k] = g[k][h[k - 1]]
  <2> HIDE DEF n, V, g
  <2> QED BY <1>3 DEF History
<1>5. h = Body(h)
  <2>1. \A k \in 1..n : h[k] = Plus(h[k - 1], w[k])
    <3> SUFFICES ASSUME NEW k \in 1..n PROVE h[k] = Plus(h[k - 1], w[k])
      OBVIOUS
    <3>1. k - 1 \in 0..n
      BY <1>0
    <3>2. h[k - 1] \in V
      <4> HIDE DEF V
      <4> QED BY <1>4, <3>1
    <3> QED BY <1>4, <3>2
  <2>2. h = [k \in 0..n |-> h[k]]
    <3> HIDE DEF V
    <3> QED BY <1>4
  <2>3. \A k \in 0..n : h[k] = IF k = 0 THEN a ELSE Plus(h[k - 1], w[k])
    <3> HIDE DEF V
    <3> QED BY <1>0, <1>4, <2>1
  <2> QED BY ONLY <2>2, <2>3
<1>6. total = Body(total)
  BY <1>5
<1>7. AddAll(a, w) = total[n]
  BY DEF AddAll
<1> HIDE DEF total
<1>8. total[0] = a /\ \A k \in 1..n : total[k] = Plus(total[k - 1], w[k])
  BY <1>0, <1>6
<1>9. 0 \in T
  <2>1. 1..0 = {}
    OBVIOUS
  <2>2. SumFunctionOnSet(w, 1..0) = SumFunctionOnSet(w, {})
    BY <2>1, Zenon
  <2>3. SumFunctionOnSet(w, 1..0) = 0
    BY <2>2, SumEmpty
  <2> QED BY <1>8, <2>3, Int64Type
<1>10. \A k \in Nat : k \in T => k + 1 \in T
  <2> SUFFICES ASSUME NEW k \in Nat, k \in T, k + 1 <= n PROVE Right(k + 1)
    <3> HIDE DEF Right
    <3> QED OBVIOUS
  <2>0. Right(k)
    <3> HIDE DEF Right
    <3> QED BY <1>0
  <2> SUFFICES ASSUME total[k + 1] # Overflow
               PROVE  total[k + 1] \in Int64 /\ total[k + 1] = a + SumFunctionOnSet(w, 1..(k + 1))
    OBVIOUS
  <2>1. k + 1 \in 1..n /\ (k + 1) - 1 = k
    BY <1>0
  <2>2. total[k + 1] = Plus(total[k], w[k + 1]) /\ w[k + 1] \in Int64
    BY <1>8, <2>1
  <2>3. total[k] # Overflow
    BY <2>2 DEF Plus
  <2>4. total[k] \in Int64 /\ total[k] = a + SumFunctionOnSet(w, 1..k)
    BY <2>0, <2>3
  <2>5. total[k + 1] = Add(total[k], w[k + 1])
    BY <2>2, <2>3 DEF Plus
  <2>6. total[k + 1] \in Int64 /\ total[k + 1] = total[k] + w[k + 1]
    BY <2>2, <2>4, <2>5, AddFits
  <2>7. \A j \in 1..(k + 1) : w[j] \in Int
    <3> SUFFICES ASSUME NEW j \in 1..(k + 1) PROVE w[j] \in Int
      OBVIOUS
    <3>1. j \in 1..n
      BY <1>0
    <3>2. w[j] \in Int64
      BY <3>1
    <3> QED BY <3>2, Int64Type
  <2>8. /\ SumFunctionOnSet(w, 1..k) \in Int
        /\ SumFunctionOnSet(w, 1..(k + 1)) = SumFunctionOnSet(w, 1..k) + w[k + 1]
    BY ONLY <2>7, k \in Nat, SumNext
  <2>9. w[k + 1] \in Int /\ a \in Int
    BY <2>2, Int64Type
  <2> QED BY ONLY <2>4, <2>6, <2>8, <2>9
<1>11. \A k \in Nat : k \in T
  <2> HIDE DEF T
  <2> QED BY ONLY <1>9, <1>10, NatInd
<1>12. Right(n)
  <2> HIDE DEF Right
  <2> QED BY <1>0, <1>11
<1> QED BY <1>7, <1>12

-----------------------------------------------------------------------------
\* Filter, and the rules a row selects.

LEMMA SeqRange ==
    ASSUME NEW X, NEW s \in Seq(X)
    PROVE  /\ DOMAIN s = 1..Len(s) /\ Len(s) \in Nat
           /\ \A x : x \in Range(s) <=> \E i \in 1..Len(s) : x = s[i]
<1>1. DOMAIN s = 1..Len(s) /\ Len(s) \in Nat
  OBVIOUS
<1>2. \A x : x \in Range(s) <=> \E i \in DOMAIN s : x = s[i]
  BY DEF Range
<1> QED BY <1>1, <1>2

LEMMA FcnIsSeq ==
    ASSUME NEW X, NEW n \in Nat, NEW s \in [1..n -> X]
    PROVE  s \in Seq(X) /\ Len(s) = n
OBVIOUS

LEMMA SeqIs ==
    ASSUME NEW X, NEW s \in Seq(X)
    PROVE  DOMAIN s = 1..Len(s) /\ Len(s) \in Nat /\ \A i \in 1..Len(s) : s[i] \in X
OBVIOUS

LEMMA EmptySeqIs == Len(<<>>) = 0
OBVIOUS

LEMMA UpToFinite == \A n \in Nat : IsFiniteSet(1..n)
BY FS_Interval

LEMMA AppendIs ==
    ASSUME NEW X, NEW s \in Seq(X), NEW c \in X, NEW n, n = Len(s), NEW t, t = Append(s, c)
    PROVE  /\ t \in Seq(X) /\ n \in Nat /\ Len(t) = n + 1 /\ t[n + 1] = c
           /\ \A i \in 1..n : t[i] = s[i]
           /\ \A i \in 1..Len(t) : i = n + 1 \/ i \in 1..n
<1>1. t \in Seq(X) /\ n \in Nat /\ Len(t) = n + 1 /\ t[n + 1] = c /\ \A i \in 1..n : t[i] = s[i]
  BY AppendProperties
<1> QED BY <1>1

LEMMA ConcatRange ==
    ASSUME NEW X, NEW a \in Seq(X), NEW b \in Seq(X)
    PROVE  /\ a \o b \in Seq(X)
           /\ \A r : r \in Range(a \o b) <=> r \in Range(a) \/ r \in Range(b)
<1> DEFINE c == a \o b
<1>1. /\ Len(a) \in Nat /\ Len(b) \in Nat /\ Len(c) = Len(a) + Len(b) /\ c \in Seq(X)
      /\ \A i \in 1..(Len(a) + Len(b)) : c[i] = IF i <= Len(a) THEN a[i] ELSE b[i - Len(a)]
  BY ConcatProperties
<1> HIDE DEF c
<1>2. /\ \A r : r \in Range(a) <=> \E i \in 1..Len(a) : r = a[i]
      /\ \A r : r \in Range(b) <=> \E i \in 1..Len(b) : r = b[i]
      /\ \A r : r \in Range(c) <=> \E i \in 1..Len(c) : r = c[i]
  BY <1>1, SeqRange
<1>3. ASSUME NEW r, r \in Range(c) PROVE r \in Range(a) \/ r \in Range(b)
  <2>1. PICK i \in 1..Len(c) : r = c[i]
    BY <1>2, <1>3
  <2>2. CASE i <= Len(a)
    <3>1. i \in 1..Len(a) /\ r = a[i]
      BY <1>1, <2>1, <2>2
    <3> QED BY <1>2, <3>1
  <2>3. CASE ~(i <= Len(a))
    <3>1. i - Len(a) \in 1..Len(b) /\ r = b[i - Len(a)]
      BY <1>1, <2>1, <2>3
    <3> QED BY <1>2, <3>1
  <2> QED BY <2>2, <2>3
<1>4. ASSUME NEW r, r \in Range(a) PROVE r \in Range(c)
  <2>1. PICK i \in 1..Len(a) : r = a[i]
    BY <1>2, <1>4
  <2>2. i \in 1..Len(c) /\ r = c[i]
    BY <1>1, <2>1
  <2> QED BY <1>2, <2>2
<1>5. ASSUME NEW r, r \in Range(b) PROVE r \in Range(c)
  <2>1. PICK i \in 1..Len(b) : r = b[i]
    BY <1>2, <1>5
  <2> DEFINE j == Len(a) + i
  <2>2. j \in 1..Len(c) /\ ~(j <= Len(a)) /\ j - Len(a) = i
    BY <1>1
  <2> HIDE DEF j
  <2>3. r = c[j]
    BY <1>1, <2>1, <2>2
  <2> QED BY <1>2, <2>2, <2>3
<1>6. c \in Seq(X) /\ \A r : r \in Range(c) <=> r \in Range(a) \/ r \in Range(b)
  BY <1>1, <1>3, <1>4, <1>5
<1> QED BY <1>6 DEF c

Singles(s, S) == [i \in DOMAIN s |-> IF s[i] \in S THEN <<s[i]>> ELSE <<>>]

LEMMA FilterInOrder ==
    ASSUME NEW X, NEW s \in Seq(X), NEW S
    PROVE  /\ Filter(s, S) \in Seq(X)
           /\ \E from : InOrder(from, Filter(s, S), Singles(s, S), Len(s))
           /\ \A i \in 1..Len(s) : i \in Places(Singles(s, S), Len(s)) <=> s[i] \in S
           /\ \A i \in 1..Len(s) : s[i] \in S => Singles(s, S)[i][1] = s[i]
<1> DEFINE seqs == Singles(s, S)
<1>a. DOMAIN s = 1..Len(s) /\ Len(s) \in Nat /\ \A i \in 1..Len(s) : s[i] \in X
  OBVIOUS
<1>b. \A x \in X : <<x>> \in Seq(X) /\ Len(<<x>>) <= 1
  OBVIOUS
<1>c. <<>> \in Seq(X) /\ Len(<<>>) <= 1
  OBVIOUS
<1>d. \A i \in 1..Len(s) : seqs[i] \in Seq(X) /\ Len(seqs[i]) <= 1
  BY <1>a, <1>b, <1>c DEF Singles
<1>e. seqs \in [1..Len(s) -> Seq(X)]
  BY <1>a, <1>d DEF Singles
<1>1. seqs \in Seq(Seq(X)) /\ Len(seqs) = Len(s) /\ \A i \in 1..Len(seqs) : Len(seqs[i]) <= 1
  <2>1. seqs \in Seq(Seq(X)) /\ Len(seqs) = Len(s)
    <3> HIDE DEF seqs
    <3> QED BY ONLY <1>a, <1>e, FcnIsSeq
  <2> QED BY <1>d, <2>1
<1>2. /\ \A i \in 1..Len(s) : s[i] \in S => seqs[i] = <<s[i]>>
      /\ \A i \in 1..Len(s) : s[i] \notin S => seqs[i] = <<>>
  BY DEF Singles
<1>3. Filter(s, S) = FlattenSeq(seqs)
  BY DEF Filter, Singles
<1> HIDE DEF seqs
<1>4. FlattenSeq(seqs) \in Seq(X) /\ \E from : InOrder(from, FlattenSeq(seqs), seqs, Len(seqs))
  BY ONLY <1>1, FlattenInOrder
<1>5. \A i \in 1..Len(s) : i \in Places(seqs, Len(s)) <=> s[i] \in S
  <2>1. \A x \in X : <<x>> # <<>>
    OBVIOUS
  <2>2. \A i \in 1..Len(s) : seqs[i] # <<>> <=> s[i] \in S
    BY <1>a, <1>2, <2>1
  <2> QED BY <2>2 DEF Places
<1>6. \A i \in 1..Len(s) : s[i] \in S => seqs[i][1] = s[i]
  BY <1>2
<1> QED BY <1>1, <1>3, <1>4, <1>5, <1>6 DEF seqs

\* The positions of s that Filter keeps, in order.
Picks(from, s, S) ==
    /\ from \in [1..Len(Filter(s, S)) -> {i \in 1..Len(s) : s[i] \in S}]
    /\ \A i \in 1..Len(s) : s[i] \in S => \E j \in 1..Len(Filter(s, S)) : from[j] = i
    /\ \A i, j \in 1..Len(Filter(s, S)) : i < j => from[i] < from[j]
    /\ \A j \in 1..Len(Filter(s, S)) : Filter(s, S)[j] = s[from[j]]

LEMMA FilterPicks ==
    ASSUME NEW X, NEW s \in Seq(X), NEW S
    PROVE  Filter(s, S) \in Seq(X) /\ \E from : Picks(from, s, S)
<1> DEFINE out == Filter(s, S)
           seqs == Singles(s, S)
<1>1. /\ out \in Seq(X)
      /\ \A i \in 1..Len(s) : i \in Places(seqs, Len(s)) <=> s[i] \in S
      /\ \A i \in 1..Len(s) : s[i] \in S => seqs[i][1] = s[i]
  BY FilterInOrder
<1>2. PICK from : InOrder(from, out, seqs, Len(s))
  BY FilterInOrder
<1>3. Places(seqs, Len(s)) = {i \in 1..Len(s) : s[i] \in S}
  BY <1>1 DEF Places
<1> HIDE DEF out, seqs
<1>4. Picks(from, s, S)
  BY <1>1, <1>2, <1>3 DEF Picks, InOrder, out
<1> QED BY <1>1, <1>4 DEF out

LEMMA FilterRange ==
    ASSUME NEW X, NEW s \in Seq(X), NEW S
    PROVE  /\ Filter(s, S) \in Seq(X)
           /\ \A x : x \in Range(Filter(s, S)) <=> x \in Range(s) /\ x \in S
           /\ Filter(s, S) # <<>> <=> \E x \in Range(s) : x \in S
<1> DEFINE out == Filter(s, S)
<1>1. out \in Seq(X)
  BY FilterPicks
<1>2. PICK from : Picks(from, s, S)
  BY FilterPicks
<1>3. \A x : x \in Range(s) <=> \E i \in 1..Len(s) : x = s[i]
  BY DEF Range
<1>4. \A x : x \in Range(out) <=> \E j \in 1..Len(out) : x = out[j]
  BY <1>1 DEF Range
<1>5. /\ \A j \in 1..Len(out) : from[j] \in 1..Len(s) /\ s[from[j]] \in S /\ out[j] = s[from[j]]
      /\ \A i \in 1..Len(s) : s[i] \in S => \E j \in 1..Len(out) : from[j] = i
  BY <1>2 DEF Picks
<1> HIDE DEF out
<1>6. \A x : x \in Range(out) <=> x \in Range(s) /\ x \in S
  BY ONLY <1>3, <1>4, <1>5
<1>7. out # <<>> <=> \E x \in Range(s) : x \in S
  <2>1. out = <<>> => \A x : x \notin Range(out)
    BY <1>4
  <2>2. out # <<>> => 1 \in 1..Len(out)
    BY <1>1
  <2>3. out # <<>> => \E x : x \in Range(out)
    BY <1>4, <2>2
  <2> QED BY ONLY <1>6, <2>1, <2>3
<1> QED BY <1>1, <1>6, <1>7 DEF out

\* The rules that apply: those that match, the specific ones first.
LEMMA SelectedIs ==
    ASSUME NEW X, NEW rules \in Seq(X), NEW row
    PROVE  /\ Selected(rules, row) \in Seq(X)
           /\ \A r : r \in Range(Selected(rules, row)) <=>
                 /\ r \in Range(rules) /\ Matches(r, row)
                 /\ r.tx # "" \/ \A q \in Range(rules) : Matches(q, row) => q.tx = ""
<1> DEFINE a == Indexed(rules, Label(row.tx))
           b == Indexed(rules, "")
           cand == Candidates(rules, row)
           hits == Hits(rules, row)
           spec == Filter(hits, {r \in Range(rules) : r.tx # ""})
<1>a. ASSUME NEW label
      PROVE  /\ Indexed(rules, label) \in Seq(X)
             /\ \A r : r \in Range(Indexed(rules, label)) <=> r \in Range(rules) /\ Label(r.tx) = label
  <2> DEFINE S == {r \in Range(rules) : Label(r.tx) = label}
  <2>1. Indexed(rules, label) = Filter(rules, S)
    BY DEF Indexed
  <2>2. \A r : r \in S <=> r \in Range(rules) /\ Label(r.tx) = label
    OBVIOUS
  <2> HIDE DEF S
  <2>3. Filter(rules, S) \in Seq(X) /\ \A r : r \in Range(Filter(rules, S)) <=> r \in Range(rules) /\ r \in S
    BY FilterRange
  <2> QED BY <2>1, <2>2, <2>3
<1>1. /\ a \in Seq(X) /\ \A r : r \in Range(a) <=> r \in Range(rules) /\ Label(r.tx) = Label(row.tx)
      /\ b \in Seq(X) /\ \A r : r \in Range(b) <=> r \in Range(rules) /\ Label(r.tx) = ""
  BY <1>a
<1>2. cand = a \o b
  BY DEF Candidates
<1> HIDE DEF a, b
<1>3. cand \in Seq(X) /\ \A r : r \in Range(cand) <=> r \in Range(a) \/ r \in Range(b)
  BY <1>1, <1>2, ConcatRange
<1> HIDE DEF cand
<1>4. /\ hits \in Seq(X)
      /\ \A r : r \in Range(hits) <=> r \in Range(cand) /\ r \in Range(rules) /\ Matches(r, row)
  BY <1>3, FilterRange DEF Hits, cand
<1>5. \A r : r \in Range(hits) <=> r \in Range(rules) /\ Matches(r, row)
  <2>1. \A r \in Range(rules) : Matches(r, row) => r \in Range(a) \/ r \in Range(b)
    BY <1>1 DEF Matches
  <2> QED BY <1>1, <1>3, <1>4, <2>1
<1> HIDE DEF hits
<1>6. /\ spec \in Seq(X)
      /\ \A r : r \in Range(spec) <=> r \in Range(hits) /\ r \in Range(rules) /\ r.tx # ""
      /\ spec # <<>> <=> \E r \in Range(hits) : r \in Range(rules) /\ r.tx # ""
  <2> DEFINE S == {r \in Range(rules) : r.tx # ""}
  <2>1. \A r : r \in S <=> r \in Range(rules) /\ r.tx # ""
    OBVIOUS
  <2>2. spec = Filter(hits, S)
    OBVIOUS
  <2> HIDE DEF S, spec
  <2>3. /\ spec \in Seq(X)
        /\ \A r : r \in Range(spec) <=> r \in Range(hits) /\ r \in S
        /\ spec # <<>> <=> \E r \in Range(hits) : r \in S
    BY <1>4, <2>2, FilterRange
  <2> QED BY <2>1, <2>3
<1>7. Selected(rules, row) = IF spec # <<>> THEN spec ELSE hits
  BY DEF Selected, hits
<1> HIDE DEF spec
<1> QED BY <1>4, <1>5, <1>6, <1>7

\* The rules left for a field: those with a description of their own first.
LEMMA CompetingIs ==
    ASSUME NEW X, NEW sel \in Seq(X), NEW row, NEW field
    PROVE  /\ Competing(sel, row, field) \in Seq(X)
           /\ \A r : r \in Range(Competing(sel, row, field)) <=>
                 /\ r \in Range(sel) /\ FieldOf(row, r) = field
                 /\ \/ Label(r.desc) # "ANY"
                    \/ \A q \in Range(sel) : FieldOf(row, q) = field => Label(q.desc) = "ANY"
<1> DEFINE on == OnField(sel, row, field)
           named == Named(on)
<1>1. on \in Seq(X) /\ \A r : r \in Range(on) <=> r \in Range(sel) /\ FieldOf(row, r) = field
  BY FilterRange DEF OnField
<1> HIDE DEF on
<1>2. /\ named \in Seq(X)
      /\ \A r : r \in Range(named) <=> r \in Range(on) /\ Label(r.desc) # "ANY"
      /\ named # <<>> <=> \E r \in Range(on) : Label(r.desc) # "ANY"
  BY <1>1, FilterRange DEF Named
<1>3. Competing(sel, row, field) = IF named # <<>> THEN named ELSE on
  BY DEF Competing, on
<1> HIDE DEF named
<1> QED BY <1>1, <1>2, <1>3

-----------------------------------------------------------------------------
\* Engine.mapRow.

\* The row before the rules of a field are applied.
Marked(m, field, rules) ==
    IF Len(rules) > 1
    THEN [m EXCEPT !.ambiguous = @ \cup {[field |-> field, lines |-> {r.line : r \in Range(rules)}]}]
    ELSE m

\* The row when strict mode refuses them.
Refused(m, field, rules) == [Marked(m, field, rules) EXCEPT !.err = "ambiguous"]

\* The loop over the rules of one field.
Applied(after, m, field, rules, mode) ==
    /\ after[0] = Marked(m, field, rules)
    /\ \A k \in 1..Len(rules) : after[k] = Contribute(after[k - 1], field, rules[k])
    /\ MapField(m, field, rules, mode) =
          IF m.err # "" THEN m
          ELSE IF Len(rules) > 1 /\ mode = StrictMode
               THEN Refused(m, field, rules)
               ELSE after[Len(rules)]

LEMMA RuleLoop ==
    ASSUME NEW m, NEW field, NEW rules, NEW n \in Nat, n = Len(rules), NEW mode
    PROVE  \E after : Applied(after, m, field, rules, mode)
<1> DEFINE b == Marked(m, field, rules)
           G(k, v) == Contribute(v, field, rules[k])
           Body(h) == [k \in 0..n |-> IF k = 0 THEN b ELSE G(k, h[k - 1])]
           after == CHOOSE h : h = Body(h)
<1>0. n \in Nat
  OBVIOUS
<1>1. MapField(m, field, rules, mode) =
         IF m.err # "" THEN m
         ELSE IF Len(rules) > 1 /\ mode = StrictMode
              THEN Refused(m, field, rules)
              ELSE after[n]
  BY DEF MapField, Marked, Refused
<1> HIDE DEF b, G
<1>2. after = Body(after)
  <2> DEFINE Upto(h, j) == DOMAIN h = 0..j /\ h[0] = b /\ \A k \in 1..j : h[k] = G(k, h[k - 1])
             T == {j \in Nat : \E h : Upto(h, j)}
  <2>1. 0 \in T
    <3> DEFINE h == [k \in 0..0 |-> b]
    <3>1. Upto(h, 0)
      OBVIOUS
    <3> QED BY <3>1
  <2>2. \A j \in Nat : j \in T => j + 1 \in T
    <3> SUFFICES ASSUME NEW j \in Nat, NEW h, Upto(h, j) PROVE \E e : Upto(e, j + 1)
      <4> HIDE DEF Upto
      <4> QED OBVIOUS
    <3> DEFINE e == [k \in 0..(j + 1) |-> IF k = j + 1 THEN G(j + 1, h[j]) ELSE h[k]]
    <3>1. DOMAIN e = 0..(j + 1) /\ e[0] = b
      OBVIOUS
    <3>2. \A k \in 0..j : e[k] = h[k]
      OBVIOUS
    <3>3. e[j + 1] = G(j + 1, h[j])
      OBVIOUS
    <3> HIDE DEF e
    <3>4. \A k \in 1..(j + 1) : e[k] = G(k, e[k - 1])
      <4> SUFFICES ASSUME NEW k \in 1..(j + 1) PROVE e[k] = G(k, e[k - 1])
        OBVIOUS
      <4>1. k - 1 \in 0..j /\ e[k - 1] = h[k - 1]
        BY <3>2
      <4>2. CASE k = j + 1
        <5>1. k - 1 = j
          BY <4>2
        <5> QED BY <3>3, <4>1, <4>2, <5>1
      <4>3. CASE k # j + 1
        <5>1. k \in 1..j /\ k \in 0..j
          BY <4>3
        <5> QED BY <3>2, <4>1, <5>1
      <4> QED BY <4>2, <4>3
    <3>5. Upto(e, j + 1)
      BY <3>1, <3>4
    <3> QED BY <3>5
  <2>3. \A j \in Nat : j \in T
    <3> HIDE DEF T
    <3> QED BY ONLY <2>1, <2>2, NatInd
  <2>4. PICK h0 : Upto(h0, n)
    BY <1>0, <2>3
  <2> DEFINE h == [k \in 0..n |-> h0[k]]
  <2>5. \A k \in 0..n : h[k] = IF k = 0 THEN b ELSE G(k, h[k - 1])
    <3> SUFFICES ASSUME NEW k \in 0..n PROVE h[k] = IF k = 0 THEN b ELSE G(k, h[k - 1])
      OBVIOUS
    <3>1. CASE k = 0
      BY <2>4, <3>1
    <3>2. CASE k # 0
      <4>1. k \in 1..n /\ k - 1 \in 0..n
        BY <1>0, <3>2
      <4>2. h[k] = h0[k] /\ h[k - 1] = h0[k - 1]
        BY <4>1
      <4> HIDE DEF h
      <4> QED BY <2>4, <3>2, <4>1, <4>2
    <3> QED BY <3>1, <3>2
  <2>6. h = [k \in 0..n |-> h[k]]
    OBVIOUS
  <2> HIDE DEF h
  <2>7. h = Body(h)
    BY ONLY <2>5, <2>6
  <2> QED BY <2>7
<1> HIDE DEF after
<1>3. after[0] = b /\ \A k \in 1..n : after[k] = G(k, after[k - 1])
  <2>1. 0 \in 0..n
    BY <1>0
  <2>2. \A k \in 1..n : k \in 0..n /\ k # 0
    BY <1>0
  <2> QED BY <1>2, <2>1, <2>2
<1>4. Applied(after, m, field, rules, mode)
  BY <1>1, <1>3 DEF b, G, Applied
<1> QED BY <1>4

\* The loop over the fields.
LEMMA FieldLoop ==
    ASSUME NEW selected, NEW row, NEW mode
    PROVE  \E after :
              /\ after[0] = EmptyMapped(row)
              /\ \A k \in 1..Len(FieldOrder) :
                    after[k] = MapField(after[k - 1], FieldOrder[k],
                                        Competing(selected, row, FieldOrder[k]), mode)
              /\ MapFields(selected, row, mode) = after[Len(FieldOrder)]
<1> DEFINE n == Len(FieldOrder)
           b == EmptyMapped(row)
           G(k, v) == MapField(v, FieldOrder[k], Competing(selected, row, FieldOrder[k]), mode)
           Body(h) == [k \in 0..n |-> IF k = 0 THEN b ELSE G(k, h[k - 1])]
           after == CHOOSE h : h = Body(h)
<1>0. n \in Nat
  BY FieldAssumption
<1>1. MapFields(selected, row, mode) = after[n]
  BY DEF MapFields
<1> HIDE DEF b, G
<1>2. after = Body(after)
  <2> DEFINE Upto(h, j) == DOMAIN h = 0..j /\ h[0] = b /\ \A k \in 1..j : h[k] = G(k, h[k - 1])
             T == {j \in Nat : \E h : Upto(h, j)}
  <2>1. 0 \in T
    <3> DEFINE h == [k \in 0..0 |-> b]
    <3>1. Upto(h, 0)
      OBVIOUS
    <3> QED BY <3>1
  <2>2. \A j \in Nat : j \in T => j + 1 \in T
    <3> SUFFICES ASSUME NEW j \in Nat, NEW h, Upto(h, j) PROVE \E e : Upto(e, j + 1)
      <4> HIDE DEF Upto
      <4> QED OBVIOUS
    <3> DEFINE e == [k \in 0..(j + 1) |-> IF k = j + 1 THEN G(j + 1, h[j]) ELSE h[k]]
    <3>1. DOMAIN e = 0..(j + 1) /\ e[0] = b
      OBVIOUS
    <3>2. \A k \in 0..j : e[k] = h[k]
      OBVIOUS
    <3>3. e[j + 1] = G(j + 1, h[j])
      OBVIOUS
    <3> HIDE DEF e
    <3>4. \A k \in 1..(j + 1) : e[k] = G(k, e[k - 1])
      <4> SUFFICES ASSUME NEW k \in 1..(j + 1) PROVE e[k] = G(k, e[k - 1])
        OBVIOUS
      <4>1. k - 1 \in 0..j /\ e[k - 1] = h[k - 1]
        BY <3>2
      <4>2. CASE k = j + 1
        <5>1. k - 1 = j
          BY <4>2
        <5> QED BY <3>3, <4>1, <4>2, <5>1
      <4>3. CASE k # j + 1
        <5>1. k \in 1..j /\ k \in 0..j
          BY <4>3
        <5> QED BY <3>2, <4>1, <5>1
      <4> QED BY <4>2, <4>3
    <3>5. Upto(e, j + 1)
      BY <3>1, <3>4
    <3> QED BY <3>5
  <2>3. \A j \in Nat : j \in T
    <3> HIDE DEF T
    <3> QED BY ONLY <2>1, <2>2, NatInd
  <2>4. PICK h0 : Upto(h0, n)
    BY <1>0, <2>3
  <2> DEFINE h == [k \in 0..n |-> h0[k]]
  <2>5. \A k \in 0..n : h[k] = IF k = 0 THEN b ELSE G(k, h[k - 1])
    <3> SUFFICES ASSUME NEW k \in 0..n PROVE h[k] = IF k = 0 THEN b ELSE G(k, h[k - 1])
      OBVIOUS
    <3>1. CASE k = 0
      BY <2>4, <3>1
    <3>2. CASE k # 0
      <4>1. k \in 1..n /\ k - 1 \in 0..n
        BY <1>0, <3>2
      <4>2. h[k] = h0[k] /\ h[k - 1] = h0[k - 1]
        BY <4>1
      <4> HIDE DEF h
      <4> QED BY <2>4, <3>2, <4>1, <4>2
    <3> QED BY <3>1, <3>2
  <2>6. h = [k \in 0..n |-> h[k]]
    OBVIOUS
  <2> HIDE DEF h
  <2>7. h = Body(h)
    BY ONLY <2>5, <2>6
  <2> QED BY <2>7
<1> HIDE DEF after
<1>3. after[0] = b /\ \A k \in 1..n : after[k] = G(k, after[k - 1])
  <2>1. 0 \in 0..n
    BY <1>0
  <2>2. \A k \in 1..n : k \in 0..n /\ k # 0
    BY <1>0
  <2> QED BY <1>2, <2>1, <2>2
<1> QED BY <1>1, <1>3 DEF b, G

\* What the rules left for the fields of a row can contribute.
Applicable(rules, row) ==
    {x \in Range(FieldOrder) \X Range(rules) :
        /\ x[2] \in Range(Competing(Selected(rules, row), row, x[1]))
        /\ amountFor(row, x[1]) # NoAmount
        /\ expand(x[2].ref, row) # NoKey}

Possible(rules, row) == {Contribution(row, x[1], x[2]) : x \in Applicable(rules, row)}

MappedFields == {"row", "contribs", "key", "ambiguous", "err"}

\* A mapped row: every contribution is of a rule left for its field and, unless mapping
\* failed, has the key of the row.
WellMapped(m, rules, row) ==
    /\ DOMAIN m = MappedFields
    /\ m.row = row
    /\ m.contribs \in Seq(Possible(rules, row))
    /\ m.err = "" => \A i \in 1..Len(m.contribs) : m.contribs[i].key = m.key

LEMMA ContributionFields ==
    ASSUME NEW row, NEW field, NEW rule
    PROVE  /\ Contribution(row, field, rule).rule = rule
           /\ Contribution(row, field, rule).field = field
           /\ Contribution(row, field, rule).amount = amountFor(row, field)
           /\ Contribution(row, field, rule).key = expand(rule.ref, row)
           /\ Contribution(row, field, rule).target \in {rule.pos, rule.neg}
BY DEF Contribution

LEMMA PossibleIs ==
    ASSUME NEW rules, NEW row, NEW c \in Possible(rules, row)
    PROVE  /\ c.rule \in Range(rules)
           /\ c.rule \in Range(Competing(Selected(rules, row), row, c.field))
           /\ c.amount = amountFor(row, c.field) /\ c.amount # NoAmount
           /\ c.key # NoKey
           /\ c.target \in {c.rule.pos, c.rule.neg}
<1>1. PICK x \in Applicable(rules, row) : c = Contribution(row, x[1], x[2])
  BY DEF Possible
<1>2. /\ x[2] \in Range(rules) /\ x[2] \in Range(Competing(Selected(rules, row), row, x[1]))
      /\ amountFor(row, x[1]) # NoAmount /\ expand(x[2].ref, row) # NoKey
  BY DEF Applicable
<1> QED BY <1>1, <1>2, ContributionFields

LEMMA ContributeKeeps ==
    ASSUME NEW rules, NEW row, NEW m, WellMapped(m, rules, row), NEW field \in Range(FieldOrder),
           NEW rule \in Range(Competing(Selected(rules, row), row, field)), rule \in Range(rules)
    PROVE  WellMapped(Contribute(m, field, rule), rules, row)
<1> DEFINE P == Possible(rules, row)
           c == Contribution(row, field, rule)
           parts == expand(rule.ref, row)
           n == Contribute(m, field, rule)
           added == [m EXCEPT !.contribs = Append(@, c)]
           absent == field = Withheld /\ Withheld \notin DOMAIN row.comp
<1>1. /\ DOMAIN m = MappedFields /\ m.row = row /\ m.contribs \in Seq(P)
      /\ m.err = "" => \A i \in 1..Len(m.contribs) : m.contribs[i].key = m.key
  BY DEF WellMapped
<1>2. n = IF m.err # "" THEN m
          ELSE IF amountFor(row, field) = NoAmount THEN [m EXCEPT !.err = "amount"]
          ELSE IF parts = NoKey THEN [m EXCEPT !.err = "record_ref"]
          ELSE IF absent /\ {rule.pos, rule.neg} # {""} THEN [m EXCEPT !.err = "absent"]
          ELSE IF m.key = NoKey THEN [added EXCEPT !.key = parts]
          ELSE IF m.key # parts THEN [added EXCEPT !.err = "conflict"]
          ELSE added
  BY <1>1 DEF Contribute
<1>3. ASSUME NEW why, why # "" PROVE WellMapped([m EXCEPT !.err = why], rules, row)
  BY <1>1, <1>3 DEF WellMapped, MappedFields
<1>4. CASE m.err # ""
  BY <1>2, <1>4
<1>5. CASE m.err = "" /\ amountFor(row, field) # NoAmount /\ parts # NoKey
  <2>1. c \in P /\ c.key = parts
    <3> DEFINE x == <<field, rule>>
    <3>1. x \in Range(FieldOrder) \X Range(rules) /\ x[1] = field /\ x[2] = rule
      OBVIOUS
    <3> HIDE DEF x
    <3>2. x \in Applicable(rules, row)
      BY <1>5, <3>1 DEF Applicable
    <3>3. c = Contribution(row, x[1], x[2])
      BY <3>1
    <3>4. c \in P
      BY <3>2, <3>3 DEF Possible
    <3> QED BY <3>4, ContributionFields
  <2> DEFINE all == Append(m.contribs, c)
  <2>2. /\ all \in Seq(P) /\ Len(m.contribs) \in Nat /\ Len(all) = Len(m.contribs) + 1
        /\ all[Len(m.contribs) + 1] = c /\ \A i \in 1..Len(m.contribs) : all[i] = m.contribs[i]
        /\ \A i \in 1..Len(all) : i = Len(m.contribs) + 1 \/ i \in 1..Len(m.contribs)
    <3>1. m.contribs \in Seq(P) /\ c \in P
      BY <1>1, <2>1
    <3> HIDE DEF P, c
    <3> QED BY <3>1, AppendIs
  <2>3. DOMAIN added = MappedFields /\ added.row = row /\ added.contribs = all
        /\ added.key = m.key /\ added.err = ""
    BY <1>1, <1>5 DEF MappedFields
  <2>4. m.key = NoKey => Len(m.contribs) = 0
    <3> SUFFICES ASSUME m.key = NoKey, Len(m.contribs) # 0 PROVE FALSE
      BY <2>2
    <3>1. 1 \in 1..Len(m.contribs) /\ m.contribs[1] \in P
      <4> DEFINE l == m.contribs
      <4>1. l \in Seq(P) /\ Len(l) # 0
        BY <1>1
      <4> HIDE DEF P, l
      <4>2. 1 \in 1..Len(l) /\ l[1] \in P
        BY <4>1
      <4> QED BY <4>2 DEF l
    <3>2. m.contribs[1].key = NoKey
      BY <1>1, <1>5, <3>1
    <3> QED BY <3>1, <3>2, PossibleIs
  <2> HIDE DEF added, all, c, P
  <2>5. CASE absent /\ {rule.pos, rule.neg} # {""}
    BY <1>2, <1>3, <1>5, <2>5
  <2>6. CASE ~(absent /\ {rule.pos, rule.neg} # {""}) /\ m.key = NoKey
    <3>1. n = [added EXCEPT !.key = parts]
      BY <1>2, <1>5, <2>6
    <3>2. \A i \in 1..Len(all) : all[i].key = parts
      <4> SUFFICES ASSUME NEW i \in 1..Len(all) PROVE all[i].key = parts
        OBVIOUS
      <4>1. Len(m.contribs) = 0
        BY <2>4, <2>6
      <4>2. i = Len(m.contribs) + 1
        BY <2>2, <4>1
      <4> QED BY <2>1, <2>2, <4>2
    <3>3. DOMAIN n = MappedFields /\ n.row = row /\ n.contribs = all /\ n.key = parts
      BY <2>3, <3>1 DEF MappedFields
    <3> HIDE DEF n
    <3> QED BY <2>2, <3>2, <3>3 DEF WellMapped, P, n
  <2>7. CASE ~(absent /\ {rule.pos, rule.neg} # {""}) /\ m.key # NoKey /\ m.key # parts
    <3>1. n = [added EXCEPT !.err = "conflict"]
      BY <1>2, <1>5, <2>7
    <3>3. DOMAIN n = MappedFields /\ n.row = row /\ n.contribs = all /\ n.err = "conflict"
      BY <2>3, <3>1 DEF MappedFields
    <3> HIDE DEF n
    <3> QED BY <2>2, <3>3 DEF WellMapped, P, n
  <2>8. CASE ~(absent /\ {rule.pos, rule.neg} # {""}) /\ m.key # NoKey /\ m.key = parts
    <3>1. n = added
      BY <1>2, <1>5, <2>8
    <3>2. \A i \in 1..Len(all) : all[i].key = parts
      <4> SUFFICES ASSUME NEW i \in 1..Len(all) PROVE all[i].key = parts
        OBVIOUS
      <4>1. i = Len(m.contribs) + 1 \/ i \in 1..Len(m.contribs)
        BY <2>2
      <4> QED BY <1>1, <1>5, <2>1, <2>2, <2>8, <4>1
    <3> HIDE DEF n
    <3> QED BY <2>2, <2>3, <2>8, <3>1, <3>2 DEF WellMapped, P, n
  <2> QED BY <2>5, <2>6, <2>7, <2>8
<1>6. CASE m.err = "" /\ ~(amountFor(row, field) # NoAmount /\ parts # NoKey)
  BY <1>2, <1>3, <1>6
<1> QED BY <1>4, <1>5, <1>6

LEMMA MapFieldKeeps ==
    ASSUME NEW X, NEW rules \in Seq(X), NEW row, NEW m, WellMapped(m, rules, row),
           NEW field \in Range(FieldOrder), NEW mode
    PROVE  WellMapped(MapField(m, field, Competing(Selected(rules, row), row, field), mode), rules, row)
<1> DEFINE left == Competing(Selected(rules, row), row, field)
           n == Len(left)
<1>1. /\ left \in Seq(X) /\ n \in Nat
      /\ \A k \in 1..n : left[k] \in Range(left) /\ left[k] \in Range(rules)
  <2>1. Selected(rules, row) \in Seq(X)
    BY SelectedIs
  <2>2. left \in Seq(X)
    BY <2>1, CompetingIs
  <2>3. \A r \in Range(left) : r \in Range(rules)
    BY <2>1, CompetingIs, SelectedIs
  <2> HIDE DEF left
  <2> QED BY <2>2, <2>3, SeqRange
<1>a. PICK after : Applied(after, m, field, left, mode)
  <2>1. n \in Nat /\ n = Len(left)
    BY <1>1
  <2> HIDE DEF left, n
  <2> QED BY ONLY <2>1, RuleLoop
<1>2. /\ after[0] = Marked(m, field, left)
      /\ \A k \in 1..n : after[k] = Contribute(after[k - 1], field, left[k])
      /\ MapField(m, field, left, mode) =
            IF m.err # "" THEN m
            ELSE IF Len(left) > 1 /\ mode = StrictMode THEN Refused(m, field, left) ELSE after[n]
  <2> HIDE DEF left
  <2> QED BY ONLY <1>a DEF Applied
<1>3. WellMapped(Marked(m, field, left), rules, row)
  <2> DEFINE b == Len(left) > 1
             a == m.ambiguous \cup {[field |-> field, lines |-> {r.line : r \in Range(left)}]}
  <2>1. Marked(m, field, left) = IF b THEN [m EXCEPT !.ambiguous = a] ELSE m
    BY DEF Marked
  <2> HIDE DEF a, b
  <2> QED BY ONLY <2>1, WellMapped(m, rules, row) DEF WellMapped, MappedFields
<1>4. WellMapped(Refused(m, field, left), rules, row)
  <2> DEFINE a == Marked(m, field, left)
  <2>1. WellMapped(a, rules, row) /\ Refused(m, field, left) = [a EXCEPT !.err = "ambiguous"]
    BY <1>3 DEF Refused
  <2> HIDE DEF a, left
  <2> QED BY ONLY <2>1 DEF WellMapped, MappedFields
<1>5. WellMapped(after[n], rules, row)
  <2> DEFINE Good(k) == WellMapped(after[k], rules, row)
             T == {k \in Nat : k <= n => Good(k)}
  <2>1. 0 \in T
    BY <1>2, <1>3
  <2>2. \A k \in Nat : k \in T => k + 1 \in T
    <3> SUFFICES ASSUME NEW k \in Nat, k \in T, k + 1 <= n PROVE Good(k + 1)
      <4> HIDE DEF Good
      <4> QED OBVIOUS
    <3>1. Good(k)
      <4> HIDE DEF Good, left
      <4> QED BY <1>1
    <3>2. k + 1 \in 1..n /\ (k + 1) - 1 = k
      <4> HIDE DEF left
      <4> QED BY <1>1
    <3>3. after[k + 1] = Contribute(after[k], field, left[k + 1])
      <4> HIDE DEF left
      <4> QED BY <1>2, <3>2
    <3>4. left[k + 1] \in Range(left) /\ left[k + 1] \in Range(rules)
      <4> HIDE DEF left
      <4> QED BY <1>1, <3>2
    <3> QED BY <3>1, <3>3, <3>4, ContributeKeeps
  <2>3. \A k \in Nat : k \in T
    <3> HIDE DEF T
    <3> QED BY ONLY <2>1, <2>2, NatInd
  <2>4. Good(n)
    <3> HIDE DEF Good, left
    <3> QED BY <1>1, <2>3
  <2> QED BY <2>4
<1> HIDE DEF left
<1>6. WellMapped(MapField(m, field, left, mode), rules, row)
  BY <1>2, <1>4, <1>5
<1> QED BY <1>6 DEF left

LEMMA MapFieldsKeeps ==
    ASSUME NEW X, NEW rules \in Seq(X), NEW row, NEW mode
    PROVE  WellMapped(MapFields(Selected(rules, row), row, mode), rules, row)
<1> DEFINE n == Len(FieldOrder)
<1>0. n \in Nat /\ \A k \in 1..n : FieldOrder[k] \in Range(FieldOrder)
  BY FieldAssumption, SeqRange
<1>1. PICK after :
        /\ after[0] = EmptyMapped(row)
        /\ \A k \in 1..n :
              after[k] = MapField(after[k - 1], FieldOrder[k],
                                  Competing(Selected(rules, row), row, FieldOrder[k]), mode)
        /\ MapFields(Selected(rules, row), row, mode) = after[n]
  BY FieldLoop
<1> HIDE DEF n
<1> DEFINE Good(k) == WellMapped(after[k], rules, row)
           T == {k \in Nat : k <= n => Good(k)}
<1>2. 0 \in T
  <2>1. WellMapped(EmptyMapped(row), rules, row)
    BY DEF EmptyMapped, WellMapped, MappedFields
  <2> QED BY <1>1, <2>1
<1>3. \A k \in Nat : k \in T => k + 1 \in T
  <2> SUFFICES ASSUME NEW k \in Nat, k \in T, k + 1 <= n PROVE Good(k + 1)
    <3> HIDE DEF Good
    <3> QED OBVIOUS
  <2>1. Good(k)
    <3> HIDE DEF Good
    <3> QED BY <1>0
  <2>2. k + 1 \in 1..n /\ (k + 1) - 1 = k
    BY <1>0
  <2> DEFINE f == FieldOrder[k + 1]
  <2>3. f \in Range(FieldOrder)
    BY <1>0, <2>2
  <2>4. after[k + 1] = MapField(after[k], f, Competing(Selected(rules, row), row, f), mode)
    BY <1>1, <2>2
  <2> HIDE DEF f
  <2> QED BY <2>1, <2>3, <2>4, MapFieldKeeps
<1>4. \A k \in Nat : k \in T
  <2> HIDE DEF T
  <2> QED BY ONLY <1>2, <1>3, NatInd
<1>5. Good(n)
  <2> HIDE DEF Good
  <2> QED BY <1>0, <1>4
<1> QED BY <1>1, <1>5

LEMMA MapRowIs ==
    ASSUME NEW X, NEW rules \in Seq(X), NEW row, NEW mode
    PROVE  /\ WellMapped(mapRow(rules, row, mode), rules, row)
           /\ row.kind # "transaction" => mapRow(rules, row, mode) = EmptyMapped(row)
<1> DEFINE m == MapFields(Selected(rules, row), row, mode)
<1>1. WellMapped(m, rules, row)
  BY MapFieldsKeeps
<1>2. mapRow(rules, row, mode) = IF row.kind # "transaction" THEN EmptyMapped(row)
         ELSE IF m.err # "" THEN m
         ELSE IF RoutesTwice(m) THEN [m EXCEPT !.err = "total"]
         ELSE IF m.key = NoKey THEN [m EXCEPT !.err = "no key"]
         ELSE m
  BY DEF mapRow
<1> HIDE DEF m
<1>3. WellMapped(EmptyMapped(row), rules, row)
  BY DEF EmptyMapped, WellMapped, MappedFields
<1>4. ASSUME NEW why, why # "" PROVE WellMapped([m EXCEPT !.err = why], rules, row)
  BY <1>1, <1>4 DEF WellMapped, MappedFields
<1> QED BY <1>1, <1>2, <1>3, <1>4

-----------------------------------------------------------------------------
\* The rows of a run and what mapping makes of them.  The run is an argument, because
\* no step changes it.

Count(run, s) == Len(run.rows[s])

RowAt(run, s, o) == run.rows[s][o]

MappedAt(run, s, o) == mapRow(run.rules[s], RowAt(run, s, o), run.mode)

\* What a mapped row adds to a summary field.
RowSum(m, t) ==
    SumFunctionOnSet([i \in 1..Len(m.contribs) |-> Adds(m.contribs[i], t)], 1..Len(m.contribs))

\* The classified rows of the files, numbered, with amounts in range.
GoodRow(r, s, o) ==
    /\ DOMAIN r = RowFields
    /\ r.src = s /\ r.ord = o /\ r.amount \in Int64
    /\ \A c \in DOMAIN r.comp : r.comp[c] \in Int64
    /\ r.scope = ScopeOf(r)

GoodRun(run) ==
    /\ run.mode \in {StrictMode, DiagnosticMode}
    /\ \A s \in Source :
          /\ run.rules[s] \in Seq(Range(run.rules[s]))
          /\ run.rows[s] \in Seq(Range(run.rows[s]))
          /\ Count(run, s) \in Nat
          /\ \A o \in 1..Count(run, s) : GoodRow(RowAt(run, s, o), s, o)

LEMMA ClassifyGood ==
    ASSUME NEW s \in Source, NEW rows, rows \in Seq(Range(rows)),
           \A k \in DOMAIN rows :
              /\ DOMAIN rows[k] = RowFields
              /\ rows[k].src = s /\ rows[k].ord = k /\ rows[k].amount \in Int64
              /\ \A c \in DOMAIN rows[k].comp : rows[k].comp[c] \in Int64
    PROVE  /\ Classify(rows) \in Seq(Range(Classify(rows))) /\ Len(Classify(rows)) \in Nat
           /\ \A k \in 1..Len(Classify(rows)) : GoodRow(Classify(rows)[k], s, k)
<1> DEFINE out == Classify(rows)
           n == Len(rows)
<1>1. n \in Nat /\ DOMAIN rows = 1..n
  BY SeqRange
<1>2. out = [k \in 1..n |-> [rows[k] EXCEPT !.scope = ScopeOf(rows[k])]]
  BY <1>1 DEF Classify
<1> HIDE DEF out
<1>3. DOMAIN out = 1..n /\ out \in [1..n -> Range(out)]
  BY <1>2 DEF Range
<1>4. out \in Seq(Range(out)) /\ Len(out) = n
  BY ONLY <1>1, <1>3, FcnIsSeq
<1>5. ASSUME NEW k \in 1..n PROVE GoodRow(out[k], s, k)
  <2> DEFINE r == rows[k]
  <2>1. /\ DOMAIN r = RowFields /\ r.src = s /\ r.ord = k /\ r.amount \in Int64
        /\ \A c \in DOMAIN r.comp : r.comp[c] \in Int64
    BY <1>1
  <2>2. out[k] = [r EXCEPT !.scope = ScopeOf(r)]
    BY <1>2
  <2> HIDE DEF r
  <2>3. /\ DOMAIN out[k] = RowFields /\ out[k].src = s /\ out[k].ord = k /\ out[k].amount = r.amount
        /\ out[k].comp = r.comp /\ out[k].kind = r.kind /\ out[k].sid = r.sid
        /\ out[k].status = r.status /\ out[k].scope = ScopeOf(r)
    BY <2>1, <2>2 DEF RowFields
  <2>4. ScopeOf(out[k]) = ScopeOf(r)
    BY <2>1, <2>3 DEF ScopeOf
  <2> QED BY <2>1, <2>3, <2>4 DEF GoodRow
<1> QED BY <1>1, <1>4, <1>5 DEF out

\* The run that Init starts.
LEMMA InitRun == Init => GoodRun(input)
<1> SUFFICES ASSUME Init PROVE GoodRun(input)
  OBVIOUS
<1>1. PICK i \in Inputs : input = [i EXCEPT !.rows = [s \in Source |-> Classify(i.rows[s])]]
  BY DEF Init
<1>2. /\ DOMAIN i = {"mode", "rules", "rows"} /\ i.mode \in {StrictMode, DiagnosticMode}
      /\ \A s \in Source :
            /\ i.rules[s] \in Seq(Range(i.rules[s]))
            /\ i.rows[s] \in Seq(Range(i.rows[s]))
            /\ \A k \in DOMAIN i.rows[s] :
                  /\ DOMAIN i.rows[s][k] = RowFields
                  /\ i.rows[s][k].src = s /\ i.rows[s][k].ord = k /\ i.rows[s][k].amount \in Int64
                  /\ \A c \in DOMAIN i.rows[s][k].comp : i.rows[s][k].comp[c] \in Int64
  BY ONLY InputAssumption, i \in Inputs
<1>3. /\ input.mode = i.mode /\ input.rules = i.rules
      /\ \A s \in Source : input.rows[s] = Classify(i.rows[s])
  BY ONLY <1>1, <1>2
<1>4. ASSUME NEW s \in Source
      PROVE  /\ Classify(i.rows[s]) \in Seq(Range(Classify(i.rows[s])))
             /\ Len(Classify(i.rows[s])) \in Nat
             /\ \A k \in 1..Len(Classify(i.rows[s])) : GoodRow(Classify(i.rows[s])[k], s, k)
  <2> DEFINE rows == i.rows[s]
  <2>1. /\ rows \in Seq(Range(rows))
        /\ \A k \in DOMAIN rows :
              /\ DOMAIN rows[k] = RowFields
              /\ rows[k].src = s /\ rows[k].ord = k /\ rows[k].amount \in Int64
              /\ \A c \in DOMAIN rows[k].comp : rows[k].comp[c] \in Int64
    BY ONLY <1>2, s \in Source
  <2> HIDE DEF rows
  <2>2. /\ Classify(rows) \in Seq(Range(Classify(rows))) /\ Len(Classify(rows)) \in Nat
        /\ \A k \in 1..Len(Classify(rows)) : GoodRow(Classify(rows)[k], s, k)
    BY ONLY <2>1, s \in Source, ClassifyGood
  <2> QED BY ONLY <2>2 DEF rows
<1>5. ASSUME NEW s \in Source
      PROVE  /\ input.rules[s] \in Seq(Range(input.rules[s]))
             /\ input.rows[s] \in Seq(Range(input.rows[s]))
             /\ Len(input.rows[s]) \in Nat
             /\ \A o \in 1..Len(input.rows[s]) : GoodRow(input.rows[s][o], s, o)
  <2>1. input.rows[s] = Classify(i.rows[s]) /\ input.rules[s] = i.rules[s]
    BY <1>3
  <2>2. i.rules[s] \in Seq(Range(i.rules[s]))
    BY <1>2
  <2> QED BY ONLY <1>4, <2>1, <2>2, s \in Source, Zenon
<1> QED BY ONLY <1>2, <1>3, <1>5, Zenon DEF GoodRun, Count, RowAt

LEMMA RowsOfRun ==
    ASSUME NEW run, GoodRun(run), NEW s \in Source
    PROVE  Count(run, s) \in Nat /\ \A o \in 1..Count(run, s) : GoodRow(RowAt(run, s, o), s, o)
BY Zenon DEF GoodRun

\* A row in scope is a transaction of the selected settlement.
LEMMA InScopeIs ==
    ASSUME NEW r, NEW s, NEW o, GoodRow(r, s, o), r.scope = "IN_SCOPE"
    PROVE  r.kind = "transaction"
BY DEF GoodRow, ScopeOf

\* What mapping makes of a row: its contributions have amounts in range and, under usable
\* rules, known summary fields; a row that is not a transaction contributes nothing.
SoundMapping(m, run, s, o) ==
    /\ m.row = RowAt(run, s, o)
    /\ DOMAIN m.contribs = 1..Len(m.contribs) /\ Len(m.contribs) \in Nat
    /\ \A i \in 1..Len(m.contribs) :
          /\ m.contribs[i] \in Possible(run.rules[s], RowAt(run, s, o))
          /\ m.contribs[i].amount \in Int64
          /\ RulesUsable(run.rules[s], Target) => m.contribs[i].target \in Target \cup {""}
          /\ m.err = "" => m.contribs[i].key = m.key
    /\ m.row.kind # "transaction" => Len(m.contribs) = 0 /\ m.err = ""

LEMMA MappedAtIs ==
    ASSUME NEW run, GoodRun(run), NEW s \in Source, NEW o \in 1..Count(run, s)
    PROVE  SoundMapping(MappedAt(run, s, o), run, s, o)
<1> DEFINE rules == run.rules[s]
           row == RowAt(run, s, o)
           P == Possible(rules, row)
           m == MappedAt(run, s, o)
           l == m.contribs
<1>1. rules \in Seq(Range(rules)) /\ GoodRow(row, s, o)
  BY DEF GoodRun
<1>2. m = mapRow(rules, row, run.mode)
  BY DEF MappedAt
<1>3. WellMapped(m, rules, row) /\ (row.kind # "transaction" => m = EmptyMapped(row))
  <2> HIDE DEF rules, row
  <2> QED BY ONLY <1>1, <1>2, MapRowIs
<1>4. m.row = row /\ l \in Seq(P) /\ (m.err = "" => \A i \in 1..Len(l) : l[i].key = m.key)
  BY <1>3 DEF WellMapped
<1>5. DOMAIN l = 1..Len(l) /\ Len(l) \in Nat /\ \A i \in 1..Len(l) : l[i] \in P
  <2>1. l \in Seq(P)
    BY <1>4
  <2> HIDE DEF l, P
  <2> QED BY ONLY <2>1, SeqIs
<1>6. ASSUME NEW c \in P
      PROVE  c.amount \in Int64 /\ (RulesUsable(rules, Target) => c.target \in Target \cup {""})
  <2>1. /\ c.rule \in Range(rules) /\ c.amount = amountFor(row, c.field) /\ c.amount # NoAmount
        /\ c.target \in {c.rule.pos, c.rule.neg}
    BY PossibleIs
  <2> HIDE DEF P, rules, row
  <2>2. c.amount \in Int64
    BY <1>1, <2>1, Int64Type DEF GoodRow, amountFor
  <2>3. RulesUsable(rules, Target) => c.target \in Target \cup {""}
    BY <2>1 DEF RulesUsable
  <2> QED BY <2>2, <2>3
<1>7. row.kind # "transaction" => l = <<>> /\ m.err = ""
  <2>1. EmptyMapped(row).contribs = <<>> /\ EmptyMapped(row).err = ""
    BY DEF EmptyMapped
  <2> HIDE DEF row
  <2> QED BY ONLY <1>3, <2>1, Zenon DEF l
<1>8. row.kind # "transaction" => Len(l) = 0 /\ m.err = ""
  <2> HIDE DEF l, row
  <2> QED BY ONLY <1>7, EmptySeqIs, Zenon
<1> HIDE DEF l, row, P, rules
<1>9. \A i \in 1..Len(l) :
         /\ l[i] \in P
         /\ l[i].amount \in Int64
         /\ RulesUsable(rules, Target) => l[i].target \in Target \cup {""}
         /\ m.err = "" => l[i].key = m.key
  BY ONLY <1>4, <1>5, <1>6
<1> QED BY ONLY <1>4, <1>5, <1>8, <1>9, Zenon DEF l, row, P, rules, SoundMapping

\* The mapped rows of a source after its first n rows.
Prefix(run, s, n) == [o \in 1..n |-> MappedAt(run, s, o)]

LEMMA PrefixIs ==
    ASSUME NEW run, NEW s, NEW n \in Nat
    PROVE  /\ Len(Prefix(run, s, n)) = n /\ DOMAIN Prefix(run, s, n) = 1..n
           /\ \A o \in 1..n : Prefix(run, s, n)[o] = MappedAt(run, s, o)
           /\ Append(Prefix(run, s, n), MappedAt(run, s, n + 1)) = Prefix(run, s, n + 1)
<1> DEFINE X == {MappedAt(run, s, o) : o \in 1..(n + 1)}
           p == Prefix(run, s, n)
           q == Prefix(run, s, n + 1)
           x == MappedAt(run, s, n + 1)
           a == Append(p, x)
<1>1. p \in [1..n -> X] /\ \A o \in 1..n : p[o] = MappedAt(run, s, o)
  BY DEF Prefix
<1>2. q \in [1..(n + 1) -> X] /\ \A o \in 1..(n + 1) : q[o] = MappedAt(run, s, o)
  BY DEF Prefix
<1>3. x \in X /\ n + 1 \in Nat
  OBVIOUS
<1>e. \A o \in 1..n : o \in 1..(n + 1)
  OBVIOUS
<1>f. q[n + 1] = x
  BY <1>2
<1> HIDE DEF p, q, X, x
<1>4. p \in Seq(X) /\ Len(p) = n /\ q \in Seq(X) /\ Len(q) = n + 1
  BY <1>1, <1>2, <1>3, FcnIsSeq
<1>5. /\ a \in Seq(X) /\ Len(a) = n + 1 /\ a[n + 1] = x /\ \A i \in 1..n : a[i] = p[i]
      /\ \A i \in 1..(n + 1) : i = n + 1 \/ i \in 1..n
  BY <1>3, <1>4, AppendIs
<1>6. \A i \in 1..(n + 1) : a[i] = q[i]
  BY <1>1, <1>2, <1>5, <1>e, <1>f
<1> HIDE DEF a
<1>7. a = q
  BY ONLY <1>4, <1>5, <1>6, n \in Nat, SeqEqual
<1> QED BY <1>1, <1>4, <1>7 DEF p, q, x, a

\* A bucket after one more mapped row: the sum, when none of the additions overflowed.
LEMMA AccumulatedIs ==
    ASSUME NEW l, DOMAIN l = 1..Len(l), Len(l) \in Nat, \A i \in 1..Len(l) : l[i].amount \in Int64,
           NEW m, m.contribs = l, NEW b, NEW t \in Target, b[t] \in Int64
    PROVE  /\ RowSum(m, t) \in Int
           /\ Accumulated(b, l)[t] # Overflow =>
                 Accumulated(b, l)[t] \in Int64 /\ Accumulated(b, l)[t] = b[t] + RowSum(m, t)
<1> DEFINE n == Len(l)
           w == [i \in 1..n |-> Adds(l[i], t)]
<1>1. n \in Nat /\ \A i \in 1..n : Adds(l[i], t) \in Int64
  BY Int64Type DEF Adds
<1>2. Accumulated(b, l)[t] = AddAll(b[t], w)
  BY DEF Accumulated
<1>3. RowSum(m, t) = SumFunctionOnSet(w, 1..n)
  BY DEF RowSum
<1> HIDE DEF n
<1>4. w \in [1..n -> Int64] /\ \A i \in 1..n : w[i] \in Int64
  BY <1>1
<1> HIDE DEF w
<1>5. Len(w) = n
  BY ONLY <1>1, <1>4, FcnIsSeq
<1>6. SumFunctionOnSet(w, 1..n) \in Int
  <2>1. IsFiniteSet(1..n) /\ \A i \in 1..n : w[i] \in Int
    BY <1>1, <1>4, UpToFinite, Int64Type
  <2> QED BY <2>1, SumType
<1>7. AddAll(b[t], w) # Overflow =>
         AddAll(b[t], w) \in Int64 /\ AddAll(b[t], w) = b[t] + SumFunctionOnSet(w, 1..n)
  <2>1. /\ b[t] \in Int64 /\ Len(w) \in Nat /\ \A k \in 1..Len(w) : w[k] \in Int64
        /\ 1..n = 1..Len(w)
    BY <1>1, <1>4, <1>5
  <2> QED BY ONLY <2>1, <1>5, AddAllIs
<1> QED BY <1>2, <1>3, <1>6, <1>7

-----------------------------------------------------------------------------
\* The mapping stages.

\* The stages behind mapping.
Later == {"group", "header", "report", "persist", "register", "reported"}

\* How many rows of a source are mapped.
Got(seqs, s) == Len(seqs[s])

\* mapped holds what mapRow makes of the first rows of each source, in order, and strict
\* mode goes on after rows without an error only.
MapInv ==
    /\ GoodRun(input)
    /\ DOMAIN mapped = Source
    /\ \A s \in Source :
          /\ Got(mapped, s) \in Nat /\ Got(mapped, s) <= Count(input, s)
          /\ mapped[s] = Prefix(input, s, Got(mapped, s))
          /\ Strict => \A o \in 1..Got(mapped, s) : MappedAt(input, s, o).err = ""
          /\ Got(mapped, s) > 0 => RulesUsable(input.rules[s], Target)

\* How far mapping is at each stage.
PlaceInv ==
    /\ pc \in Source \cup Later \cup {"failed"}
    /\ next \in Nat \ {0}
    /\ pc = Payment => Got(mapped, Payment) = next - 1 /\ Got(mapped, Settlement) = 0
    /\ pc = Settlement => Got(mapped, Payment) = Count(input, Payment) /\ Got(mapped, Settlement) = next - 1
    /\ pc \in Later => \A s \in Source : Got(mapped, s) = Count(input, s)

\* A step that maps a row.
MapsRow ==
    /\ pc \in Source /\ pc' = pc /\ next' = next + 1 /\ input' = input
    /\ next <= Count(input, pc)
    /\ RulesUsable(input.rules[pc], Target)
    /\ Strict => MappedAt(input, pc, next).err = ""
    /\ mapped' = [mapped EXCEPT ![pc] = Append(@, MappedAt(input, pc, next))]

\* A step that does not.
MapsNothing ==
    /\ input' = input /\ mapped' = mapped /\ summary' = summary
    /\ \/ pc' = pc /\ next' = next
       \/ pc' = "failed" /\ next' = next
       \/ MapDone
       \/ pc \in Later /\ pc' \in Later /\ next' \in Nat \ {0}

LEMMA WriteReportIs ==
    ASSUME WriteReport
    PROVE  /\ pc = "report"
           /\ \/ Fail("write report")
              \/ Fail("verify report")
              \/ /\ Goto("persist") /\ UNCHANGED <<input, mapped, summary, issues, groups, db, failure>>
                 /\ \E order \in SetToSeqs(Target) : Writable(order) /\ (Strict => Verifies(order))
BY Zenon DEF WriteReport

LEMMA MapKinds ==
    ASSUME next \in Nat \ {0}, [Next]_vars
    PROVE  (MapsRow /\ (MapRow \/ MapRowDiagnosticError)) \/ MapsNothing
<1>1. CASE MapRow
  <2>1. \/ Fail("overflow")
        \/ /\ mapped' = [mapped EXCEPT ![pc] = Append(@, Mapped)]
           /\ next' = next + 1 /\ UNCHANGED <<input, pc>>
    BY <1>1 DEF MapRow
  <2>2. InMap /\ next <= Len(input.rows[pc]) /\ Mapped.err = ""
    BY <1>1 DEF MapRow
  <2>3. CASE Fail("overflow")
    BY <2>3 DEF Fail, MapsNothing
  <2> QED BY <1>1, <2>1, <2>2, <2>3 DEF MapsRow, InMap, Mapped, MappedAt, RowAt, Count
<1>2. CASE MapRowDiagnosticError
  BY <1>2 DEF MapRowDiagnosticError, MapsRow, InMap, Mapped, MappedAt, RowAt, Count
<1>3. CASE MapDone
  BY <1>3 DEF MapDone, MapsNothing
<1>4. CASE GroupRow
  BY <1>4 DEF GroupRow, Fail, MapsNothing, Later
<1>5. CASE GroupDone \/ CheckHeader \/ Persist \/ RegisterReport
  BY <1>5 DEF GroupDone, CheckHeader, Persist, RegisterReport, Goto, MapsNothing, Later
<1>6. CASE WriteReport
  <2>1. /\ pc = "report"
        /\ \/ Fail("write report")
           \/ Fail("verify report")
           \/ Goto("persist") /\ UNCHANGED <<input, mapped, summary, issues, groups, db, failure>>
    BY <1>6, WriteReportIs, Zenon
  <2>2. ASSUME NEW why, Fail(why) PROVE MapsNothing
    BY <2>2 DEF Fail, MapsNothing
  <2>3. ASSUME Goto("persist"), UNCHANGED <<input, mapped, summary, issues, groups, db, failure>>
        PROVE  MapsNothing
    BY <2>1, <2>3 DEF Goto, MapsNothing, Later
  <2> QED BY <2>1, <2>2, <2>3
<1>7. CASE RejectRules \/ MapRowStrictError \/ HeaderDiffers \/ GateRefuses \/ DuplicateMapping
  BY <1>7 DEF RejectRules, MapRowStrictError, HeaderDiffers, GateRefuses, DuplicateMapping, Fail, MapsNothing
<1>8. CASE UNCHANGED vars
  BY <1>8 DEF vars, MapsNothing
<1> QED BY <1>1, <1>2, <1>3, <1>4, <1>5, <1>6, <1>7, <1>8 DEF Next

LEMMA NextRow ==
    ASSUME MapInv, PlaceInv, MapsRow
    PROVE  pc \in Source /\ next \in 1..Count(input, pc)
<1>1. pc \in Source /\ next <= Count(input, pc) /\ next \in Nat \ {0} /\ GoodRun(input)
  BY DEF MapsRow, PlaceInv, MapInv
<1>2. Count(input, pc) \in Nat
  BY <1>1, RowsOfRun
<1> QED BY <1>1, <1>2

\* One more row of a source.
LEMMA OneMore ==
    ASSUME MapInv, PlaceInv, MapsRow
    PROVE  /\ Got(mapped, pc) = next - 1 /\ Got(mapped', pc) = next
           /\ mapped'[pc] = Prefix(input, pc, next)
           /\ \A s \in Source : s # pc => mapped'[s] = mapped[s] /\ Got(mapped', s) = Got(mapped, s)
           /\ DOMAIN mapped' = Source
<1>1. pc \in Source /\ pc \in DOMAIN mapped /\ DOMAIN mapped = Source
  BY DEF MapInv, MapsRow
<1>2. Got(mapped, pc) = next - 1 /\ next \in Nat \ {0}
  BY <1>1 DEF PlaceInv, Source
<1>3. mapped[pc] = Prefix(input, pc, next - 1)
  BY <1>1, <1>2 DEF MapInv
<1> DEFINE x == MappedAt(input, pc, next)
<1>4. mapped' = [mapped EXCEPT ![pc] = Append(@, x)]
  BY DEF MapsRow
<1>5. mapped'[pc] = Append(Prefix(input, pc, next - 1), x)
  BY <1>1, <1>3, <1>4
<1>6. next - 1 \in Nat /\ (next - 1) + 1 = next
  BY <1>2
<1>7. mapped'[pc] = Prefix(input, pc, next)
  <2> DEFINE k == next - 1
  <2>1. k \in Nat /\ k + 1 = next
    BY <1>6
  <2>2. mapped'[pc] = Append(Prefix(input, pc, k), MappedAt(input, pc, k + 1))
    BY <1>5, <2>1
  <2> HIDE DEF k, x
  <2> QED BY ONLY <2>1, <2>2, PrefixIs
<1>8. Len(mapped'[pc]) = next
  BY ONLY <1>2, <1>7, PrefixIs
<1>9. \A s \in Source : s # pc => mapped'[s] = mapped[s]
  BY <1>1, <1>4
<1>10. DOMAIN mapped' = Source
  BY <1>1, <1>4
<1> QED BY <1>2, <1>7, <1>8, <1>9, <1>10 DEF Got

LEMMA MapInvStep ==
    ASSUME MapInv, PlaceInv, [Next]_vars
    PROVE  MapInv' /\ PlaceInv'
<1>0. next \in Nat \ {0}
  BY DEF PlaceInv
<1>1. CASE MapsRow
  <2>1. /\ Got(mapped, pc) = next - 1 /\ Got(mapped', pc) = next
        /\ mapped'[pc] = Prefix(input, pc, next)
        /\ \A s \in Source : s # pc => mapped'[s] = mapped[s] /\ Got(mapped', s) = Got(mapped, s)
        /\ DOMAIN mapped' = Source
    BY <1>1, OneMore
  <2>2. /\ pc \in Source /\ pc' = pc /\ next' = next + 1 /\ input' = input
        /\ next <= Count(input, pc)
        /\ RulesUsable(input.rules[pc], Target)
        /\ Strict => MappedAt(input, pc, next).err = ""
    BY <1>1 DEF MapsRow
  <2>3. ASSUME NEW s \in Source
        PROVE  /\ Got(mapped', s) \in Nat /\ Got(mapped', s) <= Count(input, s)
               /\ mapped'[s] = Prefix(input, s, Got(mapped', s))
               /\ Strict => \A o \in 1..Got(mapped', s) : MappedAt(input, s, o).err = ""
               /\ Got(mapped', s) > 0 => RulesUsable(input.rules[s], Target)
    <3>1. CASE s = pc
      <4>1. \A o \in 1..next : o = next \/ o \in 1..(next - 1)
        BY <1>0
      <4>2. Strict => \A o \in 1..next : MappedAt(input, pc, o).err = ""
        BY <2>1, <2>2, <4>1 DEF MapInv
      <4> QED BY <1>0, <2>1, <2>2, <3>1, <4>2
    <3>2. CASE s # pc
      BY <2>1, <3>2 DEF MapInv
    <3> QED BY <3>1, <3>2
  <2>4. MapInv'
    BY <2>1, <2>2, <2>3 DEF MapInv, Strict
  <2>5. PlaceInv'
    <3>1. next' \in Nat \ {0} /\ next' - 1 = next /\ pc' \notin Later
      <4>1. next' = next + 1 /\ pc' \in Source
        BY <2>2
      <4>2. next' \in Nat \ {0} /\ next' - 1 = next
        BY ONLY <1>0, <4>1
      <4>3. pc' \notin Later
        BY ONLY <4>1 DEF Source, Later, Payment, Settlement
      <4> QED BY <4>2, <4>3
    <3>2. CASE pc = Payment
      <4>1. Settlement # pc /\ Settlement \in Source /\ pc' # Settlement
        BY <2>2, <3>2 DEF Source, Payment, Settlement
      <4>2. Got(mapped', Settlement) = 0 /\ Got(mapped', Payment) = next
        BY <2>1, <3>2, <4>1 DEF PlaceInv
      <4> QED BY <2>2, <3>1, <3>2, <4>1, <4>2 DEF PlaceInv
    <3>3. CASE pc = Settlement
      <4>1. Payment # pc /\ Payment \in Source /\ pc' # Payment
        BY <2>2, <3>3 DEF Source, Payment, Settlement
      <4>2. Got(mapped', Payment) = Count(input, Payment) /\ Got(mapped', Settlement) = next
        BY <2>1, <3>3, <4>1 DEF PlaceInv
      <4> QED BY <2>2, <3>1, <3>3, <4>1, <4>2 DEF PlaceInv
    <3> QED BY <2>2, <3>2, <3>3 DEF Source
  <2> QED BY <2>4, <2>5
<1>2. CASE MapsNothing
  <2>1. MapInv'
    BY <1>2 DEF MapsNothing, MapInv, Strict
  <2> SUFFICES PlaceInv'
    BY <2>1
  <2>2. CASE pc' = pc /\ next' = next
    BY <1>2, <2>2 DEF MapsNothing, PlaceInv
  <2>3. CASE pc' = "failed" /\ next' = next
    BY <1>2, <2>3 DEF MapsNothing, PlaceInv, Source, Later, Payment, Settlement
  <2>4. CASE MapDone
    <3>1. /\ pc \in Source /\ next > Count(input, pc) /\ next' = 1
          /\ pc' = IF pc = Payment THEN Settlement ELSE "group"
          /\ mapped' = mapped /\ input' = input
      BY <2>4 DEF MapDone, InMap, Goto, Count
    <3>2. Got(mapped, pc) <= Count(input, pc) /\ Got(mapped, pc) = next - 1 /\ Count(input, pc) \in Nat
      BY <3>1 DEF PlaceInv, MapInv, GoodRun, Source
    <3>3. Got(mapped, pc) = Count(input, pc)
      BY <1>0, <3>1, <3>2
    <3>4. CASE pc = Payment
      <4>1. pc' = Settlement /\ Got(mapped, Settlement) = 0
        BY <3>1, <3>4 DEF PlaceInv
      <4> QED BY <3>1, <3>3, <3>4, <4>1 DEF PlaceInv, Source, Later, Payment, Settlement
    <3>5. CASE pc = Settlement
      <4>1. pc' = "group" /\ \A s \in Source : Got(mapped, s) = Count(input, s)
        BY <3>1, <3>3, <3>5 DEF PlaceInv, Source, Payment, Settlement
      <4> QED BY <3>1, <4>1 DEF PlaceInv, Source, Later, Payment, Settlement
    <3> QED BY <3>1, <3>4, <3>5 DEF Source
  <2>5. CASE pc \in Later /\ pc' \in Later /\ next' \in Nat \ {0}
    BY <1>2, <2>5 DEF MapsNothing, PlaceInv, Source, Later, Payment, Settlement
  <2> QED BY <1>2, <2>2, <2>3, <2>4, <2>5 DEF MapsNothing
<1> QED BY <1>0, <1>1, <1>2, MapKinds

-----------------------------------------------------------------------------
\* The summary.

\* What each row of a source adds to a summary field.
Counted(run, s, t) ==
    [o \in 1..Count(run, s) |->
        IF MappedAt(run, s, o).err = "" /\ RowAt(run, s, o).scope = "IN_SCOPE"
        THEN RowSum(MappedAt(run, s, o), t)
        ELSE 0]

\* The totals are exact sums over the rows mapped so far, and fit in an int64.
SummaryInv ==
    /\ summary \in [Target -> [Source -> Int64]]
    /\ \A t \in Target, s \in Source :
          summary[t][s] = SumFunctionOnSet(Counted(input, s, t), 1..Got(mapped, s))

LEMMA RowSumType ==
    ASSUME NEW run, GoodRun(run), NEW s \in Source, NEW o \in 1..Count(run, s), NEW t \in Target
    PROVE  RowSum(MappedAt(run, s, o), t) \in Int
<1> DEFINE m == MappedAt(run, s, o)
           l == m.contribs
           b == [x \in Target |-> 0]
<1>1. DOMAIN l = 1..Len(l) /\ Len(l) \in Nat /\ \A i \in 1..Len(l) : l[i].amount \in Int64
  <2>1. SoundMapping(m, run, s, o)
    BY MappedAtIs
  <2> HIDE DEF m
  <2> QED BY ONLY <2>1, Zenon DEF SoundMapping
<1>2. b[t] \in Int64 /\ m.contribs = l
  BY Int64Type
<1> HIDE DEF m, l, b
<1> QED BY ONLY <1>1, <1>2, t \in Target, AccumulatedIs DEF m

LEMMA CountedIs ==
    ASSUME NEW run, GoodRun(run), NEW s \in Source, NEW t \in Target
    PROVE  /\ Count(run, s) \in Nat
           /\ \A o \in 1..Count(run, s) : Counted(run, s, t)[o] \in Int
<1>1. Count(run, s) \in Nat
  BY RowsOfRun
<1>2. \A o \in 1..Count(run, s) : RowSum(MappedAt(run, s, o), t) \in Int
  BY RowSumType
<1>3. ASSUME NEW o \in 1..Count(run, s) PROVE Counted(run, s, t)[o] \in Int
  <2> DEFINE x == RowSum(MappedAt(run, s, o), t)
  <2>1. x \in Int
    BY <1>2
  <2>2. Counted(run, s, t)[o] \in {x, 0}
    BY DEF Counted
  <2> HIDE DEF x
  <2> QED BY <2>1, <2>2
<1> QED BY <1>1, <1>3

\* The sum over one more row.
LEMMA CountedNext ==
    ASSUME NEW run, GoodRun(run), NEW s \in Source, NEW t \in Target, NEW k \in Nat \ {0},
           k <= Count(run, s)
    PROVE  SumFunctionOnSet(Counted(run, s, t), 1..k)
             = SumFunctionOnSet(Counted(run, s, t), 1..(k - 1)) + Counted(run, s, t)[k]
<1> DEFINE f == Counted(run, s, t)
           n == k - 1
<1>1. Count(run, s) \in Nat /\ \A o \in 1..Count(run, s) : f[o] \in Int
  BY CountedIs
<1>2. n \in Nat /\ n + 1 = k
  OBVIOUS
<1>3. \A i \in 1..(n + 1) : f[i] \in Int
  BY <1>1, <1>2
<1> HIDE DEF f, n
<1>4. SumFunctionOnSet(f, 1..(n + 1)) = SumFunctionOnSet(f, 1..n) + f[n + 1]
  BY <1>2, <1>3, SumNext
<1>5. SumFunctionOnSet(f, 1..k) = SumFunctionOnSet(f, 1..n) + f[k]
  BY <1>2, <1>4
<1> QED BY <1>5 DEF f, n

LEMMA SummaryStep ==
    ASSUME MapInv, PlaceInv, SummaryInv, MapsRow,
           \A t \in Target : summary'[t] = [summary[t] EXCEPT ![pc] = summary'[t][pc]],
           \A t \in Target : /\ summary'[t][pc] \in Int64
                             /\ summary'[t][pc] = summary[t][pc] + Counted(input, pc, t)[next],
           summary' = [t \in Target |-> summary'[t]]
    PROVE  SummaryInv'
<1>1. /\ pc \in Source /\ input' = input /\ next <= Count(input, pc) /\ GoodRun(input)
      /\ next \in Nat \ {0}
  BY DEF MapsRow, MapInv, PlaceInv
<1>2. /\ Got(mapped, pc) = next - 1 /\ Got(mapped', pc) = next
      /\ \A s \in Source : s # pc => Got(mapped', s) = Got(mapped, s)
  BY OneMore
<1>3. ASSUME NEW t \in Target, NEW s \in Source
      PROVE  /\ summary'[t][s] \in Int64
             /\ summary'[t][s] = SumFunctionOnSet(Counted(input, s, t), 1..Got(mapped', s))
  <2>1. summary[t] \in [Source -> Int64]
    BY DEF SummaryInv
  <2>2. CASE s = pc
    <3>1. summary[t][pc] = SumFunctionOnSet(Counted(input, pc, t), 1..(next - 1))
      BY <1>1, <1>2 DEF SummaryInv
    <3>2. SumFunctionOnSet(Counted(input, pc, t), 1..next)
            = SumFunctionOnSet(Counted(input, pc, t), 1..(next - 1)) + Counted(input, pc, t)[next]
      BY <1>1, CountedNext
    <3> QED BY <1>2, <2>2, <3>1, <3>2
  <2>3. CASE s # pc
    <3>1. summary'[t][s] = summary[t][s]
      BY <2>1, <2>3
    <3> QED BY <1>2, <2>1, <2>3, <3>1 DEF SummaryInv
  <2> QED BY <2>2, <2>3
<1>4. \A t \in Target : DOMAIN summary'[t] = Source /\ summary'[t] = [s \in Source |-> summary'[t][s]]
  BY DEF SummaryInv
<1>5. \A t \in Target : summary'[t] \in [Source -> Int64]
  BY <1>3, <1>4
<1>6. summary' \in [Target -> [Source -> Int64]]
  BY <1>5
<1> QED BY <1>1, <1>3, <1>6 DEF SummaryInv

LEMMA SummaryInvStep ==
    ASSUME MapInv, PlaceInv, SummaryInv, [Next]_vars
    PROVE  SummaryInv'
<1>0. next \in Nat \ {0} /\ GoodRun(input)
  BY DEF PlaceInv, MapInv
<1>1. CASE MapsNothing
  BY <1>1 DEF MapsNothing, SummaryInv
<1>2. CASE MapRow /\ MapsRow
  <2> DEFINE m == MappedAt(input, pc, next)
             totals == Totals(m)
             before == [t \in Target |-> summary[t][pc]]
  <2>1. pc \in Source /\ next \in 1..Count(input, pc)
    BY <1>2, NextRow
  <2>2. Mapped = m
    BY DEF Mapped, MappedAt, RowAt
  <2>3. /\ m.err = "" /\ \A t \in Target : totals[t] # Overflow
        /\ summary' = [t \in Target |-> [summary[t] EXCEPT ![pc] = totals[t]]]
    BY <1>2, <2>2 DEF MapRow, MapsRow, Fail, Source, Payment, Settlement
  <2>4. /\ m.row = RowAt(input, pc, next)
        /\ DOMAIN m.contribs = 1..Len(m.contribs) /\ Len(m.contribs) \in Nat
        /\ \A i \in 1..Len(m.contribs) : m.contribs[i].amount \in Int64
    <3>1. SoundMapping(m, input, pc, next)
      BY <1>0, <2>1, MappedAtIs
    <3> HIDE DEF m
    <3> QED BY ONLY <3>1, Zenon DEF SoundMapping
  <2>5. m.row.src = pc /\ m.row.scope = RowAt(input, pc, next).scope
    <3>1. GoodRow(RowAt(input, pc, next), pc, next)
      BY <1>0, <2>1, RowsOfRun
    <3> QED BY <2>4, <3>1 DEF GoodRow
  <2>6. totals = IF RowAt(input, pc, next).scope = "IN_SCOPE" THEN Accumulated(before, m.contribs) ELSE before
    BY <2>5 DEF Totals
  <2>7. ASSUME NEW t \in Target
        PROVE  totals[t] \in Int64 /\ totals[t] = summary[t][pc] + Counted(input, pc, t)[next]
    <3>1. before[t] = summary[t][pc] /\ before[t] \in Int64
      BY <2>1 DEF SummaryInv
    <3>2. totals[t] # Overflow
      BY <2>3
    <3>3. Counted(input, pc, t)[next]
            = IF RowAt(input, pc, next).scope = "IN_SCOPE" THEN RowSum(m, t) ELSE 0
      BY <2>1, <2>3 DEF Counted
    <3> HIDE DEF m, totals, before
    <3>4. CASE RowAt(input, pc, next).scope = "IN_SCOPE"
      <4>1. totals = Accumulated(before, m.contribs)
        BY <2>6, <3>4
      <4>2. Accumulated(before, m.contribs)[t] \in Int64
            /\ Accumulated(before, m.contribs)[t] = before[t] + RowSum(m, t)
        BY ONLY <2>4, <3>1, <3>2, <4>1, t \in Target, AccumulatedIs
      <4> QED BY ONLY <3>1, <3>3, <3>4, <4>1, <4>2
    <3>5. CASE RowAt(input, pc, next).scope # "IN_SCOPE"
      <4>1. totals[t] = before[t] /\ Counted(input, pc, t)[next] = 0
        BY <2>6, <3>3, <3>5
      <4>2. \A x \in Int64 : x + 0 = x
        BY Int64Type
      <4> QED BY <3>1, <4>1, <4>2
    <3> QED BY <3>4, <3>5
  <2> HIDE DEF totals
  <2>8. \A t \in Target : summary'[t] = [summary[t] EXCEPT ![pc] = totals[t]] /\ summary'[t][pc] = totals[t]
    BY <2>1, <2>3 DEF SummaryInv
  <2>9. summary' = [t \in Target |-> summary'[t]]
    BY <2>3
  <2> QED BY <1>2, <2>7, <2>8, <2>9, SummaryStep
<1>3. CASE MapRowDiagnosticError /\ MapsRow
  <2>1. summary' = summary /\ MappedAt(input, pc, next).err # ""
    BY <1>3 DEF MapRowDiagnosticError, Mapped, MappedAt, RowAt
  <2>2. pc \in Source /\ next \in 1..Count(input, pc)
    BY <1>3, NextRow
  <2>3. \A t \in Target : Counted(input, pc, t)[next] = 0
    BY <2>1, <2>2 DEF Counted
  <2>4. \A t \in Target : summary[t] \in [Source -> Int64] /\ summary[t][pc] \in Int64
    BY <2>2 DEF SummaryInv
  <2>5. \A t \in Target : summary'[t][pc] = summary[t][pc] + Counted(input, pc, t)[next]
    <3>1. \A x \in Int64 : x = x + 0
      BY Int64Type
    <3> QED BY <2>1, <2>3, <2>4, <3>1
  <2>6. summary' = [t \in Target |-> summary'[t]]
        /\ \A t \in Target : summary'[t] = [summary[t] EXCEPT ![pc] = summary'[t][pc]]
    BY <2>1, <2>2, <2>4 DEF SummaryInv
  <2> QED BY <1>3, <2>1, <2>4, <2>5, <2>6, SummaryStep
<1> QED BY <1>0, <1>1, <1>2, <1>3, MapKinds

-----------------------------------------------------------------------------
\* Groups.

GroupFields == {"key", "sid", "cur", "scope", "rows", "amount", "bucket"}

IdAt(run, s, o) == identityKey(MappedAt(run, s, o))

\* The transactions of a group among the first n rows of a source.
Members(run, s, id, n) ==
    {o \in 1..n : RowAt(run, s, o).kind = "transaction" /\ IdAt(run, s, o) = id}

AmountAt(run, s) == [o \in 1..Count(run, s) |-> RowAt(run, s, o).amount]

RoutedAt(run, s, t) == [o \in 1..Count(run, s) |-> RowSum(MappedAt(run, s, o), t)]

\* A group of the first seen[s] rows of each source: its parts are those of its identity,
\* and its amounts the exact sums over its rows.
GroupShape(g, id) ==
    /\ DOMAIN g = GroupFields
    /\ <<g.key, g.sid, g.cur, g.scope>> = id
    /\ DOMAIN g.rows = Source
    /\ g.amount \in [Source -> Int64]
    /\ g.bucket \in [Source -> [Target -> Int64]]

GroupSums(g, run, id, s, n) ==
    /\ g.rows[s] = Members(run, s, id, n)
    /\ g.amount[s] = SumFunctionOnSet(AmountAt(run, s), Members(run, s, id, n))
    /\ \A t \in Target :
          g.bucket[s][t] = SumFunctionOnSet(RoutedAt(run, s, t), Members(run, s, id, n))

GroupsAre(grp, run, seen) ==
    /\ IsFiniteSet(DOMAIN grp)
    /\ \A id \in DOMAIN grp : GroupShape(grp[id], id)
    /\ \A id \in DOMAIN grp : \A s \in Source : GroupSums(grp[id], run, id, s, seen[s])
    /\ \A s \in Source : \A o \in 1..seen[s] :
          RowAt(run, s, o).kind = "transaction" => IdAt(run, s, o) \in DOMAIN grp

LEMMA MembersNext ==
    ASSUME NEW run, NEW s, NEW id, NEW n \in Nat
    PROVE  /\ Members(run, s, id, n) \subseteq 1..n
           /\ n + 1 \notin Members(run, s, id, n)
<1>1. 1..(n + 1) = (1..n) \cup {n + 1} /\ n + 1 \notin 1..n
  OBVIOUS
<1> QED BY <1>1 DEF Members

LEMMA MembersJoin ==
    ASSUME NEW run, NEW s, NEW id, NEW n \in Nat,
           RowAt(run, s, n + 1).kind = "transaction", IdAt(run, s, n + 1) = id
    PROVE  Members(run, s, id, n + 1) = Members(run, s, id, n) \cup {n + 1}
<1>1. 1..(n + 1) = (1..n) \cup {n + 1} /\ n + 1 \notin 1..n
  OBVIOUS
<1> QED BY <1>1 DEF Members

LEMMA MembersSkip ==
    ASSUME NEW run, NEW s, NEW id, NEW n \in Nat,
           ~(RowAt(run, s, n + 1).kind = "transaction" /\ IdAt(run, s, n + 1) = id)
    PROVE  Members(run, s, id, n + 1) = Members(run, s, id, n)
<1>1. 1..(n + 1) = (1..n) \cup {n + 1} /\ n + 1 \notin 1..n
  OBVIOUS
<1> QED BY <1>1 DEF Members

LEMMA GroupWithIs ==
    ASSUME NEW g, DOMAIN g = GroupFields, NEW m, NEW s \in Source, m.row.src = s,
           DOMAIN g.rows = Source, DOMAIN g.amount = Source, DOMAIN g.bucket = Source
    PROVE  /\ DOMAIN GroupWith(g, m) = GroupFields
           /\ GroupWith(g, m).key = g.key /\ GroupWith(g, m).sid = g.sid
           /\ GroupWith(g, m).cur = g.cur /\ GroupWith(g, m).scope = g.scope
           /\ GroupWith(g, m).rows = [g.rows EXCEPT ![s] = @ \cup {m.row.ord}]
           /\ GroupWith(g, m).amount = [g.amount EXCEPT ![s] = Add(@, m.row.amount)]
           /\ GroupWith(g, m).bucket = [g.bucket EXCEPT ![s] = Accumulated(@, m.contribs)]
BY DEF GroupWith, GroupFields

\* A sum over a group's rows after one more row.
LEMMA MembersSum ==
    ASSUME NEW run, NEW s, NEW id, NEW n \in Nat, RowAt(run, s, n + 1).kind = "transaction",
           IdAt(run, s, n + 1) = id, NEW f, \A o \in 1..(n + 1) : f[o] \in Int
    PROVE  SumFunctionOnSet(f, Members(run, s, id, n + 1))
             = SumFunctionOnSet(f, Members(run, s, id, n)) + f[n + 1]
<1> DEFINE M == Members(run, s, id, n)
<1>1. M \subseteq 1..n /\ n + 1 \notin M /\ Members(run, s, id, n + 1) = M \cup {n + 1}
  BY MembersNext, MembersJoin
<1> HIDE DEF M
<1>2. IsFiniteSet(M)
  BY <1>1, UpToFinite, FS_Subset
<1>3. f[n + 1] \in Int /\ \A o \in M : f[o] \in Int
  BY <1>1
<1>4. SumFunctionOnSet(f, M \cup {n + 1}) = SumFunctionOnSet(f, M) + f[n + 1]
  <2> DEFINE x == n + 1
  <2>1. x \notin M /\ f[x] \in Int
    BY <1>1, <1>3
  <2> HIDE DEF x
  <2>2. SumFunctionOnSet(f, M \cup {x}) = SumFunctionOnSet(f, M) + f[x]
    BY ONLY <1>2, <1>3, <2>1, SumAdd
  <2> QED BY <2>2 DEF x
<1> QED BY <1>1, <1>4 DEF M

LEMMA AmountsType ==
    ASSUME NEW run, GoodRun(run), NEW s \in Source
    PROVE  /\ \A o \in 1..Count(run, s) : AmountAt(run, s)[o] = RowAt(run, s, o).amount
           /\ \A o \in 1..Count(run, s) : RowAt(run, s, o).amount \in Int64
           /\ \A o \in 1..Count(run, s) : AmountAt(run, s)[o] \in Int
           /\ \A t \in Target : \A o \in 1..Count(run, s) : RoutedAt(run, s, t)[o] \in Int
           /\ \A t \in Target : \A o \in 1..Count(run, s) :
                 RoutedAt(run, s, t)[o] = RowSum(MappedAt(run, s, o), t)
<1>1. \A o \in 1..Count(run, s) : RowAt(run, s, o).amount \in Int64
  BY RowsOfRun DEF GoodRow
<1>2. \A t \in Target : \A o \in 1..Count(run, s) : RowSum(MappedAt(run, s, o), t) \in Int
  BY RowSumType
<1>3. \A o \in 1..Count(run, s) : AmountAt(run, s)[o] = RowAt(run, s, o).amount
  BY DEF AmountAt
<1>4. \A t \in Target : \A o \in 1..Count(run, s) :
         RoutedAt(run, s, t)[o] = RowSum(MappedAt(run, s, o), t)
  BY DEF RoutedAt
<1> QED BY <1>1, <1>2, <1>3, <1>4, Int64Type

\* A row joins its group.
Joining(run, s, n, m, id, g, h) ==
    /\ GoodRun(run) /\ s \in Source /\ n \in Nat /\ n + 1 <= Count(run, s)
    /\ m = MappedAt(run, s, n + 1) /\ RowAt(run, s, n + 1).kind = "transaction"
    /\ id = IdAt(run, s, n + 1)
    /\ GroupShape(g, id) /\ GroupSums(g, run, id, s, n)
    /\ h = GroupWith(g, m) /\ ~Overflown(h)

LEMMA GroupGrows ==
    ASSUME NEW run, NEW s, NEW n, NEW m, NEW id, NEW g, NEW h, Joining(run, s, n, m, id, g, h)
    PROVE  /\ GroupShape(h, id) /\ GroupSums(h, run, id, s, n + 1)
           /\ \A z \in Source : z # s =>
                 h.rows[z] = g.rows[z] /\ h.amount[z] = g.amount[z] /\ h.bucket[z] = g.bucket[z]
<1> USE DEF Joining
<1> DEFINE o == n + 1
<1>1. o \in 1..Count(run, s) /\ \A k \in 1..o : k \in 1..Count(run, s)
  BY RowsOfRun
<1>2. SoundMapping(m, run, s, o) /\ GoodRow(RowAt(run, s, o), s, o)
  BY <1>1, MappedAtIs, RowsOfRun
<1>3. m.row = RowAt(run, s, o) /\ m.row.src = s /\ m.row.ord = o /\ m.row.amount \in Int64
  BY <1>2 DEF SoundMapping, GoodRow
<1>4. /\ DOMAIN m.contribs = 1..Len(m.contribs) /\ Len(m.contribs) \in Nat
      /\ \A i \in 1..Len(m.contribs) : m.contribs[i].amount \in Int64
  BY ONLY <1>2, Zenon DEF SoundMapping
<1>5. /\ DOMAIN g = GroupFields /\ DOMAIN g.rows = Source /\ <<g.key, g.sid, g.cur, g.scope>> = id
      /\ g.amount \in [Source -> Int64] /\ g.bucket \in [Source -> [Target -> Int64]]
  BY DEF GroupShape
<1>6. /\ DOMAIN h = GroupFields
      /\ h.key = g.key /\ h.sid = g.sid /\ h.cur = g.cur /\ h.scope = g.scope
      /\ h.rows = [g.rows EXCEPT ![s] = @ \cup {o}]
      /\ h.amount = [g.amount EXCEPT ![s] = Add(@, m.row.amount)]
      /\ h.bucket = [g.bucket EXCEPT ![s] = Accumulated(@, m.contribs)]
  BY <1>3, <1>5, GroupWithIs
<1>7. \A z \in Source : h.amount[z] # Overflow /\ \A t \in Target : h.bucket[z][t] # Overflow
  BY DEF Overflown
<1> HIDE DEF o
<1>8. h.amount[s] \in Int64 /\ h.amount[s] = g.amount[s] + RowAt(run, s, o).amount
  <2>1. g.amount[s] \in Int64 /\ h.amount[s] = Add(g.amount[s], m.row.amount) /\ h.amount[s] # Overflow
    BY <1>5, <1>6, <1>7
  <2>2. Add(g.amount[s], m.row.amount)
          = IF g.amount[s] + m.row.amount \in Int64 THEN g.amount[s] + m.row.amount ELSE Overflow
    BY <1>3, <2>1, AddFits
  <2> QED BY <1>3, <2>1, <2>2
<1>9. ASSUME NEW t \in Target
      PROVE  h.bucket[s][t] \in Int64 /\ h.bucket[s][t] = g.bucket[s][t] + RowSum(m, t)
  <2> DEFINE b == g.bucket[s]
             l == m.contribs
  <2>1. b[t] \in Int64 /\ h.bucket[s] = Accumulated(b, l) /\ h.bucket[s][t] # Overflow /\ m.contribs = l
    BY <1>5, <1>6, <1>7
  <2>2. DOMAIN l = 1..Len(l) /\ Len(l) \in Nat /\ \A i \in 1..Len(l) : l[i].amount \in Int64
    BY <1>4
  <2>a. b[t] = g.bucket[s][t]
    OBVIOUS
  <2> HIDE DEF b, l
  <2>3. Accumulated(b, l)[t] # Overflow =>
           Accumulated(b, l)[t] \in Int64 /\ Accumulated(b, l)[t] = b[t] + RowSum(m, t)
    BY ONLY <2>1, <2>2, t \in Target, AccumulatedIs
  <2> QED BY ONLY <2>1, <2>3, <2>a
<1>10. \A z \in Source : z # s =>
          h.rows[z] = g.rows[z] /\ h.amount[z] = g.amount[z] /\ h.bucket[z] = g.bucket[z]
  BY <1>5, <1>6
<1>11. GroupShape(h, id)
  <2>1. h.amount \in [Source -> Int64]
    BY <1>5, <1>6, <1>8
  <2>2. h.bucket[s] \in [Target -> Int64]
    <3>1. h.bucket[s] = [t \in Target |-> h.bucket[s][t]]
      BY <1>5, <1>6 DEF Accumulated
    <3> QED BY <1>9, <3>1
  <2>3. h.bucket \in [Source -> [Target -> Int64]]
    BY <1>5, <1>6, <2>2
  <2>4. DOMAIN h.rows = Source /\ <<h.key, h.sid, h.cur, h.scope>> = id
    BY <1>5, <1>6
  <2> QED BY <1>6, <2>1, <2>3, <2>4 DEF GroupShape
<1>12. GroupSums(h, run, id, s, o)
  <2>0. o = n + 1 /\ RowAt(run, s, o).kind = "transaction" /\ IdAt(run, s, o) = id
    BY DEF o
  <2>1. h.rows[s] = Members(run, s, id, o)
    <3>1. h.rows[s] = Members(run, s, id, n) \cup {o}
      BY <1>5, <1>6 DEF GroupSums
    <3>2. Members(run, s, id, n + 1) = Members(run, s, id, n) \cup {n + 1}
      <4>1. RowAt(run, s, n + 1).kind = "transaction" /\ IdAt(run, s, n + 1) = id
        OBVIOUS
      <4> QED BY ONLY <4>1, n \in Nat, MembersJoin
    <3> QED BY <2>0, <3>1, <3>2
  <2>2. h.amount[s] = SumFunctionOnSet(AmountAt(run, s), Members(run, s, id, o))
    <3> DEFINE f == AmountAt(run, s)
    <3>1. f[o] = RowAt(run, s, o).amount /\ \A k \in 1..o : f[k] \in Int
      BY <1>1, AmountsType
    <3>2. g.amount[s] = SumFunctionOnSet(f, Members(run, s, id, n))
      BY DEF GroupSums
    <3> HIDE DEF f
    <3>3. SumFunctionOnSet(f, Members(run, s, id, o)) = SumFunctionOnSet(f, Members(run, s, id, n)) + f[o]
      BY <2>0, <3>1, MembersSum
    <3> QED BY <1>8, <3>1, <3>2, <3>3 DEF f
  <2>3. ASSUME NEW t \in Target
        PROVE  h.bucket[s][t] = SumFunctionOnSet(RoutedAt(run, s, t), Members(run, s, id, o))
    <3> DEFINE f == RoutedAt(run, s, t)
    <3>1. f[o] = RowSum(m, t) /\ \A k \in 1..o : f[k] \in Int
      BY <1>1, <2>0, AmountsType
    <3>2. g.bucket[s][t] = SumFunctionOnSet(f, Members(run, s, id, n))
      BY DEF GroupSums
    <3> HIDE DEF f
    <3>3. SumFunctionOnSet(f, Members(run, s, id, o)) = SumFunctionOnSet(f, Members(run, s, id, n)) + f[o]
      BY <2>0, <3>1, MembersSum
    <3> QED BY <1>9, <3>1, <3>2, <3>3 DEF f
  <2> QED BY <2>1, <2>2, <2>3 DEF GroupSums
<1> QED BY <1>10, <1>11, <1>12 DEF o

LEMMA NewGroupIs ==
    ASSUME NEW run, NEW m, NEW id, id = identityKey(m), NEW seen,
           \A s \in Source : Members(run, s, id, seen[s]) = {}
    PROVE  /\ GroupShape(NewGroup(m), id)
           /\ \A s \in Source : GroupSums(NewGroup(m), run, id, s, seen[s])
<1>1. GroupShape(NewGroup(m), id)
  BY Int64Type DEF GroupShape, NewGroup, GroupFields, identityKey
<1>2. ASSUME NEW s \in Source PROVE GroupSums(NewGroup(m), run, id, s, seen[s])
  <2>1. /\ NewGroup(m).rows[s] = {} /\ NewGroup(m).amount[s] = 0
        /\ \A t \in Target : NewGroup(m).bucket[s][t] = 0
    BY DEF NewGroup
  <2>2. Members(run, s, id, seen[s]) = {}
    OBVIOUS
  <2> QED BY <2>1, <2>2, SumEmpty DEF GroupSums
<1> QED BY <1>1, <1>2

\* A group that gains no row is still right.
LEMMA GroupSumsSame ==
    ASSUME NEW run, NEW id, NEW s, NEW n \in Nat, NEW g, GroupSums(g, run, id, s, n),
           ~(RowAt(run, s, n + 1).kind = "transaction" /\ IdAt(run, s, n + 1) = id)
    PROVE  GroupSums(g, run, id, s, n + 1)
<1>1. Members(run, s, id, n + 1) = Members(run, s, id, n)
  BY MembersSkip
<1> QED BY <1>1, Zenon DEF GroupSums

\* The rows seen after row n + 1 of source s.
SeenNext(after, seen, s) ==
    /\ seen[s] \in Nat /\ after[s] = seen[s] + 1
    /\ \A z \in Source : z # s => after[z] = seen[z]

LEMMA GroupsSkip ==
    ASSUME NEW run, NEW s \in Source, NEW seen, NEW after, SeenNext(after, seen, s),
           RowAt(run, s, seen[s] + 1).kind # "transaction", NEW grp, GroupsAre(grp, run, seen)
    PROVE  GroupsAre(grp, run, after)
<1> DEFINE n == seen[s]
<1>1. n \in Nat /\ after[s] = n + 1 /\ \A z \in Source : z # s => after[z] = seen[z]
  BY DEF SeenNext
<1>2. ASSUME NEW id \in DOMAIN grp, NEW z \in Source PROVE GroupSums(grp[id], run, id, z, after[z])
  <2>1. GroupSums(grp[id], run, id, z, seen[z])
    BY DEF GroupsAre
  <2>2. CASE z = s
    <3>1. GroupSums(grp[id], run, id, s, n) /\ n \in Nat /\ RowAt(run, s, n + 1).kind # "transaction"
      BY <1>1, <2>1, <2>2
    <3> HIDE DEF n
    <3>2. GroupSums(grp[id], run, id, s, n + 1)
      BY ONLY <3>1, GroupSumsSame
    <3> QED BY <1>1, <2>2, <3>2
  <2> QED BY <1>1, <2>1, <2>2
<1>3. ASSUME NEW z \in Source, NEW o \in 1..after[z], RowAt(run, z, o).kind = "transaction"
      PROVE  IdAt(run, z, o) \in DOMAIN grp
  <2>1. o \in 1..seen[z]
    <3>1. CASE z = s
      <4>1. o # n + 1
        BY <1>3, <3>1
      <4>2. o \in 1..(n + 1)
        BY <1>1, <3>1
      <4>3. o \in 1..n
        BY ONLY <1>1, <4>1, <4>2
      <4> QED BY <3>1, <4>3
    <3> QED BY <1>1, <3>1
  <2> QED BY <1>3, <2>1 DEF GroupsAre
<1> QED BY <1>2, <1>3 DEF GroupsAre

LEMMA GroupsGrow ==
    ASSUME NEW run, GoodRun(run), NEW s \in Source, NEW seen, NEW after, SeenNext(after, seen, s),
           seen[s] + 1 <= Count(run, s), NEW m, m = MappedAt(run, s, seen[s] + 1),
           RowAt(run, s, seen[s] + 1).kind = "transaction", NEW grp, GroupsAre(grp, run, seen),
           NEW id, id = identityKey(m),
           NEW h, h = GroupWith(IF id \in DOMAIN grp THEN grp[id] ELSE NewGroup(m), m), ~Overflown(h),
           NEW new, new = [i \in DOMAIN grp \cup {id} |-> IF i = id THEN h ELSE grp[i]]
    PROVE  GroupsAre(new, run, after)
<1> DEFINE n == seen[s]
           g == IF id \in DOMAIN grp THEN grp[id] ELSE NewGroup(m)
<1>1. n \in Nat /\ after[s] = n + 1 /\ \A z \in Source : z # s => after[z] = seen[z]
  BY DEF SeenNext
<1>2. id = IdAt(run, s, n + 1)
  BY DEF IdAt
<1>3. GroupShape(g, id) /\ \A z \in Source : GroupSums(g, run, id, z, seen[z])
  <2>1. CASE id \in DOMAIN grp
    BY <2>1 DEF GroupsAre
  <2>2. CASE id \notin DOMAIN grp
    <3>1. \A z \in Source : Members(run, z, id, seen[z]) = {}
      BY <2>2 DEF GroupsAre, Members
    <3> QED BY <2>2, <3>1, NewGroupIs
  <2> QED BY <2>1, <2>2
<1>4. /\ GroupShape(h, id) /\ GroupSums(h, run, id, s, n + 1)
      /\ \A z \in Source : z # s =>
            h.rows[z] = g.rows[z] /\ h.amount[z] = g.amount[z] /\ h.bucket[z] = g.bucket[z]
  <2>1. /\ n + 1 <= Count(run, s) /\ m = MappedAt(run, s, n + 1) /\ h = GroupWith(g, m)
        /\ RowAt(run, s, n + 1).kind = "transaction" /\ GroupSums(g, run, id, s, n)
    BY <1>3
  <2> HIDE DEF n, g
  <2>2. Joining(run, s, n, m, id, g, h)
    BY <1>1, <1>2, <1>3, <2>1 DEF Joining
  <2> QED BY ONLY <2>2, GroupGrows
<1>5. \A z \in Source : GroupSums(h, run, id, z, after[z])
  <2> SUFFICES ASSUME NEW z \in Source, z # s PROVE GroupSums(h, run, id, z, after[z])
    BY <1>1, <1>4
  <2>1. GroupSums(g, run, id, z, after[z])
    BY <1>1, <1>3
  <2>2. h.rows[z] = g.rows[z] /\ h.amount[z] = g.amount[z] /\ h.bucket[z] = g.bucket[z]
    BY <1>4
  <2> HIDE DEF g
  <2> QED BY ONLY <2>1, <2>2, Zenon DEF GroupSums
<1>6. ASSUME NEW i \in DOMAIN grp, i # id, NEW z \in Source PROVE GroupSums(grp[i], run, i, z, after[z])
  <2>1. GroupSums(grp[i], run, i, z, seen[z])
    BY DEF GroupsAre
  <2>2. CASE z = s
    <3>1. GroupSums(grp[i], run, i, s, n) /\ n \in Nat /\ IdAt(run, s, n + 1) # i
      BY <1>1, <1>2, <1>6, <2>1, <2>2
    <3> HIDE DEF n
    <3>2. GroupSums(grp[i], run, i, s, n + 1)
      BY ONLY <3>1, GroupSumsSame
    <3> QED BY <1>1, <2>2, <3>2
  <2> QED BY <1>1, <2>1, <2>2
<1>7. DOMAIN new = DOMAIN grp \cup {id} /\ new[id] = h /\ \A i \in DOMAIN grp : i # id => new[i] = grp[i]
  OBVIOUS
<1>8. ASSUME NEW z \in Source, NEW o \in 1..after[z], RowAt(run, z, o).kind = "transaction"
      PROVE  IdAt(run, z, o) \in DOMAIN new
  <2>1. CASE o \in 1..seen[z]
    BY <1>7, <1>8, <2>1 DEF GroupsAre
  <2>2. CASE z = s /\ o = n + 1
    BY <1>2, <1>7, <2>2
  <2>3. o \in 1..seen[z] \/ (z = s /\ o = n + 1)
    <3>1. CASE z = s
      <4>1. o \in 1..(n + 1)
        BY <1>1, <3>1
      <4>2. o \in 1..n \/ o = n + 1
        BY ONLY <1>1, <4>1
      <4> QED BY <3>1, <4>2
    <3> QED BY <1>1, <3>1
  <2> QED BY <2>1, <2>2, <2>3
<1>9. IsFiniteSet(DOMAIN new)
  BY <1>7, FS_AddElement DEF GroupsAre
<1>10. \A i \in DOMAIN new : GroupShape(new[i], i)
  BY <1>4, <1>7 DEF GroupsAre
<1>11. \A i \in DOMAIN new : \A z \in Source : GroupSums(new[i], run, i, z, after[z])
  BY <1>5, <1>6, <1>7
<1> QED BY <1>8, <1>9, <1>10, <1>11 DEF GroupsAre

\* Groups are built from the payments and then from the settlements.
Seen(run, n) ==
    [s \in Source |->
        IF s = Payment
        THEN IF n <= Count(run, Payment) THEN n ELSE Count(run, Payment)
        ELSE IF n <= Count(run, Payment) THEN 0 ELSE n - Count(run, Payment)]

AllRows(run) == [s \in Source |-> Count(run, s)]

GroupInv ==
    /\ \A id \in DOMAIN groups : groups[id].amount \in [Source -> Int64]
    /\ pc \in Source => groups = Empty
    /\ pc = "group" => /\ next - 1 <= Count(input, Payment) + Count(input, Settlement)
                       /\ GroupsAre(groups, input, Seen(input, next - 1))
    /\ pc \in Later \ {"group"} => GroupsAre(groups, input, AllRows(input))

\* The mapped rows of a run in one sequence.
IsAllMapped(all, run) ==
    /\ Len(all) = Count(run, Payment) + Count(run, Settlement)
    /\ DOMAIN all = 1..Len(all)
    /\ \A k \in 1..Count(run, Payment) : all[k] = MappedAt(run, Payment, k)
    /\ \A k \in 1..Count(run, Settlement) : all[Count(run, Payment) + k] = MappedAt(run, Settlement, k)

LEMMA AllMappedIs ==
    ASSUME MapInv, PlaceInv, pc \in Later
    PROVE  IsAllMapped(AllMapped, input)
<1> DEFINE N == Count(input, Payment)
           M == Count(input, Settlement)
           p == mapped[Payment]
           q == mapped[Settlement]
           X == {MappedAt(input, Payment, k) : k \in 1..N} \cup {MappedAt(input, Settlement, k) : k \in 1..M}
<1>0. Payment \in Source /\ Settlement \in Source
  BY DEF Source
<1>1. N \in Nat /\ M \in Nat
  BY <1>0, RowsOfRun DEF MapInv
<1>2. p = Prefix(input, Payment, N) /\ q = Prefix(input, Settlement, M)
  BY <1>0 DEF MapInv, PlaceInv
<1>3. p \in [1..N -> X] /\ q \in [1..M -> X]
  <2> HIDE DEF N, M, p, q
  <2> QED BY <1>2 DEF Prefix
<1>4. /\ \A k \in 1..N : p[k] = MappedAt(input, Payment, k)
      /\ \A k \in 1..M : q[k] = MappedAt(input, Settlement, k)
  <2> HIDE DEF N, M, p, q
  <2> QED BY <1>2 DEF Prefix
<1>5. AllMapped = p \o q
  BY DEF AllMapped
<1> HIDE DEF N, M, p, q, X
<1>6. p \in Seq(X) /\ Len(p) = N /\ q \in Seq(X) /\ Len(q) = M
  BY <1>1, <1>3, FcnIsSeq
<1> DEFINE all == p \o q
<1>7. /\ Len(all) = N + M /\ all \in Seq(X)
      /\ \A i \in 1..(N + M) : all[i] = IF i <= N THEN p[i] ELSE q[i - N]
  BY <1>6, ConcatProperties
<1> HIDE DEF all
<1>8. DOMAIN all = 1..Len(all)
  BY ONLY <1>7, SeqIs
<1>9. \A k \in 1..N : all[k] = MappedAt(input, Payment, k)
  <2> SUFFICES ASSUME NEW k \in 1..N PROVE all[k] = MappedAt(input, Payment, k)
    OBVIOUS
  <2>1. k \in 1..(N + M) /\ k <= N
    BY <1>1
  <2> QED BY <1>4, <1>7, <2>1
<1>10. \A k \in 1..M : all[N + k] = MappedAt(input, Settlement, k)
  <2> SUFFICES ASSUME NEW k \in 1..M PROVE all[N + k] = MappedAt(input, Settlement, k)
    OBVIOUS
  <2>1. N + k \in 1..(N + M) /\ ~(N + k <= N) /\ (N + k) - N = k
    BY <1>1
  <2>2. all[N + k] = q[k]
    BY <1>7, <2>1
  <2> QED BY <1>4, <2>2
<1> QED BY <1>5, <1>7, <1>8, <1>9, <1>10 DEF IsAllMapped, N, M, all

LEMMA AllMappedRange ==
    ASSUME NEW run, GoodRun(run), NEW all, IsAllMapped(all, run)
    PROVE  \A x : x \in Range(all) <=>
              \E s \in Source : \E o \in 1..Count(run, s) : x = MappedAt(run, s, o)
<1> DEFINE N == Count(run, Payment)
           M == Count(run, Settlement)
<1>1. N \in Nat /\ M \in Nat
  BY RowsOfRun DEF Source
<1>2. /\ DOMAIN all = 1..(N + M) /\ \A k \in 1..N : all[k] = MappedAt(run, Payment, k)
      /\ \A k \in 1..M : all[N + k] = MappedAt(run, Settlement, k)
  BY DEF IsAllMapped
<1>3. \A x : x \in Range(all) <=> \E k \in 1..(N + M) : x = all[k]
  BY <1>2 DEF Range
<1>e. Source = {Payment, Settlement}
  BY DEF Source
<1>4. \A s \in Source : Count(run, s) = IF s = Payment THEN N ELSE M
  BY <1>e
<1> HIDE DEF N, M
<1>5. ASSUME NEW k \in 1..(N + M)
      PROVE  \E s \in Source : \E o \in 1..Count(run, s) : all[k] = MappedAt(run, s, o)
  <2>1. CASE k <= N
    <3>1. k \in 1..N
      BY <1>1, <2>1
    <3> QED BY <1>2, <1>4, <1>e, <3>1 DEF N
  <2>2. CASE ~(k <= N)
    <3>1. (k - N) \in 1..M /\ N + (k - N) = k
      BY <1>1, <2>2
    <3> QED BY <1>2, <1>4, <1>e, <3>1 DEF M
  <2> QED BY <2>1, <2>2
<1>6. ASSUME NEW s \in Source, NEW o \in 1..Count(run, s)
      PROVE  \E k \in 1..(N + M) : MappedAt(run, s, o) = all[k]
  <2>1. CASE s = Payment
    <3>1. o \in 1..N
      BY <2>1 DEF N
    <3>2. o \in 1..(N + M)
      BY <1>1, <3>1
    <3> QED BY <1>2, <2>1, <3>1, <3>2
  <2>2. CASE s = Settlement
    <3>1. o \in 1..M
      BY <2>2 DEF M
    <3>2. N + o \in 1..(N + M)
      BY <1>1, <3>1
    <3> QED BY <1>2, <2>2, <3>1, <3>2
  <2> QED BY <1>e, <2>1, <2>2
<1> QED BY <1>3, <1>5, <1>6

\* The k-th row is the next row of its source.
LEMMA SeenStep ==
    ASSUME NEW run, GoodRun(run), NEW all, IsAllMapped(all, run), NEW k \in Nat \ {0}, k <= Len(all)
    PROVE  \E s \in Source :
              /\ SeenNext(Seen(run, k), Seen(run, k - 1), s)
              /\ Seen(run, k - 1)[s] + 1 <= Count(run, s)
              /\ all[k] = MappedAt(run, s, Seen(run, k - 1)[s] + 1)
<1> DEFINE N == Count(run, Payment)
           M == Count(run, Settlement)
           now == Seen(run, k - 1)
           then == Seen(run, k)
<1>0. Payment \in Source /\ Settlement \in Source /\ Payment # Settlement /\ Source = {Payment, Settlement}
  BY DEF Source, Payment, Settlement
<1>1. N \in Nat /\ M \in Nat /\ k <= N + M
  BY RowsOfRun, <1>0 DEF IsAllMapped
<1>2. /\ \A j \in 1..N : all[j] = MappedAt(run, Payment, j)
      /\ \A j \in 1..M : all[N + j] = MappedAt(run, Settlement, j)
  BY DEF IsAllMapped
<1>3. /\ now[Payment] = IF k - 1 <= N THEN k - 1 ELSE N
      /\ now[Settlement] = IF k - 1 <= N THEN 0 ELSE (k - 1) - N
      /\ then[Payment] = IF k <= N THEN k ELSE N
      /\ then[Settlement] = IF k <= N THEN 0 ELSE k - N
  BY <1>0 DEF Seen
<1> HIDE DEF now, then
<1>4. CASE k <= N
  <2>1. /\ now[Payment] = k - 1 /\ now[Settlement] = 0 /\ then[Payment] = k /\ then[Settlement] = 0
        /\ k \in 1..N /\ k - 1 \in Nat /\ (k - 1) + 1 = k
    <3> HIDE DEF N, M
    <3> QED BY <1>1, <1>3, <1>4
  <2>2. SeenNext(then, now, Payment)
    BY <1>0, <2>1 DEF SeenNext
  <2>3. now[Payment] + 1 <= N /\ all[k] = MappedAt(run, Payment, now[Payment] + 1)
    BY <1>2, <1>4, <2>1
  <2> QED BY <1>0, <2>2, <2>3 DEF now, then
<1>5. CASE ~(k <= N)
  <2>1. /\ now[Payment] = N /\ now[Settlement] = (k - 1) - N /\ then[Payment] = N /\ then[Settlement] = k - N
        /\ k - N \in 1..M /\ (k - 1) - N \in Nat /\ ((k - 1) - N) + 1 = k - N /\ N + (k - N) = k
    <3> HIDE DEF N, M
    <3> QED BY <1>1, <1>3, <1>5
  <2>2. SeenNext(then, now, Settlement)
    BY <1>0, <2>1 DEF SeenNext
  <2>3. now[Settlement] + 1 <= M /\ all[k] = MappedAt(run, Settlement, now[Settlement] + 1)
    <3>1. all[N + (k - N)] = MappedAt(run, Settlement, k - N)
      BY <1>2, <2>1
    <3> HIDE DEF N, M
    <3> QED BY <1>1, <2>1, <3>1
  <2> QED BY <1>0, <2>2, <2>3 DEF now, then
<1> QED BY <1>4, <1>5

LEMMA SeenAll ==
    ASSUME NEW run, GoodRun(run)
    PROVE  /\ \A s \in Source : Seen(run, 0)[s] = 0
           /\ Seen(run, Count(run, Payment) + Count(run, Settlement)) = AllRows(run)
<1> DEFINE N == Count(run, Payment)
           M == Count(run, Settlement)
<1>1. N \in Nat /\ M \in Nat
  BY RowsOfRun DEF Source
<1>2. ASSUME NEW s \in Source PROVE Seen(run, 0)[s] = 0 /\ Seen(run, N + M)[s] = Count(run, s)
  <2>1. CASE s = Payment
    BY <1>1, <2>1 DEF Seen
  <2>2. CASE s = Settlement
    BY <1>1, <2>2 DEF Seen, Payment, Settlement
  <2> QED BY <2>1, <2>2 DEF Source
<1>3. Seen(run, N + M) = [s \in Source |-> Seen(run, N + M)[s]]
  BY DEF Seen
<1> QED BY <1>2, <1>3 DEF AllRows

\* A step that builds no group.
GroupsNothing ==
    /\ input' = input /\ groups' = groups
    /\ \/ pc' = pc /\ next' = next
       \/ pc' = "failed"
       \/ pc \in Source /\ pc' \in Source
       \/ pc \in Later \ {"group"} /\ pc' \in Later \ {"group"}

LEMMA GroupKinds ==
    ASSUME [Next]_vars
    PROVE  GroupRow \/ GroupDone \/ (MapDone /\ pc' = "group") \/ GroupsNothing
<1>1. CASE MapRow
  <2>1. pc \in Source /\ (Fail("overflow") \/ UNCHANGED <<input, pc, groups, db, failure>>)
    BY <1>1 DEF MapRow, InMap
  <2> QED BY <2>1 DEF Fail, GroupsNothing
<1>2. CASE MapRowDiagnosticError
  BY <1>2 DEF MapRowDiagnosticError, InMap, GroupsNothing
<1>3. CASE MapDone
  BY <1>3 DEF MapDone, InMap, Goto, GroupsNothing, Source
<1>5. CASE CheckHeader \/ Persist \/ RegisterReport
  BY <1>5 DEF CheckHeader, Persist, RegisterReport, Goto, GroupsNothing, Later
<1>6. CASE WriteReport
  <2>1. /\ pc = "report"
        /\ \/ Fail("write report")
           \/ Fail("verify report")
           \/ Goto("persist") /\ UNCHANGED <<input, mapped, summary, issues, groups, db, failure>>
    BY <1>6, WriteReportIs, Zenon
  <2>2. ASSUME NEW why, Fail(why) PROVE GroupsNothing
    BY <2>2 DEF Fail, GroupsNothing
  <2>3. ASSUME Goto("persist"), UNCHANGED <<input, mapped, summary, issues, groups, db, failure>>
        PROVE  GroupsNothing
    BY <2>1, <2>3 DEF Goto, GroupsNothing, Later
  <2> QED BY <2>1, <2>2, <2>3
<1>7. CASE RejectRules \/ MapRowStrictError \/ HeaderDiffers \/ GateRefuses \/ DuplicateMapping
  BY <1>7 DEF RejectRules, MapRowStrictError, HeaderDiffers, GateRefuses, DuplicateMapping, Fail, GroupsNothing
<1>8. CASE UNCHANGED vars
  BY <1>8 DEF vars, GroupsNothing
<1> QED BY <1>1, <1>2, <1>3, <1>5, <1>6, <1>7, <1>8 DEF Next

LEMMA GroupInvStep ==
    ASSUME MapInv, PlaceInv, GroupInv, [Next]_vars
    PROVE  GroupInv'
<1>0. next \in Nat \ {0} /\ GoodRun(input)
  BY DEF PlaceInv, MapInv
<1> DEFINE N == Count(input, Payment)
           M == Count(input, Settlement)
<1>n. N \in Nat /\ M \in Nat
  BY <1>0, RowsOfRun DEF Source
<1>a. "group" \in Later /\ "group" \notin Source /\ "failed" \notin Source \cup Later /\ Source \cap Later = {}
  BY DEF Later, Source, Payment, Settlement
<1>1. CASE GroupsNothing
  <2>1. input' = input /\ groups' = groups
    BY <1>1 DEF GroupsNothing
  <2>2. CASE pc' = pc /\ next' = next
    BY <2>1, <2>2 DEF GroupInv
  <2>3. CASE pc' = "failed"
    BY <1>a, <2>1, <2>3 DEF GroupInv
  <2>4. CASE pc \in Source /\ pc' \in Source
    BY <1>a, <2>1, <2>4 DEF GroupInv
  <2>5. CASE pc \in Later \ {"group"} /\ pc' \in Later \ {"group"}
    BY <1>a, <2>1, <2>5 DEF GroupInv
  <2> QED BY <1>1, <2>2, <2>3, <2>4, <2>5 DEF GroupsNothing
<1>2. CASE MapDone /\ pc' = "group"
  <2>1. input' = input /\ groups' = groups /\ next' = 1 /\ pc \in Source
    BY <1>2 DEF MapDone, InMap, Goto
  <2>2. groups' = Empty /\ DOMAIN groups' = {}
    BY <2>1 DEF GroupInv, Empty
  <2>3. next' - 1 = 0 /\ next' - 1 <= N + M
    BY <1>n, <2>1
  <2>4. GroupsAre(groups', input, Seen(input, next' - 1))
    <3>1. \A s \in Source : Seen(input, next' - 1)[s] = 0
      BY <1>0, <2>3, SeenAll
    <3>2. \A s \in Source : 1..Seen(input, next' - 1)[s] = {}
      BY <3>1
    <3> QED BY <2>2, <3>2, FS_EmptySet DEF GroupsAre
  <2> QED BY <1>2, <1>a, <2>1, <2>2, <2>3, <2>4 DEF GroupInv
<1>3. CASE GroupDone
  <2>1. pc = "group" /\ next > Len(AllMapped) /\ pc' = "header" /\ input' = input /\ groups' = groups
    BY <1>3 DEF GroupDone, Goto
  <2>2. IsAllMapped(AllMapped, input)
    BY <1>a, <2>1, AllMappedIs
  <2>3. Len(AllMapped) = N + M
    BY <2>2 DEF IsAllMapped
  <2>4. next - 1 <= N + M /\ GroupsAre(groups, input, Seen(input, next - 1))
    BY <2>1 DEF GroupInv
  <2>5. next - 1 = N + M
    BY <1>0, <1>n, <2>1, <2>3, <2>4
  <2>6. GroupsAre(groups, input, AllRows(input))
    BY <1>0, <2>4, <2>5, SeenAll
  <2> QED BY <2>1, <2>6 DEF GroupInv, Source, Payment, Settlement
<1>4. CASE GroupRow
  <2> DEFINE m == AllMapped[next]
             id == identityKey(m)
             g == GroupWith(IF id \in DOMAIN groups THEN groups[id] ELSE NewGroup(m), m)
  <2>1. /\ pc = "group" /\ next <= Len(AllMapped) /\ input' = input
        /\ \/ /\ m.row.kind # "transaction" /\ next' = next + 1 /\ pc' = pc /\ groups' = groups
           \/ /\ m.row.kind = "transaction" /\ Fail("overflow")
           \/ /\ m.row.kind = "transaction" /\ ~Overflown(g) /\ next' = next + 1 /\ pc' = pc
              /\ groups' = [i \in DOMAIN groups \cup {id} |-> IF i = id THEN g ELSE groups[i]]
    BY <1>4, Zenon DEF GroupRow, Fail
  <2>2. IsAllMapped(AllMapped, input)
    BY <1>a, <2>1, AllMappedIs
  <2>3. Len(AllMapped) = N + M
    BY <2>2 DEF IsAllMapped
  <2>4. GroupsAre(groups, input, Seen(input, next - 1))
    BY <2>1 DEF GroupInv
  <2> DEFINE now == Seen(input, next - 1)
             then == Seen(input, next)
  <2>5. PICK s \in Source : /\ SeenNext(then, now, s)
                            /\ now[s] + 1 <= Count(input, s)
                            /\ m = MappedAt(input, s, now[s] + 1)
    BY <1>0, <2>1, <2>2, SeenStep
  <2> HIDE DEF m, id, g, now, then
  <2>k. m.row = RowAt(input, s, now[s] + 1)
    <3> DEFINE o == now[s] + 1
    <3>1. o \in 1..Count(input, s)
      <4>1. now[s] \in Nat /\ Count(input, s) \in Nat /\ now[s] + 1 <= Count(input, s)
        BY <1>0, <2>5, RowsOfRun DEF SeenNext
      <4> QED BY ONLY <4>1
    <3> HIDE DEF o
    <3>2. SoundMapping(MappedAt(input, s, o), input, s, o)
      BY <1>0, <3>1, MappedAtIs
    <3>3. MappedAt(input, s, o).row = RowAt(input, s, o)
      BY ONLY <3>2, Zenon DEF SoundMapping
    <3> QED BY <2>5, <3>3 DEF o
  <2>6. ASSUME next' = next + 1, pc' = pc, GroupsAre(groups', input, then) PROVE GroupInv'
    <3>1. next' - 1 = next /\ next' - 1 <= N + M /\ pc' = "group" /\ input' = input
      BY <1>0, <1>n, <2>1, <2>3, <2>6
    <3>2. GroupsAre(groups', input', Seen(input', next' - 1))
      BY <2>6, <3>1 DEF then
    <3>3. \A i \in DOMAIN groups' : groups'[i].amount \in [Source -> Int64]
      BY <2>6 DEF GroupsAre, GroupShape
    <3> QED BY <1>a, <3>1, <3>2, <3>3 DEF GroupInv
  <2>7. CASE m.row.kind # "transaction" /\ next' = next + 1 /\ pc' = pc /\ groups' = groups
    <3>1. GroupsAre(groups, input, now)
      BY <2>4 DEF now
    <3>2. RowAt(input, s, now[s] + 1).kind # "transaction"
      BY <2>7, <2>k
    <3>3. GroupsAre(groups, input, then)
      BY ONLY <2>5, <3>1, <3>2, GroupsSkip
    <3> QED BY <2>6, <2>7, <3>3
  <2>8. CASE Fail("overflow")
    <3>1. pc' = "failed" /\ groups' = groups
      BY <2>8 DEF Fail
    <3> QED BY <1>a, <3>1 DEF GroupInv
  <2>9. CASE /\ m.row.kind = "transaction" /\ ~Overflown(g) /\ next' = next + 1 /\ pc' = pc
             /\ groups' = [i \in DOMAIN groups \cup {id} |-> IF i = id THEN g ELSE groups[i]]
    <3>1. GroupsAre(groups, input, now)
      BY <2>4 DEF now
    <3>2. RowAt(input, s, now[s] + 1).kind = "transaction"
      BY <2>9, <2>k
    <3>3. /\ id = identityKey(m)
          /\ g = GroupWith(IF id \in DOMAIN groups THEN groups[id] ELSE NewGroup(m), m)
      BY DEF id, g
    <3>4. GroupsAre(groups', input, then)
      BY ONLY <1>0, <2>5, <2>9, <3>1, <3>2, <3>3, GroupsGrow
    <3> QED BY <2>6, <2>9, <3>4
  <2> QED BY <2>1, <2>7, <2>8, <2>9
<1> QED BY <1>1, <1>2, <1>3, <1>4, GroupKinds

-----------------------------------------------------------------------------
\* The header control and the workbook.

HeadersOf(run) == {r \in Range(run.rows[Settlement]) : r.kind # "transaction" /\ r.sid = SelectedID}

InScopeAmount(run) ==
    [o \in 1..Count(run, Settlement) |->
        IF RowAt(run, Settlement, o).scope = "IN_SCOPE" THEN RowAt(run, Settlement, o).amount ELSE 0]

\* One header, and it states the exact sum of the settlements in scope.
HeaderIs(run) ==
    /\ Cardinality(HeadersOf(run)) = 1
    /\ \A r \in HeadersOf(run) :
          r.amount = SumFunctionOnSet(InScopeAmount(run), 1..Count(run, Settlement))

HeaderAmount(run) == (CHOOSE r \in HeadersOf(run) : TRUE).amount

LEMMA SubFits ==
    ASSUME NEW a \in Int64, NEW b \in Int64, Sub(a, b) = 0
    PROVE  a = b
BY WordAssumption, OverflowAssumption DEF Sub, Wrap, Int64, MinInt, WordSize

LEMMA HeaderRows ==
    ASSUME NEW run, GoodRun(run), Cardinality(HeadersOf(run)) = 1
    PROVE  /\ HeadersOf(run) # {}
           /\ \A r \in HeadersOf(run) : r.amount \in Int64
           /\ (CHOOSE r \in HeadersOf(run) : TRUE) \in HeadersOf(run)
<1>1. HeadersOf(run) # {}
  BY FS_EmptySet
<1>2. ASSUME NEW r \in HeadersOf(run) PROVE r.amount \in Int64
  <2> DEFINE rows == run.rows[Settlement]
  <2>1. rows \in Seq(Range(rows)) /\ r \in Range(rows) /\ Settlement \in Source
    BY Zenon DEF GoodRun, HeadersOf, Source
  <2>2. PICK o \in 1..Len(rows) : r = rows[o]
    <3> HIDE DEF rows
    <3> QED BY ONLY <2>1, SeqRange
  <2>3. GoodRow(RowAt(run, Settlement, o), Settlement, o)
    BY <2>1, RowsOfRun DEF Count
  <2> QED BY <2>2, <2>3 DEF GoodRow, RowAt
<1> QED BY <1>1, <1>2

LEMMA InScopeType ==
    ASSUME NEW run, GoodRun(run)
    PROVE  /\ Count(run, Settlement) \in Nat
           /\ InScopeAmount(run) \in [1..Count(run, Settlement) -> Int64]
           /\ \A o \in 1..Count(run, Settlement) : RowAt(run, Settlement, o).amount \in Int64
<1>1. Settlement \in Source
  BY DEF Source
<1>2. Count(run, Settlement) \in Nat
  BY <1>1, RowsOfRun
<1>3. \A o \in 1..Count(run, Settlement) : RowAt(run, Settlement, o).amount \in Int64
  BY <1>1, AmountsType
<1> QED BY <1>2, <1>3, Int64Type DEF InScopeAmount

LEMMA HeaderHolds ==
    ASSUME GoodRun(input), HeaderAgrees
    PROVE  HeaderIs(input)
<1> DEFINE n == Count(input, Settlement)
           w == InScopeAmount(input)
<1>1. Headers = HeadersOf(input)
  BY DEF Headers, HeadersOf
<1>2. Cardinality(HeadersOf(input)) = 1 /\ \A r \in HeadersOf(input) : r.amount = Activity
  BY <1>1 DEF HeaderAgrees
<1>3. Activity = AddAll(0, w)
  <2> DEFINE rows == input.rows[Settlement]
  <2>1. rows \in Seq(Range(rows))
    BY Zenon DEF GoodRun, Source
  <2>2. DOMAIN rows = 1..Len(rows)
    <3> HIDE DEF rows
    <3> QED BY ONLY <2>1, SeqIs
  <2>3. [i \in DOMAIN rows |-> IF rows[i].scope = "IN_SCOPE" THEN rows[i].amount ELSE 0] = w
    BY <2>2 DEF InScopeAmount, Count, RowAt
  <2> QED BY <2>3 DEF Activity
<1>4. n \in Nat /\ w \in [1..n -> Int64]
  BY InScopeType
<1> HIDE DEF n, w
<1>5. Len(w) = n /\ \A k \in 1..n : w[k] \in Int64
  BY <1>4, FcnIsSeq
<1>6. Activity \in Int64
  BY <1>2, HeaderRows
<1>7. AddAll(0, w) = 0 + SumFunctionOnSet(w, 1..n)
  <2>1. AddAll(0, w) # Overflow /\ 0 \in Int64
    BY <1>3, <1>6, Int64Type
  <2>2. Len(w) \in Nat /\ \A k \in 1..Len(w) : w[k] \in Int64
    BY <1>4, <1>5
  <2>3. AddAll(0, w) = 0 + SumFunctionOnSet(w, 1..Len(w))
    BY ONLY <2>1, <2>2, AddAllIs
  <2> QED BY <1>5, <2>3
<1>8. SumFunctionOnSet(w, 1..n) \in Int
  <2>1. IsFiniteSet(1..n) /\ \A k \in 1..n : w[k] \in Int
    BY <1>4, <1>5, UpToFinite, Int64Type
  <2> QED BY <2>1, SumType
<1>9. Activity = SumFunctionOnSet(w, 1..n)
  BY <1>3, <1>7, <1>8
<1> QED BY <1>2, <1>9 DEF HeaderIs, n, w

\* The totals of the settlements add up to the header.
AccountIs(run, sum) ==
    SumFunctionOnSet([t \in Target |-> sum[t][Settlement]], Target) = HeaderAmount(run)

\* Each summary field is once in an order of them.
LEMMA OrderIs ==
    ASSUME NEW order \in SetToSeqs(Target), NEW n, n = Cardinality(Target)
    PROVE  /\ n \in Nat /\ order \in [1..n -> Target]
           /\ \A i, j \in 1..n : order[i] = order[j] => i = j
           /\ \A t \in Target : \E i \in 1..n : order[i] = t
<1>1. n \in Nat /\ IsFiniteSet(Target)
  BY TargetAssumption, FS_CardinalityType
<1>2. order \in [1..n -> Target] /\ \A i, j \in 1..n : order[i] = order[j] => i = j
  BY DEF SetToSeqs
<1>3. order \in Injection(1..n, Target)
  BY <1>2 DEF Injection, IsInjective
<1>4. IsFiniteSet(1..n) /\ Cardinality(1..n) = n
  BY <1>1, FS_Interval
<1>5. order \in Surjection(1..n, Target)
  BY <1>1, <1>3, <1>4, FS_Injection
<1>6. \A t \in Target : \E i \in 1..n : order[i] = t
  BY <1>5 DEF Surjection
<1> QED BY <1>1, <1>2, <1>6

LEMMA VerifiedIs ==
    ASSUME GoodRun(input), SummaryInv, HeaderIs(input), NEW order \in SetToSeqs(Target),
           Writable(order), Verifies(order)
    PROVE  issues = {} /\ AccountIs(input, summary)
<1> DEFINE n == Cardinality(Target)
           w == [i \in 1..n |-> summary[order[i]][Settlement]]
           f == [t \in Target |-> summary[t][Settlement]]
<1>1. /\ n \in Nat /\ order \in [1..n -> Target]
      /\ \A i, j \in 1..n : order[i] = order[j] => i = j
      /\ \A t \in Target : \E i \in 1..n : order[i] = t
  BY OrderIs
<1> HIDE DEF n
<1>2. \A t \in Target : summary[t][Settlement] \in Int64
  BY DEF SummaryInv, Source
<1>3. w \in [1..n -> Int64] /\ \A i \in 1..n : w[i] = f[order[i]] /\ f[order[i]] \in Int
  BY <1>1, <1>2, Int64Type
<1>4. Subtotal(Settlement, order) = AddAll(0, w)
  BY <1>1 DEF Subtotal
<1>5. Subtotal(Settlement, order) # Overflow /\ Sub(Subtotal(Settlement, order), HeaderTotal) = 0
  BY DEF Writable, Verifies
<1> HIDE DEF w, f
<1>6. Len(w) = n /\ \A k \in 1..n : w[k] \in Int64
  BY <1>1, <1>3, FcnIsSeq
<1>7. AddAll(0, w) \in Int64 /\ AddAll(0, w) = 0 + SumFunctionOnSet(w, 1..n)
  <2>1. AddAll(0, w) # Overflow /\ 0 \in Int64
    BY <1>4, <1>5, Int64Type
  <2>2. Len(w) \in Nat /\ \A k \in 1..Len(w) : w[k] \in Int64
    BY <1>1, <1>6
  <2>3. AddAll(0, w) \in Int64 /\ AddAll(0, w) = 0 + SumFunctionOnSet(w, 1..Len(w))
    BY ONLY <2>1, <2>2, AddAllIs
  <2> QED BY <1>6, <2>3
<1>8. IsFiniteSet(1..n)
  BY <1>1, UpToFinite
<1>9. SumFunctionOnSet(f, Target) = SumFunctionOnSet(w, 1..n)
  <2>1. \A i \in 1..n : order[i] \in Target
    BY <1>1
  <2>2. Numbers(order, 1..n, Target)
    BY <1>1, <1>8, <2>1 DEF Numbers
  <2> DEFINE K == 1..n
  <2>3. Numbers(order, K, Target) /\ \A i \in K : f[order[i]] \in Int /\ w[i] = f[order[i]]
    BY <1>3, <2>2
  <2> HIDE DEF K
  <2>4. SumFunctionOnSet(f, Target) = SumFunctionOnSet(w, K)
    BY ONLY <2>3, SumOnto
  <2> QED BY <2>4 DEF K
<1>10. SumFunctionOnSet(w, 1..n) \in Int
  BY <1>6, <1>8, SumType, Int64Type
<1>11. SumFunctionOnSet(f, Target) = AddAll(0, w)
  BY <1>7, <1>9, <1>10
<1>12. HeaderTotal = HeaderAmount(input) /\ HeaderAmount(input) \in Int64
  <2>1. Headers = HeadersOf(input)
    BY DEF Headers, HeadersOf
  <2>2. HeaderAmount(input) \in Int64
    BY HeaderRows DEF HeaderIs, HeaderAmount
  <2> QED BY <2>1, <2>2 DEF HeaderTotal, HeaderAmount
<1>13. AddAll(0, w) = HeaderAmount(input)
  BY <1>4, <1>5, <1>7, <1>12, SubFits
<1> QED BY <1>11, <1>13 DEF Verifies, AccountIs, f

-----------------------------------------------------------------------------
\* The tables.

\* The row_mapping of the i-th contribution of a row.
Line(run, s, o, i) ==
    LET m == MappedAt(run, s, o)
        c == m.contribs[i]
    IN  [src |-> m.row.src, ord |-> m.row.ord, scope |-> m.row.scope, ix |-> i,
         rule |-> c.rule.line, field |-> c.field, target |-> c.target,
         amount |-> c.amount, ref |-> c.key]

Lines(run, s, o) == Len(MappedAt(run, s, o).contribs)

\* The tables d of a run with totals sum, groups grp and issues iss.
DbIs(d, run, sum, grp, iss) ==
    /\ d.issues = iss /\ d.totals = sum /\ d.controls = HeadersOf(run)
    /\ \A r : r \in d.rows <=> \E s \in Source : \E o \in 1..Count(run, s) : r = RowAt(run, s, o)
    /\ \A x : x \in d.mappings <=>
          \E s \in Source : \E o \in 1..Count(run, s) : \E i \in 1..Lines(run, s, o) : x = Line(run, s, o, i)
    /\ d.contributions = {x \in d.mappings : x.scope = "IN_SCOPE" /\ Routed(x)}
    /\ \A g \in d.groups : \E i \in DOMAIN grp :
          g.scope = grp[i].scope /\ g.amount = grp[i].amount /\ g.status = StatusOf(grp[i])
    /\ \A x : x \in d.members <=>
          \E i \in DOMAIN grp : \E s \in Source : \E o \in grp[i].rows[s] : x = <<i, s, o>>

LEMMA TablesAre ==
    ASSUME MapInv, PlaceInv, pc \in Later
    PROVE  DbIs(Tables, input, summary, groups, issues)
<1> DEFINE all == AllMapped
<1>0. GoodRun(input)
  BY DEF MapInv
<1>1. \A x : x \in Range(all) <=>
         \E s \in Source : \E o \in 1..Count(input, s) : x = MappedAt(input, s, o)
  BY <1>0, AllMappedIs, AllMappedRange
<1>2. /\ Tables.rows = {m.row : m \in Range(all)}
      /\ Tables.mappings = RowMappings
      /\ Tables.contributions = {x \in RowMappings : x.scope = "IN_SCOPE" /\ Routed(x)}
      /\ Tables.controls = Headers /\ Tables.totals = summary /\ Tables.issues = issues
      /\ Tables.groups = {[id |-> i, key |-> groups[i].key, scope |-> groups[i].scope,
                           amount |-> groups[i].amount, status |-> StatusOf(groups[i])]
                             : i \in DOMAIN groups}
      /\ Tables.members = UNION {{<<i, s, o>> : o \in groups[i].rows[s]}
                                     : i \in DOMAIN groups, s \in Source}
  BY DEF Tables
<1> DEFINE d == Tables
<1> HIDE DEF d, all
<1>3. \A r : r \in d.rows <=> \E s \in Source : \E o \in 1..Count(input, s) : r = RowAt(input, s, o)
  <2>1. \A s \in Source : \A o \in 1..Count(input, s) : MappedAt(input, s, o).row = RowAt(input, s, o)
    BY <1>0, MappedAtIs, Zenon DEF SoundMapping
  <2>2. \A r : r \in d.rows <=> \E m \in Range(all) : r = m.row
    BY <1>2 DEF d
  <2> QED BY ONLY <1>1, <2>1, <2>2
<1>4. \A x : x \in d.mappings <=>
         \E s \in Source : \E o \in 1..Count(input, s) : \E i \in 1..Lines(input, s, o) : x = Line(input, s, o, i)
  <2>1. ASSUME NEW s \in Source, NEW o \in 1..Count(input, s), NEW m, m = MappedAt(input, s, o)
        PROVE  \A x : x \in MappingsOf(m) <=> \E i \in 1..Lines(input, s, o) : x = Line(input, s, o, i)
    <3>1. SoundMapping(m, input, s, o)
      BY <1>0, <2>1, MappedAtIs
    <3>2. DOMAIN m.contribs = 1..Lines(input, s, o)
      BY <2>1, <3>1, Zenon DEF SoundMapping, Lines
    <3>3. \A x : x \in MappingsOf(m) <=> \E i \in DOMAIN m.contribs : x = Line(input, s, o, i)
      BY <2>1 DEF MappingsOf, Line
    <3> QED BY <3>2, <3>3
  <2>2. \A x : x \in d.mappings <=> \E m \in Range(all) : x \in MappingsOf(m)
    BY <1>2 DEF d, RowMappings, all
  <2>3. \A s \in Source : \A o \in 1..Count(input, s) : \A x :
           x \in MappingsOf(MappedAt(input, s, o)) <=> \E i \in 1..Lines(input, s, o) : x = Line(input, s, o, i)
    BY <2>1
  <2> DEFINE OfRow(s, o) == MappingsOf(MappedAt(input, s, o))
             At(x, s, o) == \E i \in 1..Lines(input, s, o) : x = Line(input, s, o, i)
  <2>4. \A s \in Source : \A o \in 1..Count(input, s) : \A x : x \in OfRow(s, o) <=> At(x, s, o)
    BY <2>3
  <2>5. \A x : x \in d.mappings <=> \E s \in Source : \E o \in 1..Count(input, s) : x \in OfRow(s, o)
    <3>1. \A s \in Source : \A o \in 1..Count(input, s) :
             MappedAt(input, s, o) \in Range(all) /\ OfRow(s, o) = MappingsOf(MappedAt(input, s, o))
      BY <1>1
    <3> HIDE DEF OfRow
    <3>2. ASSUME NEW x \in d.mappings
          PROVE  \E s \in Source : \E o \in 1..Count(input, s) : x \in OfRow(s, o)
      <4>1. PICK m \in Range(all) : x \in MappingsOf(m)
        BY <2>2
      <4>2. PICK s \in Source : \E o \in 1..Count(input, s) : m = MappedAt(input, s, o)
        BY <1>1, <4>1
      <4>3. PICK o \in 1..Count(input, s) : m = MappedAt(input, s, o)
        BY <4>2
      <4> QED BY <3>1, <4>1, <4>3, Zenon
    <3>3. ASSUME NEW s \in Source, NEW o \in 1..Count(input, s), NEW x \in OfRow(s, o)
          PROVE  x \in d.mappings
      BY <2>2, <3>1, <3>3, Zenon
    <3> QED BY <3>2, <3>3, Zenon
  <2> HIDE DEF OfRow, At
  <2>6. \A x : x \in d.mappings <=> \E s \in Source : \E o \in 1..Count(input, s) : At(x, s, o)
    BY ONLY <2>4, <2>5, Zenon
  <2> QED BY <2>6, Zenon DEF At
<1>5. d.contributions = {x \in d.mappings : x.scope = "IN_SCOPE" /\ Routed(x)}
  BY <1>2 DEF d
<1>6. d.controls = HeadersOf(input) /\ d.totals = summary /\ d.issues = issues
  BY <1>2 DEF d, Headers, HeadersOf
<1>7. \A g \in d.groups : \E i \in DOMAIN groups :
         g.scope = groups[i].scope /\ g.amount = groups[i].amount /\ g.status = StatusOf(groups[i])
  BY <1>2 DEF d
<1>8. \A x : x \in d.members <=>
         \E i \in DOMAIN groups : \E s \in Source : \E o \in groups[i].rows[s] : x = <<i, s, o>>
  <2> DEFINE Of(i, s) == {<<i, s, o>> : o \in groups[i].rows[s]}
  <2>1. d.members = UNION {Of(i, s) : i \in DOMAIN groups, s \in Source}
    BY <1>2 DEF d
  <2>2. \A i, s, x : x \in Of(i, s) <=> \E o \in groups[i].rows[s] : x = <<i, s, o>>
    OBVIOUS
  <2> HIDE DEF Of
  <2>3. \A x : x \in d.members <=> \E i \in DOMAIN groups : \E s \in Source : x \in Of(i, s)
    BY ONLY <2>1
  <2> DEFINE At(x, i, s) == \E o \in groups[i].rows[s] : x = <<i, s, o>>
  <2>4. \A i, s, x : x \in Of(i, s) <=> At(x, i, s)
    BY <2>2
  <2> HIDE DEF At
  <2>5. \A x : x \in d.members <=> \E i \in DOMAIN groups : \E s \in Source : At(x, i, s)
    BY ONLY <2>3, <2>4, Zenon
  <2> QED BY <2>5, Zenon DEF At
<1> QED BY <1>3, <1>4, <1>5, <1>6, <1>7, <1>8 DEF d, DbIs

\* What the strict gate saw.
Balanced(sum, grp) ==
    /\ \A t \in Target : sum[t][Payment] = sum[t][Settlement]
    /\ \A id \in DOMAIN grp : grp[id].scope = "IN_SCOPE" => GroupBalances(grp[id])

\* What is known at each stage behind grouping.
ReportInv ==
    /\ (failure # "") = (pc = "failed")
    /\ pc \in {"report", "persist", "register", "reported"} => HeaderIs(input)
    /\ pc \in {"persist", "register", "reported"} /\ Strict =>
          issues = {} /\ AccountIs(input, summary)
    /\ pc \in {"register", "reported"} =>
          /\ Strict => Balanced(summary, groups)
          /\ DbIs(db, input, summary, groups, issues)
    /\ pc \notin {"register", "reported"} => db = Empty

LEMMA ReportInvStep ==
    ASSUME MapInv, PlaceInv, SummaryInv, ReportInv, [Next]_vars
    PROVE  ReportInv'
<1> USE DEF ReportInv, Source, Payment, Settlement
<1>0. GoodRun(input)
  BY DEF MapInv
<1>f. ASSUME NEW why, why # "", Fail(why), pc \notin {"register", "reported"} PROVE ReportInv'
  BY <1>f DEF Fail, Strict
<1>1. CASE MapRow
  <2>1. pc \in Source /\ (Fail("overflow") \/ UNCHANGED <<input, pc, groups, db, failure>>)
    BY <1>1 DEF MapRow, InMap
  <2> QED BY <1>f, <2>1
<1>2. CASE MapRowDiagnosticError
  BY <1>2 DEF MapRowDiagnosticError, InMap
<1>3. CASE MapDone
  BY <1>3 DEF MapDone, InMap, Goto
<1>4. CASE GroupRow
  <2>1. pc = "group" /\ (Fail("overflow") \/ UNCHANGED <<input, pc, mapped, summary, issues, db, failure>>)
    BY <1>4, Zenon DEF GroupRow
  <2> QED BY <1>f, <2>1
<1>5. CASE GroupDone
  BY <1>5 DEF GroupDone, Goto
<1>6. CASE CheckHeader
  <2>1. HeaderIs(input)
    BY <1>0, <1>6, HeaderHolds DEF CheckHeader
  <2> QED BY <1>6, <2>1 DEF CheckHeader, Goto
<1>7. CASE WriteReport
  <2>1. /\ pc = "report"
        /\ \/ Fail("write report")
           \/ Fail("verify report")
           \/ /\ Goto("persist") /\ UNCHANGED <<input, mapped, summary, issues, groups, db, failure>>
              /\ \E order \in SetToSeqs(Target) : Writable(order) /\ (Strict => Verifies(order))
    BY <1>7, WriteReportIs, Zenon
  <2>2. ASSUME Goto("persist"), UNCHANGED <<input, mapped, summary, issues, groups, db, failure>>,
               NEW order \in SetToSeqs(Target), Writable(order), Strict => Verifies(order)
        PROVE  ReportInv'
    <3>1. HeaderIs(input)
      BY <2>1
    <3>2. Strict => issues = {} /\ AccountIs(input, summary)
      BY <1>0, <2>2, <3>1, VerifiedIs
    <3> QED BY <2>1, <2>2, <3>1, <3>2 DEF Goto, Strict
  <2> QED BY <1>f, <2>1, <2>2
<1>8. CASE Persist
  <2>1. /\ pc = "persist" /\ GatePasses /\ db' = Tables /\ pc' = "register"
        /\ UNCHANGED <<input, mapped, summary, issues, groups, failure>>
    BY <1>8 DEF Persist, Goto
  <2>2. DbIs(Tables, input, summary, groups, issues)
    BY <2>1, TablesAre DEF Later
  <2>3. Strict => Balanced(summary, groups)
    BY <2>1 DEF GatePasses, Balanced
  <2> QED BY <2>1, <2>2, <2>3 DEF Strict
<1>9. CASE RegisterReport
  BY <1>9 DEF RegisterReport, Goto, Strict
<1>10. CASE RejectRules \/ HeaderDiffers \/ GateRefuses \/ DuplicateMapping
  <2>1. /\ pc \notin {"register", "reported"}
        /\ Fail("rules") \/ Fail("header") \/ Fail("gate") \/ Fail("duplicate mapping")
    BY <1>10 DEF RejectRules, HeaderDiffers, GateRefuses, DuplicateMapping
  <2> QED BY <1>f, <2>1
<1>11. CASE MapRowStrictError
  <2>1. pc \in Source /\ Mapped.err # "" /\ Fail(Mapped.err)
    BY <1>11 DEF MapRowStrictError, InMap
  <2> QED BY <1>f, <2>1
<1>12. CASE UNCHANGED vars
  BY <1>12 DEF vars, Strict
<1> QED BY <1>1, <1>2, <1>3, <1>4, <1>5, <1>6, <1>7, <1>8, <1>9, <1>10, <1>11, <1>12 DEF Next

-----------------------------------------------------------------------------
\* The inductive invariant.

Inv == MapInv /\ PlaceInv /\ SummaryInv /\ GroupInv /\ ReportInv

LEMMA NothingSummed ==
    ASSUME NEW f
    PROVE  SumFunctionOnSet(f, 1..0) = 0
<1>1. 1..0 = {}
  OBVIOUS
<1> QED BY <1>1, SumEmpty, Zenon

LEMMA InvInit == Init => Inv
<1> SUFFICES ASSUME Init PROVE Inv
  OBVIOUS
<1> USE DEF Source, Payment, Settlement
<1>0. GoodRun(input)
  BY InitRun
<1>1. /\ pc = Payment /\ next = 1 /\ issues = {} /\ groups = Empty /\ db = Empty /\ failure = ""
      /\ mapped = [s \in Source |-> <<>>]
      /\ summary = [t \in Target |-> [s \in Source |-> 0]]
  BY DEF Init
<1>2. DOMAIN mapped = Source /\ \A s \in Source : mapped[s] = <<>>
  BY <1>1
<1>3. \A s \in Source : Got(mapped, s) = 0
  BY <1>2, EmptySeqIs, Zenon DEF Got
<1>4. \A s \in Source : Count(input, s) \in Nat
  BY <1>0, RowsOfRun
<1>5. MapInv
  <2>1. \A s \in Source : <<>> = Prefix(input, s, 0)
    BY DEF Prefix
  <2>2. \A s \in Source : /\ Got(mapped, s) \in Nat /\ Got(mapped, s) <= Count(input, s)
                          /\ ~(Got(mapped, s) > 0) /\ 1..Got(mapped, s) = {}
    BY <1>3, <1>4
  <2>3. \A s \in Source : mapped[s] = Prefix(input, s, Got(mapped, s))
    BY <1>2, <1>3, <2>1, Zenon
  <2> QED BY <1>0, <1>2, <2>2, <2>3, Zenon DEF MapInv
<1>6. PlaceInv
  <2>0. pc = Payment /\ next = 1
    BY <1>1, Zenon
  <2>1. Got(mapped, Payment) = next - 1 /\ Got(mapped, Settlement) = 0
    BY ONLY <2>0, <1>3
  <2>2. pc \in Source /\ pc # Settlement /\ pc \notin Later /\ next \in Nat \ {0}
    BY ONLY <2>0 DEF Later
  <2> QED BY ONLY <2>1, <2>2, Zenon DEF PlaceInv
<1>7. SummaryInv
  <2>1. 0 \in Int64
    BY Int64Type
  <2>2. summary \in [Target -> [Source -> Int64]]
    BY <1>1, <2>1
  <2>3. \A t \in Target, s \in Source : summary[t][s] = 0
    BY <1>1
  <2>4. \A t \in Target, s \in Source :
           SumFunctionOnSet(Counted(input, s, t), 1..Got(mapped, s)) = 0
    BY <1>3, NothingSummed, Zenon
  <2> QED BY <2>2, <2>3, <2>4, Zenon DEF SummaryInv
<1>8. GroupInv
  <2>1. DOMAIN groups = {}
    BY <1>1 DEF Empty
  <2> QED BY <1>1, <2>1 DEF GroupInv, Later
<1>9. ReportInv
  BY <1>1 DEF ReportInv
<1> QED BY <1>5, <1>6, <1>7, <1>8, <1>9 DEF Inv

LEMMA InvStep == Inv /\ [Next]_vars => Inv'
<1> SUFFICES ASSUME Inv, [Next]_vars PROVE Inv'
  OBVIOUS
<1>1. MapInv /\ PlaceInv /\ SummaryInv /\ GroupInv /\ ReportInv
  BY DEF Inv
<1>2. MapInv' /\ PlaceInv'
  BY <1>1, MapInvStep
<1>3. SummaryInv'
  BY <1>1, SummaryInvStep
<1>4. GroupInv'
  BY <1>1, GroupInvStep
<1>5. ReportInv'
  BY <1>1, ReportInvStep
<1> QED BY <1>2, <1>3, <1>4, <1>5 DEF Inv

\* In every reachable state of a run, the mapped rows, the totals, the groups, the
\* report's checks and the tables are what the input rows and the rules say.
THEOREM Invariance == Spec => []Inv
<1>1. Init => Inv
  BY InvInit
<1>2. Inv /\ [Next]_vars => Inv'
  BY InvStep
<1> QED BY <1>1, <1>2, PTL DEF Spec

\* TypeOK: amounts stay int64 through Engine.Map and BuildGroups, which check every
\* addition with money.Add, and a failure is recorded exactly when the command gave up.
THEOREM TypeCorrect == Spec => []TypeOK
<1>1. Inv => TypeOK
  <2> SUFFICES ASSUME Inv PROVE TypeOK
    OBVIOUS
  <2>1. input.mode \in {StrictMode, DiagnosticMode}
    BY DEF Inv, MapInv, GoodRun
  <2>2. pc \in Source \cup Later \cup {"failed"} /\ next \in Nat \ {0}
    BY DEF Inv, PlaceInv
  <2>3. summary \in [Target -> [Source -> Int64]]
    BY DEF Inv, SummaryInv
  <2>4. \A id \in DOMAIN groups : groups[id].amount \in [Source -> Int64]
    BY DEF Inv, GroupInv
  <2>5. (failure # "") = (pc = "failed")
    BY DEF Inv, ReportInv
  <2> QED BY <2>1, <2>2, <2>3, <2>4, <2>5 DEF TypeOK, Later
<1> QED BY <1>1, Invariance, PTL

-----------------------------------------------------------------------------
\* What a run that maps and groups promises.

LEMMA LastMapped ==
    ASSUME MapInv, NEW s \in Source, mapped[s] # <<>>
    PROVE  /\ \E o \in 1..Got(mapped, s) : Last(mapped[s]) = MappedAt(input, s, o)
           /\ \E o \in 1..Count(input, s) : Last(mapped[s]) = MappedAt(input, s, o)
<1> DEFINE n == Got(mapped, s)
<1>1. n \in Nat /\ n <= Count(input, s) /\ mapped[s] = Prefix(input, s, n) /\ Count(input, s) \in Nat
  BY RowsOfRun DEF MapInv
<1>2. n # 0
  <2>1. Prefix(input, s, 0) = <<>>
    BY DEF Prefix
  <2> HIDE DEF n
  <2> QED BY ONLY <1>1, <2>1, mapped[s] # <<>>, Zenon
<1>3. Last(mapped[s]) = mapped[s][n]
  BY DEF Last, Got
<1> HIDE DEF n
<1>4. n \in 1..n /\ n \in 1..Count(input, s)
  BY ONLY <1>1, <1>2
<1>5. Prefix(input, s, n)[n] = MappedAt(input, s, n)
  BY ONLY <1>1, <1>4, PrefixIs
<1>6. Last(mapped[s]) = MappedAt(input, s, n)
  BY ONLY <1>1, <1>3, <1>5, Zenon
<1> QED BY <1>4, <1>6 DEF n

LEMMA SpecificFirst ==
    ASSUME NEW rules, rules \in Seq(Range(rules)), NEW row, NEW c \in Possible(rules, row),
           NEW r \in Range(rules), Matches(r, row)
    PROVE  /\ ~(r.tx # "" /\ c.rule.tx = "")
           /\ (r.tx = "") = (c.rule.tx = "") /\ FieldOf(row, r) = c.field =>
                  ~(Label(r.desc) # "ANY" /\ Label(c.rule.desc) = "ANY")
<1> DEFINE sel == Selected(rules, row)
           X == Range(rules)
<1>1. c.rule \in Range(Competing(sel, row, c.field))
  BY PossibleIs
<1>2. /\ sel \in Seq(X)
      /\ \A q : q \in Range(sel) <=>
            /\ q \in X /\ Matches(q, row)
            /\ q.tx # "" \/ \A p \in X : Matches(p, row) => p.tx = ""
  BY SelectedIs
<1> HIDE DEF sel
<1>3. \A q : q \in Range(Competing(sel, row, c.field)) <=>
         /\ q \in Range(sel) /\ FieldOf(row, q) = c.field
         /\ \/ Label(q.desc) # "ANY"
            \/ \A p \in Range(sel) : FieldOf(row, p) = c.field => Label(p.desc) = "ANY"
  <2> HIDE DEF X
  <2>1. sel \in Seq(X)
    BY <1>2
  <2> QED BY ONLY <2>1, CompetingIs
<1>4. c.rule.tx # "" \/ \A p \in X : Matches(p, row) => p.tx = ""
  BY <1>1, <1>2, <1>3, Zenon
<1>5. r \in X /\ Matches(r, row)
  OBVIOUS
<1> HIDE DEF X
<1>6. ~(r.tx # "" /\ c.rule.tx = "")
  BY <1>4, <1>5, Zenon
<1>7. ASSUME (r.tx = "") = (c.rule.tx = ""), FieldOf(row, r) = c.field
      PROVE  ~(Label(r.desc) # "ANY" /\ Label(c.rule.desc) = "ANY")
  <2>1. r.tx # "" \/ \A p \in X : Matches(p, row) => p.tx = ""
    BY ONLY <1>4, <1>7
  <2>2. r \in Range(sel)
    BY ONLY <1>2, <1>5, <2>1, Zenon
  <2>3. \/ Label(c.rule.desc) # "ANY"
        \/ \A p \in Range(sel) : FieldOf(row, p) = c.field => Label(p.desc) = "ANY"
    BY ONLY <1>1, <1>3, Zenon
  <2> QED BY ONLY <1>7, <2>2, <2>3, Zenon
<1> QED BY <1>6, <1>7

\* MostSpecificRule: selectRules never lets a rule contribute to a row when a matching
\* rule names the transaction type and it does not, and ruleSpecificity never one that
\* an exact description for the same field should have displaced.
THEOREM MostSpecificRuleHolds == Spec => []MostSpecificRule
<1>1. Inv => MostSpecificRule
  <2> SUFFICES ASSUME Inv, NEW s \in Source, mapped[s] # <<>>,
                      NEW m, m = Last(mapped[s]),
                      NEW c \in Range(m.contribs), NEW r \in Range(input.rules[s]),
                      Matches(r, m.row)
               PROVE  /\ ~(r.tx # "" /\ c.rule.tx = "")
                      /\ (r.tx = "") = (c.rule.tx = "") /\ FieldOf(m.row, r) = c.field =>
                             ~(Label(r.desc) # "ANY" /\ Label(c.rule.desc) = "ANY")
    BY Zenon DEF MostSpecificRule
  <2>1. MapInv /\ GoodRun(input)
    BY DEF Inv, MapInv
  <2>2. PICK o \in 1..Count(input, s) : m = MappedAt(input, s, o)
    BY <2>1, LastMapped
  <2>3. SoundMapping(m, input, s, o)
    BY <2>1, <2>2, MappedAtIs
  <2>4. m.row = RowAt(input, s, o)
    BY <2>3, Zenon DEF SoundMapping
  <2>5. c \in Possible(input.rules[s], m.row)
    <3>1. PICK i \in DOMAIN m.contribs : c = m.contribs[i]
      BY Zenon DEF Range
    <3>2. i \in 1..Len(m.contribs)
      BY <2>3, <3>1, Zenon DEF SoundMapping
    <3>3. m.contribs[i] \in Possible(input.rules[s], RowAt(input, s, o))
      BY <2>3, <3>2, Zenon DEF SoundMapping
    <3> QED BY <2>4, <3>1, <3>3, Zenon
  <2>6. input.rules[s] \in Seq(Range(input.rules[s]))
    BY <2>1, Zenon DEF GoodRun
  <2> QED BY <2>5, <2>6, SpecificFirst
<1> QED BY <1>1, Invariance, PTL

\* The transactions of a source.
TransactionsOf(run, s) == {o \in 1..Count(run, s) : RowAt(run, s, o).kind = "transaction"}

\* The row is in one group, that of the identity.
HomeIs(grp, id, s, o) ==
    /\ {i \in DOMAIN grp : o \in grp[i].rows[s]} = {id}
    /\ <<grp[id].key, grp[id].sid, grp[id].cur, grp[id].scope>> = id

LEMMA OneHome ==
    ASSUME NEW grp, NEW run, GoodRun(run), GroupsAre(grp, run, AllRows(run)),
           NEW s \in Source, NEW o \in TransactionsOf(run, s)
    PROVE  HomeIs(grp, IdAt(run, s, o), s, o)
<1> DEFINE n == Count(run, s)
           id == IdAt(run, s, o)
<1>1. AllRows(run)[s] = n /\ n \in Nat /\ o \in 1..n /\ RowAt(run, s, o).kind = "transaction"
  BY RowsOfRun DEF AllRows, TransactionsOf
<1>2. id \in DOMAIN grp
  BY <1>1 DEF GroupsAre
<1>3. \A i \in DOMAIN grp : grp[i].rows[s] = Members(run, s, i, n)
  BY <1>1, Zenon DEF GroupsAre, GroupSums
<1>4. \A i : o \in Members(run, s, i, n) <=> id = i
  BY <1>1 DEF Members
<1>5. GroupShape(grp[id], id)
  BY <1>2, Zenon DEF GroupsAre
<1>6. <<grp[id].key, grp[id].sid, grp[id].cur, grp[id].scope>> = id
  BY <1>5, Zenon DEF GroupShape
<1> HIDE DEF n, id
<1>7. {i \in DOMAIN grp : o \in grp[i].rows[s]} = {id}
  BY ONLY <1>2, <1>3, <1>4
<1> QED BY <1>6, <1>7 DEF id, HomeIs

\* The rows of a source are numbered.
LEMMA RowsNumbered ==
    ASSUME NEW run, GoodRun(run), NEW s \in Source, NEW I \in SUBSET (1..Count(run, s)),
           NEW g, \A o \in I : g[o] = RowAt(run, s, o),
           NEW T, \A r : r \in T <=> \E o \in I : r = RowAt(run, s, o)
    PROVE  Numbers(g, I, T)
<1>1. Count(run, s) \in Nat /\ \A o \in 1..Count(run, s) : GoodRow(RowAt(run, s, o), s, o)
  BY RowsOfRun
<1>2. \A o \in I : RowAt(run, s, o).ord = o
  BY <1>1 DEF GoodRow
<1>3. IsFiniteSet(1..Count(run, s))
  BY <1>1, UpToFinite
<1>4. IsFiniteSet(I)
  BY <1>3, FS_Subset
<1>5. \A o \in I : g[o] \in T
  BY Zenon
<1>6. \A r \in T : \E o \in I : g[o] = r
  BY Zenon
<1>7. \A o, p \in I : g[o] = g[p] => o = p
  BY <1>2, Zenon
<1> QED BY <1>4, <1>5, <1>6, <1>7, Zenon DEF Numbers

LEMMA GroupsCarryAll ==
    ASSUME NEW grp, NEW run, GoodRun(run), GroupsAre(grp, run, AllRows(run)), NEW s \in Source
    PROVE  SumFunctionOnSet([i \in DOMAIN grp |-> grp[i].amount[s]], DOMAIN grp)
             = SumOf({r \in Range(run.rows[s]) : r.kind = "transaction"})
<1> DEFINE n == Count(run, s)
           I == TransactionsOf(run, s)
           f == AmountAt(run, s)
           h == [o \in I |-> IdAt(run, s, o)]
           J == DOMAIN grp
           part == [i \in DOMAIN grp |-> grp[i].amount[s]]
           T == {r \in Range(run.rows[s]) : r.kind = "transaction"}
           a == [r \in T |-> r.amount]
           g == [o \in I |-> RowAt(run, s, o)]
<1>1. AllRows(run)[s] = n /\ n \in Nat
  BY RowsOfRun DEF AllRows
<1>2. I \in SUBSET (1..n)
  BY DEF TransactionsOf
<1>3. IsFiniteSet(I)
  <2>1. IsFiniteSet(1..n)
    BY <1>1, UpToFinite
  <2> HIDE DEF n, I
  <2> QED BY <1>2, <2>1, FS_Subset
<1>4. IsFiniteSet(J) /\ \A o \in I : h[o] \in J
  BY <1>1 DEF GroupsAre, TransactionsOf
<1>5. \A o \in I : f[o] \in Int /\ f[o] = RowAt(run, s, o).amount
  BY <1>2, AmountsType
<1>6. \A j \in J : part[j] = SumFunctionOnSet(f, {o \in I : h[o] = j})
  <2> TAKE j \in J
  <2>1. grp[j].amount[s] = SumFunctionOnSet(f, Members(run, s, j, n))
    BY <1>1, Zenon DEF GroupsAre, GroupSums
  <2>2. Members(run, s, j, n) = {o \in I : h[o] = j}
    BY DEF Members, TransactionsOf
  <2>3. part[j] = grp[j].amount[s]
    OBVIOUS
  <2> HIDE DEF n, I, f, h, J, part
  <2> QED BY <2>1, <2>2, <2>3, Zenon
<1>7. \A r : r \in T <=> \E o \in I : r = RowAt(run, s, o)
  <2>1. run.rows[s] \in Seq(Range(run.rows[s]))
    BY Zenon DEF GoodRun
  <2>2. \A r : r \in Range(run.rows[s]) <=> \E o \in 1..n : r = RowAt(run, s, o)
    BY <2>1, SeqRange DEF Count, RowAt
  <2> HIDE DEF n
  <2> QED BY ONLY <2>2 DEF TransactionsOf, n
<1>8. Numbers(g, I, T)
  <2>1. \A o \in I : g[o] = RowAt(run, s, o)
    OBVIOUS
  <2> HIDE DEF I, T, g
  <2> QED BY <1>2, <1>7, <2>1, RowsNumbered
<1>9. \A o \in I : a[g[o]] \in Int /\ f[o] = a[g[o]]
  <2>1. \A o \in I : g[o] \in T /\ g[o] = RowAt(run, s, o)
    BY <1>8, Zenon DEF Numbers
  <2>2. \A o \in I : a[g[o]] = g[o].amount
    BY <2>1
  <2> QED BY <1>5, <2>1, <2>2, Zenon
<1>10. SumOf(T) = SumFunctionOnSet(a, T)
  BY DEF SumOf
<1> HIDE DEF n, I, f, h, J, part, T, a, g
<1>11. SumFunctionOnSet(part, J) = SumFunctionOnSet(f, I)
  <2>1. Splits(I, h, J, f, part)
    BY ONLY <1>3, <1>4, <1>5, <1>6 DEF Splits
  <2> QED BY ONLY <2>1, SumFibres
<1>12. SumFunctionOnSet(a, T) = SumFunctionOnSet(f, I)
  BY ONLY <1>8, <1>9, SumOnto
<1> QED BY <1>10, <1>11, <1>12 DEF part, J, T

\* GroupsPartition: BuildGroups puts every transaction row in exactly one group, that of
\* its own identity, and the groups' amounts add up to those of the rows, exactly.
THEOREM GroupsPartitionHolds == Spec => []GroupsPartition
<1>1. Inv => GroupsPartition
  <2> SUFFICES ASSUME Inv, pc = "header"
               PROVE  /\ \A m \in Range(AllMapped) : m.row.kind = "transaction" =>
                            LET homes == {i \in DOMAIN groups : m.row.ord \in groups[i].rows[m.row.src]}
                            IN  /\ Cardinality(homes) = 1
                                /\ \A i \in homes :
                                      <<groups[i].key, groups[i].sid, groups[i].cur, groups[i].scope>>
                                          = <<m.key, m.row.sid, m.row.cur, m.row.scope>>
                      /\ \A s \in Source :
                            SumFunctionOnSet([i \in DOMAIN groups |-> groups[i].amount[s]], DOMAIN groups)
                              = SumOf({r \in Range(input.rows[s]) : r.kind = "transaction"})
    BY Zenon DEF GroupsPartition
  <2>1. MapInv /\ PlaceInv /\ GroupInv /\ GoodRun(input) /\ pc \in Later \ {"group"}
    BY DEF Inv, MapInv, Later
  <2>2. GroupsAre(groups, input, AllRows(input))
    BY <2>1 DEF GroupInv
  <2>3. \A x : x \in Range(AllMapped) <=>
           \E s \in Source : \E o \in 1..Count(input, s) : x = MappedAt(input, s, o)
    BY <2>1, AllMappedIs, AllMappedRange
  <2>4. ASSUME NEW m \in Range(AllMapped), m.row.kind = "transaction",
               NEW homes, homes = {i \in DOMAIN groups : m.row.ord \in groups[i].rows[m.row.src]}
        PROVE  /\ Cardinality(homes) = 1
               /\ \A i \in homes :
                     <<groups[i].key, groups[i].sid, groups[i].cur, groups[i].scope>>
                         = <<m.key, m.row.sid, m.row.cur, m.row.scope>>
    <3>1. PICK s \in Source : \E o \in 1..Count(input, s) : m = MappedAt(input, s, o)
      BY <2>3
    <3>2. PICK o \in 1..Count(input, s) : m = MappedAt(input, s, o)
      BY <3>1
    <3>3. m.row = RowAt(input, s, o)
      BY <2>1, <3>2, MappedAtIs, Zenon DEF SoundMapping
    <3>4. m.row.src = s /\ m.row.ord = o
      BY <2>1, <3>2, <3>3, RowsOfRun DEF GoodRow
    <3>5. o \in TransactionsOf(input, s)
      BY <2>4, <3>3 DEF TransactionsOf
    <3> DEFINE id == IdAt(input, s, o)
    <3>h. HomeIs(groups, id, s, o)
      BY <2>1, <2>2, <3>5, OneHome
    <3>6. homes = {id}
      <4>1. {i \in DOMAIN groups : o \in groups[i].rows[s]} = {id}
        BY <3>h, Zenon DEF HomeIs
      <4> QED BY <2>4, <3>4, <4>1, Zenon
    <3>7. <<groups[id].key, groups[id].sid, groups[id].cur, groups[id].scope>> = id
      BY <3>h, Zenon DEF HomeIs
    <3>8. id = <<m.key, m.row.sid, m.row.cur, m.row.scope>>
      BY <3>2, Zenon DEF IdAt, identityKey
    <3> HIDE DEF id
    <3>9. Cardinality(homes) = 1
      BY ONLY <3>6, FS_Singleton
    <3>10. \A i \in homes : i = id
      BY <3>6
    <3> QED BY ONLY <3>7, <3>8, <3>9, <3>10, Zenon
  <2>5. \A s \in Source :
           SumFunctionOnSet([i \in DOMAIN groups |-> groups[i].amount[s]], DOMAIN groups)
             = SumOf({r \in Range(input.rows[s]) : r.kind = "transaction"})
    BY <2>1, <2>2, GroupsCarryAll
  <2> QED BY <2>4, <2>5
<1> QED BY <1>1, Invariance, PTL

-----------------------------------------------------------------------------
\* Sums over the tables.

LEMMA SumOfIs ==
    ASSUME NEW S, IsFiniteSet(S), NEW f, \A x \in S : x.amount \in Int /\ f[x] = x.amount
    PROVE  SumOf(S) = SumFunctionOnSet(f, S)
<1> DEFINE e == [x \in S |-> x.amount]
<1>1. \A x \in S : e[x] \in Int /\ e[x] = f[x]
  OBVIOUS
<1>2. SumOf(S) = SumFunctionOnSet(e, S)
  BY DEF SumOf
<1> HIDE DEF e
<1>3. SumFunctionOnSet(e, S) = SumFunctionOnSet(f, S)
  BY ONLY <1>1, SumSame, IsFiniteSet(S)
<1> QED BY <1>2, <1>3

\* The row_mappings of a run.
LineSays(x, run, s, o, i) ==
    /\ x.src = s /\ x.ord = o /\ x.ix = i
    /\ x.scope = RowAt(run, s, o).scope
    /\ x.target = MappedAt(run, s, o).contribs[i].target
    /\ x.amount = MappedAt(run, s, o).contribs[i].amount
    /\ x.amount \in Int64
    /\ RulesUsable(run.rules[s], Target) => x.target \in Target \cup {""}
    /\ MappedAt(run, s, o).err = "" => x.ref = MappedAt(run, s, o).key

LEMMA LineIs ==
    ASSUME NEW run, GoodRun(run), NEW s \in Source, NEW o \in 1..Count(run, s),
           NEW i \in 1..Lines(run, s, o)
    PROVE  LineSays(Line(run, s, o, i), run, s, o, i)
<1> DEFINE m == MappedAt(run, s, o)
           c == m.contribs[i]
           x == Line(run, s, o, i)
<1>1. SoundMapping(m, run, s, o)
  BY MappedAtIs
<1>2. m.row = RowAt(run, s, o) /\ i \in 1..Len(m.contribs)
  BY <1>1, Zenon DEF SoundMapping, Lines
<1>3. RowAt(run, s, o).src = s /\ RowAt(run, s, o).ord = o
  BY RowsOfRun DEF GoodRow
<1>4. /\ c.amount \in Int64
      /\ RulesUsable(run.rules[s], Target) => c.target \in Target \cup {""}
      /\ m.err = "" => c.key = m.key
  BY <1>1, <1>2, Zenon DEF SoundMapping
<1>5. /\ x.src = m.row.src /\ x.ord = m.row.ord /\ x.ix = i /\ x.scope = m.row.scope
      /\ x.target = c.target /\ x.amount = c.amount /\ x.ref = c.key
  BY DEF Line
<1> HIDE DEF m, c, x
<1>6. /\ x.src = s /\ x.ord = o /\ x.ix = i /\ x.scope = RowAt(run, s, o).scope
      /\ x.target = c.target /\ x.amount = c.amount /\ x.ref = c.key
      /\ x.amount \in Int64
      /\ RulesUsable(run.rules[s], Target) => x.target \in Target \cup {""}
      /\ m.err = "" => x.ref = m.key
  BY ONLY <1>2, <1>3, <1>4, <1>5, Zenon
<1> QED BY <1>6, Zenon DEF m, c, x, LineSays

\* T has the lines with target t of the rows O of a source, up to lines of zero.
OnLines(T, run, s, O, t) ==
    /\ \A x \in T : \E o \in O : \E i \in 1..Lines(run, s, o) : x = Line(run, s, o, i) /\ x.target = t
    /\ \A o \in O : \A i \in 1..Lines(run, s, o) :
          Line(run, s, o, i).target = t /\ Line(run, s, o, i).amount # 0 => Line(run, s, o, i) \in T

\* The amounts of a finite set of lines or rows add up to w.
SumsTo(T, w) == IsFiniteSet(T) /\ (\A x \in T : x.amount \in Int) /\ SumOf(T) = w

LEMMA RowLines ==
    ASSUME NEW run, GoodRun(run), NEW s \in Source, NEW o \in 1..Count(run, s), NEW t \in Target,
           NEW T, OnLines(T, run, s, {o}, t)
    PROVE  SumsTo(T, RowSum(MappedAt(run, s, o), t))
<1> DEFINE n == Lines(run, s, o)
           L(i) == Line(run, s, o, i)
           l == MappedAt(run, s, o).contribs
           I == {i \in 1..n : L(i) \in T}
           g == [i \in 1..n |-> L(i)]
           a == [i \in 1..n |-> L(i).amount]
           e == [i \in 1..n |-> Adds(l[i], t)]
           f == [x \in T |-> x.amount]
<1>1. n \in Nat /\ n = Len(l)
  BY MappedAtIs, Zenon DEF SoundMapping, Lines
<1>2. \A i \in 1..n : L(i).ix = i /\ L(i).target = l[i].target /\ L(i).amount = l[i].amount /\ L(i).amount \in Int64
  <2> SUFFICES ASSUME NEW i \in 1..n PROVE LineSays(L(i), run, s, o, i)
    BY Zenon DEF LineSays
  <2> QED BY LineIs
<1>3. \A x \in T : \E i \in 1..n : x = L(i) /\ x.target = t
  BY DEF OnLines
<1>4. \A i \in 1..n : L(i).target = t /\ L(i).amount # 0 => L(i) \in T
  BY DEF OnLines
<1>5. RowSum(MappedAt(run, s, o), t) = SumFunctionOnSet(e, 1..n)
  BY <1>1 DEF RowSum
<1> HIDE DEF n, L
<1>6. IsFiniteSet(1..n)
  BY <1>1, UpToFinite
<1>7. Numbers(g, I, T)
  <2>1. I \subseteq 1..n
    OBVIOUS
  <2>2. IsFiniteSet(I)
    <3> HIDE DEF I
    <3> QED BY <1>6, <2>1, FS_Subset
  <2>3. \A i \in I : g[i] = L(i) /\ g[i] \in T
    OBVIOUS
  <2>4. \A x \in T : \E i \in I : g[i] = x
    BY <1>3
  <2>5. \A i, j \in I : g[i] = g[j] => i = j
    BY <1>2, <2>1, <2>3, Zenon
  <2> QED BY <2>2, <2>3, <2>4, <2>5, Zenon DEF Numbers
<1>8. \A i \in I : f[g[i]] \in Int /\ a[i] = f[g[i]]
  BY <1>2, Int64Type
<1>9. I \in SUBSET (1..n) /\ \A i \in I : a[i] \in Int /\ e[i] = a[i]
  <2> SUFFICES ASSUME NEW i \in I PROVE a[i] \in Int /\ e[i] = a[i]
    OBVIOUS
  <2>1. i \in 1..n /\ L(i) \in T
    OBVIOUS
  <2>2. L(i).target = t
    <3>1. PICK j \in 1..n : L(i) = L(j) /\ L(i).target = t
      BY <1>3, <2>1
    <3> QED BY <3>1
  <2>3. e[i] = Adds(l[i], t) /\ a[i] = L(i).amount /\ a[i] = l[i].amount /\ l[i].target = t /\ a[i] \in Int
    BY <1>2, <2>1, <2>2, Int64Type
  <2>4. t # ""
    BY TargetAssumption
  <2> QED BY <2>3, <2>4 DEF Adds, Routed
<1>10. \A i \in (1..n) \ I : e[i] = 0
  <2> SUFFICES ASSUME NEW i \in 1..n, L(i) \notin T PROVE e[i] = 0
    OBVIOUS
  <2>1. e[i] = Adds(l[i], t) /\ L(i).target = l[i].target /\ L(i).amount = l[i].amount
    BY <1>2
  <2>2. ~(L(i).target = t /\ L(i).amount # 0)
    BY <1>4
  <2> QED BY ONLY <2>1, <2>2 DEF Adds, Routed
<1>11. \A x \in T : x.amount \in Int
  BY <1>2, <1>3, Int64Type
<1>14. SumOf(T) = SumFunctionOnSet(f, T)
  BY DEF SumOf
<1> HIDE DEF I, g, a, e, f
<1>12. SumFunctionOnSet(f, T) = SumFunctionOnSet(a, I) /\ IsFiniteSet(T)
  BY ONLY <1>7, <1>8, SumOnto
<1>13. SumFunctionOnSet(a, I) = SumFunctionOnSet(e, 1..n)
  <2> DEFINE K == 1..n
  <2>1. IsFiniteSet(K) /\ I \in SUBSET K /\ (\A i \in I : a[i] \in Int /\ e[i] = a[i]) /\ \A i \in K \ I : e[i] = 0
    BY <1>6, <1>9, <1>10
  <2> HIDE DEF K
  <2>2. SumFunctionOnSet(a, I) = SumFunctionOnSet(e, K)
    BY ONLY <2>1, SumOnPart
  <2> QED BY <2>2 DEF K
<1> QED BY ONLY <1>5, <1>11, <1>12, <1>13, <1>14 DEF SumsTo

LEMMA LineSum ==
    ASSUME NEW run, GoodRun(run), NEW s \in Source, NEW O \in SUBSET (1..Count(run, s)),
           NEW t \in Target, NEW T, OnLines(T, run, s, O, t)
    PROVE  SumsTo(T, SumFunctionOnSet(RoutedAt(run, s, t), O))
<1> DEFINE h == [x \in T |-> x.ord]
           f == [x \in T |-> x.amount]
           One(o) == {x \in T : h[x] = o}
           part == RoutedAt(run, s, t)
<1>0. Count(run, s) \in Nat
  BY RowsOfRun
<1>1. IsFiniteSet(O)
  BY <1>0, UpToFinite, FS_Subset
<1>2. \A o \in O : \A i \in 1..Lines(run, s, o) : Line(run, s, o, i).ord = o
  <2> SUFFICES ASSUME NEW o \in O, NEW i \in 1..Lines(run, s, o)
               PROVE  Line(run, s, o, i).ord = o
    OBVIOUS
  <2>1. LineSays(Line(run, s, o, i), run, s, o, i)
    BY LineIs
  <2> QED BY <2>1, Zenon DEF LineSays
<1>3. \A x \in T : h[x] = x.ord /\ f[x] = x.amount
  OBVIOUS
<1>4. \A x \in T : h[x] \in O
  BY <1>2, <1>3 DEF OnLines
<1>5. ASSUME NEW o \in O
      PROVE  /\ OnLines(One(o), run, s, {o}, t)
             /\ \A x \in One(o) : x \in T
  <2> DEFINE Lo(i) == Line(run, s, o, i)
  <2>1. \A x \in One(o) : x \in T /\ x.ord = o
    BY <1>3
  <2>2. ASSUME NEW x \in One(o) PROVE \E i \in 1..Lines(run, s, o) : x = Lo(i) /\ x.target = t
    <3>1. PICK p \in O : \E i \in 1..Lines(run, s, p) : x = Line(run, s, p, i) /\ x.target = t
      BY <2>1, <2>2 DEF OnLines
    <3>2. p = o
      BY <1>2, <2>1, <2>2, <3>1
    <3> QED BY <3>1, <3>2
  <2>3. ASSUME NEW i \in 1..Lines(run, s, o), Lo(i).target = t /\ Lo(i).amount # 0 PROVE Lo(i) \in One(o)
    <3>1. Lo(i) \in T
      BY <2>3 DEF OnLines
    <3>2. Lo(i).ord = o
      BY <1>2
    <3> HIDE DEF Lo
    <3> QED BY <1>3, <3>1, <3>2
  <2> HIDE DEF One
  <2> QED BY <2>1, <2>2, <2>3 DEF OnLines
<1>6. ASSUME NEW o \in O
      PROVE  /\ IsFiniteSet(One(o)) /\ SumFunctionOnSet(f, One(o)) = RowSum(MappedAt(run, s, o), t)
             /\ \A x \in One(o) : x.amount \in Int
  <2>1. o \in 1..Count(run, s) /\ \A x \in One(o) : f[x] = x.amount
    BY <1>3
  <2> HIDE DEF One, f
  <2>2. SumsTo(One(o), RowSum(MappedAt(run, s, o), t))
    BY <1>5, <2>1, RowLines
  <2>3. IsFiniteSet(One(o)) /\ \A x \in One(o) : x.amount \in Int /\ f[x] = x.amount
    BY <2>1, <2>2 DEF SumsTo
  <2>4. SumOf(One(o)) = SumFunctionOnSet(f, One(o))
    BY <2>3, SumOfIs
  <2> QED BY <2>2, <2>3, <2>4 DEF SumsTo
<1>7. \A o \in O : part[o] = RowSum(MappedAt(run, s, o), t)
  BY AmountsType
<1>8. \A x \in T : x.amount \in Int
  <2>1. \A x \in T : x \in One(h[x])
    OBVIOUS
  <2> HIDE DEF One
  <2> QED BY <1>4, <1>6, <2>1
<1>9. \A x \in T : f[x] \in Int
  BY <1>3, <1>8
<1>10. \A o \in O : IsFiniteSet({x \in T : h[x] = o}) /\ part[o] = SumFunctionOnSet(f, {x \in T : h[x] = o})
  <2>1. \A o \in O : IsFiniteSet(One(o)) /\ part[o] = SumFunctionOnSet(f, One(o))
    <3> HIDE DEF One, f, part
    <3> QED BY <1>6, <1>7, Zenon
  <2> HIDE DEF h, f, part
  <2> QED BY <2>1, Zenon
<1> HIDE DEF h, f, part, One
<1>11. IsFiniteSet(T)
  <2>1. Classes(T, h, O)
    BY ONLY <1>1, <1>4, <1>10 DEF Classes
  <2> QED BY ONLY <2>1, FiniteClasses
<1>12. SumFunctionOnSet(part, O) = SumFunctionOnSet(f, T)
  <2>1. Splits(T, h, O, f, part)
    BY ONLY <1>1, <1>4, <1>9, <1>10, <1>11 DEF Splits
  <2> QED BY ONLY <2>1, SumFibres
<1>13. SumOf(T) = SumFunctionOnSet(f, T)
  BY <1>3, <1>8, <1>11, SumOfIs
<1> QED BY <1>8, <1>11, <1>12, <1>13 DEF part, SumsTo

-----------------------------------------------------------------------------
\* What is known of a persisted run.

AllMap(run) == \A s \in Source : \A o \in 1..Count(run, s) : MappedAt(run, s, o).err = ""

InScope(run, s) == {o \in 1..Count(run, s) : RowAt(run, s, o).scope = "IN_SCOPE"}

LEMMA PersistedIs ==
    ASSUME Inv, Persisted
    PROVE  /\ GoodRun(input) /\ HeaderIs(input) /\ pc \in Later
           /\ DbIs(db, input, summary, groups, issues)
           /\ GroupsAre(groups, input, AllRows(input))
           /\ \A t \in Target, s \in Source :
                 summary[t][s] = SumFunctionOnSet(Counted(input, s, t), 1..Count(input, s))
           /\ \A s \in Source : Count(input, s) > 0 => RulesUsable(input.rules[s], Target)
           /\ Strict => /\ AllMap(input) /\ issues = {}
                        /\ AccountIs(input, summary) /\ Balanced(summary, groups)
<1>1. MapInv /\ PlaceInv /\ SummaryInv /\ GroupInv /\ ReportInv /\ GoodRun(input)
  BY DEF Inv, MapInv
<1>2. pc \in {"register", "reported"}
  BY <1>1 DEF Persisted, ReportInv
<1>3. /\ HeaderIs(input) /\ DbIs(db, input, summary, groups, issues)
      /\ Strict => issues = {} /\ AccountIs(input, summary) /\ Balanced(summary, groups)
  BY <1>1, <1>2, Zenon DEF ReportInv
<1>4. pc \in Later /\ pc \in Later \ {"group"}
  BY <1>2 DEF Later
<1>5. GroupsAre(groups, input, AllRows(input))
  BY <1>1, <1>4 DEF GroupInv
<1>6. \A s \in Source : Got(mapped, s) = Count(input, s)
  BY <1>1, <1>4, Zenon DEF PlaceInv
<1>7. \A t \in Target, s \in Source :
         summary[t][s] = SumFunctionOnSet(Counted(input, s, t), 1..Count(input, s))
  BY <1>1, <1>6, Zenon DEF SummaryInv
<1>8. \A s \in Source :
         /\ Strict => \A o \in 1..Count(input, s) : MappedAt(input, s, o).err = ""
         /\ Count(input, s) > 0 => RulesUsable(input.rules[s], Target)
  BY <1>1, <1>6, Zenon DEF MapInv
<1>9. Strict => AllMap(input)
  BY <1>8, Zenon DEF AllMap
<1> QED BY <1>1, <1>3, <1>4, <1>5, <1>7, <1>8, <1>9, Zenon

\* A line of the tables.
LEMMA MappingIs ==
    ASSUME NEW d, NEW run, NEW sum, NEW grp, NEW iss, DbIs(d, run, sum, grp, iss), GoodRun(run),
           NEW x \in d.mappings
    PROVE  \E s \in Source : \E o \in 1..Count(run, s) : \E i \in 1..Lines(run, s, o) :
              x = Line(run, s, o, i) /\ LineSays(x, run, s, o, i)
<1>1. PICK s \in Source : \E o \in 1..Count(run, s) : \E i \in 1..Lines(run, s, o) : x = Line(run, s, o, i)
  BY Zenon DEF DbIs
<1>2. PICK o \in 1..Count(run, s) : \E i \in 1..Lines(run, s, o) : x = Line(run, s, o, i)
  BY <1>1
<1>3. PICK i \in 1..Lines(run, s, o) : x = Line(run, s, o, i)
  BY <1>2
<1>4. LineSays(Line(run, s, o, i), run, s, o, i)
  BY LineIs
<1>5. LineSays(x, run, s, o, i)
  BY <1>3, <1>4, Zenon
<1> QED BY <1>3, <1>5, Zenon

LEMMA LineListed ==
    ASSUME NEW d, NEW run, NEW sum, NEW grp, NEW iss, DbIs(d, run, sum, grp, iss),
           NEW s \in Source, NEW o \in 1..Count(run, s), NEW i \in 1..Lines(run, s, o)
    PROVE  Line(run, s, o, i) \in d.mappings
BY Zenon DEF DbIs

LEMMA FieldLines ==
    ASSUME NEW d, NEW run, NEW sum, NEW grp, NEW iss, DbIs(d, run, sum, grp, iss), GoodRun(run),
           NEW s \in Source, NEW t \in Target,
           NEW T, T = {x \in d.contributions : x.src = s /\ x.target = t}
    PROVE  OnLines(T, run, s, InScope(run, s), t)
<1> DEFINE O == InScope(run, s)
<1>1. d.contributions = {x \in d.mappings : x.scope = "IN_SCOPE" /\ Routed(x)}
  BY Zenon DEF DbIs
<1>2. ASSUME NEW x \in T
      PROVE  \E o \in O : \E i \in 1..Lines(run, s, o) : x = Line(run, s, o, i) /\ x.target = t
  <2>1. x \in d.mappings /\ x.scope = "IN_SCOPE" /\ x.src = s /\ x.target = t
    BY <1>1, <1>2
  <2>2. PICK z \in Source : \E o \in 1..Count(run, z) : \E i \in 1..Lines(run, z, o) :
                               x = Line(run, z, o, i) /\ LineSays(x, run, z, o, i)
    BY <2>1, MappingIs
  <2>3. PICK o \in 1..Count(run, z) : \E i \in 1..Lines(run, z, o) :
                               x = Line(run, z, o, i) /\ LineSays(x, run, z, o, i)
    BY <2>2
  <2>4. PICK i \in 1..Lines(run, z, o) : x = Line(run, z, o, i) /\ LineSays(x, run, z, o, i)
    BY <2>3
  <2>5. z = s /\ RowAt(run, z, o).scope = "IN_SCOPE"
    BY <2>1, <2>4, Zenon DEF LineSays
  <2>6. o \in O
    BY <2>3, <2>5 DEF InScope
  <2> QED BY <2>1, <2>4, <2>5, <2>6, Zenon
<1>3. ASSUME NEW o \in O, NEW i \in 1..Lines(run, s, o), NEW x, x = Line(run, s, o, i),
             x.target = t, x.amount # 0
      PROVE  x \in T
  <2>1. o \in 1..Count(run, s) /\ RowAt(run, s, o).scope = "IN_SCOPE"
    BY DEF InScope
  <2>2. LineSays(x, run, s, o, i)
    BY <1>3, <2>1, LineIs
  <2>3. x.src = s /\ x.scope = "IN_SCOPE"
    BY <2>1, <2>2, Zenon DEF LineSays
  <2>4. x \in d.mappings
    BY <1>3, <2>1, LineListed
  <2>5. Routed(x)
    BY <1>3, TargetAssumption DEF Routed
  <2> QED BY <1>1, <1>3, <2>3, <2>4, <2>5
<1> HIDE DEF O
<1>4. OnLines(T, run, s, O, t)
  BY <1>2, <1>3, Zenon DEF OnLines
<1> QED BY <1>4 DEF O

\* The totals in the tables are what verify-db sums up.
LEMMA FieldTotalIs ==
    ASSUME Inv, Persisted, AllMap(input), NEW s \in Source, NEW t \in Target
    PROVE  /\ SumsTo({x \in db.contributions : x.src = s /\ x.target = t}, summary[t][s])
           /\ FieldTotal(s, t) = summary[t][s]
<1> DEFINE T == {x \in db.contributions : x.src = s /\ x.target = t}
           O == InScope(input, s)
           K == 1..Count(input, s)
           f == RoutedAt(input, s, t)
           e == Counted(input, s, t)
<1>1. /\ GoodRun(input) /\ DbIs(db, input, summary, groups, issues)
      /\ summary[t][s] = SumFunctionOnSet(e, K)
  BY PersistedIs
<1>2. O \in SUBSET K /\ Count(input, s) \in Nat /\ IsFiniteSet(K)
  BY <1>1, RowsOfRun, UpToFinite DEF InScope
<1>3. SumsTo(T, SumFunctionOnSet(f, O))
  <2>1. OnLines(T, input, s, O, t)
    BY <1>1, FieldLines
  <2> HIDE DEF T, O
  <2> QED BY <1>1, <1>2, <2>1, LineSum
<1>4. \A o \in O : f[o] \in Int /\ e[o] = f[o]
  <2> SUFFICES ASSUME NEW o \in O PROVE f[o] \in Int /\ e[o] = f[o]
    OBVIOUS
  <2>1. o \in K /\ RowAt(input, s, o).scope = "IN_SCOPE" /\ MappedAt(input, s, o).err = ""
    BY DEF InScope, AllMap
  <2>2. f[o] \in Int /\ f[o] = RowSum(MappedAt(input, s, o), t)
    BY <1>1, <2>1, AmountsType
  <2>3. e[o] = RowSum(MappedAt(input, s, o), t)
    BY <2>1 DEF Counted
  <2> QED BY <2>2, <2>3
<1>5. \A o \in K \ O : e[o] = 0
  BY DEF Counted, InScope
<1>6. FieldTotal(s, t) = SumOf(T)
  BY DEF FieldTotal
<1> HIDE DEF T, O, K, f, e
<1>7. SumFunctionOnSet(f, O) = SumFunctionOnSet(e, K)
  BY ONLY <1>2, <1>4, <1>5, SumOnPart
<1>8. SumsTo(T, summary[t][s]) /\ FieldTotal(s, t) = summary[t][s]
  BY <1>1, <1>3, <1>6, <1>7 DEF SumsTo
<1> QED BY <1>8 DEF T

LEMMA NoSummaryMismatch ==
    ASSUME Inv, Persisted, AllMap(input)
    PROVE  SummaryMismatches = {}
<1>1. db.totals = summary
  BY PersistedIs, Zenon DEF DbIs
<1>2. \A s \in Source, t \in Target : db.totals[t][s] = FieldTotal(s, t)
  BY <1>1, FieldTotalIs
<1>3. \A x \in Source \X Target : x[1] \in Source /\ x[2] \in Target
  OBVIOUS
<1> QED BY <1>2, <1>3 DEF SummaryMismatches

\* SummaryRecomputes: the totals Engine.Map accumulated row by row are the sums of the
\* contribution lines Persist wrote, in every mode, unless a row failed to map.
THEOREM SummaryRecomputesHolds == Spec => []SummaryRecomputes
<1>1. Inv => SummaryRecomputes
  <2> SUFFICES ASSUME Inv, Persisted, \A m \in Range(AllMapped) : m.err = ""
               PROVE  SummaryMismatches = {}
    BY Zenon DEF SummaryRecomputes
  <2>1. MapInv /\ PlaceInv /\ GoodRun(input) /\ pc \in Later
    BY PersistedIs DEF Inv
  <2>2. \A x : x \in Range(AllMapped) <=>
           \E s \in Source : \E o \in 1..Count(input, s) : x = MappedAt(input, s, o)
    BY <2>1, AllMappedIs, AllMappedRange
  <2>3. AllMap(input)
    BY <2>2, Zenon DEF AllMap
  <2> QED BY <2>3, NoSummaryMismatch
<1> QED BY <1>1, Invariance, PTL

-----------------------------------------------------------------------------
\* Every cent of the settlement.

LEMMA SourceTotal ==
    ASSUME Inv, Persisted, AllMap(input), NEW s \in Source
    PROVE  SumOf({x \in db.contributions : x.src = s})
             = SumFunctionOnSet([t \in Target |-> summary[t][s]], Target)
<1> DEFINE I == {x \in db.contributions : x.src = s}
           h == [x \in I |-> x.target]
           f == [x \in I |-> x.amount]
           part == [t \in Target |-> summary[t][s]]
           One(t) == {x \in db.contributions : x.src = s /\ x.target = t}
<1>1. GoodRun(input) /\ DbIs(db, input, summary, groups, issues)
  BY PersistedIs
<1>2. \A x \in I : x.target \in Target
  <2> SUFFICES ASSUME NEW x \in I PROVE x.target \in Target
    OBVIOUS
  <2>1. db.contributions = {y \in db.mappings : y.scope = "IN_SCOPE" /\ Routed(y)}
    BY <1>1, Zenon DEF DbIs
  <2>2. x \in db.mappings /\ x.target # ""
    BY <2>1 DEF Routed
  <2>3. PICK z \in Source : \E o \in 1..Count(input, z) : \E i \in 1..Lines(input, z, o) :
                               x = Line(input, z, o, i) /\ LineSays(x, input, z, o, i)
    BY <1>1, <2>2, MappingIs
  <2>4. PICK o \in 1..Count(input, z) : \E i \in 1..Lines(input, z, o) : LineSays(x, input, z, o, i)
    BY <2>3
  <2>5. Count(input, z) > 0
    BY <1>1, <2>4, RowsOfRun
  <2>6. RulesUsable(input.rules[z], Target)
    BY <2>5, PersistedIs
  <2>7. x.target \in Target \cup {""}
    BY <2>4, <2>6, Zenon DEF LineSays
  <2> QED BY <2>2, <2>7
<1>3. \A t \in Target : {x \in I : h[x] = t} = One(t)
  OBVIOUS
<1>4. \A t \in Target : SumsTo(One(t), part[t])
  BY FieldTotalIs
<1>5. \A x \in I : x \in One(x.target)
  OBVIOUS
<1>6. \A x \in I : h[x] = x.target /\ f[x] = x.amount
  OBVIOUS
<1>7. SumOf(I) = SumFunctionOnSet(f, I)
  BY DEF SumOf
<1>8. IsFiniteSet(Target)
  BY TargetAssumption
<1>9. \A t \in Target : \A x \in One(t) : x \in I
  OBVIOUS
<1> HIDE DEF I, h, f, part, One
<1>10. \A x \in I : h[x] \in Target /\ f[x] \in Int
  <2>1. \A x \in I : x.amount \in Int
    BY <1>2, <1>4, <1>5 DEF SumsTo
  <2> QED BY <1>2, <1>6, <2>1
<1>11. \A t \in Target : part[t] = SumFunctionOnSet(f, One(t)) /\ IsFiniteSet(One(t))
  <2> SUFFICES ASSUME NEW t \in Target PROVE part[t] = SumFunctionOnSet(f, One(t)) /\ IsFiniteSet(One(t))
    OBVIOUS
  <2>1. IsFiniteSet(One(t)) /\ (\A x \in One(t) : x.amount \in Int) /\ SumOf(One(t)) = part[t]
    BY <1>4 DEF SumsTo
  <2>2. \A x \in One(t) : f[x] = x.amount
    BY <1>6, <1>9
  <2>3. SumOf(One(t)) = SumFunctionOnSet(f, One(t))
    BY <2>1, <2>2, SumOfIs
  <2> QED BY <2>1, <2>3
<1>12. \A t \in Target : /\ part[t] = SumFunctionOnSet(f, {x \in I : h[x] = t})
                         /\ IsFiniteSet({x \in I : h[x] = t})
  BY <1>3, <1>11, Zenon
<1>13. IsFiniteSet(I)
  <2>1. Classes(I, h, Target)
    BY ONLY <1>8, <1>10, <1>12 DEF Classes
  <2> QED BY ONLY <2>1, FiniteClasses
<1>14. SumFunctionOnSet(part, Target) = SumFunctionOnSet(f, I)
  <2>1. Splits(I, h, Target, f, part)
    BY ONLY <1>8, <1>10, <1>12, <1>13 DEF Splits
  <2> QED BY ONLY <2>1, SumFibres
<1> QED BY <1>7, <1>14 DEF I, part

\* AccountsForHeader: in a persisted strict run the payments' contributions, the
\* settlements' contributions and the amount of the settlement header are one amount.
THEOREM AccountsForHeaderHolds == Spec => []AccountsForHeader
<1>1. Inv => AccountsForHeader
  <2> SUFFICES ASSUME Inv, Persisted, Strict, NEW s \in Source
               PROVE  SumOf({x \in db.contributions : x.src = s}) = (CHOOSE r \in db.controls : TRUE).amount
    BY Zenon DEF AccountsForHeader
  <2>1. /\ AllMap(input) /\ AccountIs(input, summary) /\ Balanced(summary, groups)
        /\ DbIs(db, input, summary, groups, issues)
    BY PersistedIs
  <2> DEFINE P == [t \in Target |-> summary[t][s]]
             Q == [t \in Target |-> summary[t][Settlement]]
  <2>2. SumOf({x \in db.contributions : x.src = s}) = SumFunctionOnSet(P, Target)
    BY <2>1, SourceTotal
  <2>3. P = Q
    BY <2>1 DEF Balanced, Source
  <2>4. SumFunctionOnSet(Q, Target) = HeaderAmount(input)
    BY <2>1 DEF AccountIs
  <2>5. db.controls = HeadersOf(input)
    BY <2>1, Zenon DEF DbIs
  <2>6. HeaderAmount(input) = (CHOOSE r \in db.controls : TRUE).amount
    BY <2>5, Zenon DEF HeaderAmount
  <2> HIDE DEF P, Q
  <2> QED BY <2>2, <2>3, <2>4, <2>6, Zenon
<1> QED BY <1>1, Invariance, PTL

-----------------------------------------------------------------------------
\* verify-db on a strict run.

LEMMA NoAmountMismatch ==
    ASSUME Inv, Persisted, Strict
    PROVE  \A g \in AmountMismatches : g.scope # "IN_SCOPE"
<1> SUFFICES ASSUME NEW g \in db.groups, g.status = "reconciled",
                    g.amount[Payment] # g.amount[Settlement], g.scope = "IN_SCOPE"
             PROVE  FALSE
  BY DEF AmountMismatches
<1>1. DbIs(db, input, summary, groups, issues) /\ Balanced(summary, groups)
  BY PersistedIs
<1>2. PICK i \in DOMAIN groups :
         g.scope = groups[i].scope /\ g.amount = groups[i].amount /\ g.status = StatusOf(groups[i])
  BY <1>1, Zenon DEF DbIs
<1>3. GroupBalances(groups[i])
  BY <1>1, <1>2, Zenon DEF Balanced
<1>4. groups[i].rows[Payment] # {} /\ groups[i].rows[Settlement] # {}
  BY <1>2 DEF StatusOf
<1>5. \A s \in Source : groups[i].rows[s] # {}
  BY <1>4 DEF Source
<1>6. groups[i].amount[Payment] = groups[i].amount[Settlement]
  BY <1>3, <1>5, Zenon DEF GroupBalances
<1> QED BY <1>2, <1>6

\* The rows in scope with a key.
OfKey(run, s, ref) == {o \in InScope(run, s) : MappedAt(run, s, o).key = ref}

LEMMA RefLines ==
    ASSUME NEW d, NEW run, NEW sum, NEW grp, NEW iss, DbIs(d, run, sum, grp, iss), GoodRun(run),
           AllMap(run), NEW s \in Source, NEW ref, NEW t \in Target,
           NEW T, T = {x \in d.mappings :
                          x.scope = "IN_SCOPE" /\ <<x.src, x.ref, x.target>> = <<s, ref, t>>}
    PROVE  OnLines(T, run, s, OfKey(run, s, ref), t)
<1> DEFINE O == OfKey(run, s, ref)
<1>2. ASSUME NEW x \in T
      PROVE  \E o \in O : \E i \in 1..Lines(run, s, o) : x = Line(run, s, o, i) /\ x.target = t
  <2>1. x \in d.mappings /\ x.scope = "IN_SCOPE" /\ x.src = s /\ x.target = t /\ x.ref = ref
    BY <1>2
  <2>2. PICK z \in Source : \E o \in 1..Count(run, z) : \E i \in 1..Lines(run, z, o) :
                               x = Line(run, z, o, i) /\ LineSays(x, run, z, o, i)
    BY <2>1, MappingIs
  <2>3. PICK o \in 1..Count(run, z) : \E i \in 1..Lines(run, z, o) :
                               x = Line(run, z, o, i) /\ LineSays(x, run, z, o, i)
    BY <2>2
  <2>4. PICK i \in 1..Lines(run, z, o) : x = Line(run, z, o, i) /\ LineSays(x, run, z, o, i)
    BY <2>3
  <2>5. MappedAt(run, z, o).err = ""
    BY Zenon DEF AllMap
  <2>6. z = s /\ RowAt(run, z, o).scope = "IN_SCOPE" /\ MappedAt(run, z, o).key = ref
    BY <2>1, <2>4, <2>5, Zenon DEF LineSays
  <2>7. o \in O
    BY <2>3, <2>6 DEF InScope, OfKey
  <2> QED BY <2>1, <2>4, <2>6, <2>7, Zenon
<1>3. ASSUME NEW o \in O, NEW i \in 1..Lines(run, s, o), NEW x, x = Line(run, s, o, i),
             x.target = t
      PROVE  x \in T
  <2>1. o \in 1..Count(run, s) /\ RowAt(run, s, o).scope = "IN_SCOPE" /\ MappedAt(run, s, o).key = ref
    BY DEF InScope, OfKey
  <2>2. LineSays(x, run, s, o, i) /\ MappedAt(run, s, o).err = ""
    BY <1>3, <2>1, LineIs DEF AllMap
  <2>3. x.src = s /\ x.scope = "IN_SCOPE" /\ x.ref = ref
    BY <2>1, <2>2, Zenon DEF LineSays
  <2>4. x \in d.mappings
    BY <1>3, <2>1, LineListed
  <2> QED BY <1>3, <2>3, <2>4
<1> HIDE DEF O
<1>4. OnLines(T, run, s, O, t)
  BY <1>2, <1>3, Zenon DEF OnLines
<1> QED BY <1>4 DEF O

\* The groups in scope with a key.
GroupsOfKey(grp, ref) == {i \in DOMAIN grp : grp[i].key = ref /\ grp[i].scope = "IN_SCOPE"}

\* The rows in scope with a key, group by group.
LEMMA KeyTotal ==
    ASSUME NEW run, GoodRun(run), NEW grp, GroupsAre(grp, run, AllRows(run)),
           NEW s \in Source, NEW t \in Target, NEW ref
    PROVE  SumFunctionOnSet(RoutedAt(run, s, t), OfKey(run, s, ref))
             = SumFunctionOnSet([i \in GroupsOfKey(grp, ref) |-> grp[i].bucket[s][t]],
                                GroupsOfKey(grp, ref))
<1> DEFINE n == Count(run, s)
           I == OfKey(run, s, ref)
           J == GroupsOfKey(grp, ref)
           h == [o \in I |-> IdAt(run, s, o)]
           f == RoutedAt(run, s, t)
           part == [i \in J |-> grp[i].bucket[s][t]]
<1>1. AllRows(run)[s] = n /\ n \in Nat /\ I \in SUBSET (1..n)
  BY RowsOfRun DEF AllRows, OfKey, InScope
<1>2. \A o \in I : f[o] \in Int
  BY <1>1, AmountsType
<1>3. IsFiniteSet(I) /\ IsFiniteSet(J)
  <2>1. IsFiniteSet(1..n) /\ IsFiniteSet(DOMAIN grp)
    BY <1>1, UpToFinite DEF GroupsAre
  <2>2. J \subseteq DOMAIN grp
    BY DEF GroupsOfKey
  <2> HIDE DEF n, I, J
  <2> QED BY <1>1, <2>1, <2>2, FS_Subset
<1>4. \A o \in I : o \in 1..n /\ RowAt(run, s, o).kind = "transaction"
  <2> SUFFICES ASSUME NEW o \in I PROVE o \in 1..n /\ RowAt(run, s, o).kind = "transaction"
    OBVIOUS
  <2>1. o \in 1..n /\ RowAt(run, s, o).scope = "IN_SCOPE"
    BY DEF OfKey, InScope
  <2>2. GoodRow(RowAt(run, s, o), s, o)
    BY <2>1, RowsOfRun
  <2> QED BY <2>1, <2>2, InScopeIs
<1>5. \A o \in 1..n :
         /\ IdAt(run, s, o)[1] = MappedAt(run, s, o).key
         /\ IdAt(run, s, o)[4] = RowAt(run, s, o).scope
  <2> SUFFICES ASSUME NEW o \in 1..n
               PROVE  /\ IdAt(run, s, o)[1] = MappedAt(run, s, o).key
                      /\ IdAt(run, s, o)[4] = RowAt(run, s, o).scope
    OBVIOUS
  <2>1. MappedAt(run, s, o).row = RowAt(run, s, o)
    BY MappedAtIs, Zenon DEF SoundMapping
  <2> DEFINE m == MappedAt(run, s, o)
  <2>2. IdAt(run, s, o) = <<m.key, m.row.sid, m.row.cur, m.row.scope>>
    BY Zenon DEF IdAt, identityKey
  <2> HIDE DEF m
  <2>3. IdAt(run, s, o)[1] = m.key /\ IdAt(run, s, o)[4] = m.row.scope
    BY ONLY <2>2
  <2> QED BY <2>1, <2>3 DEF m
<1>6. \A i \in DOMAIN grp : i[1] = grp[i].key /\ i[4] = grp[i].scope
  <2> SUFFICES ASSUME NEW i \in DOMAIN grp PROVE i[1] = grp[i].key /\ i[4] = grp[i].scope
    OBVIOUS
  <2>1. <<grp[i].key, grp[i].sid, grp[i].cur, grp[i].scope>> = i
    BY Zenon DEF GroupsAre, GroupShape
  <2> DEFINE a == grp[i].key b == grp[i].sid c == grp[i].cur e == grp[i].scope
  <2>2. <<a, b, c, e>> = i
    BY <2>1
  <2> HIDE DEF a, b, c, e
  <2>3. i[1] = a /\ i[4] = e
    BY ONLY <2>2
  <2> QED BY <2>3 DEF a, e
<1>7. \A o \in 1..n : o \in I <=> MappedAt(run, s, o).key = ref /\ RowAt(run, s, o).scope = "IN_SCOPE"
  BY DEF OfKey, InScope
<1>8. \A i : i \in J <=> i \in DOMAIN grp /\ grp[i].key = ref /\ grp[i].scope = "IN_SCOPE"
  BY DEF GroupsOfKey
<1>9. \A o \in I : h[o] = IdAt(run, s, o)
  OBVIOUS
<1>10. \A o \in 1..n : RowAt(run, s, o).kind = "transaction" => IdAt(run, s, o) \in DOMAIN grp
  BY <1>1, Zenon DEF GroupsAre
<1>11. \A i \in J : part[i] = SumFunctionOnSet(f, Members(run, s, i, n))
  <2>1. \A i \in J : grp[i].bucket[s][t] = SumFunctionOnSet(f, Members(run, s, i, n))
    BY <1>1, <1>8, Zenon DEF GroupsAre, GroupSums
  <2>2. \A i \in J : part[i] = grp[i].bucket[s][t]
    OBVIOUS
  <2> HIDE DEF J, part, f, n
  <2> QED BY <2>1, <2>2, Zenon
<1>12. \A i, o : o \in Members(run, s, i, n) <=>
          o \in 1..n /\ RowAt(run, s, o).kind = "transaction" /\ IdAt(run, s, o) = i
  BY DEF Members
<1> HIDE DEF n, I, J, h, f, part
<1>13. \A o \in I : h[o] \in J
  BY ONLY <1>4, <1>5, <1>6, <1>7, <1>8, <1>9, <1>10
<1>14. \A i \in J : Members(run, s, i, n) = {o \in I : h[o] = i}
  <2> SUFFICES ASSUME NEW i \in J
               PROVE  \A o : o \in Members(run, s, i, n) <=> o \in I /\ h[o] = i
    OBVIOUS
  <2>1. i \in DOMAIN grp /\ i[1] = ref /\ i[4] = "IN_SCOPE"
    BY <1>6, <1>8
  <2>2. ASSUME NEW o \in Members(run, s, i, n) PROVE o \in I /\ h[o] = i
    <3>1. o \in 1..n /\ IdAt(run, s, o) = i
      BY <1>12
    <3>2. MappedAt(run, s, o).key = ref /\ RowAt(run, s, o).scope = "IN_SCOPE"
      BY <1>5, <2>1, <3>1
    <3> QED BY <1>7, <1>9, <3>1, <3>2, Zenon
  <2>3. ASSUME NEW o \in I, h[o] = i PROVE o \in Members(run, s, i, n)
    BY <1>4, <1>9, <1>12, <2>3, Zenon
  <2> QED BY <2>2, <2>3
<1>15. \A i \in J : part[i] = SumFunctionOnSet(f, {o \in I : h[o] = i})
  BY ONLY <1>11, <1>14, Zenon
<1>16. SumFunctionOnSet(part, J) = SumFunctionOnSet(f, I)
  <2>1. Splits(I, h, J, f, part)
    BY ONLY <1>2, <1>3, <1>13, <1>15 DEF Splits
  <2> QED BY ONLY <2>1, SumFibres
<1> QED BY <1>16 DEF part, J, f, I

LEMMA NoBucketMismatch ==
    ASSUME Inv, Persisted, Strict
    PROVE  BucketMismatches = {}
<1>1. /\ GoodRun(input) /\ AllMap(input) /\ Balanced(summary, groups)
      /\ DbIs(db, input, summary, groups, issues) /\ GroupsAre(groups, input, AllRows(input))
  BY PersistedIs
<1>2. ASSUME NEW s \in Source, NEW ref, NEW t \in Target
      PROVE  RefTotal(s, ref, t) =
                SumFunctionOnSet([i \in GroupsOfKey(groups, ref) |-> groups[i].bucket[s][t]],
                                 GroupsOfKey(groups, ref))
  <2> DEFINE T == {x \in db.mappings :
                      x.scope = "IN_SCOPE" /\ <<x.src, x.ref, x.target>> = <<s, ref, t>>}
             O == OfKey(input, s, ref)
  <2>1. OnLines(T, input, s, O, t)
    BY <1>1, RefLines
  <2>2. O \in SUBSET (1..Count(input, s))
    BY DEF OfKey, InScope
  <2>3. RefTotal(s, ref, t) = SumOf(T)
    BY DEF RefTotal
  <2>4. SumFunctionOnSet(RoutedAt(input, s, t), O) =
           SumFunctionOnSet([i \in GroupsOfKey(groups, ref) |-> groups[i].bucket[s][t]],
                            GroupsOfKey(groups, ref))
    BY <1>1, KeyTotal
  <2> HIDE DEF T, O
  <2>5. SumsTo(T, SumFunctionOnSet(RoutedAt(input, s, t), O))
    BY <1>1, <2>1, <2>2, LineSum
  <2> QED BY <2>3, <2>4, <2>5 DEF SumsTo
<1>3. ASSUME NEW ref, NEW t \in Target
      PROVE  RefTotal(Payment, ref, t) = RefTotal(Settlement, ref, t)
  <2> DEFINE J == GroupsOfKey(groups, ref)
             P == [i \in J |-> groups[i].bucket[Payment][t]]
             Q == [i \in J |-> groups[i].bucket[Settlement][t]]
  <2>1. \A i \in J : groups[i].bucket[Payment] = groups[i].bucket[Settlement]
    BY <1>1 DEF GroupsOfKey, Balanced, GroupBalances
  <2>2. P = Q
    BY <2>1
  <2>3. Payment \in Source /\ Settlement \in Source
    BY DEF Source
  <2>4. RefTotal(Payment, ref, t) = SumFunctionOnSet(P, J)
    BY <1>2, <2>3
  <2>5. RefTotal(Settlement, ref, t) = SumFunctionOnSet(Q, J)
    BY <1>2, <2>3
  <2> HIDE DEF P, Q, J
  <2> QED BY <2>2, <2>4, <2>5, Zenon
<1>4. ASSUME NEW y \in db.mappings, y.target # "" PROVE y.target \in Target
  <2>3. PICK z \in Source : \E o \in 1..Count(input, z) : \E i \in 1..Lines(input, z, o) :
                               y = Line(input, z, o, i) /\ LineSays(y, input, z, o, i)
    BY <1>1, MappingIs
  <2>4. PICK o \in 1..Count(input, z) : \E i \in 1..Lines(input, z, o) : LineSays(y, input, z, o, i)
    BY <2>3
  <2>5. Count(input, z) > 0
    BY <1>1, <2>4, RowsOfRun
  <2>6. RulesUsable(input.rules[z], Target)
    BY <2>5, PersistedIs
  <2>7. y.target \in Target \cup {""}
    BY <2>4, <2>6, Zenon DEF LineSays
  <2> QED BY <1>4, <2>7
<1>5. \A y \in db.mappings : y.target # "" =>
         RefTotal(Payment, y.ref, y.target) = RefTotal(Settlement, y.ref, y.target)
  BY <1>3, <1>4
<1> QED BY <1>5 DEF BucketMismatches

LEMMA NoHeaderMismatch ==
    ASSUME Inv, Persisted
    PROVE  ~HeaderMismatches
<1>1. GoodRun(input) /\ HeaderIs(input) /\ DbIs(db, input, summary, groups, issues)
  BY PersistedIs
<1> DEFINE T == {r \in db.rows : r.src = Settlement /\ r.scope = "IN_SCOPE"}
           I == InScope(input, Settlement)
           K == 1..Count(input, Settlement)
           g == [o \in I |-> RowAt(input, Settlement, o)]
           f == [r \in T |-> r.amount]
           a == AmountAt(input, Settlement)
           e == InScopeAmount(input)
<1>2. Settlement \in Source
  BY DEF Source
<1>3. \A r : r \in T <=> \E o \in I : r = RowAt(input, Settlement, o)
  <2>1. \A r : r \in db.rows <=> \E s \in Source : \E o \in 1..Count(input, s) : r = RowAt(input, s, o)
    BY <1>1, Zenon DEF DbIs
  <2>2. \A s \in Source : \A o \in 1..Count(input, s) : RowAt(input, s, o).src = s
    BY <1>1, RowsOfRun DEF GoodRow
  <2>3. ASSUME NEW r \in T PROVE \E o \in I : r = RowAt(input, Settlement, o)
    <3>1. r \in db.rows /\ r.src = Settlement /\ r.scope = "IN_SCOPE"
      BY <2>3
    <3>2. PICK s \in Source : \E o \in 1..Count(input, s) : r = RowAt(input, s, o)
      BY <2>1, <3>1
    <3>3. PICK o \in 1..Count(input, s) : r = RowAt(input, s, o)
      BY <3>2
    <3>4. s = Settlement
      BY <2>2, <3>1, <3>3
    <3> QED BY <3>1, <3>3, <3>4 DEF InScope
  <2>4. ASSUME NEW o \in I PROVE RowAt(input, Settlement, o) \in T
    <3>1. o \in K /\ RowAt(input, Settlement, o).scope = "IN_SCOPE"
      BY DEF InScope
    <3>2. RowAt(input, Settlement, o) \in db.rows /\ RowAt(input, Settlement, o).src = Settlement
      BY <1>2, <2>1, <2>2, <3>1
    <3> QED BY <3>1, <3>2
  <2> HIDE DEF T, I
  <2> QED BY <2>3, <2>4, Zenon
<1>4. I \in SUBSET K /\ IsFiniteSet(K)
  BY <1>1, <1>2, RowsOfRun, UpToFinite DEF InScope
<1>5. Numbers(g, I, T)
  <2>1. \A o \in I : g[o] = RowAt(input, Settlement, o)
    OBVIOUS
  <2> HIDE DEF I, T, g
  <2> QED BY <1>1, <1>2, <1>3, <1>4, <2>1, RowsNumbered
<1>6. \A o \in K : a[o] \in Int /\ a[o] = RowAt(input, Settlement, o).amount
  BY <1>1, <1>2, AmountsType
<1>7. \A o \in I : f[g[o]] \in Int /\ a[o] = f[g[o]]
  <2>1. \A o \in I : g[o] \in T /\ g[o] = RowAt(input, Settlement, o)
    BY <1>5, Zenon DEF Numbers
  <2>2. \A o \in I : f[g[o]] = g[o].amount
    BY <2>1
  <2> HIDE DEF f, g, a
  <2> QED BY <1>4, <1>6, <2>1, <2>2
<1>8. (\A o \in I : a[o] \in Int /\ e[o] = a[o]) /\ \A o \in K \ I : e[o] = 0
  <2>1. \A o \in K : e[o] = IF o \in I THEN RowAt(input, Settlement, o).amount ELSE 0
    BY DEF InScopeAmount, InScope
  <2> HIDE DEF a, e, I, K
  <2> QED BY <1>4, <1>6, <2>1
<1>9. InScopeActivity = SumFunctionOnSet(f, T)
  BY DEF InScopeActivity, SumOf
<1>10. /\ db.controls = HeadersOf(input) /\ Cardinality(HeadersOf(input)) = 1
       /\ \A r \in HeadersOf(input) : r.amount = SumFunctionOnSet(e, K)
  BY <1>1, Zenon DEF DbIs, HeaderIs
<1> HIDE DEF T, I, K, g, f, a, e
<1>11. SumFunctionOnSet(f, T) = SumFunctionOnSet(a, I)
  BY ONLY <1>5, <1>7, SumOnto
<1>12. SumFunctionOnSet(a, I) = SumFunctionOnSet(e, K)
  BY ONLY <1>4, <1>8, SumOnPart
<1>13. Cardinality(db.controls) = 1 /\ \A r \in db.controls : r.amount = InScopeActivity
  BY ONLY <1>9, <1>10, <1>11, <1>12, Zenon
<1> QED BY <1>13 DEF HeaderMismatches

\* The transactions among the rows of the tables.
LEMMA TransactionsAre ==
    ASSUME Inv, Persisted
    PROVE  /\ IsFiniteSet(Transactions)
           /\ \A r : r \in Transactions <=>
                 \E s \in Source : \E o \in TransactionsOf(input, s) : r = RowAt(input, s, o)
<1>1. GoodRun(input) /\ DbIs(db, input, summary, groups, issues)
  BY PersistedIs
<1>2. \A s \in Source : \A o \in 1..Count(input, s) : RowAt(input, s, o).src = s
  BY <1>1, RowsOfRun DEF GoodRow
<1>3. \A r : r \in Transactions <=>
         \E s \in Source : \E o \in TransactionsOf(input, s) : r = RowAt(input, s, o)
  <2>1. \A r : r \in db.rows <=> \E s \in Source : \E o \in 1..Count(input, s) : r = RowAt(input, s, o)
    BY <1>1, Zenon DEF DbIs
  <2>2. \A r : r \in Transactions <=> r \in db.rows /\ r.kind = "transaction"
    BY DEF Transactions
  <2>3. ASSUME NEW r \in Transactions
        PROVE  \E s \in Source : \E o \in TransactionsOf(input, s) : r = RowAt(input, s, o)
    <3>1. PICK s \in Source : \E o \in 1..Count(input, s) : r = RowAt(input, s, o)
      BY <2>1, <2>2
    <3>2. PICK o \in 1..Count(input, s) : r = RowAt(input, s, o)
      BY <3>1
    <3>3. o \in TransactionsOf(input, s)
      BY <2>2, <3>2 DEF TransactionsOf
    <3> QED BY <3>2, <3>3
  <2>4. ASSUME NEW s \in Source, NEW o \in TransactionsOf(input, s)
        PROVE  RowAt(input, s, o) \in Transactions
    <3>1. o \in 1..Count(input, s) /\ RowAt(input, s, o).kind = "transaction"
      BY DEF TransactionsOf
    <3> QED BY <2>1, <2>2, <3>1
  <2> QED BY <2>3, <2>4, Zenon
<1> DEFINE h == [r \in Transactions |-> r.src]
           One(s) == {r \in Transactions : h[r] = s}
<1>4. ASSUME NEW s \in Source PROVE IsFiniteSet(One(s))
  <2> DEFINE I == TransactionsOf(input, s)
             g == [o \in I |-> RowAt(input, s, o)]
             T == One(s)
  <2>1. \A o \in I : g[o] = RowAt(input, s, o)
    OBVIOUS
  <2>2. I \in SUBSET (1..Count(input, s))
    BY DEF TransactionsOf
  <2>3. \A r : r \in T <=> \E o \in I : r = RowAt(input, s, o)
    <3>1. \A r \in T : r \in Transactions /\ r.src = s
      OBVIOUS
    <3>2. ASSUME NEW r \in T PROVE \E o \in I : r = RowAt(input, s, o)
      <4>1. PICK z \in Source : \E o \in TransactionsOf(input, z) : r = RowAt(input, z, o)
        BY <1>3, <3>1, <3>2
      <4>2. PICK o \in TransactionsOf(input, z) : r = RowAt(input, z, o)
        BY <4>1
      <4>3. o \in 1..Count(input, z)
        BY DEF TransactionsOf
      <4>4. z = s
        BY <1>2, <3>1, <3>2, <4>2, <4>3
      <4> QED BY <4>2, <4>4
    <3>3. ASSUME NEW o \in I PROVE RowAt(input, s, o) \in T
      <4>1. RowAt(input, s, o) \in Transactions /\ RowAt(input, s, o).src = s
        BY <1>2, <1>3, <2>2
      <4> QED BY <4>1
    <3> HIDE DEF T, I
    <3> QED BY <3>2, <3>3, Zenon
  <2> HIDE DEF I, g, T
  <2>4. Numbers(g, I, T)
    BY <1>1, <2>1, <2>2, <2>3, RowsNumbered
  <2>5. IsFiniteSet(T)
    BY ONLY <2>4, NumbersCount
  <2> QED BY <2>5 DEF T
<1>5. \A r \in Transactions : h[r] \in Source
  <2>1. \A r \in Transactions : h[r] = r.src
    OBVIOUS
  <2>2. ASSUME NEW r \in Transactions PROVE r.src \in Source
    <3>1. PICK s \in Source : \E o \in TransactionsOf(input, s) : r = RowAt(input, s, o)
      BY <1>3
    <3>2. PICK o \in 1..Count(input, s) : r = RowAt(input, s, o)
      BY <3>1 DEF TransactionsOf
    <3> QED BY <1>2, <3>2
  <2> QED BY <2>1, <2>2
<1>6. IsFiniteSet(Source)
  <2>1. IsFiniteSet({Payment}) /\ IsFiniteSet({Settlement})
    BY FS_Singleton
  <2>2. IsFiniteSet({Payment} \cup {Settlement})
    BY ONLY <2>1, FS_Union
  <2>3. Source = {Payment} \cup {Settlement}
    BY DEF Source
  <2> QED BY ONLY <2>2, <2>3, Zenon
<1>7. \A s \in Source : IsFiniteSet({r \in Transactions : h[r] = s})
  BY <1>4
<1> HIDE DEF h, One
<1>8. Classes(Transactions, h, Source)
  BY ONLY <1>5, <1>6, <1>7 DEF Classes
<1>9. IsFiniteSet(Transactions)
  BY ONLY <1>8, FiniteClasses
<1> QED BY <1>3, <1>9

LEMMA MembersCounted ==
    ASSUME Inv, Persisted
    PROVE  Cardinality(db.members) = Cardinality(Transactions)
<1>1. /\ GoodRun(input) /\ DbIs(db, input, summary, groups, issues)
      /\ GroupsAre(groups, input, AllRows(input))
  BY PersistedIs
<1> DEFINE I == Transactions
           M == db.members
           Of(s, o) == <<IdAt(input, s, o), s, o>>
           g == [r \in I |-> Of(r.src, r.ord)]
<1>2. /\ IsFiniteSet(I)
      /\ \A r : r \in I <=> \E s \in Source : \E o \in TransactionsOf(input, s) : r = RowAt(input, s, o)
  BY TransactionsAre
<1>3. \A s \in Source : \A o \in TransactionsOf(input, s) :
         RowAt(input, s, o).src = s /\ RowAt(input, s, o).ord = o
  <2>1. \A s \in Source : \A o \in 1..Count(input, s) :
           RowAt(input, s, o).src = s /\ RowAt(input, s, o).ord = o
    BY <1>1, RowsOfRun DEF GoodRow
  <2> QED BY <2>1 DEF TransactionsOf
<1>4. \A s \in Source : \A o \in TransactionsOf(input, s) : g[RowAt(input, s, o)] = Of(s, o)
  <2> SUFFICES ASSUME NEW s \in Source, NEW o \in TransactionsOf(input, s),
                      NEW r, r = RowAt(input, s, o)
               PROVE  g[r] = Of(s, o)
    OBVIOUS
  <2>1. r \in I /\ r.src = s /\ r.ord = o
    BY <1>2, <1>3
  <2>2. g[r] = Of(r.src, r.ord)
    BY <2>1
  <2> QED BY <2>1, <2>2, Zenon
<1>5. \A x : x \in M <=> \E s \in Source : \E o \in TransactionsOf(input, s) : x = Of(s, o)
  <2>1. \A x : x \in M <=>
           \E i \in DOMAIN groups : \E s \in Source : \E o \in groups[i].rows[s] : x = <<i, s, o>>
    BY <1>1, Zenon DEF DbIs
  <2>2. \A i \in DOMAIN groups : \A s \in Source : \A o :
           o \in groups[i].rows[s] <=> o \in TransactionsOf(input, s) /\ IdAt(input, s, o) = i
    <3> SUFFICES ASSUME NEW i \in DOMAIN groups, NEW s \in Source
                 PROVE  \A o : o \in groups[i].rows[s] <=>
                           o \in TransactionsOf(input, s) /\ IdAt(input, s, o) = i
      OBVIOUS
    <3>1. AllRows(input)[s] = Count(input, s)
      BY DEF AllRows
    <3>2. groups[i].rows[s] = Members(input, s, i, Count(input, s))
      BY <1>1, <3>1, Zenon DEF GroupsAre, GroupSums
    <3> QED BY <3>2 DEF Members, TransactionsOf
  <2>3. \A s \in Source : \A o \in TransactionsOf(input, s) : IdAt(input, s, o) \in DOMAIN groups
    <3>1. \A s \in Source : AllRows(input)[s] = Count(input, s)
      BY DEF AllRows
    <3>2. \A s \in Source : \A o \in 1..Count(input, s) :
             RowAt(input, s, o).kind = "transaction" => IdAt(input, s, o) \in DOMAIN groups
      BY <1>1, <3>1, Zenon DEF GroupsAre
    <3> QED BY <3>2 DEF TransactionsOf
  <2>4. ASSUME NEW x \in M PROVE \E s \in Source : \E o \in TransactionsOf(input, s) : x = Of(s, o)
    <3>1. PICK i \in DOMAIN groups : \E s \in Source : \E o \in groups[i].rows[s] : x = <<i, s, o>>
      BY <2>1
    <3>2. PICK s \in Source : \E o \in groups[i].rows[s] : x = <<i, s, o>>
      BY <3>1
    <3>3. PICK o \in groups[i].rows[s] : x = <<i, s, o>>
      BY <3>2
    <3>4. o \in TransactionsOf(input, s) /\ IdAt(input, s, o) = i
      BY <2>2, <3>3, Zenon
    <3> QED BY <3>3, <3>4
  <2>5. ASSUME NEW s \in Source, NEW o \in TransactionsOf(input, s) PROVE Of(s, o) \in M
    <3> DEFINE i == IdAt(input, s, o)
    <3>1. i \in DOMAIN groups
      BY <2>3
    <3>2. o \in groups[i].rows[s]
      BY <2>2, <3>1, Zenon
    <3> HIDE DEF i
    <3>3. <<i, s, o>> \in M
      BY <2>1, <3>1, <3>2
    <3> QED BY <3>3 DEF i
  <2> HIDE DEF M, Of
  <2> QED BY <2>4, <2>5, Zenon
<1> HIDE DEF g, I, Of, M
<1>7. \A r \in I : g[r] \in M
  <2> SUFFICES ASSUME NEW r \in I PROVE g[r] \in M
    OBVIOUS
  <2>1. PICK s \in Source : \E o \in TransactionsOf(input, s) : r = RowAt(input, s, o)
    BY <1>2
  <2>2. PICK o \in TransactionsOf(input, s) : r = RowAt(input, s, o)
    BY <2>1
  <2> QED BY <1>4, <1>5, <2>2, Zenon
<1>8. \A x \in M : \E r \in I : g[r] = x
  <2> SUFFICES ASSUME NEW x \in M PROVE \E r \in I : g[r] = x
    OBVIOUS
  <2>1. PICK s \in Source : \E o \in TransactionsOf(input, s) : x = Of(s, o)
    BY <1>5
  <2>2. PICK o \in TransactionsOf(input, s) : x = Of(s, o)
    BY <2>1
  <2>3. RowAt(input, s, o) \in I /\ g[RowAt(input, s, o)] = Of(s, o)
    BY <1>2, <1>4, Zenon
  <2> QED BY <2>2, <2>3, Zenon
<1>9. \A q, r \in I : g[q] = g[r] => q = r
  <2> SUFFICES ASSUME NEW q \in I, NEW r \in I, g[q] = g[r] PROVE q = r
    OBVIOUS
  <2>1. PICK s \in Source : \E o \in TransactionsOf(input, s) : q = RowAt(input, s, o)
    BY <1>2
  <2>2. PICK o \in TransactionsOf(input, s) : q = RowAt(input, s, o)
    BY <2>1
  <2>3. PICK z \in Source : \E p \in TransactionsOf(input, z) : r = RowAt(input, z, p)
    BY <1>2
  <2>4. PICK p \in TransactionsOf(input, z) : r = RowAt(input, z, p)
    BY <2>3
  <2>5. Of(s, o) = Of(z, p)
    BY <1>4, <2>2, <2>4, Zenon
  <2>6. s = z /\ o = p
    BY ONLY <2>5 DEF Of
  <2> QED BY <2>2, <2>4, <2>6, Zenon
<1>10. Numbers(g, I, M)
  BY <1>2, <1>7, <1>8, <1>9, Zenon DEF Numbers
<1>11. Cardinality(M) = Cardinality(I)
  BY ONLY <1>10, NumbersCount
<1> QED BY <1>11 DEF M, I

\* StrictRunVerifies: what the strict gate of Persist lets through, VerifyRun accepts:
\* no issue, no amount or bucket that differs in scope, totals that can be recomputed, a
\* header that states the activity, and every transaction in one group.
THEOREM StrictRunVerifiesHolds == Spec => []StrictRunVerifies
<1>1. Inv => StrictRunVerifies
  <2> SUFFICES ASSUME Inv, Persisted, Strict
               PROVE  /\ db.issues = {}
                      /\ \A g \in AmountMismatches : g.scope # "IN_SCOPE"
                      /\ BucketMismatches = {}
                      /\ SummaryMismatches = {}
                      /\ ~HeaderMismatches
                      /\ Cardinality(db.members) = Cardinality(Transactions)
    BY Zenon DEF StrictRunVerifies
  <2>1. AllMap(input) /\ issues = {} /\ DbIs(db, input, summary, groups, issues)
    BY PersistedIs
  <2>2. db.issues = {}
    BY <2>1, Zenon DEF DbIs
  <2>3. \A g \in AmountMismatches : g.scope # "IN_SCOPE"
    BY NoAmountMismatch
  <2>4. BucketMismatches = {}
    BY NoBucketMismatch
  <2>5. SummaryMismatches = {}
    BY <2>1, NoSummaryMismatch
  <2> QED BY <2>2, <2>3, <2>4, <2>5, NoHeaderMismatch, MembersCounted
<1> QED BY <1>1, Invariance, PTL

-----------------------------------------------------------------------------
\* The order of the rules.

\* At most one place of s holds an element of S.
Few(s, S) == \A i, j \in 1..Len(s) : s[i] \in S /\ s[j] \in S => i = j

\* Two sequences that differ in their order only, as far as Range and Few tell.
Alike(a, b, X) ==
    /\ a \in Seq(X) /\ b \in Seq(X)
    /\ \A x : x \in Range(a) <=> x \in Range(b)
    /\ \A S : Few(a, S) <=> Few(b, S)

LEMMA FilterFew ==
    ASSUME NEW X, NEW s \in Seq(X), NEW S, NEW T
    PROVE  Few(Filter(s, S), T) <=> Few(s, S \cap T)
<1> DEFINE out == Filter(s, S)
           n == Len(out)
           k == Len(s)
<1>1. PICK from : Picks(from, s, S)
  BY FilterPicks
<1>2. n \in Nat /\ k \in Nat
  BY FilterPicks
<1>3. /\ \A j \in 1..n : from[j] \in 1..k /\ s[from[j]] \in S /\ out[j] = s[from[j]]
      /\ \A i \in 1..k : s[i] \in S => \E j \in 1..n : from[j] = i
      /\ \A i, j \in 1..n : i < j => from[i] < from[j]
  BY <1>1 DEF Picks
<1> HIDE DEF out, n, k
<1>4. \A i, j \in 1..n : from[i] = from[j] => i = j
  BY ONLY <1>2, <1>3
<1>5. ASSUME \A i, j \in 1..n : out[i] \in T /\ out[j] \in T => i = j,
             NEW i \in 1..k, NEW j \in 1..k, s[i] \in S \cap T, s[j] \in S \cap T
      PROVE  i = j
  <2>1. PICK p \in 1..n : from[p] = i
    BY <1>3, <1>5
  <2>2. PICK q \in 1..n : from[q] = j
    BY <1>3, <1>5
  <2>3. out[p] \in T /\ out[q] \in T
    BY <1>3, <1>5, <2>1, <2>2
  <2>4. p = q
    BY <1>5, <2>3
  <2> QED BY <2>1, <2>2, <2>4
<1>6. ASSUME \A i, j \in 1..k : s[i] \in S \cap T /\ s[j] \in S \cap T => i = j,
             NEW p \in 1..n, NEW q \in 1..n, out[p] \in T, out[q] \in T
      PROVE  p = q
  <2>1. from[p] = from[q]
    BY <1>3, <1>6
  <2> QED BY <1>4, <2>1
<1> QED BY <1>5, <1>6 DEF Few, out, n, k

LEMMA ConcatFew ==
    ASSUME NEW X, NEW a \in Seq(X), NEW b \in Seq(X), NEW S
    PROVE  Few(a \o b, S) <=>
              /\ Few(a, S) /\ Few(b, S)
              /\ (\A x \in Range(a) : x \notin S) \/ (\A x \in Range(b) : x \notin S)
<1> DEFINE c == a \o b
           n == Len(a)
           k == Len(b)
<1>1. /\ n \in Nat /\ k \in Nat /\ Len(c) = n + k
      /\ \A i \in 1..(n + k) : c[i] = IF i <= n THEN a[i] ELSE b[i - n]
  BY ConcatProperties
<1>2. /\ \A x : x \in Range(a) <=> \E i \in 1..n : x = a[i]
      /\ \A x : x \in Range(b) <=> \E i \in 1..k : x = b[i]
  BY SeqRange
<1> HIDE DEF c, n, k
<1>3. \A i \in 1..n : i \in 1..(n + k) /\ c[i] = a[i]
  BY ONLY <1>1
<1>4. \A i \in 1..k : n + i \in 1..(n + k) /\ c[n + i] = b[i]
  <2> SUFFICES ASSUME NEW i \in 1..k PROVE n + i \in 1..(n + k) /\ c[n + i] = b[i]
    OBVIOUS
  <2>1. n + i \in 1..(n + k) /\ ~(n + i <= n) /\ (n + i) - n = i
    BY <1>1
  <2> QED BY <1>1, <2>1
<1>5. \A i \in 1..(n + k) : i \in 1..n \/ \E j \in 1..k : i = n + j
  <2> SUFFICES ASSUME NEW i \in 1..(n + k), i \notin 1..n PROVE \E j \in 1..k : i = n + j
    OBVIOUS
  <2>1. i - n \in 1..k /\ i = n + (i - n)
    BY <1>1
  <2> QED BY <2>1
<1>6. ASSUME Few(c, S)
      PROVE  /\ Few(a, S) /\ Few(b, S)
             /\ (\A x \in Range(a) : x \notin S) \/ (\A x \in Range(b) : x \notin S)
  <2>1. \A i, j \in 1..(n + k) : c[i] \in S /\ c[j] \in S => i = j
    BY <1>1, <1>6 DEF Few
  <2>2. \A i, j \in 1..n : a[i] \in S /\ a[j] \in S => i = j
    BY ONLY <1>3, <2>1
  <2>3. ASSUME NEW i \in 1..k, NEW j \in 1..k, b[i] \in S, b[j] \in S PROVE i = j
    <3>1. n + i = n + j
      BY <1>4, <2>1, <2>3
    <3> QED BY <1>1, <3>1
  <2>4. ASSUME NEW x \in Range(a), x \in S, NEW y \in Range(b), y \in S PROVE FALSE
    <3>1. PICK i \in 1..n : x = a[i]
      BY <1>2
    <3>2. PICK j \in 1..k : y = b[j]
      BY <1>2
    <3>3. i = n + j
      BY <1>3, <1>4, <2>1, <2>4, <3>1, <3>2
    <3> QED BY <1>1, <3>3
  <2> QED BY <2>2, <2>3, <2>4 DEF Few, n, k
<1>7. ASSUME Few(a, S), Few(b, S),
             (\A x \in Range(a) : x \notin S) \/ (\A x \in Range(b) : x \notin S),
             NEW i \in 1..(n + k), NEW j \in 1..(n + k), c[i] \in S, c[j] \in S
      PROVE  i = j
  <2>1. \A p, q \in 1..n : a[p] \in S /\ a[q] \in S => p = q
    BY <1>7 DEF Few, n
  <2>2. \A p, q \in 1..k : b[p] \in S /\ b[q] \in S => p = q
    BY <1>7 DEF Few, k
  <2>3. ~(\E p \in 1..n, q \in 1..k : a[p] \in S /\ b[q] \in S)
    BY ONLY <1>2, <1>7
  <2>4. CASE i \in 1..n /\ j \in 1..n
    BY <1>3, <1>7, <2>1, <2>4
  <2>5. CASE i \in 1..n /\ j \notin 1..n
    <3>1. PICK q \in 1..k : j = n + q
      BY <1>5, <2>5
    <3> QED BY <1>3, <1>4, <1>7, <2>3, <2>5, <3>1
  <2>6. CASE i \notin 1..n /\ j \in 1..n
    <3>1. PICK p \in 1..k : i = n + p
      BY <1>5, <2>6
    <3> QED BY <1>3, <1>4, <1>7, <2>3, <2>6, <3>1
  <2>7. CASE i \notin 1..n /\ j \notin 1..n
    <3>1. PICK p \in 1..k : i = n + p
      BY <1>5, <2>7
    <3>2. PICK q \in 1..k : j = n + q
      BY <1>5, <2>7
    <3> QED BY <1>4, <1>7, <2>2, <3>1, <3>2
  <2> QED BY <2>4, <2>5, <2>6, <2>7
<1>8. ASSUME Few(a, S), Few(b, S),
             (\A x \in Range(a) : x \notin S) \/ (\A x \in Range(b) : x \notin S)
      PROVE  Few(c, S)
  BY <1>1, <1>7, <1>8 DEF Few
<1> QED BY <1>6, <1>8 DEF c

LEMMA FilterAlike ==
    ASSUME NEW X, NEW a, NEW b, Alike(a, b, X), NEW S
    PROVE  Alike(Filter(a, S), Filter(b, S), X)
<1>1. a \in Seq(X) /\ b \in Seq(X)
  BY DEF Alike
<1> DEFINE p == Filter(a, S)
           q == Filter(b, S)
<1>2. p \in Seq(X) /\ \A x : x \in Range(p) <=> x \in Range(a) /\ x \in S
  BY <1>1, FilterRange
<1>3. q \in Seq(X) /\ \A x : x \in Range(q) <=> x \in Range(b) /\ x \in S
  BY <1>1, FilterRange
<1>4. ASSUME NEW T PROVE Few(p, T) <=> Few(q, T)
  <2>1. Few(p, T) <=> Few(a, S \cap T)
    BY <1>1, FilterFew
  <2>2. Few(q, T) <=> Few(b, S \cap T)
    BY <1>1, FilterFew
  <2>3. Few(a, S \cap T) <=> Few(b, S \cap T)
    BY Zenon DEF Alike
  <2> QED BY <2>1, <2>2, <2>3
<1> HIDE DEF p, q
<1>5. \A x : x \in Range(p) <=> x \in Range(q)
  BY <1>2, <1>3, Zenon DEF Alike
<1>6. Alike(p, q, X)
  BY ONLY <1>2, <1>3, <1>4, <1>5, Zenon DEF Alike
<1> QED BY <1>6 DEF p, q

LEMMA ConcatAlike ==
    ASSUME NEW X, NEW a, NEW b, Alike(a, b, X), NEW c, NEW d, Alike(c, d, X)
    PROVE  Alike(a \o c, b \o d, X)
<1>1. a \in Seq(X) /\ b \in Seq(X) /\ c \in Seq(X) /\ d \in Seq(X)
  BY DEF Alike
<1>0. (\A x : x \in Range(a) <=> x \in Range(b)) /\ \A x : x \in Range(c) <=> x \in Range(d)
  BY DEF Alike
<1> DEFINE p == a \o c
           q == b \o d
<1>2. p \in Seq(X) /\ \A x : x \in Range(p) <=> x \in Range(a) \/ x \in Range(c)
  BY <1>1, ConcatRange
<1>3. q \in Seq(X) /\ \A x : x \in Range(q) <=> x \in Range(b) \/ x \in Range(d)
  BY <1>1, ConcatRange
<1>4. ASSUME NEW S PROVE Few(p, S) <=> Few(q, S)
  <2>1. Few(p, S) <=> /\ Few(a, S) /\ Few(c, S)
                      /\ (\A x \in Range(a) : x \notin S) \/ (\A x \in Range(c) : x \notin S)
    BY <1>1, ConcatFew
  <2>2. Few(q, S) <=> /\ Few(b, S) /\ Few(d, S)
                      /\ (\A x \in Range(b) : x \notin S) \/ (\A x \in Range(d) : x \notin S)
    BY <1>1, ConcatFew
  <2>3. (Few(a, S) <=> Few(b, S)) /\ (Few(c, S) <=> Few(d, S))
    BY Zenon DEF Alike
  <2> HIDE DEF p, q
  <2> QED BY ONLY <1>0, <2>1, <2>2, <2>3
<1> HIDE DEF p, q
<1>5. \A x : x \in Range(p) <=> x \in Range(q)
  BY ONLY <1>0, <1>2, <1>3
<1>6. Alike(p, q, X)
  BY ONLY <1>2, <1>3, <1>4, <1>5, Zenon DEF Alike
<1> QED BY <1>6 DEF p, q

\* A reordering of a sequence.
LEMMA ReorderedAlike ==
    ASSUME NEW X, NEW s \in Seq(X), NEW p \in Bijection(DOMAIN s, DOMAIN s),
           NEW q, q = [i \in DOMAIN s |-> s[p[i]]]
    PROVE  Alike(q, s, X)
<1> DEFINE n == Len(s)
<1>1. n \in Nat /\ DOMAIN s = 1..n /\ \A i \in 1..n : s[i] \in X
  BY SeqIs
<1>2. /\ \A i \in 1..n : p[i] \in 1..n
      /\ \A i, j \in 1..n : p[i] = p[j] => i = j
      /\ \A j \in 1..n : \E i \in 1..n : p[i] = j
  BY <1>1 DEF Bijection, Injection, Surjection, IsInjective
<1>3. \A x : x \in Range(s) <=> \E i \in 1..n : x = s[i]
  BY <1>1, SeqRange
<1>8. \A S : Few(s, S) <=> \A i, j \in 1..n : s[i] \in S /\ s[j] \in S => i = j
  BY DEF Few
<1> HIDE DEF n
<1>4. q = [i \in 1..n |-> s[p[i]]]
  BY <1>1
<1>5. q \in [1..n -> X] /\ \A i \in 1..n : q[i] = s[p[i]]
  BY <1>1, <1>2, <1>4
<1>6. q \in Seq(X) /\ Len(q) = n
  BY <1>1, <1>5, FcnIsSeq
<1>7. \A x : x \in Range(q) <=> \E i \in 1..n : x = q[i]
  BY <1>6, SeqRange
<1>9. \A S : Few(q, S) <=> \A i, j \in 1..n : q[i] \in S /\ q[j] \in S => i = j
  BY <1>6 DEF Few
<1>10. \A x : x \in Range(q) <=> x \in Range(s)
  <2>1. ASSUME NEW x \in Range(q) PROVE x \in Range(s)
    <3>1. PICK i \in 1..n : x = q[i]
      BY <1>7
    <3>2. p[i] \in 1..n /\ x = s[p[i]]
      BY <1>2, <1>5, <3>1
    <3> QED BY ONLY <1>3, <3>2
  <2>2. ASSUME NEW x \in Range(s) PROVE x \in Range(q)
    <3>1. PICK j \in 1..n : x = s[j]
      BY <1>3
    <3>2. PICK i \in 1..n : p[i] = j
      BY <1>2
    <3>3. x = q[i]
      BY <1>5, <3>1, <3>2
    <3> QED BY ONLY <1>7, <3>3, Zenon
  <2> QED BY ONLY <2>1, <2>2
<1>11. ASSUME NEW S PROVE Few(q, S) <=> Few(s, S)
  <2>1. ASSUME \A i, j \in 1..n : s[i] \in S /\ s[j] \in S => i = j,
               NEW i \in 1..n, NEW j \in 1..n, q[i] \in S, q[j] \in S
        PROVE  i = j
    BY <1>2, <1>5, <2>1
  <2>2. ASSUME \A i, j \in 1..n : q[i] \in S /\ q[j] \in S => i = j,
               NEW i \in 1..n, NEW j \in 1..n, s[i] \in S, s[j] \in S
        PROVE  i = j
    <3>1. PICK k \in 1..n : p[k] = i
      BY <1>2
    <3>2. PICK l \in 1..n : p[l] = j
      BY <1>2
    <3>3. q[k] \in S /\ q[l] \in S
      BY <1>5, <2>2, <3>1, <3>2
    <3>4. k = l
      BY <2>2, <3>3
    <3> QED BY <3>1, <3>2, <3>4
  <2> QED BY <1>8, <1>9, <2>1, <2>2
<1> QED BY <1>6, <1>10, <1>11 DEF Alike

LEMMA AlikeOne ==
    ASSUME NEW X, NEW a, NEW b, Alike(a, b, X), ~(Len(a) > 1)
    PROVE  a = b
<1> DEFINE n == Len(a)
           k == Len(b)
<1>1. a \in Seq(X) /\ b \in Seq(X) /\ \A x : x \in Range(a) <=> x \in Range(b)
  BY DEF Alike
<1>2. /\ n \in Nat /\ \A x : x \in Range(a) <=> \E i \in 1..n : x = a[i]
      /\ k \in Nat /\ \A x : x \in Range(b) <=> \E i \in 1..k : x = b[i]
  BY <1>1, SeqRange
<1>3. \A i \in 1..k : b[i] \in X
  BY <1>1
<1>4. Few(a, X)
  BY <1>2 DEF Few
<1>5. \A i, j \in 1..k : b[i] \in X /\ b[j] \in X => i = j
  BY <1>4 DEF Alike, Few
<1>6. ~(n > 1)
  OBVIOUS
<1>9. (a = b) <=> (n = k /\ \A i \in 1..n : a[i] = b[i])
  BY <1>1
<1> HIDE DEF n, k
<1>7. n \in {0, 1} /\ k \in {0, 1}
  <2>1. k > 1 => 1 \in 1..k /\ 2 \in 1..k
    BY <1>2
  <2>2. ~(k > 1)
    BY ONLY <1>3, <1>5, <2>1
  <2> QED BY ONLY <1>2, <1>6, <2>2
<1>8. n = k /\ \A i \in 1..n : a[i] = b[i]
  <2>0. 1..0 = {} /\ 1..1 = {1}
    OBVIOUS
  <2>1. n = 0 => \A x : x \notin Range(a)
    BY <1>2, <2>0
  <2>2. k = 0 => \A x : x \notin Range(b)
    BY <1>2, <2>0
  <2>3. n = 1 => \A x : x \in Range(a) <=> x = a[1]
    BY <1>2, <2>0
  <2>4. k = 1 => \A x : x \in Range(b) <=> x = b[1]
    BY <1>2, <2>0
  <2>5. \A x : x \in Range(a) <=> x \in Range(b)
    BY <1>1
  <2>6. n = k /\ (n = 1 => a[1] = b[1])
    BY ONLY <1>7, <2>1, <2>2, <2>3, <2>4, <2>5
  <2> QED BY ONLY <1>7, <2>0, <2>6
<1> QED BY <1>8, <1>9

LEMMA AlikeEmpty ==
    ASSUME NEW X, NEW a, NEW b, Alike(a, b, X)
    PROVE  (a # <<>>) <=> (b # <<>>)
<1>1. a \in Seq(X) /\ b \in Seq(X) /\ \A x : x \in Range(a) <=> x \in Range(b)
  BY DEF Alike
<1>2. \A s \in Seq(X) : s # <<>> <=> \E x : x \in Range(s)
  <2> SUFFICES ASSUME NEW s \in Seq(X) PROVE s # <<>> <=> \E x : x \in Range(s)
    OBVIOUS
  <2>1. Len(s) \in Nat /\ \A x : x \in Range(s) <=> \E i \in 1..Len(s) : x = s[i]
    BY SeqRange
  <2>2. s # <<>> <=> Len(s) # 0
    OBVIOUS
  <2>3. Len(s) # 0 => 1 \in 1..Len(s)
    BY <2>1
  <2>4. Len(s) = 0 => 1..Len(s) = {}
    OBVIOUS
  <2> QED BY ONLY <2>1, <2>2, <2>3, <2>4
<1> QED BY <1>1, <1>2

\* Reordered rules select the same rules for a row, up to their order.
LEMMA SelectedAlike ==
    ASSUME NEW X, NEW q, NEW rules, Alike(q, rules, X), NEW row
    PROVE  Alike(Selected(q, row), Selected(rules, row), X)
<1>1. Range(q) = Range(rules)
  BY DEF Alike
<1>2. ASSUME NEW label PROVE Alike(Indexed(q, label), Indexed(rules, label), X)
  <2> DEFINE S == {r \in Range(rules) : Label(r.tx) = label}
  <2>1. Indexed(q, label) = Filter(q, S) /\ Indexed(rules, label) = Filter(rules, S)
    BY <1>1, Zenon DEF Indexed
  <2>2. Alike(Filter(q, S), Filter(rules, S), X)
    BY FilterAlike
  <2> QED BY <2>1, <2>2, Zenon
<1>3. Alike(Candidates(q, row), Candidates(rules, row), X)
  <2> DEFINE a == Indexed(q, Label(row.tx))
             b == Indexed(rules, Label(row.tx))
             c == Indexed(q, "")
             d == Indexed(rules, "")
  <2>1. Alike(a, b, X) /\ Alike(c, d, X)
    BY <1>2
  <2>2. Candidates(q, row) = a \o c /\ Candidates(rules, row) = b \o d
    BY DEF Candidates
  <2> HIDE DEF a, b, c, d
  <2>3. Alike(a \o c, b \o d, X)
    BY ONLY <2>1, ConcatAlike
  <2> QED BY <2>2, <2>3, Zenon
<1>4. Alike(Hits(q, row), Hits(rules, row), X)
  <2> DEFINE S == {r \in Range(rules) : Matches(r, row)}
             a == Candidates(q, row)
             b == Candidates(rules, row)
  <2>1. Hits(q, row) = Filter(a, S) /\ Hits(rules, row) = Filter(b, S)
    BY <1>1, Zenon DEF Hits
  <2> HIDE DEF S, a, b
  <2>2. Alike(Filter(a, S), Filter(b, S), X)
    <3>1. Alike(a, b, X)
      BY <1>3 DEF a, b
    <3> QED BY ONLY <3>1, FilterAlike
  <2> QED BY <2>1, <2>2, Zenon
<1> DEFINE T == {r \in Range(rules) : r.tx # ""}
           a == Hits(q, row)
           b == Hits(rules, row)
           c == Filter(a, T)
           d == Filter(b, T)
<1>5. /\ Selected(q, row) = IF c # <<>> THEN c ELSE a
      /\ Selected(rules, row) = IF d # <<>> THEN d ELSE b
  BY <1>1, Zenon DEF Selected
<1>6. Alike(a, b, X)
  BY <1>4
<1> HIDE DEF T, a, b
<1>7. Alike(c, d, X)
  BY ONLY <1>6, FilterAlike
<1> HIDE DEF c, d
<1>8. (c # <<>>) <=> (d # <<>>)
  BY ONLY <1>7, AlikeEmpty
<1> QED BY ONLY <1>5, <1>6, <1>7, <1>8

LEMMA CompetingAlike ==
    ASSUME NEW X, NEW q, NEW sel, Alike(q, sel, X), NEW row, NEW field
    PROVE  Alike(Competing(q, row, field), Competing(sel, row, field), X)
<1>1. Range(q) = Range(sel)
  BY DEF Alike
<1> DEFINE a == OnField(q, row, field)
           b == OnField(sel, row, field)
           c == Named(a)
           d == Named(b)
<1>2. Alike(a, b, X)
  <2> DEFINE S == {r \in Range(sel) : FieldOf(row, r) = field}
  <2>1. a = Filter(q, S) /\ b = Filter(sel, S)
    BY <1>1, Zenon DEF OnField
  <2>2. Alike(Filter(q, S), Filter(sel, S), X)
    BY FilterAlike
  <2> HIDE DEF a, b
  <2> QED BY <2>1, <2>2, Zenon
<1>5. /\ Competing(q, row, field) = IF c # <<>> THEN c ELSE a
      /\ Competing(sel, row, field) = IF d # <<>> THEN d ELSE b
  BY Zenon DEF Competing
<1> HIDE DEF a, b
<1>3. Range(a) = Range(b)
  BY <1>2 DEF Alike
<1>4. Alike(c, d, X)
  <2> DEFINE S == {r \in Range(b) : Label(r.desc) # "ANY"}
  <2>1. c = Filter(a, S) /\ d = Filter(b, S)
    BY <1>3, Zenon DEF Named
  <2> HIDE DEF S
  <2>2. Alike(Filter(a, S), Filter(b, S), X)
    BY ONLY <1>2, FilterAlike
  <2> HIDE DEF c, d
  <2> QED BY <2>1, <2>2, Zenon
<1> HIDE DEF c, d
<1>6. (c # <<>>) <=> (d # <<>>)
  BY ONLY <1>4, AlikeEmpty
<1> QED BY ONLY <1>2, <1>4, <1>5, <1>6

LEMMA EmptyWell ==
    ASSUME NEW rules, NEW row
    PROVE  WellMapped(EmptyMapped(row), rules, row)
BY DEF EmptyMapped, WellMapped, MappedFields

\* A field that strict mode maps without an error has at most one rule left.
LEMMA StrictField ==
    ASSUME NEW X, NEW rules \in Seq(X), NEW m, DOMAIN m = MappedFields, NEW field,
           MapField(m, field, rules, StrictMode).err = ""
    PROVE  m.err = "" /\ ~(Len(rules) > 1)
<1>1. Len(rules) \in Nat
  BY SeqIs
<1>2. PICK after : Applied(after, m, field, rules, StrictMode)
  BY <1>1, RuleLoop
<1>3. MapField(m, field, rules, StrictMode) =
         IF m.err # "" THEN m
         ELSE IF Len(rules) > 1 THEN Refused(m, field, rules) ELSE after[Len(rules)]
  BY <1>2 DEF Applied
<1>4. m.err = ""
  BY <1>3
<1>5. Refused(m, field, rules).err = "ambiguous"
  <2> DEFINE k == Marked(m, field, rules)
  <2>1. DOMAIN k = MappedFields
    BY DEF Marked
  <2>2. Refused(m, field, rules) = [k EXCEPT !.err = "ambiguous"]
    BY DEF Refused
  <2> HIDE DEF k
  <2> QED BY ONLY <2>1, <2>2 DEF MappedFields
<1>6. Len(rules) > 1 => MapField(m, field, rules, StrictMode) = Refused(m, field, rules)
  BY ONLY <1>3, <1>4
<1>7. "ambiguous" # ""
  OBVIOUS
<1>8. ~(Len(rules) > 1)
  <2> SUFFICES ASSUME Len(rules) > 1 PROVE FALSE
    OBVIOUS
  <2>1. MapField(m, field, rules, StrictMode).err = "ambiguous"
    BY <1>5, <1>6, Zenon
  <2> QED BY <1>7, <2>1, Zenon
<1> QED BY <1>4, <1>8

\* The fields of a row in strict mode, and with the rules in another order.
StrictFields(rules, row) == MapFields(Selected(rules, row), row, StrictMode)

FieldsAgree(q, rules, row) ==
    StrictFields(rules, row).err = "" => StrictFields(q, row) = StrictFields(rules, row)

LEMMA SameFields ==
    ASSUME NEW X, NEW q, NEW rules, Alike(q, rules, X), NEW row
    PROVE  FieldsAgree(q, rules, row)
<1> SUFFICES ASSUME MapFields(Selected(rules, row), row, StrictMode).err = ""
             PROVE  MapFields(Selected(q, row), row, StrictMode)
                      = MapFields(Selected(rules, row), row, StrictMode)
  BY Zenon DEF FieldsAgree, StrictFields
<1> DEFINE n == Len(FieldOrder)
           left(k) == Competing(Selected(rules, row), row, FieldOrder[k])
           lefq(k) == Competing(Selected(q, row), row, FieldOrder[k])
<1>n. n \in Nat
  BY FieldAssumption, SeqRange
<1>f. \A k \in 1..n : FieldOrder[k] \in Range(FieldOrder)
  BY FieldAssumption, SeqRange
<1>0. rules \in Seq(X)
  BY DEF Alike
<1>1. PICK m :
        /\ m[0] = EmptyMapped(row)
        /\ \A k \in 1..n : m[k] = MapField(m[k - 1], FieldOrder[k], left(k), StrictMode)
        /\ MapFields(Selected(rules, row), row, StrictMode) = m[n]
  BY ONLY FieldLoop
<1>2. PICK e :
        /\ e[0] = EmptyMapped(row)
        /\ \A k \in 1..n : e[k] = MapField(e[k - 1], FieldOrder[k], lefq(k), StrictMode)
        /\ MapFields(Selected(q, row), row, StrictMode) = e[n]
  BY ONLY FieldLoop
<1>3. \A k \in 1..n : Alike(lefq(k), left(k), X) /\ Alike(left(k), lefq(k), X) /\ left(k) \in Seq(X)
  <2> SUFFICES ASSUME NEW k \in 1..n
               PROVE  Alike(lefq(k), left(k), X) /\ Alike(left(k), lefq(k), X) /\ left(k) \in Seq(X)
    OBVIOUS
  <2> DEFINE a == Selected(q, row)
             b == Selected(rules, row)
             f == FieldOrder[k]
  <2>1. Alike(a, b, X)
    BY SelectedAlike
  <2> HIDE DEF a, b, f
  <2>2. Alike(Competing(a, row, f), Competing(b, row, f), X)
    BY ONLY <2>1, CompetingAlike
  <2>3. Alike(lefq(k), left(k), X)
    BY <2>2 DEF a, b, f
  <2> HIDE DEF lefq, left
  <2> QED BY <2>3 DEF Alike
<1>9. \A k \in 1..n : left(k) = Competing(Selected(rules, row), row, FieldOrder[k])
  OBVIOUS
<1> HIDE DEF n, left, lefq
<1>z. 0 \in 0..n /\ n \in 0..n /\ n - 0 = n
  BY ONLY <1>n
<1>s. \A k \in 0..(n - 1) : /\ k + 1 \in 1..n /\ (k + 1) - 1 = k /\ k + 1 \in 0..n /\ k \in 0..n
                            /\ n - k \in 1..n /\ (n - k) - 1 = n - (k + 1)
  BY ONLY <1>n
<1>d. \A k \in 0..n : n - k \in 0..n /\ n - (n - k) = k
  BY ONLY <1>n
<1>k. \A k \in 1..n : k \in 0..n /\ k - 1 \in 0..n
  BY ONLY <1>n
<1>4. \A k \in 0..n : WellMapped(m[k], rules, row)
  <2> DEFINE T == {k \in 0..n : WellMapped(m[k], rules, row)}
  <2>1. 0 \in T
    <3>1. WellMapped(EmptyMapped(row), rules, row)
      BY EmptyWell
    <3>2. WellMapped(m[0], rules, row)
      BY <1>1, <3>1, Zenon
    <3> QED BY <1>z, <3>2, Zenon
  <2>2. ASSUME NEW k \in 0..(n - 1), k \in T PROVE k + 1 \in T
    <3>1. k + 1 \in 1..n /\ (k + 1) - 1 = k /\ k + 1 \in 0..n
      BY <1>s, Zenon
    <3>0. WellMapped(m[k], rules, row)
      BY <2>2, Zenon
    <3> DEFINE f == FieldOrder[k + 1]
    <3>2. f \in Range(FieldOrder)
      BY <1>f, <3>1, Zenon
    <3>3. m[k + 1] = MapField(m[k], f, Competing(Selected(rules, row), row, f), StrictMode)
      <4>1. m[k + 1] = MapField(m[k], f, left(k + 1), StrictMode)
        BY <1>1, <3>1, Zenon
      <4>2. left(k + 1) = Competing(Selected(rules, row), row, f)
        BY <1>9, <3>1, Zenon
      <4> QED BY <4>1, <4>2, Zenon
    <3> HIDE DEF f
    <3>4. WellMapped(m[k + 1], rules, row)
      BY ONLY <1>0, <3>0, <3>2, <3>3, MapFieldKeeps
    <3> QED BY <3>1, <3>4, Zenon
  <2>3. \A k \in 0..n : k \in T
    <3> HIDE DEF T
    <3> QED BY ONLY <1>n, <2>1, <2>2, UpTo
  <2> QED BY <2>3, Zenon
<1>5. \A k \in 1..n : m[k].err = "" => m[k - 1].err = "" /\ ~(Len(left(k)) > 1)
  <2> SUFFICES ASSUME NEW k \in 1..n, m[k].err = "" PROVE m[k - 1].err = "" /\ ~(Len(left(k)) > 1)
    OBVIOUS
  <2>1. k - 1 \in 0..n
    BY <1>k, Zenon
  <2> DEFINE b == m[k - 1]
             l == left(k)
             f == FieldOrder[k]
  <2>2. DOMAIN b = MappedFields
    BY <1>4, <2>1, Zenon DEF WellMapped
  <2>3. l \in Seq(X) /\ MapField(b, f, l, StrictMode).err = ""
    BY <1>1, <1>3, Zenon
  <2> HIDE DEF b, l, f
  <2>4. b.err = "" /\ ~(Len(l) > 1)
    BY ONLY <2>2, <2>3, StrictField
  <2> QED BY <2>4 DEF b, l
<1>6. \A k \in 0..n : m[k].err = ""
  <2> DEFINE T == {k \in 0..n : m[n - k].err = ""}
  <2>1. 0 \in T
    <3>1. m[n].err = ""
      BY <1>1, Zenon
    <3>2. m[n - 0].err = ""
      BY <1>z, <3>1, Zenon
    <3> QED BY <1>z, <3>2, Zenon
  <2>2. ASSUME NEW k \in 0..(n - 1), k \in T PROVE k + 1 \in T
    <3>1. n - k \in 1..n /\ (n - k) - 1 = n - (k + 1) /\ k + 1 \in 0..n /\ m[n - k].err = ""
      BY <1>s, <2>2, Zenon
    <3>2. m[(n - k) - 1].err = ""
      BY <1>5, <3>1, Zenon
    <3>3. m[n - (k + 1)].err = ""
      BY <3>1, <3>2, Zenon
    <3> QED BY <3>1, <3>3, Zenon
  <2>3. \A k \in 0..n : k \in T
    <3> HIDE DEF T
    <3> QED BY ONLY <1>n, <2>1, <2>2, UpTo
  <2> SUFFICES ASSUME NEW k \in 0..n PROVE m[k].err = ""
    OBVIOUS
  <2>4. n - k \in 0..n /\ n - (n - k) = k
    BY <1>d, Zenon
  <2>5. m[n - (n - k)].err = ""
    BY <2>3, <2>4, Zenon
  <2> QED BY <2>4, <2>5, Zenon
<1>7. \A k \in 1..n : lefq(k) = left(k)
  <2> SUFFICES ASSUME NEW k \in 1..n PROVE lefq(k) = left(k)
    OBVIOUS
  <2>1. k \in 0..n
    BY <1>k, Zenon
  <2>2. ~(Len(left(k)) > 1)
    BY <1>5, <1>6, <2>1, Zenon
  <2>3. Alike(left(k), lefq(k), X)
    BY <1>3
  <2> DEFINE a == left(k)
             b == lefq(k)
  <2>4. Alike(a, b, X) /\ ~(Len(a) > 1)
    BY <2>2, <2>3
  <2> HIDE DEF a, b
  <2>5. a = b
    BY ONLY <2>4, AlikeOne
  <2> QED BY <2>5 DEF a, b
<1>8. \A k \in 0..n : m[k] = e[k]
  <2> DEFINE T == {k \in 0..n : m[k] = e[k]}
  <2>1. 0 \in T
    BY <1>z, <1>1, <1>2, Zenon
  <2>2. ASSUME NEW k \in 0..(n - 1), k \in T PROVE k + 1 \in T
    <3>1. k + 1 \in 1..n /\ (k + 1) - 1 = k /\ k + 1 \in 0..n /\ m[k] = e[k]
      BY <1>s, <2>2, Zenon
    <3>2. /\ m[k + 1] = MapField(m[k], FieldOrder[k + 1], left(k + 1), StrictMode)
          /\ e[k + 1] = MapField(e[k], FieldOrder[k + 1], lefq(k + 1), StrictMode)
      BY <1>1, <1>2, <3>1, Zenon
    <3>3. lefq(k + 1) = left(k + 1)
      BY <1>7, <3>1, Zenon
    <3>4. m[k + 1] = e[k + 1]
      BY <3>1, <3>2, <3>3, Zenon
    <3> QED BY <3>1, <3>4, Zenon
  <2>3. \A k \in 0..n : k \in T
    <3> HIDE DEF T
    <3> QED BY ONLY <1>n, <2>1, <2>2, UpTo
  <2> QED BY <2>3, Zenon
<1> QED BY <1>1, <1>2, <1>8, <1>z, Zenon

RowsAgree(q, rules, row) ==
    mapRow(rules, row, StrictMode).err = "" =>
        mapRow(q, row, StrictMode) = mapRow(rules, row, StrictMode)

LEMMA SameRow ==
    ASSUME NEW X, NEW q, NEW rules, Alike(q, rules, X), NEW row
    PROVE  RowsAgree(q, rules, row)
<1> SUFFICES ASSUME mapRow(rules, row, StrictMode).err = ""
             PROVE  mapRow(q, row, StrictMode) = mapRow(rules, row, StrictMode)
  BY Zenon DEF RowsAgree
<1> DEFINE m == MapFields(Selected(rules, row), row, StrictMode)
           e == MapFields(Selected(q, row), row, StrictMode)
           Rest(f) == IF row.kind # "transaction" THEN EmptyMapped(row)
                      ELSE IF f.err # "" THEN f
                      ELSE IF RoutesTwice(f) THEN [f EXCEPT !.err = "total"]
                      ELSE IF f.key = NoKey THEN [f EXCEPT !.err = "no key"]
                      ELSE f
<1>1. mapRow(rules, row, StrictMode) = Rest(m) /\ mapRow(q, row, StrictMode) = Rest(e)
  BY DEF mapRow
<1>2. CASE row.kind # "transaction"
  BY <1>1, <1>2
<1>3. CASE row.kind = "transaction"
  <2>1. m.err = ""
    <3>1. m.err # "" => Rest(m) = m
      BY <1>3
    <3> HIDE DEF m, e, Rest
    <3> QED BY <1>1, <3>1
  <2>2. e = m
    <3>1. FieldsAgree(q, rules, row)
      BY SameFields
    <3> QED BY <2>1, <3>1, Zenon DEF FieldsAgree, StrictFields
  <2>3. Rest(e) = Rest(m)
    <3> HIDE DEF m, e
    <3> QED BY <2>2, Zenon
  <2> HIDE DEF m, e, Rest
  <2> QED BY ONLY <1>1, <2>3, Zenon
<1> QED BY <1>2, <1>3

\* StrictIgnoresRuleOrder: however the rules of the file are reordered, Engine.Map in
\* strict mode makes the same contributions and the same key of a row it accepted.
THEOREM StrictIgnoresRuleOrderHolds == Spec => []StrictIgnoresRuleOrder
<1>1. Inv => StrictIgnoresRuleOrder
  <2> SUFFICES ASSUME Inv, NEW s \in Source, Strict, pc = s, mapped[s] # <<>>, NEW m, m = Last(mapped[s]),
                      NEW p \in Bijection(DOMAIN input.rules[s], DOMAIN input.rules[s])
               PROVE  mapRow([i \in DOMAIN input.rules[s] |-> input.rules[s][p[i]]], m.row, StrictMode) = m
    BY Zenon DEF StrictIgnoresRuleOrder
  <2>1. MapInv /\ GoodRun(input)
    BY DEF Inv, MapInv
  <2> DEFINE rules == input.rules[s]
             q == [i \in DOMAIN rules |-> rules[p[i]]]
             X == Range(rules)
  <2>2. rules \in Seq(X)
    BY <2>1, Zenon DEF GoodRun
  <2>3. Alike(q, rules, X)
    <3> HIDE DEF X
    <3> QED BY <2>2, ReorderedAlike
  <2>4. PICK o \in 1..Got(mapped, s) : m = MappedAt(input, s, o)
    BY <2>1, LastMapped
  <2>5. m.err = ""
    BY <2>1, <2>4, Zenon DEF MapInv
  <2>6. o \in 1..Count(input, s)
    <3>1. Got(mapped, s) \in Nat /\ Got(mapped, s) <= Count(input, s) /\ Count(input, s) \in Nat
      BY <2>1, RowsOfRun, Zenon DEF MapInv
    <3> QED BY ONLY <3>1, o \in 1..Got(mapped, s)
  <2>7. m.row = RowAt(input, s, o)
    BY <2>1, <2>4, <2>6, MappedAtIs, Zenon DEF SoundMapping
  <2>8. m = mapRow(rules, m.row, StrictMode)
    BY <2>4, <2>7, Zenon DEF MappedAt, Strict
  <2> HIDE DEF rules, q, X
  <2>9. mapRow(rules, m.row, StrictMode).err = ""
    BY <2>5, <2>8, Zenon
  <2>10. mapRow(q, m.row, StrictMode) = mapRow(rules, m.row, StrictMode)
    <3>1. RowsAgree(q, rules, m.row)
      BY ONLY <2>3, SameRow
    <3> QED BY <2>9, <3>1, Zenon DEF RowsAgree
  <2>11. mapRow(q, m.row, StrictMode) = m
    BY <2>8, <2>10, Zenon
  <2> QED BY <2>11 DEF q, rules
<1> QED BY <1>1, Invariance, PTL
=============================================================================
