-------------------------- MODULE ConfigFilesProofs --------------------------
(***************************************************************************)
(* Theorems about ConfigFiles for any processes, paths, files, command     *)
(* lines and faults.                                                       *)
(***************************************************************************)
EXTENDS ConfigFiles, DataInduction, FunctionTheorems, SequenceTheorems, TLAPS

-----------------------------------------------------------------------------
\* Physical lines.

LEMMA EntryType ==
    ASSUME NEW f \in Body, NEW i \in 1..Len(f)
    PROVE  /\ f[i].height \in Nat /\ f[i].height >= 1
           /\ i \in Records(f) => f[i] \in Record
           /\ i \notin Records(f) => f[i].blank
<1>1. f[i] \in Record \/ f[i] = Blank
  BY DEF Body
<1>0. MaxHeight \in Nat
  BY TextAssumption
<1>2. ASSUME NEW r \in Record PROVE r.height \in Nat /\ r.height >= 1 /\ ~r.blank
  <2>1. r.height \in 1..MaxHeight /\ r.blank \in {FALSE}
    BY DEF Record
  <2>2. ~r.blank
    BY <2>1, Zenon
  <2>3. r.height \in Nat /\ r.height >= 1
    BY <1>0, <2>1
  <2> QED BY <2>2, <2>3
<1>3. Blank.height = 1 /\ Blank.blank
  BY DEF Blank
<1> QED BY <1>1, <1>2, <1>3 DEF Records

\* An entry starts below the entries before it.
LEMMA LineStep ==
    ASSUME NEW f \in Body
    PROVE  /\ \A i \in 1..Len(f) : LineAt(f, i) \in Nat
           /\ \A i \in 1..(Len(f) - 1) : LineAt(f, i) < LineAt(f, i + 1)
<1> DEFINE n == Len(f)
           w == [k \in 1..n |-> f[k].height]
           Counted(h) == [k \in 0..n |-> IF k = 0 THEN 2 ELSE h[k - 1] + f[k].height]
           after == CHOOSE h : h = Counted(h)
<1>1. n \in Nat /\ \A k \in 1..n : f[k].height \in Nat /\ f[k].height >= 1
  BY EntryType DEF Body
<1>2. \A k \in 1..n : w[k] \in Int
  BY <1>1
<1>3. PICK h : Running(h, 2, w, n)
  <2> HIDE DEF n, w
  <2> QED BY <1>1, <1>2, RunningExists
<1>4. h = Counted(h)
  <2>1. \A k \in 0..n : h[k] = Counted(h)[k]
    BY <1>1, <1>3 DEF Running
  <2>2. DOMAIN h = 0..n
    BY <1>3 DEF Running
  <2>3. h = [k \in 0..n |-> h[k]]
    BY <1>3 DEF Running
  <2> QED BY <2>1, <2>3
<1>5. after = Counted(after)
  BY <1>4
<1>6. \A k \in 1..n : after[k] = after[k - 1] + f[k].height
  <2> HIDE DEF after
  <2> QED BY <1>1, <1>5
<1>b. \A k \in 0..n : after[k] \in Nat
  <2> DEFINE S == {k \in Nat : k <= n => after[k] \in Nat}
  <2> HIDE DEF after
  <2>1. 0 \in S
    BY <1>1, <1>5
  <2>2. \A k \in Nat : k \in S => k + 1 \in S
    <3> SUFFICES ASSUME NEW k \in Nat, k \in S, k + 1 <= n PROVE after[k + 1] \in Nat
      OBVIOUS
    <3>1. k + 1 \in 1..n /\ after[k + 1] = after[k] + f[k + 1].height
      BY <1>1, <1>5
    <3> QED BY <1>1, <3>1
  <2>3. \A k \in Nat : k \in S
    <3> HIDE DEF S
    <3> QED BY <2>1, <2>2, NatInd
  <2> QED BY <2>3
<1>7. \A i \in 1..n : LineAt(f, i) = after[i - 1]
  BY DEF LineAt
<1>8. \A i \in 1..n : LineAt(f, i) \in Nat
  <2> HIDE DEF after
  <2> QED BY <1>1, <1>b, <1>7
<1>9. \A i \in 1..(n - 1) : LineAt(f, i) < LineAt(f, i + 1)
  <2> HIDE DEF after
  <2> SUFFICES ASSUME NEW i \in 1..(n - 1) PROVE LineAt(f, i) < LineAt(f, i + 1)
    OBVIOUS
  <2>1. LineAt(f, i) = after[i - 1] /\ LineAt(f, i + 1) = after[i]
    BY <1>1, <1>7
  <2>2. after[i] = after[i - 1] + f[i].height
    BY <1>1, <1>6
  <2> QED BY <1>1, <1>b, <2>1, <2>2
<1> QED BY <1>8, <1>9

LEMMA LineIncreases ==
    ASSUME NEW f \in Body, NEW i \in 1..Len(f), NEW j \in 1..Len(f), i < j
    PROVE  LineAt(f, i) < LineAt(f, j)
<1> DEFINE S == {d \in Nat : i + d + 1 <= Len(f) => LineAt(f, i) < LineAt(f, i + d + 1)}
<1>0. Len(f) \in Nat
  BY DEF Body
<1>1. 0 \in S
  BY <1>0, LineStep
<1>2. \A d \in Nat : d \in S => d + 1 \in S
  <2> SUFFICES ASSUME NEW d \in Nat, d \in S, i + (d + 1) + 1 <= Len(f)
               PROVE  LineAt(f, i) < LineAt(f, i + (d + 1) + 1)
    OBVIOUS
  <2> DEFINE k == i + d + 1
  <2>1. k \in 1..(Len(f) - 1) /\ k + 1 = i + (d + 1) + 1
    BY <1>0
  <2>2. LineAt(f, i) < LineAt(f, k)
    BY <1>0
  <2>3. LineAt(f, k) < LineAt(f, k + 1)
    <3> HIDE DEF k
    <3> QED BY <2>1, LineStep
  <2>4. LineAt(f, i) \in Nat /\ LineAt(f, k) \in Nat /\ LineAt(f, k + 1) \in Nat
    <3> HIDE DEF k
    <3> QED BY <1>0, <2>1, LineStep
  <2> HIDE DEF k
  <2> QED BY <2>1, <2>2, <2>3, <2>4
<1>3. \A d \in Nat : d \in S
  <2> HIDE DEF S
  <2> QED BY <1>1, <1>2, NatInd
<1>4. (j - i - 1) \in Nat /\ i + (j - i - 1) + 1 = j
  BY <1>0
<1> DEFINE d == j - i - 1
<1>5. d \in Nat /\ i + d + 1 = j
  BY <1>4
<1> HIDE DEF d
<1>6. d \in S
  <2> HIDE DEF S
  <2> QED BY <1>3, <1>5
<1>7. LineAt(f, i) < LineAt(f, i + d + 1)
  BY <1>0, <1>5, <1>6
<1> QED BY <1>5, <1>7

\* Different entries start on different lines.
LEMMA LineUnique ==
    ASSUME NEW f \in Body, NEW i \in 1..Len(f), NEW j \in 1..Len(f), LineAt(f, i) = LineAt(f, j)
    PROVE  i = j
<1>0. Len(f) \in Nat /\ LineAt(f, i) \in Nat /\ LineAt(f, j) \in Nat
  BY LineStep DEF Body
<1>1. ~(i < j) /\ ~(j < i)
  BY <1>0, LineIncreases
<1> QED BY <1>0, <1>1

-----------------------------------------------------------------------------
\* What ApplyPatch writes, and what apply_mapping_fixes leaves.

LEMMA RulesAre ==
    ASSUME NEW f PROVE Rules(f) = { RuleAt(f, i) : i \in Records(f) }
BY DEF Rules

LEMMA OutputType ==
    ASSUME NEW f \in Body, NEW mine \in SUBSET Operation, NEW i \in 1..Len(f)
    PROVE  /\ Output(f, i, mine) \in Seq(Record)
           /\ Len(Output(f, i, mine)) <= 1
<1> DEFINE line == LineAt(f, i)
           op == CHOOSE o \in At(line, mine) : TRUE
<1> HIDE DEF line
<1>1. CASE i \notin Records(f)
  <2>1. Output(f, i, mine) = <<>>
    BY <1>1, EntryType DEF Output
  <2> QED BY <2>1
<1>2. CASE i \in Records(f)
  <2>1. f[i] \in Record /\ ~f[i].blank
    BY <1>2, EntryType DEF Records
  <2>2. CASE At(line, mine) = {}
    <3>1. Output(f, i, mine) = << f[i] >>
      BY <2>1, <2>2 DEF Output, line
    <3> QED BY <2>1, <3>1
  <2>3. CASE At(line, mine) # {}
    <3>1. op \in mine
      BY <2>3 DEF At
    <3>2. op.new[1] \in Target /\ op.new[2] \in Target
      BY <3>1 DEF Operation
    <3>3. Edited(f[i], op) \in Record
      <4> HIDE DEF op
      <4>1. Bare(op.new[1]) \in Cell /\ Bare(op.new[2]) \in Cell
        BY <3>2 DEF Bare, Cell
      <4> QED BY <2>1, <4>1 DEF Edited, Record
    <3>4. Output(f, i, mine) = IF op.action = "delete" THEN <<>> ELSE << Edited(f[i], op) >>
      BY <2>1, <2>3 DEF Output, line
    <3> HIDE DEF op
    <3> QED BY <3>3, <3>4
  <2> QED BY <2>2, <2>3
<1> QED BY <1>1, <1>2

\* The parts ApplyPatch writes one after another.
Parts(f, mine) == [i \in 1..Len(f) |-> Output(f, i, mine)]

\* The rows written are records, in the order of the entries they come from.
LEMMA PatchedInOrder ==
    ASSUME NEW f \in Body, NEW mine \in SUBSET Operation
    PROVE  /\ Rows(f, mine) \in Seq(Record)
           /\ Rows(f, mine) \in Body
           /\ \E from : InOrder(from, Rows(f, mine), Parts(f, mine), Len(f))
<1> DEFINE parts == Parts(f, mine)
<1>1. parts \in Seq(Seq(Record)) /\ Len(parts) = Len(f)
  BY OutputType DEF Body, Parts
<1>2. \A i \in 1..Len(parts) : Len(parts[i]) <= 1
  BY <1>1, OutputType DEF Parts
<1>3. Rows(f, mine) = FlattenSeq(parts)
  BY DEF Rows, Parts
<1> HIDE DEF parts
<1>4. /\ FlattenSeq(parts) \in Seq(Record)
      /\ \E from : InOrder(from, FlattenSeq(parts), parts, Len(parts))
  BY ONLY <1>1, <1>2, FlattenInOrder
<1>5. Rows(f, mine) \in Body
  BY <1>3, <1>4 DEF Body
<1> QED BY <1>1, <1>3, <1>4, <1>5 DEF parts

\* Rules with increasing lines are ranked by their index.
LEMMA RankedIs ==
    ASSUME NEW n \in Nat, NEW r,
           \A k \in 1..n : r[k].line \in Nat,
           \A j, k \in 1..n : j < k => r[j].line < r[k].line
    PROVE  Ranked({ r[k] : k \in 1..n }) = { [r[k] EXCEPT !.line = k - 1] : k \in 1..n }
<1> DEFINE R == { r[k] : k \in 1..n }
           Below(x) == { s \in R : s.line < x.line }
<1>1. ASSUME NEW k \in 1..n PROVE Cardinality(Below(r[k])) = k - 1
  <2> DEFINE g == [j \in 1..(k - 1) |-> r[j]]
  <2>1. \A j \in 1..(k - 1) : j \in 1..n /\ g[j] = r[j] /\ r[j].line < r[k].line
    OBVIOUS
  <2>2. ASSUME NEW s \in Below(r[k]) PROVE \E j \in 1..(k - 1) : g[j] = s
    <3>1. PICK j \in 1..n : s = r[j]
      OBVIOUS
    <3>2. r[j].line < r[k].line
      BY <3>1
    <3>3. ~(k < j) /\ j # k
      BY <3>2
    <3> QED BY <3>1, <3>3
  <2>3. g \in [1..(k - 1) -> Below(r[k])]
    BY <2>1
  <2>4. \A i, j \in 1..(k - 1) : g[i] = g[j] => i = j
    <3> SUFFICES ASSUME NEW i \in 1..(k - 1), NEW j \in 1..(k - 1), g[i] = g[j] PROVE i = j
      OBVIOUS
    <3>1. r[i].line = r[j].line /\ i \in 1..n /\ j \in 1..n
      BY <2>1
    <3>2. ~(i < j) /\ ~(j < i)
      BY <3>1
    <3> QED BY <3>2
  <2>5. g \in Bijection(1..(k - 1), Below(r[k]))
    <3> HIDE DEF g, R
    <3> QED BY <2>2, <2>3, <2>4, Fun_IsBij
  <2>6. IsFiniteSet(1..(k - 1)) /\ Cardinality(1..(k - 1)) = k - 1
    BY FS_Interval
  <2> HIDE DEF Below
  <2>7. ExistsBijection(1..(k - 1), Below(r[k]))
    BY <2>5 DEF ExistsBijection
  <2>8. Cardinality(Below(r[k])) = Cardinality(1..(k - 1))
    BY ONLY <2>6, <2>7, FS_Bijection
  <2> QED BY <2>6, <2>8
<1>2. Ranked(R) = { [x EXCEPT !.line = Cardinality(Below(x))] : x \in R }
  BY DEF Ranked
<1> HIDE DEF Below
<1> QED BY <1>1, <1>2

\* At most one operation per line, as LoadPatch checks.
OnePerLine(mine) ==
    /\ \A x, y \in mine : x.line = y.line => x = y
    /\ \A x \in mine : x.action \in {"update", "delete"}

LEMMA TheOperation ==
    ASSUME NEW mine, OnePerLine(mine), NEW op \in mine
    PROVE  (CHOOSE o \in At(op.line, mine) : TRUE) = op /\ At(op.line, mine) # {}
<1>1. op \in At(op.line, mine) /\ \A o \in At(op.line, mine) : o = op
  BY DEF At, OnePerLine
<1> QED BY <1>1

\* The three things that can become of a record.
LEMMA OutputCases ==
    ASSUME NEW f, NEW mine, OnePerLine(mine), NEW i \in Records(f)
    PROVE  /\ At(LineAt(f, i), mine) = {} => Output(f, i, mine) = << f[i] >>
           /\ \A op \in mine : op.line = LineAt(f, i) =>
                 Output(f, i, mine) = IF op.action = "delete" THEN <<>> ELSE << Edited(f[i], op) >>
<1>1. ~f[i].blank
  BY DEF Records
<1>2. ASSUME NEW op \in mine, op.line = LineAt(f, i)
      PROVE  Output(f, i, mine) = IF op.action = "delete" THEN <<>> ELSE << Edited(f[i], op) >>
  <2>1. (CHOOSE o \in At(LineAt(f, i), mine) : TRUE) = op /\ At(LineAt(f, i), mine) # {}
    BY <1>2, TheOperation
  <2> QED BY <1>1, <2>1 DEF Output
<1> QED BY <1>1, <1>2 DEF Output

\* Row k of the output as a rule on the line it was read from.
Kept(f, out, from) == [k \in 1..Len(out) |->
    [line |-> LineAt(f, from[k]), key |-> out[k].key, ref |-> out[k].ref,
     pos |-> out[k].pos.text, neg |-> out[k].neg.text]]

LEMMA RecordFields ==
    ASSUME NEW e \in Record, NEW op
    PROVE  /\ Edited(e, op).key = e.key /\ Edited(e, op).ref = e.ref
           /\ Edited(e, op).pos.text = op.new[1] /\ Edited(e, op).neg.text = op.new[2]
           /\ Edited(e, op).wide = e.wide
BY DEF Edited, Record, Bare

LEMMA TwoFieldsEdited ==
    ASSUME NEW line, NEW key, NEW ref, NEW pos, NEW neg, NEW u, NEW v, NEW r, NEW s,
           r = [line |-> line, key |-> key, ref |-> ref, pos |-> u, neg |-> v],
           s = [r EXCEPT !.pos = pos, !.neg = neg]
    PROVE  s = [line |-> line, key |-> key, ref |-> ref, pos |-> pos, neg |-> neg]
<1>1. DOMAIN s = DOMAIN r
  OBVIOUS
<1>2. \A x \in DOMAIN s :
         s[x] = [line |-> line, key |-> key, ref |-> ref, pos |-> pos, neg |-> neg][x]
  OBVIOUS
<1>3. s = [x \in DOMAIN r |-> s[x]]
  OBVIOUS
<1> QED BY <1>1, <1>2, <1>3

LEMMA EditedRule ==
    ASSUME NEW f, NEW i, NEW pos, NEW neg
    PROVE  [RuleAt(f, i) EXCEPT !.pos = pos, !.neg = neg]
              = [line |-> LineAt(f, i), key |-> f[i].key, ref |-> f[i].ref, pos |-> pos, neg |-> neg]
<1> DEFINE r == RuleAt(f, i)
           s == [r EXCEPT !.pos = pos, !.neg = neg]
<1>1. r = [line |-> LineAt(f, i), key |-> f[i].key, ref |-> f[i].ref, pos |-> f[i].pos.text, neg |-> f[i].neg.text]
  BY DEF RuleAt
<1> HIDE DEF r
<1>2. s = [r EXCEPT !.pos = pos, !.neg = neg]
  OBVIOUS
<1> HIDE DEF s
<1>3. s = [line |-> LineAt(f, i), key |-> f[i].key, ref |-> f[i].ref, pos |-> pos, neg |-> neg]
  BY ONLY <1>1, <1>2, TwoFieldsEdited
<1> QED BY <1>3 DEF r, s

\* apply_mapping_fixes leaves exactly the rules of the rows that ApplyPatch writes.
LEMMA FixedIsKept ==
    ASSUME NEW f \in Body, NEW mine \in SUBSET Operation, OnePerLine(mine),
           NEW out, NEW from, Len(out) \in Nat, InOrder(from, out, Parts(f, mine), Len(f))
    PROVE  SqlFixed(Rules(f), mine) = { Kept(f, out, from)[k] : k \in 1..Len(out) }
<1> DEFINE K == Kept(f, out, from)
           Place == Places(Parts(f, mine), Len(f))
<1>0. Len(f) \in Nat
  BY DEF Body
<1>1. \A i \in Place : i \in Records(f) /\ Output(f, i, mine) # <<>>
  <2> SUFFICES ASSUME NEW i \in Place PROVE i \in Records(f) /\ Output(f, i, mine) # <<>>
    OBVIOUS
  <2>1. i \in 1..Len(f) /\ Output(f, i, mine) # <<>>
    BY DEF Places, Parts
  <2> QED BY <2>1 DEF Output, Records
<1>2. \A i \in Records(f) : Output(f, i, mine) # <<>> => i \in Place
  BY DEF Places, Parts, Records
<1>3. /\ \A k \in 1..Len(out) : from[k] \in Place /\ out[k] = Output(f, from[k], mine)[1]
      /\ \A i \in Place : \E k \in 1..Len(out) : from[k] = i
  BY DEF InOrder, Parts, Places
<1> HIDE DEF Place
<1>4. \A i \in Records(f) : f[i] \in Record
  BY EntryType DEF Records
<1>5. ASSUME NEW k \in 1..Len(out) PROVE K[k] \in SqlFixed(Rules(f), mine)
  <2> DEFINE i == from[k]
  <2>1. i \in Records(f) /\ Output(f, i, mine) # <<>> /\ out[k] = Output(f, i, mine)[1]
    BY <1>1, <1>3
  <2>2. RuleAt(f, i) \in Rules(f)
    BY <2>1, RulesAre
  <2> HIDE DEF i
  <2>3. CASE At(LineAt(f, i), mine) = {}
    <3>1. out[k] = f[i]
      BY <2>1, <2>3, OutputCases
    <3>2. K[k] = RuleAt(f, i)
      BY <3>1 DEF Kept, RuleAt, i
    <3>3. RuleAt(f, i).line = LineAt(f, i)
      BY DEF RuleAt
    <3> QED BY <2>2, <2>3, <3>2, <3>3 DEF SqlFixed
  <2>4. CASE At(LineAt(f, i), mine) # {}
    <3>1. PICK op \in mine : op.line = LineAt(f, i)
      BY <2>4 DEF At
    <3>2. op.action = "update" /\ out[k] = Edited(f[i], op)
      BY <2>1, <3>1, OutputCases DEF OnePerLine
    <3> DEFINE r == RuleAt(f, i)
    <3>a. /\ out[k].key = f[i].key /\ out[k].ref = f[i].ref
          /\ out[k].pos.text = op.new[1] /\ out[k].neg.text = op.new[2]
      BY <1>4, <2>1, <3>2, RecordFields
    <3>b. K[k] = [line |-> LineAt(f, i), key |-> out[k].key, ref |-> out[k].ref,
                  pos |-> out[k].pos.text, neg |-> out[k].neg.text]
      BY DEF Kept, i
    <3>3. K[k] = [r EXCEPT !.pos = op.new[1], !.neg = op.new[2]]
      <4> HIDE DEF K
      <4>1. [r EXCEPT !.pos = op.new[1], !.neg = op.new[2]]
               = [line |-> LineAt(f, i), key |-> f[i].key, ref |-> f[i].ref,
                  pos |-> op.new[1], neg |-> op.new[2]]
        BY ONLY EditedRule DEF r
      <4> HIDE DEF r
      <4> QED BY ONLY <3>a, <3>b, <4>1
    <3>4. r.line = op.line
      BY <3>1 DEF RuleAt
    <3> HIDE DEF r
    <3>5. <<r, op>> \in { y \in Rules(f) \X mine : y[1].line = y[2].line /\ y[2].action = "update" }
      BY <2>2, <3>2, <3>4 DEF r
    <3> DEFINE y == <<r, op>>
    <3>6. y[1] = r /\ y[2] = op
      OBVIOUS
    <3> HIDE DEF K, y
    <3>7. K[k] = [y[1] EXCEPT !.pos = y[2].new[1], !.neg = y[2].new[2]]
      BY ONLY <3>3, <3>6
    <3>8. y \in { z \in Rules(f) \X mine : z[1].line = z[2].line /\ z[2].action = "update" }
      BY <3>5 DEF y
    <3> QED BY ONLY <3>7, <3>8, Zenon DEF SqlFixed
  <2> QED BY <2>3, <2>4
<1>6. ASSUME NEW r \in SqlFixed(Rules(f), mine) PROVE \E k \in 1..Len(out) : r = K[k]
  <2>1. CASE r \in Rules(f) /\ At(r.line, mine) = {}
    <3>1. PICK i \in Records(f) : r = RuleAt(f, i)
      BY <2>1, RulesAre
    <3>2. Output(f, i, mine) = << f[i] >>
      BY <2>1, <3>1, OutputCases DEF RuleAt
    <3>d. Output(f, i, mine) # <<>>
      BY ONLY <3>2
    <3>a. i \in Place
      BY ONLY <1>2, <3>d
    <3>3. PICK k \in 1..Len(out) : from[k] = i
      BY ONLY <1>3, <3>a
    <3>4. out[k] = f[i]
      BY <1>3, <3>2, <3>3
    <3> QED BY <3>1, <3>3, <3>4 DEF Kept, RuleAt
  <2>2. ASSUME NEW x \in Rules(f), NEW op \in mine, x.line = op.line, op.action = "update",
               r = [x EXCEPT !.pos = op.new[1], !.neg = op.new[2]]
        PROVE  \E k \in 1..Len(out) : r = K[k]
    <3>1. PICK i \in Records(f) : x = RuleAt(f, i)
      BY RulesAre
    <3>2. Output(f, i, mine) = << Edited(f[i], op) >>
      BY <2>2, <3>1, OutputCases DEF RuleAt
    <3>d. Output(f, i, mine) # <<>>
      BY ONLY <3>2
    <3>a. i \in Place
      BY ONLY <1>2, <3>d
    <3>3. PICK k \in 1..Len(out) : from[k] = i
      BY ONLY <1>3, <3>a
    <3>4. out[k] = Edited(f[i], op)
      BY <1>3, <3>2, <3>3
    <3>b. /\ out[k].key = f[i].key /\ out[k].ref = f[i].ref
          /\ out[k].pos.text = op.new[1] /\ out[k].neg.text = op.new[2]
      BY <1>4, <3>4, RecordFields
    <3>c. K[k] = [line |-> LineAt(f, i), key |-> out[k].key, ref |-> out[k].ref,
                  pos |-> out[k].pos.text, neg |-> out[k].neg.text]
      BY <3>3 DEF Kept
    <3>5. r = K[k]
      <4> HIDE DEF K
      <4>1. [x EXCEPT !.pos = op.new[1], !.neg = op.new[2]]
               = [line |-> LineAt(f, i), key |-> f[i].key, ref |-> f[i].ref,
                  pos |-> op.new[1], neg |-> op.new[2]]
        BY ONLY <3>1, EditedRule
      <4> QED BY ONLY <2>2, <3>b, <3>c, <4>1
    <3> QED BY <3>5
  <2> QED BY <2>1, <2>2 DEF SqlFixed
<1> HIDE DEF K
<1>7. SqlFixed(Rules(f), mine) = { K[k] : k \in 1..Len(out) }
  BY <1>5, <1>6
<1> QED BY <1>7 DEF K

LEMMA RecordsOfOutput ==
    ASSUME NEW out \in Seq(Record) PROVE Records(out) = 1..Len(out)
<1>1. \A k \in 1..Len(out) : out[k] \in Record
  OBVIOUS
<1>2. \A e \in Record : e.blank \in {FALSE}
  BY DEF Record
<1>3. \A k \in 1..Len(out) : ~out[k].blank
  BY <1>1, <1>2, Zenon
<1> QED BY <1>3 DEF Records

\* The rules in the output of ApplyPatch are those apply_mapping_fixes leaves, in order.
LEMMA SameRules ==
    ASSUME NEW f \in Body, NEW mine \in SUBSET Operation, OnePerLine(mine)
    PROVE  Ranked(Rules(Rows(f, mine))) = Ranked(SqlFixed(Rules(f), mine))
<1> DEFINE out == Rows(f, mine)
           n == Len(out)
           a == [k \in 1..n |-> RuleAt(out, k)]
<1>1. out \in Seq(Record) /\ out \in Body /\ n \in Nat
  BY PatchedInOrder
<1>2. PICK from : InOrder(from, out, Parts(f, mine), Len(f))
  BY PatchedInOrder
<1> DEFINE b == Kept(f, out, from)
<1> HIDE DEF out
<1>3. Rules(out) = { a[k] : k \in 1..n }
  BY <1>1, RulesAre, RecordsOfOutput
<1>4. SqlFixed(Rules(f), mine) = { b[k] : k \in 1..n }
  BY <1>1, <1>2, FixedIsKept
<1>5. /\ \A k \in 1..n : a[k].line \in Nat
      /\ \A j, k \in 1..n : j < k => a[j].line < a[k].line
  BY <1>1, LineStep, LineIncreases DEF RuleAt
<1>6. /\ \A k \in 1..n : b[k].line = LineAt(f, from[k]) /\ from[k] \in 1..Len(f)
      /\ \A j, k \in 1..n : j < k => from[j] < from[k]
  BY <1>2 DEF Kept, InOrder, Places
<1>7. /\ \A k \in 1..n : b[k].line \in Nat
      /\ \A j, k \in 1..n : j < k => b[j].line < b[k].line
  <2> HIDE DEF b
  <2> QED BY <1>6, LineStep, LineIncreases
<1>8. \A k \in 1..n : [a[k] EXCEPT !.line = k - 1] = [b[k] EXCEPT !.line = k - 1]
  BY DEF Kept, RuleAt
<1> HIDE DEF a, b, n
<1>9. Ranked({ a[k] : k \in 1..n }) = { [a[k] EXCEPT !.line = k - 1] : k \in 1..n }
  BY ONLY <1>1, <1>5, RankedIs
<1>10. Ranked({ b[k] : k \in 1..n }) = { [b[k] EXCEPT !.line = k - 1] : k \in 1..n }
  BY ONLY <1>1, <1>7, RankedIs
<1>11. { [a[k] EXCEPT !.line = k - 1] : k \in 1..n } = { [b[k] EXCEPT !.line = k - 1] : k \in 1..n }
  BY ONLY <1>8
<1>12. Ranked(Rules(out)) = Ranked({ a[k] : k \in 1..n })
  BY <1>3, Zenon
<1>13. Ranked(SqlFixed(Rules(f), mine)) = Ranked({ b[k] : k \in 1..n })
  BY <1>4, Zenon
<1>14. Ranked(Rules(out)) = Ranked(SqlFixed(Rules(f), mine))
  BY <1>9, <1>10, <1>11, <1>12, <1>13
<1> QED BY <1>14 DEF out

\* Every record that ApplyPatch writes has the width of one it read.
LEMMA RowsWide ==
    ASSUME NEW b \in Body, NEW mine \in SUBSET Operation, OnePerLine(mine),
           \A i \in Records(b) : b[i].wide
    PROVE  \A k \in Records(Rows(b, mine)) : Rows(b, mine)[k].wide
<1> DEFINE out == Rows(b, mine)
<1>1. out \in Seq(Record)
  BY PatchedInOrder
<1>2. PICK from : InOrder(from, out, Parts(b, mine), Len(b))
  BY PatchedInOrder
<1> HIDE DEF out
<1>3. Records(out) = 1..Len(out)
  BY <1>1, RecordsOfOutput
<1>4. ASSUME NEW k \in 1..Len(out) PROVE out[k].wide
  <2> DEFINE i == from[k]
  <2>1. i \in 1..Len(b) /\ Output(b, i, mine) # <<>> /\ out[k] = Output(b, i, mine)[1]
    BY <1>2 DEF InOrder, Parts, Places
  <2> HIDE DEF i
  <2>2. i \in Records(b)
    BY <2>1 DEF Output, Records
  <2>3. b[i] \in Record /\ b[i].wide
    BY <2>1, <2>2, EntryType
  <2>4. CASE At(LineAt(b, i), mine) = {}
    BY <2>1, <2>2, <2>3, <2>4, OutputCases
  <2>5. CASE At(LineAt(b, i), mine) # {}
    <3>1. PICK op \in mine : op.line = LineAt(b, i)
      BY <2>5 DEF At
    <3>2. out[k] = Edited(b[i], op)
      BY <2>1, <2>2, <3>1, OutputCases
    <3> QED BY <2>3, <3>2, RecordFields
  <2> QED BY <2>4, <2>5
<1> QED BY <1>3, <1>4 DEF out

\* LoadConfig accepts the rules of the output where it would accept those the SQL leaves.
LEMMA SameAcceptable ==
    ASSUME NEW b \in Body, NEW mine \in SUBSET Operation, OnePerLine(mine)
    PROVE  (\A r \in Rules(Rows(b, mine)) : Acceptable(r))
              <=> (\A r \in SqlFixed(Rules(b), mine) : Acceptable(r))
<1> DEFINE out == Rows(b, mine)
<1>1. out \in Seq(Record) /\ Len(out) \in Nat
  BY PatchedInOrder
<1>2. PICK from : InOrder(from, out, Parts(b, mine), Len(b))
  BY PatchedInOrder
<1> DEFINE K == Kept(b, out, from)
<1> HIDE DEF out
<1>3. Rules(out) = { RuleAt(out, k) : k \in 1..Len(out) }
  BY <1>1, RulesAre, RecordsOfOutput
<1>4. SqlFixed(Rules(b), mine) = { K[k] : k \in 1..Len(out) }
  BY <1>1, <1>2, FixedIsKept
<1>5. ASSUME NEW k \in 1..Len(out) PROVE Acceptable(RuleAt(out, k)) <=> Acceptable(K[k])
  BY DEF Acceptable, RuleAt, Kept
<1> HIDE DEF K
<1> QED BY <1>3, <1>4, <1>5 DEF out

LEMMA PatchedLoads ==
    ASSUME NEW f \in Content, Loads(f), NEW mine \in SUBSET Operation, OnePerLine(mine)
    PROVE  /\ Patched(f, mine) \in Content
           /\ Loads(Patched(f, mine)) <=> \A r \in SqlFixed(Rules(f.body), mine) : Acceptable(r)
<1> DEFINE g == Patched(f, mine)
           b == f.body
<1>1. f.head \in Seq(Column) /\ b \in Body
  BY DEF Content
<1>2. Rows(b, mine) \in Body
  BY <1>1, PatchedInOrder
<1>3. g.head = f.head /\ g.body = Rows(b, mine) /\ g \in Content
  BY <1>1, <1>2 DEF Patched, Content
<1>4. g # Absent
  BY <1>3, DiskAssumption
<1>5. LoadsHead(f.head) /\ \A i \in Records(b) : b[i].wide
  BY DEF Loads
<1> HIDE DEF g, b
<1>6. \A k \in Records(g.body) : g.body[k].wide
  BY <1>1, <1>3, <1>5, RowsWide
<1>7. Loads(g) <=> \A k \in Records(g.body) : Acceptable(RuleAt(g.body, k))
  BY <1>3, <1>4, <1>5, <1>6 DEF Loads
<1>8. Loads(g) <=> \A r \in Rules(g.body) : Acceptable(r)
  BY <1>7, RulesAre
<1>9. Loads(g) <=> \A r \in SqlFixed(Rules(b), mine) : Acceptable(r)
  BY <1>1, <1>3, <1>8, SameAcceptable
<1> QED BY <1>3, <1>9 DEF g, b

\* A file that apply_mapping_fixes accepts, ApplyPatch accepts if and only if the two
\* target columns have their exact names and the compared cells no blanks around them.
LEMMA SqlOrApplies ==
    ASSUME NEW f \in Content, Loads(f), NEW mine \in SUBSET Operation, mine # {}, OnePerLine(mine),
           SqlAccepts(Rules(f.body), mine)
    PROVE  Applies(f, mine) <=> PatchesHead(f.head) /\ ~PaddedGuard(f.body, mine)
<1> DEFINE b == f.body
<1>0. b \in Body
  BY DEF Content
<1>a. \A i \in Records(b) : b[i].wide
  BY DEF Loads
<1>b. f # Absent /\ SqlAccepts(Rules(b), mine)
  BY DEF Loads
<1>d. Applies(f, mine) <=>
        /\ PatchesHead(f.head)
        /\ \A i \in Records(b) : b[i].wide /\ \A op \in At(LineAt(b, i), mine) : GuardHolds(b[i], op)
        /\ \A op \in mine : \E i \in Records(b) : LineAt(b, i) = op.line
  BY <1>b DEF Applies
<1>e. PaddedGuard(f.body, mine) <=> PaddedGuard(b, mine)
  OBVIOUS
<1> HIDE DEF b
<1>1. \A op \in mine : \E i \in Records(b) :
         LineAt(b, i) = op.line /\ <<b[i].pos.text, b[i].neg.text>> = op.old
  <2> SUFFICES ASSUME NEW op \in mine
               PROVE  \E i \in Records(b) :
                        LineAt(b, i) = op.line /\ <<b[i].pos.text, b[i].neg.text>> = op.old
    OBVIOUS
  <2>1. PICK r \in Rules(b) : r.line = op.line /\ <<r.pos, r.neg>> = op.old
    BY <1>b DEF SqlAccepts
  <2>2. PICK i \in Records(b) : r = RuleAt(b, i)
    BY RulesAre
  <2> QED BY <2>1, <2>2 DEF RuleAt
<1>2. ASSUME NEW i \in Records(b), NEW op \in At(LineAt(b, i), mine)
      PROVE  GuardHolds(b[i], op) <=> ~b[i].pos.padded /\ ~b[i].neg.padded
  <2>1. op \in mine /\ op.line = LineAt(b, i)
    BY DEF At
  <2>2. PICK j \in Records(b) : LineAt(b, j) = op.line /\ <<b[j].pos.text, b[j].neg.text>> = op.old
    BY <1>1, <2>1
  <2>3. i = j
    BY <1>0, <2>1, <2>2, LineUnique DEF Records
  <2>4. b[i].pos.text = op.old[1] /\ b[i].neg.text = op.old[2]
    BY <2>2, <2>3
  <2>5. b[i].pos \in Cell /\ b[i].neg \in Cell
    BY <1>0, EntryType DEF Record, Records
  <2>6. \A c \in Cell : c = Bare(c.text) <=> ~c.padded
    <3> SUFFICES ASSUME NEW c \in Cell PROVE c = Bare(c.text) <=> ~c.padded
      OBVIOUS
    <3>1. c.padded \in BOOLEAN /\ c = [text |-> c.text, padded |-> c.padded]
      BY DEF Cell
    <3>2. Bare(c.text).padded = FALSE
      BY DEF Bare
    <3>3. CASE c.padded
      BY <3>2, <3>3
    <3>4. CASE ~c.padded
      <4>1. c.padded = FALSE
        BY <3>1, <3>4
      <4> QED BY <3>1, <3>4, <4>1 DEF Bare
    <3> QED BY <3>3, <3>4
  <2> QED BY <2>4, <2>5, <2>6 DEF GuardHolds
<1>3. (\A i \in Records(b) : \A op \in At(LineAt(b, i), mine) : GuardHolds(b[i], op))
         <=> ~PaddedGuard(b, mine)
  BY <1>2 DEF PaddedGuard
<1>4. \A op \in mine : \E i \in Records(b) : LineAt(b, i) = op.line
  BY <1>1
<1> QED BY <1>a, <1>d, <1>e, <1>3, <1>4

-----------------------------------------------------------------------------
\* The inductive invariant.

PatchLabel == {"patch", "read", "write", "rename"}
ImportLabel == {"load1", "load2", "info1", "info2"}

\* A process is on the path of its own command.
ControlOK ==
    /\ cmd \in [Proc -> Command]
    /\ pc \in [Proc -> PatchLabel \cup ImportLabel \cup Over]
    /\ \A p \in Proc : /\ pc[p] \in PatchLabel => cmd[p].op = "patch"
                       /\ pc[p] \in ImportLabel => cmd[p].op = "import"

\* A path holds one of the contents it has had, and they are all CSV text.
HistoryOK ==
    /\ DOMAIN disk = Path
    /\ DOMAIN ever = Path
    /\ \A o \in Path : disk[o] \in ever[o] /\ \A f \in ever[o] : f = Absent \/ f \in Content

\* A patcher past LoadPatch has a patch that loads; it writes a content of its input
\* path that it has checked, and failed after reading it because of it.
PatchOK ==
    /\ DOMAIN input = Proc
    /\ DOMAIN temp = Proc
    /\ \A p \in Patchers :
          /\ pc[p] \in {"read", "write", "rename"} => LoadsPatch(cmd[p].ops)
          /\ pc[p] \in {"patch", "read"} => input[p] = Absent
          /\ input[p] # Absent => input[p] \in ever[cmd[p].in] /\ LoadsPatch(cmd[p].ops)
          /\ pc[p] \in {"write", "rename"} => Applies(input[p], Mine(p))
          /\ pc[p] = "failed" /\ input[p] # Absent => ~Applies(input[p], Mine(p))
          /\ pc[p] = "rename" => temp[p] = Patched(input[p], Mine(p))

\* Content c is a whole patch that some command writes to path o, of one of the
\* contents that h gives for its input.
Written(h, o, c) ==
    \E q \in Patchers :
        /\ cmd[q].out = o
        /\ LoadsPatch(cmd[q].ops)
        /\ \E f \in h[cmd[q].in] : Applies(f, Mine(q)) /\ c = Patched(f, Mine(q))

WholeOK == \A o \in Path : disk[o] = start[o] \/ Written(ever, o, disk[o])

\* An import has read a content that was there at the start or a whole patch.
HasRead(p, i) ==
    \E c : /\ c # Absent /\ rules[p][i] = Rules(c.body)
           /\ c = start[cmd[p].from[i]] \/ Written(ever, cmd[p].from[i], c)

ReadOK ==
    /\ DOMAIN rules = Proc /\ \A p \in Proc : DOMAIN rules[p] = 1..2
    /\ \A p \in Importers : \A i \in 1..2 : rules[p][i] # Absent => HasRead(p, i)

FilesInv == ControlOK /\ HistoryOK /\ PatchOK /\ WholeOK /\ ReadOK

LEMMA PatchCommand ==
    ASSUME NEW c \in Command, c.op = "patch"
    PROVE  c.in \in Path /\ c.out \in Path
BY CommandAssumption

LEMMA ImportCommand ==
    ASSUME NEW c \in Command, c.op = "import", NEW i \in 1..2
    PROVE  c.from[i] \in Path
BY CommandAssumption

LEMMA MineType ==
    ASSUME ControlOK, NEW p \in Patchers
    PROVE  /\ Mine(p) \in SUBSET Operation
           /\ LoadsPatch(cmd[p].ops) => OnePerLine(Mine(p))
<1>1. cmd[p] \in Command /\ cmd[p].op = "patch"
  BY DEF ControlOK, Patchers
<1>2. cmd[p].ops \in Seq(Operation)
  BY <1>1, CommandAssumption
<1>3. \A x \in Mine(p) : x.source = cmd[p].source /\ \E i \in 1..Len(cmd[p].ops) : x = cmd[p].ops[i]
  BY <1>2 DEF Mine, For, ToSet
<1>4. Mine(p) \in SUBSET Operation
  BY <1>2, <1>3
<1>5. ASSUME LoadsPatch(cmd[p].ops) PROVE OnePerLine(Mine(p))
  BY <1>2, <1>3, <1>5 DEF LoadsPatch, OnePerLine, Valid
<1> QED BY <1>4, <1>5

LEMMA LoadLabels == LoadLabel[1] = "load1" /\ LoadLabel[2] = "load2"
BY DEF LoadLabel

LEMMA InfoLabels == InfoLabel[1] = "info1" /\ InfoLabel[2] = "info2"
BY DEF InfoLabel

LEMMA InitFiles == Init => FilesInv
<1> SUFFICES ASSUME Init PROVE FilesInv OBVIOUS
<1>1. ControlOK
  BY CommandAssumption DEF Init, ControlOK, PatchLabel, ImportLabel, Over
<1>2. HistoryOK
  BY DiskAssumption DEF Init, HistoryOK
<1>3. PatchOK
  BY DEF Init, PatchOK, Patchers
<1>4. WholeOK
  BY DEF Init, WholeOK
<1>5. ReadOK
  BY DEF Init, ReadOK, Importers
<1> QED BY <1>1, <1>2, <1>3, <1>4, <1>5 DEF FilesInv

\* The commands and the initial contents stay, and no content is forgotten.
Grows == cmd' = cmd /\ start' = start /\ \A o \in Path : ever[o] \subseteq ever'[o]

LEMMA WrittenStands ==
    ASSUME ControlOK, Grows, NEW o, NEW c, Written(ever, o, c)
    PROVE  Written(ever', o, c)
<1>1. PICK q \in Patchers : /\ cmd[q].out = o
                            /\ LoadsPatch(cmd[q].ops)
                            /\ \E f \in ever[cmd[q].in] : Applies(f, Mine(q)) /\ c = Patched(f, Mine(q))
  BY DEF Written
<1>2. cmd[q].in \in Path
  BY PatchCommand DEF ControlOK, Patchers
<1>3. ever[cmd[q].in] \subseteq ever'[cmd[q].in]
  BY <1>2 DEF Grows
<1> QED BY <1>1, <1>3 DEF Written

\* The invariants of the next state, with what stays the same replaced.
LEMMA WholeNext ==
    ASSUME Grows, \A o \in Path : disk'[o] = start[o] \/ Written(ever', o, disk'[o])
    PROVE  WholeOK'
<1>1. cmd' = cmd /\ start' = start
  BY DEF Grows
<1> QED BY <1>1 DEF WholeOK, Written, Patchers, Mine

\* What is at a path stays whole while it is only read.
LEMMA WholeStands ==
    ASSUME ControlOK, WholeOK, Grows, disk' = disk
    PROVE  WholeOK'
<1>1. ASSUME NEW o \in Path PROVE disk'[o] = start[o] \/ Written(ever', o, disk'[o])
  <2>1. disk[o] = start[o] \/ Written(ever, o, disk[o])
    BY DEF WholeOK
  <2>2. Written(ever, o, disk[o]) => Written(ever', o, disk[o])
    BY WrittenStands
  <2> QED BY <2>1, <2>2
<1> QED BY <1>1, WholeNext

\* What process p has as the rules of its i-th file was read whole, by the history h.
ReadFrom(h, r, p, i) ==
    \E c : /\ c # Absent /\ r = Rules(c.body)
           /\ c = start[cmd[p].from[i]] \/ Written(h, cmd[p].from[i], c)

LEMMA ReadNext ==
    ASSUME ControlOK, ReadOK, Grows,
           DOMAIN rules' = Proc, \A p \in Proc : DOMAIN rules'[p] = 1..2,
           \A p \in Importers : \A i \in 1..2 :
              rules'[p][i] = rules[p][i] \/ ReadFrom(ever, rules'[p][i], p, i)
    PROVE  ReadOK'
<1>1. cmd' = cmd /\ start' = start
  BY DEF Grows
<1>2. ASSUME NEW p \in Importers, NEW i \in 1..2, rules'[p][i] # Absent
      PROVE  ReadFrom(ever', rules'[p][i], p, i)
  <2>1. ReadFrom(ever, rules'[p][i], p, i)
    BY <1>2 DEF ReadOK, HasRead, ReadFrom
  <2>2. PICK c : /\ c # Absent /\ rules'[p][i] = Rules(c.body)
                 /\ c = start[cmd[p].from[i]] \/ Written(ever, cmd[p].from[i], c)
    BY <2>1 DEF ReadFrom
  <2>3. Written(ever, cmd[p].from[i], c) => Written(ever', cmd[p].from[i], c)
    BY WrittenStands
  <2> QED BY <2>2, <2>3 DEF ReadFrom
<1>3. \A p \in Importers' : p \in Importers
  BY <1>1 DEF Importers
<1>4. ASSUME NEW p \in Importers, NEW i \in 1..2, rules'[p][i] # Absent
      PROVE  HasRead(p, i)'
  <2>1. PICK c : /\ c # Absent /\ rules'[p][i] = Rules(c.body)
                 /\ c = start[cmd[p].from[i]] \/ Written(ever', cmd[p].from[i], c)
    BY <1>2, <1>4 DEF ReadFrom
  <2> DEFINE o == cmd[p].from[i]
  <2>2. Written(ever', o, c) => Written(ever, o, c)'
    BY <1>1 DEF Written, Patchers, Mine
  <2>3. c = start'[cmd'[p].from[i]] \/ Written(ever, cmd[p].from[i], c)'
    BY <1>1, <2>1, <2>2
  <2> QED BY <2>1, <2>3 DEF HasRead
<1> QED BY <1>3, <1>4 DEF ReadOK

\* Every step preserves the invariant.
LEMMA StepFiles == FilesInv /\ [Next]_vars => FilesInv'
<1> SUFFICES ASSUME FilesInv, [Next]_vars PROVE FilesInv'
  OBVIOUS
<1> USE DEF FilesInv
<1>a. \A q \in Patchers : q \in Proc /\ cmd[q].in \in Path /\ cmd[q].out \in Path
  BY PatchCommand DEF ControlOK, Patchers
<1>b. \A q \in Proc : pc[q] \in PatchLabel => q \in Patchers
  BY DEF ControlOK, Patchers
<1>1. ASSUME UNCHANGED vars PROVE FilesInv'
  BY <1>1 DEF vars, ControlOK, HistoryOK, PatchOK, WholeOK, Written, ReadOK, HasRead,
     Importers, Patchers, Mine
<1>2. ASSUME NEW p \in Proc, ReadPatch(p) PROVE FilesInv'
  <2> USE <1>2 DEF ReadPatch, Goto
  <2>g. Grows  BY DEF Grows
  <2>1. ControlOK'  BY DEF ControlOK, PatchLabel, ImportLabel, Over
  <2>2. HistoryOK'  BY DEF HistoryOK
  <2>3. PatchOK'  BY <1>b DEF PatchOK, ControlOK, Mine, Patchers, PatchLabel
  <2>4. WholeOK'  BY <2>g, WholeStands
  <2>5. ReadOK'  BY <2>g, ReadNext DEF ReadOK
  <2> QED BY <2>1, <2>2, <2>3, <2>4, <2>5
<1>3. ASSUME NEW p \in Proc, ReadInput(p) PROVE FilesInv'
  <2> USE <1>3 DEF ReadInput, Goto
  <2>g. Grows  BY DEF Grows
  <2>0. p \in Patchers /\ cmd[p].in \in Path /\ disk[cmd[p].in] \in ever[cmd[p].in]
    BY <1>a, <1>b DEF PatchLabel, HistoryOK
  <2>1. ControlOK'  BY DEF ControlOK, PatchLabel, ImportLabel, Over
  <2>2. HistoryOK'  BY DEF HistoryOK
  <2>3. PatchOK'  BY <2>0 DEF PatchOK, ControlOK, Mine, Patchers
  <2>4. WholeOK'  BY <2>g, WholeStands
  <2>5. ReadOK'  BY <2>g, ReadNext DEF ReadOK
  <2> QED BY <2>1, <2>2, <2>3, <2>4, <2>5
<1>4. ASSUME NEW p \in Proc, WriteTemp(p) PROVE FilesInv'
  <2> USE <1>4 DEF WriteTemp, Goto
  <2>g. Grows  BY DEF Grows
  <2>1. ControlOK'  BY DEF ControlOK, PatchLabel, ImportLabel, Over
  <2>2. HistoryOK'  BY DEF HistoryOK
  <2>3. PatchOK'  BY DEF PatchOK, ControlOK, Mine, Patchers
  <2>4. WholeOK'  BY <2>g, WholeStands
  <2>5. ReadOK'  BY <2>g, ReadNext DEF ReadOK
  <2> QED BY <2>1, <2>2, <2>3, <2>4, <2>5
<1>5. ASSUME NEW p \in Proc, Rename(p) PROVE FilesInv'
  <2> USE <1>5 DEF Rename, Goto
  <2>0. p \in Patchers /\ cmd[p].in \in Path /\ cmd[p].out \in Path
    BY <1>a, <1>b DEF PatchLabel
  <2>g. Grows  BY <2>0 DEF Grows, HistoryOK
  <2>t. /\ temp[p] = Patched(input[p], Mine(p)) /\ Applies(input[p], Mine(p))
        /\ input[p] \in ever[cmd[p].in] /\ LoadsPatch(cmd[p].ops)
    BY <2>0 DEF PatchOK, Applies
  <2>c. temp[p] \in Content
    <3>1. input[p] \in Content
      BY <2>0, <2>t DEF HistoryOK, Applies
    <3>2. input[p].head \in Seq(Column) /\ input[p].body \in Body
      BY <3>1 DEF Content
    <3>3. Mine(p) \in SUBSET Operation
      BY <2>0, MineType
    <3>4. Rows(input[p].body, Mine(p)) \in Body
      BY <3>2, <3>3, PatchedInOrder
    <3> QED BY <2>t, <3>2, <3>4 DEF Patched, Content
  <2>1. ControlOK'  BY DEF ControlOK, PatchLabel, ImportLabel, Over
  <2>2. HistoryOK'  BY <2>0, <2>c DEF HistoryOK
  <2>3. PatchOK'
    <3>1. UNCHANGED <<cmd, input>> /\ pc' = [pc EXCEPT ![p] = "ok"] /\ temp' = [temp EXCEPT ![p] = Absent]
      OBVIOUS
    <3>2. \A q \in Patchers : ever[cmd[q].in] \subseteq ever'[cmd[q].in]
      BY <1>a, <2>g DEF Grows
    <3> QED BY ONLY ControlOK, PatchOK, <3>1, <3>2 DEF PatchOK, ControlOK, Mine, Patchers
  <2>4. WholeOK'
    <3>1. ASSUME NEW o \in Path PROVE disk'[o] = start[o] \/ Written(ever', o, disk'[o])
      <4>1. CASE o = cmd[p].out
        <5>1. disk'[o] = temp[p]
          BY <4>1 DEF HistoryOK
        <5>2. Written(ever, o, temp[p])
          BY <2>0, <2>t, <4>1 DEF Written
        <5> QED BY <2>g, <5>1, <5>2, WrittenStands
      <4>2. CASE o # cmd[p].out
        <5>1. disk'[o] = disk[o]
          BY <4>2 DEF HistoryOK
        <5>2. disk[o] = start[o] \/ Written(ever, o, disk[o])
          BY DEF WholeOK
        <5> QED BY <2>g, <5>1, <5>2, WrittenStands
      <4> QED BY <4>1, <4>2
    <3> QED BY <2>g, <3>1, WholeNext
  <2>5. ReadOK'  BY <2>g, ReadNext DEF ReadOK
  <2> QED BY <2>1, <2>2, <2>3, <2>4, <2>5
<1>6. ASSUME NEW p \in Proc, NEW i \in 1..2, LoadConfig(p, i) PROVE FilesInv'
  <2> USE <1>6 DEF LoadConfig, Goto
  <2>g. Grows  BY DEF Grows
  <2>i. (i = 1 /\ pc[p] = "load1") \/ (i = 2 /\ pc[p] = "load2")
    BY LoadLabels
  <2>c. cmd[p] \in Command /\ cmd[p].op = "import"
    BY <2>i DEF ControlOK, ImportLabel
  <2>0. p \in Importers /\ p \notin Patchers /\ cmd[p].from[i] \in Path
    BY <2>c, ImportCommand DEF Importers, Patchers
  <2>1. ControlOK'  BY <2>c DEF ControlOK, PatchLabel, ImportLabel, Over
  <2>2. HistoryOK'  BY DEF HistoryOK
  <2>3. PatchOK'
    <3>1. UNCHANGED <<cmd, input, temp, ever>> /\ \A q \in Proc : q # p => pc'[q] = pc[q]
      BY DEF ControlOK
    <3> QED BY ONLY PatchOK, <2>0, <3>1 DEF PatchOK, Mine, Patchers
  <2>4. WholeOK'  BY <2>g, WholeStands
  <2>5. ReadOK'
    <3> DEFINE f == disk[cmd[p].from[i]]
    <3>1. CASE Loads(f)
      <4>1. rules' = [rules EXCEPT ![p][i] = Rules(f.body)]
        BY <3>1
      <4>2. f # Absent /\ (f = start[cmd[p].from[i]] \/ Written(ever, cmd[p].from[i], f))
        BY <2>0, <3>1 DEF Loads, WholeOK
      <4> HIDE DEF f
      <4>3. ReadFrom(ever, Rules(f.body), p, i)
        BY <4>2 DEF ReadFrom
      <4>4. DOMAIN rules' = Proc /\ \A q \in Proc : DOMAIN rules'[q] = 1..2
        BY <4>1 DEF ReadOK
      <4>5. \A q \in Importers : \A j \in 1..2 :
              rules'[q][j] = rules[q][j] \/ (q = p /\ j = i /\ rules'[q][j] = Rules(f.body))
        BY <4>1 DEF ReadOK, Importers
      <4>6. \A q \in Importers : \A j \in 1..2 :
              rules'[q][j] = rules[q][j] \/ ReadFrom(ever, rules'[q][j], q, j)
        BY <4>3, <4>5
      <4> QED BY <2>g, <4>4, <4>6, ReadNext
    <3>2. CASE ~Loads(f)
      <4>1. rules' = rules
        BY <3>2
      <4> QED BY ONLY ControlOK, ReadOK, <2>g, <4>1, ReadNext DEF ReadOK
    <3> QED BY <3>1, <3>2
  <2> QED BY <2>1, <2>2, <2>3, <2>4, <2>5
<1>7. ASSUME NEW p \in Proc, NEW i \in 1..2, FileInfo(p, i) PROVE FilesInv'
  <2> USE <1>7 DEF FileInfo, Goto
  <2>g. Grows  BY DEF Grows
  <2>i. pc[p] = "info1" \/ pc[p] = "info2"
    BY InfoLabels
  <2>c. cmd[p] \in Command /\ cmd[p].op = "import"
    BY <2>i DEF ControlOK, ImportLabel
  <2>0. p \notin Patchers
    BY <2>c DEF Patchers
  <2>1. ControlOK'  BY <2>c DEF ControlOK, PatchLabel, ImportLabel, Over
  <2>2. HistoryOK'  BY DEF HistoryOK
  <2>3. PatchOK'
    <3>1. UNCHANGED <<cmd, input, temp, ever>> /\ \A q \in Proc : q # p => pc'[q] = pc[q]
      BY DEF ControlOK
    <3> QED BY ONLY PatchOK, <2>0, <3>1 DEF PatchOK, Mine, Patchers
  <2>4. WholeOK'  BY <2>g, WholeStands
  <2>5. ReadOK'  BY <2>g, ReadNext DEF ReadOK
  <2> QED BY <2>1, <2>2, <2>3, <2>4, <2>5
<1>8. ASSUME NEW p \in Proc, Die(p) PROVE FilesInv'
  <2> USE <1>8 DEF Die, Goto
  <2>g. Grows  BY DEF Grows
  <2>1. ControlOK'  BY DEF ControlOK, PatchLabel, ImportLabel, Over
  <2>2. HistoryOK'  BY DEF HistoryOK
  <2>3. PatchOK'  BY DEF PatchOK, ControlOK, Mine, Patchers
  <2>4. WholeOK'  BY <2>g, WholeStands
  <2>5. ReadOK'  BY <2>g, ReadNext DEF ReadOK
  <2> QED BY <2>1, <2>2, <2>3, <2>4, <2>5
<1> QED
  BY <1>1, <1>2, <1>3, <1>4, <1>5, <1>6, <1>7, <1>8 DEF Next, Step, Finished

LEMMA FilesHold == Spec => []FilesInv
BY InitFiles, StepFiles, PTL DEF Spec

\* Whatever dies and whoever else writes, a path never holds a part of a patch: only
\* its initial content, or the whole output of ApplyPatch for a content its input had.
THEOREM OutputIsWholePatchHolds == Spec => []OutputIsWholePatch
<1>1. FilesInv => OutputIsWholePatch
  BY DEF FilesInv, WholeOK, Written, OutputIsWholePatch
<1> QED BY <1>1, FilesHold, PTL

\* For every file and every patch: of what apply_mapping_fixes would accept, patch-config
\* refuses exactly the files with another spelling of a target column or a padded cell at
\* a corrected line; the file it writes otherwise holds the rules the SQL leaves, in the
\* same order, and loads if and only if each of these rules would.
THEOREM PatchAgreesWithSQLHolds == Spec => []PatchAgreesWithSQL
<1>1. FilesInv => PatchAgreesWithSQL
  <2> SUFFICES ASSUME FilesInv, NEW p \in Patchers, Loads(input[p]), Mine(p) # {},
                      SqlAccepts(Rules(input[p].body), Mine(p))
               PROVE  /\ pc[p] = "failed" =>
                            ~PatchesHead(input[p].head) \/ PaddedGuard(input[p].body, Mine(p))
                      /\ pc[p] \in {"write", "rename"} =>
                            PatchesHead(input[p].head) /\ ~PaddedGuard(input[p].body, Mine(p))
                      /\ pc[p] = "rename" =>
                            /\ Ranked(Rules(temp[p].body))
                                  = Ranked(SqlFixed(Rules(input[p].body), Mine(p)))
                            /\ Loads(temp[p]) <=>
                                  \A r \in SqlFixed(Rules(input[p].body), Mine(p)) : Acceptable(r)
    BY DEF PatchAgreesWithSQL
  <2> DEFINE f == input[p]
             mine == Mine(p)
  <2>0. cmd[p].in \in Path
    BY PatchCommand DEF FilesInv, ControlOK, Patchers
  <2>1. f # Absent /\ LoadsPatch(cmd[p].ops) /\ f \in Content
    BY <2>0 DEF Loads, FilesInv, PatchOK, HistoryOK
  <2>2. mine \in SUBSET Operation /\ OnePerLine(mine)
    BY <2>1, MineType DEF FilesInv
  <2>3. /\ pc[p] = "failed" => ~Applies(f, mine)
        /\ pc[p] \in {"write", "rename"} => Applies(f, mine)
        /\ pc[p] = "rename" => temp[p] = Patched(f, mine)
    BY <2>1 DEF FilesInv, PatchOK
  <2>4. f.body \in Body
    BY <2>1 DEF Content
  <2>5. Loads(f) /\ mine # {} /\ SqlAccepts(Rules(f.body), mine)
    OBVIOUS
  <2> HIDE DEF f, mine
  <2>6. Applies(f, mine) <=> PatchesHead(f.head) /\ ~PaddedGuard(f.body, mine)
    BY ONLY <2>1, <2>2, <2>5, SqlOrApplies
  <2>7. Patched(f, mine).body = Rows(f.body, mine)
    BY DEF Patched
  <2>8. Ranked(Rules(Rows(f.body, mine))) = Ranked(SqlFixed(Rules(f.body), mine))
    BY ONLY <2>2, <2>4, SameRules
  <2>9. Loads(Patched(f, mine)) <=> \A r \in SqlFixed(Rules(f.body), mine) : Acceptable(r)
    BY ONLY <2>1, <2>2, <2>5, PatchedLoads
  <2>10. pc[p] = "rename" =>
            /\ Ranked(Rules(temp[p].body)) = Ranked(SqlFixed(Rules(f.body), mine))
            /\ Loads(temp[p]) <=> \A r \in SqlFixed(Rules(f.body), mine) : Acceptable(r)
    BY <2>3, <2>7, <2>8, <2>9
  <2> QED BY <2>3, <2>6, <2>10 DEF f, mine
<1> QED BY <1>1, FilesHold, PTL

\* An import never reads a mixture: its rules are those of the initial file, or those
\* that the corrections of one patcher leave of one file, as the SQL would.
THEOREM ImportSeesWholePatchHolds == Spec => []ImportSeesWholePatch
<1>1. FilesInv => ImportSeesWholePatch
  <2> SUFFICES ASSUME FilesInv, NEW p \in Importers, NEW i \in 1..2, rules[p][i] # Absent
               PROVE  LET o == cmd[p].from[i] IN
                      \/ start[o] # Absent /\ rules[p][i] = Rules(start[o].body)
                      \/ \E q \in Patchers : \E f \in ever[cmd[q].in] :
                            /\ cmd[q].out = o
                            /\ f # Absent
                            /\ Ranked(rules[p][i]) = Ranked(SqlFixed(Rules(f.body), Mine(q)))
    BY DEF ImportSeesWholePatch
  <2> DEFINE o == cmd[p].from[i]
  <2>1. PICK c : /\ c # Absent /\ rules[p][i] = Rules(c.body)
                 /\ c = start[o] \/ Written(ever, o, c)
    BY DEF FilesInv, ReadOK, HasRead
  <2>2. CASE c = start[o]
    BY <2>1, <2>2
  <2>3. CASE Written(ever, o, c)
    <3>1. PICK q \in Patchers : /\ cmd[q].out = o
                                /\ LoadsPatch(cmd[q].ops)
                                /\ \E f \in ever[cmd[q].in] : Applies(f, Mine(q)) /\ c = Patched(f, Mine(q))
      BY <2>3 DEF Written
    <3>2. PICK f \in ever[cmd[q].in] : Applies(f, Mine(q)) /\ c = Patched(f, Mine(q))
      BY <3>1
    <3>3. cmd[q].in \in Path
      BY PatchCommand DEF FilesInv, ControlOK, Patchers
    <3>4. f # Absent /\ f \in Content
      BY <3>2, <3>3 DEF Applies, FilesInv, HistoryOK
    <3>5. f.body \in Body
      BY <3>4 DEF Content
    <3>6. Mine(q) \in SUBSET Operation /\ OnePerLine(Mine(q))
      BY <3>1, MineType DEF FilesInv
    <3>7. c.body = Rows(f.body, Mine(q))
      BY <3>2 DEF Patched
    <3>8. Ranked(Rules(Rows(f.body, Mine(q)))) = Ranked(SqlFixed(Rules(f.body), Mine(q)))
      BY ONLY <3>5, <3>6, SameRules
    <3>9. Ranked(rules[p][i]) = Ranked(SqlFixed(Rules(f.body), Mine(q)))
      BY <2>1, <3>7, <3>8
    <3> QED BY <3>1, <3>2, <3>4, <3>9
  <2> QED BY <2>1, <2>2, <2>3
<1> QED BY <1>1, FilesHold, PTL
==============================================================================
