--------------------------- MODULE Reconciliation ---------------------------
(***************************************************************************)
(* One `recon run` over parsed input: classify, map the payments and then  *)
(* the settlements row by row, group the mapped rows by identity, check    *)
(* the settlement header, write and (strict) verify the workbook, persist  *)
(* the lineage tables and register the report; and what `recon verify-db`  *)
(* recomputes from those tables.  The run's place among concurrent runs is *)
(* module RunLifecycle; here its transaction is one step.                  *)
(***************************************************************************)
EXTENDS Mapping

CONSTANTS
    Inputs,           \* command lines with what parsers and config return: [mode, rules, rows]
    SelectedID,       \* --settlement-id
    Target,           \* known summary fields
    Sections          \* the summary fields of the workbook, section by section in row order

Source == {Payment, Settlement}
Empty == [r \in {} |-> r]
ReportedTargets == UNION {Range(section) : section \in Sections}

ASSUME TargetAssumption == IsFiniteSet(Target) /\ "" \notin Target

RowFields == {"src", "kind", "ord", "tx", "desc", "atype", "sid", "cur", "status", "amount",
              "comp", "tok", "scope"}

\* What the parsers and LoadConfig return: numbered rows of the source, with amounts
\* that money.ParseCents made.
ASSUME InputAssumption ==
    \A i \in Inputs :
        /\ DOMAIN i = {"mode", "rules", "rows"} /\ i.mode \in {StrictMode, DiagnosticMode}
        /\ \A s \in Source :
              /\ i.rules[s] \in Seq(Range(i.rules[s]))
              /\ i.rows[s] \in Seq(Range(i.rows[s]))
              /\ \A k \in DOMAIN i.rows[s] :
                    LET r == i.rows[s][k] IN
                    /\ DOMAIN r = RowFields
                    /\ r.src = s /\ r.ord = k /\ r.amount \in Int64
                    /\ \A c \in DOMAIN r.comp : r.comp[c] \in Int64

VARIABLES
    input,    \* the classified rows and the rules of this run
    pc,       \* the next stage
    next,     \* the next row of the stage
    mapped,   \* per source: the mapped rows
    summary,  \* per summary field and source: the routed total
    issues,   \* mapping issues
    groups,   \* by identity: a reconciliation group
    db,       \* the lineage tables of the run, Empty until they are committed
    failure   \* why the command gave up, "" if it did not

vars == <<input, pc, next, mapped, summary, issues, groups, db, failure>>

-----------------------------------------------------------------------------
\* reconcile.Classify.  The parser refuses any other payment status.
ScopeOf(row) ==
    IF row.kind # "transaction" THEN "METADATA"
    ELSE IF row.sid # SelectedID THEN "OTHER_SETTLEMENT"
    ELSE IF row.src = Payment /\ row.status = "Deferred" THEN "DEFERRED"
    ELSE "IN_SCOPE"

Classify(rows) == [i \in DOMAIN rows |-> [rows[i] EXCEPT !.scope = ScopeOf(rows[i])]]

Init ==
    /\ \E i \in Inputs :
          input = [i EXCEPT !.rows = [s \in Source |-> Classify(i.rows[s])]]
    /\ pc = Payment
    /\ next = 1
    /\ mapped = [s \in Source |-> <<>>]
    /\ summary = [t \in Target |-> [s \in Source |-> 0]]
    /\ issues = {}
    /\ groups = Empty
    /\ db = Empty
    /\ failure = ""

Strict == input.mode = StrictMode

Fail(why) ==
    /\ pc' = "failed"
    /\ failure' = why
    /\ UNCHANGED <<input, next, mapped, summary, issues, groups, db>>

Goto(stage) == pc' = stage /\ next' = 1

\* Mutant: amounts are summed up without the overflow check.
Plus_Unchecked(a, b) == a + b

\* money.Add, which stays at the error.
Plus(a, b) == IF a = Overflow THEN Overflow ELSE Add(a, b)

\* A sequence of amounts added to an amount, one after the other.
AddAll(amount, amounts) ==
    LET total[k \in 0..Len(amounts)] == IF k = 0 THEN amount ELSE Plus(total[k - 1], amounts[k])
    IN  total[Len(amounts)]

\* What a contribution adds to a summary field.
Adds(c, t) == IF Routed(c) /\ c.target = t THEN c.amount ELSE 0

\* A bucket function after the contributions of one more mapped row.
Accumulated(buckets, contribs) ==
    [t \in Target |-> AddAll(buckets[t], [i \in DOMAIN contribs |-> Adds(contribs[i], t)])]

-----------------------------------------------------------------------------
\* Engine.Map, one source after the other and row by row.

InMap == pc \in Source /\ RulesUsable(input.rules[pc], Target)

Mapped == mapRow(input.rules[pc], input.rows[pc][next], input.mode)

RejectRules ==
    /\ pc \in Source
    /\ ~RulesUsable(input.rules[pc], Target)
    /\ Fail("rules")

\* Mutant: rows outside the selected settlement are summed up too.
Totals_AnyScope(m) == Accumulated([t \in Target |-> summary[t][m.row.src]], m.contribs)

\* The totals of the row's source after the row.
Totals(m) ==
    LET before == [t \in Target |-> summary[t][m.row.src]]
    IN  IF m.row.scope = "IN_SCOPE" THEN Accumulated(before, m.contribs) ELSE before

MapRow ==
    /\ InMap
    /\ next <= Len(input.rows[pc])
    /\ Mapped.err = ""
    /\ LET m == Mapped
           totals == Totals(m)
       IN  IF \E t \in Target : totals[t] = Overflow
           THEN Fail("overflow")
           ELSE /\ mapped' = [mapped EXCEPT ![pc] = Append(@, m)]
                /\ summary' = [t \in Target |-> [summary[t] EXCEPT ![pc] = totals[t]]]
                /\ issues' = issues \cup m.ambiguous
                /\ next' = next + 1
                /\ UNCHANGED <<input, pc, groups, db, failure>>

MapRowStrictError ==
    /\ InMap
    /\ next <= Len(input.rows[pc])
    /\ Mapped.err # ""
    /\ Strict
    /\ Fail(Mapped.err)

\* The row is kept with what it contributed before the error; the summary and
\* its own ambiguity issues are skipped.
MapRowDiagnosticError ==
    /\ InMap
    /\ next <= Len(input.rows[pc])
    /\ Mapped.err # ""
    /\ ~Strict
    /\ mapped' = [mapped EXCEPT ![pc] = Append(@, Mapped)]
    /\ issues' = issues \cup {[src |-> pc, row |-> next, err |-> Mapped.err]}
    /\ next' = next + 1
    /\ UNCHANGED <<input, pc, summary, groups, db, failure>>

MapDone ==
    /\ InMap
    /\ next > Len(input.rows[pc])
    /\ Goto(IF pc = Payment THEN Settlement ELSE "group")
    /\ UNCHANGED <<input, mapped, summary, issues, groups, db, failure>>

-----------------------------------------------------------------------------
\* reconcile.BuildGroups: payments first, then settlements.

AllMapped == mapped[Payment] \o mapped[Settlement]

\* Mutant: the scope is left out of the identity.
identityKey_NoScope(m) == <<m.key, m.row.sid, m.row.cur>>

\* The parts are length-prefixed, so different identities never collide.
identityKey(m) == <<m.key, m.row.sid, m.row.cur, m.row.scope>>

NewGroup(m) ==
    [key |-> m.key, sid |-> m.row.sid, cur |-> m.row.cur, scope |-> m.row.scope,
     rows |-> [s \in Source |-> {}],
     amount |-> [s \in Source |-> 0],
     bucket |-> [s \in Source |-> [t \in Target |-> 0]]]

GroupWith(g, m) ==
    LET s == m.row.src
    IN  [g EXCEPT !.rows[s] = @ \cup {m.row.ord},
                  !.amount[s] = Add(@, m.row.amount),
                  !.bucket[s] = Accumulated(@, m.contribs)]

Overflown(g) ==
    \E s \in Source : g.amount[s] = Overflow \/ \E t \in Target : g.bucket[s][t] = Overflow

GroupRow ==
    /\ pc = "group"
    /\ next <= Len(AllMapped)
    /\ LET m == AllMapped[next]
           id == identityKey(m)
           g == GroupWith(IF id \in DOMAIN groups THEN groups[id] ELSE NewGroup(m), m)
       IN  \/ /\ m.row.kind # "transaction"
              /\ next' = next + 1
              /\ UNCHANGED <<input, pc, mapped, summary, issues, groups, db, failure>>
           \/ /\ m.row.kind = "transaction"
              /\ Overflown(g)
              /\ Fail("overflow")
           \/ /\ m.row.kind = "transaction"
              /\ ~Overflown(g)
              /\ groups' = [i \in DOMAIN groups \cup {id} |-> IF i = id THEN g ELSE groups[i]]
              /\ next' = next + 1
              /\ UNCHANGED <<input, pc, mapped, summary, issues, db, failure>>

GroupDone ==
    /\ pc = "group"
    /\ next > Len(AllMapped)
    /\ Goto("header")
    /\ UNCHANGED <<input, mapped, summary, issues, groups, db, failure>>

-----------------------------------------------------------------------------
\* The settlement header control of cmd/recon run.

Headers ==
    {r \in Range(input.rows[Settlement]) : r.kind # "transaction" /\ r.sid = SelectedID}

Activity ==
    LET rows == input.rows[Settlement]
    IN  AddAll(0, [i \in DOMAIN rows |-> IF rows[i].scope = "IN_SCOPE" THEN rows[i].amount ELSE 0])

HeaderAgrees == Cardinality(Headers) = 1 /\ \A r \in Headers : r.amount = Activity

CheckHeader ==
    /\ pc = "header"
    /\ HeaderAgrees
    /\ Goto("report")
    /\ UNCHANGED <<input, mapped, summary, issues, groups, db, failure>>

HeaderDiffers ==
    /\ pc = "header"
    /\ ~HeaderAgrees
    /\ Fail("header")

-----------------------------------------------------------------------------
\* report.Write and report.Verify.

HeaderTotal == (CHOOSE r \in Headers : TRUE).amount

\* The subtotal of some summary fields, added in the order given.
Subtotal(src, order) == AddAll(0, [i \in DOMAIN order |-> summary[order[i]][src]])

Difference(target) == Sub(summary[target][Payment], summary[target][Settlement])

\* Every sheet that must have rows has some: a group, a row, a contribution.
HasData ==
    /\ DOMAIN groups # {}
    /\ \E m \in Range(AllMapped) : m.contribs # <<>>

\* sumSummary ranges over a Go map: the order is any order.
Writable(order) ==
    /\ HasData
    /\ \A s \in Source, section \in Sections : Subtotal(s, section) # Overflow
    /\ \A t \in ReportedTargets : Difference(t) # Overflow
    /\ Subtotal(Settlement, order) # Overflow
    /\ Sub(Subtotal(Settlement, order), HeaderTotal) # Overflow

\* Mutant: the activity cell of the workbook is not compared with the header.
Verifies_NoControl(order) ==
    /\ issues = {}
    /\ \A t \in ReportedTargets : Difference(t) = 0

\* Column E and cell D35 are zero, and there are no mapping issues.
Verifies(order) ==
    /\ issues = {}
    /\ \A t \in ReportedTargets : Difference(t) = 0
    /\ Sub(Subtotal(Settlement, order), HeaderTotal) = 0

WriteReport ==
    /\ pc = "report"
    /\ \E order \in SetToSeqs(Target) :
          \/ /\ ~Writable(order)
             /\ Fail("write report")
          \/ /\ Writable(order)
             /\ Strict
             /\ ~Verifies(order)
             /\ Fail("verify report")
          \/ /\ Writable(order)
             /\ Strict => Verifies(order)
             /\ Goto("persist")
             /\ UNCHANGED <<input, mapped, summary, issues, groups, db, failure>>

-----------------------------------------------------------------------------
\* store.Persist: the strict gate and the tables it writes.

\* Mutant: only the amounts of a group are compared.
GroupBalances_AmountOnly(g) ==
    (\A s \in Source : g.rows[s] # {}) => g.amount[Payment] = g.amount[Settlement]

GroupBalances(g) ==
    /\ (\A s \in Source : g.rows[s] # {}) => g.amount[Payment] = g.amount[Settlement]
    /\ g.bucket[Payment] = g.bucket[Settlement]

GatePasses ==
    Strict =>
        /\ \A t \in Target : summary[t][Payment] = summary[t][Settlement]
        /\ \A id \in DOMAIN groups : groups[id].scope = "IN_SCOPE" => GroupBalances(groups[id])

\* The row_mappings of one mapped row, numbered as they are copied.
MappingsOf(m) ==
    {[src |-> m.row.src, ord |-> m.row.ord, scope |-> m.row.scope, ix |-> i,
      rule |-> m.contribs[i].rule.line, field |-> m.contribs[i].field,
      target |-> m.contribs[i].target,
      amount |-> m.contribs[i].amount, ref |-> m.contribs[i].key] : i \in DOMAIN m.contribs}

RowMappings == UNION {MappingsOf(m) : m \in Range(AllMapped)}

\* UNIQUE(run_id, source_row_id, rule_id) of row_mappings.
UniqueMappings ==
    \A x, y \in RowMappings : <<x.src, x.ord, x.rule>> = <<y.src, y.ord, y.rule>> => x = y

StatusOf(g) ==
    IF g.rows[Payment] = {} THEN "unreconciled_settlement"
    ELSE IF g.rows[Settlement] = {} THEN "unreconciled_payment"
    ELSE "reconciled"

Tables ==
    [rows |-> {m.row : m \in Range(AllMapped)},
     mappings |-> RowMappings,
     contributions |-> {x \in RowMappings : x.scope = "IN_SCOPE" /\ Routed(x)},
     controls |-> Headers,
     totals |-> summary,
     groups |-> {[id |-> i, key |-> groups[i].key, scope |-> groups[i].scope,
                  amount |-> groups[i].amount, status |-> StatusOf(groups[i])]
                    : i \in DOMAIN groups},
     members |-> UNION {{<<i, s, o>> : o \in groups[i].rows[s]}
                            : i \in DOMAIN groups, s \in Source},
     issues |-> issues]

Persist ==
    /\ pc = "persist"
    /\ GatePasses
    /\ UniqueMappings
    /\ db' = Tables
    /\ Goto("register")
    /\ UNCHANGED <<input, mapped, summary, issues, groups, failure>>

GateRefuses ==
    /\ pc = "persist"
    /\ ~GatePasses
    /\ Fail("gate")

\* The transaction is rolled back and the run marked FAILED.
DuplicateMapping ==
    /\ pc = "persist"
    /\ GatePasses
    /\ ~UniqueMappings
    /\ Fail("duplicate mapping")

RegisterReport ==
    /\ pc = "register"
    /\ Goto("reported")
    /\ UNCHANGED <<input, mapped, summary, issues, groups, db, failure>>

Next ==
    \/ RejectRules
    \/ MapRow
    \/ MapRowStrictError
    \/ MapRowDiagnosticError
    \/ MapDone
    \/ GroupRow
    \/ GroupDone
    \/ CheckHeader
    \/ HeaderDiffers
    \/ WriteReport
    \/ Persist
    \/ GateRefuses
    \/ DuplicateMapping
    \/ RegisterReport

Spec == Init /\ [][Next]_vars

-----------------------------------------------------------------------------
\* store.VerifyRun: the checks of `recon verify-db`, recomputed from the tables.

SumOf(S) == SumFunctionOnSet([x \in S |-> x.amount], S)

AmountMismatches ==
    {g \in db.groups : g.status = "reconciled" /\ g.amount[Payment] # g.amount[Settlement]}

\* The payment and the settlement side of one record_ref and summary field.
RefTotal(src, ref, target) ==
    SumOf({x \in db.mappings :
              x.scope = "IN_SCOPE" /\ <<x.src, x.ref, x.target>> = <<src, ref, target>>})

BucketMismatches ==
    {<<x.ref, x.target>> : x \in
        {y \in db.mappings : y.target # "" /\ RefTotal(Payment, y.ref, y.target)
                                                # RefTotal(Settlement, y.ref, y.target)}}

FieldTotal(src, target) ==
    SumOf({x \in db.contributions : x.src = src /\ x.target = target})

SummaryMismatches ==
    {x \in Source \X Target : db.totals[x[2]][x[1]] # FieldTotal(x[1], x[2])}

InScopeActivity == SumOf({r \in db.rows : r.src = Settlement /\ r.scope = "IN_SCOPE"})

HeaderMismatches ==
    \/ Cardinality(db.controls) # 1
    \/ \E r \in db.controls : r.amount # InScopeActivity

Transactions == {r \in db.rows : r.kind = "transaction"}

VerifyRun ==
    /\ Strict => db.issues = {}
    /\ AmountMismatches = {}
    /\ SummaryMismatches = {}
    /\ Strict => BucketMismatches = {}
    /\ ~HeaderMismatches
    /\ Cardinality(db.members) = Cardinality(Transactions)

-----------------------------------------------------------------------------
\* Properties.

\* The types of the pipeline's state; amounts are int64 in every reachable state.
TypeOK ==
    /\ input.mode \in {StrictMode, DiagnosticMode}
    /\ pc \in Source \cup {"group", "header", "report", "persist", "register", "reported", "failed"}
    /\ next \in Nat \ {0}
    /\ summary \in [Target -> [Source -> Int64]]
    /\ \A id \in DOMAIN groups : groups[id].amount \in [Source -> Int64]
    /\ (failure # "") = (pc = "failed")

Persisted == db # Empty

\* A strict run that was persisted passes every check of verify-db on what its
\* settlement selects: the in-memory gate of Persist and the SQL of VerifyRun
\* agree about amounts, buckets, totals, header and membership.
StrictRunVerifies ==
    Persisted /\ Strict =>
        /\ db.issues = {}
        /\ \A g \in AmountMismatches : g.scope # "IN_SCOPE"
        /\ BucketMismatches = {}
        /\ SummaryMismatches = {}
        /\ ~HeaderMismatches
        /\ Cardinality(db.members) = Cardinality(Transactions)

\* A strict run accounts for every cent of the settlement: what the payments
\* contribute, what the settlements contribute and the header are one amount.
AccountsForHeader ==
    Persisted /\ Strict =>
        \A s \in Source :
            SumOf({x \in db.contributions : x.src = s}) = (CHOOSE r \in db.controls : TRUE).amount

\* The persisted totals are the sums of the persisted contributions whenever no
\* row failed to map (diagnostic runs included).
SummaryRecomputes ==
    Persisted /\ (\A m \in Range(AllMapped) : m.err = "") => SummaryMismatches = {}

\* Grouping neither loses nor repeats nor mixes rows: when it is done, every
\* transaction row is in exactly one group, a group holds rows of its own key,
\* settlement, currency and scope only, and the groups carry all the money.
GroupsPartition ==
    pc = "header" =>
        /\ \A m \in Range(AllMapped) : m.row.kind = "transaction" =>
              LET homes == {i \in DOMAIN groups : m.row.ord \in groups[i].rows[m.row.src]}
              IN  /\ Cardinality(homes) = 1
                  /\ \A i \in homes :
                        <<groups[i].key, groups[i].sid, groups[i].cur, groups[i].scope>>
                            = <<m.key, m.row.sid, m.row.cur, m.row.scope>>
        /\ \A s \in Source :
              SumFunctionOnSet([i \in DOMAIN groups |-> groups[i].amount[s]], DOMAIN groups)
                = SumOf({r \in Range(input.rows[s]) : r.kind = "transaction"})

\* Strict mapping does not depend on the order of the rules in the file: any
\* reordering maps the row just mapped to the same contributions and the same key.
StrictIgnoresRuleOrder ==
    \A s \in Source : Strict /\ pc = s /\ mapped[s] # <<>> =>
        LET m == Last(mapped[s])
        IN  \A p \in Bijection(DOMAIN input.rules[s], DOMAIN input.rules[s]) :
                mapRow([i \in DOMAIN input.rules[s] |-> input.rules[s][p[i]]], m.row, StrictMode) = m

\* No contribution comes from a rule that a more specific matching rule should
\* have displaced: the transaction type first, then the description.
MostSpecificRule ==
    \A s \in Source : mapped[s] # <<>> =>
        LET m == Last(mapped[s])
        IN  \A c \in Range(m.contribs) : \A r \in Range(input.rules[s]) : Matches(r, m.row) =>
                /\ ~(r.tx # "" /\ c.rule.tx = "")
                /\ (r.tx = "") = (c.rule.tx = "") /\ FieldOf(m.row, r) = c.field =>
                       ~(Label(r.desc) # "ANY" /\ Label(c.rule.desc) = "ANY")

-----------------------------------------------------------------------------
\* What docs and checks of the repository say and the code does not do.

\* verify-db accepts a strict run that was reported as PASS.
StrictPassVerifies == pc = "reported" /\ Strict => VerifyRun
=============================================================================
