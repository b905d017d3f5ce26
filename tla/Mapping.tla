------------------------------ MODULE Mapping -------------------------------
(***************************************************************************)
(* internal/mapping Engine: which rules of a configuration apply to a      *)
(* source row, what they contribute and which reconciliation key they      *)
(* expand to.  Texts are members of a small set; a record_ref template is  *)
(* the sequence of its tokens, and a key the sequence of its expanded      *)
(* parts: the code joins the parts with a delimiter that it refuses inside *)
(* a part, so equal strings are equal sequences.                           *)
(*                                                                         *)
(*   Rule  [src, line, tx, desc, field, atype, ref, pos, neg]              *)
(*   Row   [src, kind, ord, tx, desc, atype, sid, cur, status, amount,     *)
(*          comp, tok, scope]                                              *)
(*                                                                         *)
(* comp gives the amounts of a payment row by column, tok the identifiers  *)
(* a template can name.                                                    *)
(***************************************************************************)
EXTENDS Money, SequencesExt

CONSTANTS
    LabelOf,          \* normalize.Label on the texts that occur
    TransferLabels,   \* labels that start with TO_ACCOUNT_ENDING_WITH:
    FieldOrder,       \* the amount fields, sorted as sort.Strings does
    Literals,         \* template tokens that do not look like a field name
    Reserved,         \* identifiers that contain the key delimiter
    NoAmount          \* no usable amount

ASSUME FieldAssumption == FieldOrder \in Seq(Range(FieldOrder))

Payment == "payment"
Settlement == "settlement"
StrictMode == "strict"
DiagnosticMode == "diagnostic-baseline"
Withheld == "marketplace_withheld_tax"
NoKey == <<>>

\* The elements of a sequence that are in S, in order.
Filter(s, S) == FlattenSeq([i \in DOMAIN s |-> IF s[i] \in S THEN <<s[i]>> ELSE <<>>])

Label(s) == LabelOf[s]

TransferDescription(s) ==
    IF Label(s) \in TransferLabels THEN "TO_ACCOUNT_ENDING" ELSE Label(s)

-----------------------------------------------------------------------------
\* Selection.

descriptionMatch(row, selector) ==
    \/ Label(selector) = "ANY"
    \/ Label(selector) =
          IF row.src = Payment /\ Label(row.tx) = "TRANSFER"
          THEN TransferDescription(row.desc)
          ELSE Label(row.desc)

Matches(rule, row) ==
    /\ rule.src = row.src
    /\ Label(rule.tx) \in {"", Label(row.tx)}
    /\ IF row.src = Payment
       THEN rule.field # ""
       ELSE Label(rule.atype) = Label(row.atype)
    /\ descriptionMatch(row, rule.desc)

\* Engine.index: the rules of one transaction label, in file order.
Indexed(rules, label) == Filter(rules, {r \in Range(rules) : Label(r.tx) = label})

\* The rules looked at for a row; "" is looked up for every row, a second time
\* for a row without a transaction type.
Candidates(rules, row) == Indexed(rules, Label(row.tx)) \o Indexed(rules, "")

\* Those of them that match.
Hits(rules, row) == Filter(Candidates(rules, row), {r \in Range(rules) : Matches(r, row)})

\* Mutant: a fallback rule applies beside a transaction-specific one.
Selected_KeepsFallback(rules, row) == Hits(rules, row)

\* Rules for the row's transaction type suppress the fallback rules.
Selected(rules, row) ==
    LET specifics == Filter(Hits(rules, row), {r \in Range(rules) : r.tx # ""})
    IN  IF specifics # <<>> THEN specifics ELSE Hits(rules, row)

FieldOf(row, rule) == IF row.src = Settlement THEN "amount" ELSE rule.field

OnField(selected, row, field) ==
    Filter(selected, {r \in Range(selected) : FieldOf(row, r) = field})

\* Rules with a description of their own.
Named(rules) == Filter(rules, {r \in Range(rules) : Label(r.desc) # "ANY"})

\* Mutant: the first of several equally specific rules wins.
Competing_FirstWins(selected, row, field) ==
    LET rules == OnField(selected, row, field)
        left == IF Named(rules) # <<>> THEN Named(rules) ELSE rules
    IN  IF left = <<>> THEN left ELSE <<Head(left)>>

\* The rules left for one field: an exact description beats ANY.
Competing(selected, row, field) ==
    LET rules == OnField(selected, row, field)
    IN  IF Named(rules) # <<>> THEN Named(rules) ELSE rules

-----------------------------------------------------------------------------
\* Contributions.

amountFor(row, field) ==
    LET column == IF field = "fba_fees" THEN "fulfilment_by_amazon_fees" ELSE field
    IN  IF row.src = Settlement THEN row.amount
        ELSE IF column \in DOMAIN row.comp THEN row.comp[column]
        ELSE IF field = Withheld THEN 0
        ELSE NoAmount

\* The text a template token stands for, "" when there is none.
Part(row, token) ==
    CASE token = "settlement_id" -> row.sid
      [] token = "description" -> Label(row.desc)
      [] token = "record_type" -> Label(row.tx)
      [] token \in DOMAIN row.tok -> row.tok[token]
      [] token \in Literals -> token
      [] OTHER -> ""

\* NoKey is the error: an empty template, or a part that is empty, unknown or
\* holds the delimiter.
expand(ref, row) ==
    LET parts == [i \in DOMAIN ref |-> Part(row, ref[i])]
    IN  IF Range(parts) \cap ({""} \cup Reserved) = {} THEN parts ELSE NoKey

EmptyMapped(row) ==
    [row |-> row, contribs |-> <<>>, key |-> NoKey, ambiguous |-> {}, err |-> ""]

Routed(c) == c.target # "" /\ c.amount # 0

Contribution(row, field, rule) ==
    LET amount == amountFor(row, field)
    IN  [rule |-> rule, field |-> field, amount |-> amount, key |-> expand(rule.ref, row),
         target |-> IF amount < 0 THEN rule.neg ELSE rule.pos]

\* One rule applied to one field.  The contribution that reveals a conflicting
\* key has already been recorded when the row fails.
Contribute(m, field, rule) ==
    LET parts == expand(rule.ref, m.row)
        absent == field = Withheld /\ Withheld \notin DOMAIN m.row.comp
        added == [m EXCEPT !.contribs = Append(@, Contribution(m.row, field, rule))]
    IN  IF m.err # "" THEN m
        ELSE IF amountFor(m.row, field) = NoAmount THEN [m EXCEPT !.err = "amount"]
        ELSE IF parts = NoKey THEN [m EXCEPT !.err = "record_ref"]
        ELSE IF absent /\ {rule.pos, rule.neg} # {""} THEN [m EXCEPT !.err = "absent"]
        ELSE IF m.key = NoKey THEN [added EXCEPT !.key = parts]
        ELSE IF m.key # parts THEN [added EXCEPT !.err = "conflict"]
        ELSE added

\* One field.  Several rules left are an error in strict mode; in diagnostic
\* mode they are an issue of the row and all of them contribute.
MapField(m, field, rules, mode) ==
    LET issue == [field |-> field, lines |-> {r.line : r \in Range(rules)}]
        marked == IF Len(rules) > 1 THEN [m EXCEPT !.ambiguous = @ \cup {issue}] ELSE m
        after[k \in 0..Len(rules)] ==
            IF k = 0 THEN marked ELSE Contribute(after[k - 1], field, rules[k])
    IN  IF m.err # "" THEN m
        ELSE IF Len(rules) > 1 /\ mode = StrictMode THEN [marked EXCEPT !.err = "ambiguous"]
        ELSE after[Len(rules)]

\* A payment may route its total or its components, not both.
RoutesTwice(m) ==
    /\ m.row.src = Payment
    /\ \E c \in Range(m.contribs) : Routed(c) /\ c.field = "total"
    /\ \E c \in Range(m.contribs) : Routed(c) /\ c.field # "total"

\* The fields in order; one that no selected rule is about changes nothing.
MapFields(selected, row, mode) ==
    LET after[k \in 0..Len(FieldOrder)] ==
            IF k = 0 THEN EmptyMapped(row)
            ELSE MapField(after[k - 1], FieldOrder[k], Competing(selected, row, FieldOrder[k]), mode)
    IN  after[Len(FieldOrder)]

mapRow(rules, row, mode) ==
    LET m == MapFields(Selected(rules, row), row, mode)
    IN  IF row.kind # "transaction" THEN EmptyMapped(row)
        ELSE IF m.err # "" THEN m
        ELSE IF RoutesTwice(m) THEN [m EXCEPT !.err = "total"]
        ELSE IF m.key = NoKey THEN [m EXCEPT !.err = "no key"]
        ELSE m

\* What Map refuses before it looks at a row.
RulesUsable(rules, targets) ==
    \A r \in Range(rules) :
        /\ r.src = Payment => r.field # ""
        /\ r.src = Settlement => r.atype # ""
        /\ {r.pos, r.neg} \subseteq targets \cup {""}
=============================================================================
