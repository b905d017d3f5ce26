--------------------------- MODULE ParserContract ---------------------------
(***************************************************************************)
(* What internal/ingest promises about the rows it returns, and the rest   *)
(* of the pipeline relies on.  Ingest shows that the parsers keep it;      *)
(* MCReconciliation only reconciles files that satisfy it.                 *)
(***************************************************************************)
EXTENDS Integers, Functions

\* Ordinals count from 1 without gaps.
Numbering(rows) == \A i \in DOMAIN rows : rows[i].ord = i

\* Every payment row is a released or deferred AUD transaction whose total is the
\* exact sum of its components.
PaymentsGuaranteed(rows) ==
    /\ Numbering(rows)
    /\ \A i \in DOMAIN rows :
          LET r == rows[i] IN
          /\ r.kind = "transaction" /\ r.cur = "AUD" /\ r.status \in {"Released", "Deferred"}
          /\ r.comp["total"] = r.amount
          /\ r.amount = SumFunctionOnSet(r.comp, DOMAIN r.comp \ {"total"})

\* Every settlement has at most one metadata row; every transaction has one, and
\* its currency.
SettlementsGuaranteed(rows) ==
    LET meta == { i \in DOMAIN rows : rows[i].kind = "settlement_metadata" } IN
    /\ Numbering(rows)
    /\ \A i, j \in meta : rows[i].sid = rows[j].sid => i = j
    /\ \A i \in DOMAIN rows : \E j \in meta : rows[i].sid = rows[j].sid /\ rows[i].cur = rows[j].cur
    /\ \A i \in DOMAIN rows : rows[i].sid # "" /\ rows[i].cur # ""
=============================================================================
