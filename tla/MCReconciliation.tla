-------------------------- MODULE MCReconciliation --------------------------
(***************************************************************************)
(* Small input files: every pair of the payment rows and every pair of the *)
(* settlement rows below, under configurations that agree, overlap, repeat *)
(* a selector, route a payment twice, expand to different keys or miss a   *)
(* column.                                                                 *)
(***************************************************************************)
EXTENDS Reconciliation, ParserContract

MCLabelOf ==
    [s \in {"", "ORDER", "REFUND", "TRANSFER", "ANY", "ITEMPRICE", "FEE", "PROMO",
            "TO_ACCOUNT_ENDING", "TO_ACCOUNT_ENDING_WITH:_12"} |-> s]
    @@ ("Order" :> "ORDER" @@ "Refund" :> "REFUND" @@ "Transfer" :> "TRANSFER" @@ "any" :> "ANY"
        @@ "ItemPrice" :> "ITEMPRICE" @@ "Fee" :> "FEE" @@ "promo" :> "PROMO"
        @@ "To account ending" :> "TO_ACCOUNT_ENDING"
        @@ "To account ending with: 12" :> "TO_ACCOUNT_ENDING_WITH:_12")
MCTransferLabels == {"TO_ACCOUNT_ENDING_WITH:_12"}
MCFieldOrder ==
    <<"amount", "fba_fees", "gift_wrap_credits", "marketplace_withheld_tax", "product_sales",
      "selling_fees", "total">>
MCLiterals == {"PAYOUT"}
MCReserved == {"x-delimiter-y"}

Sales == "sales_product_charges"
Fees == "expenses_amazon_fees"
Balance == "beginning_balance"
MCTarget == {Sales, Fees, Balance}
MCSections == {<<Sales>>, <<Fees>>}

-----------------------------------------------------------------------------
\* Configurations.

PayRule(line, tx, desc, field, ref, pos, neg) ==
    [src |-> Payment, line |-> line, tx |-> tx, desc |-> desc, field |-> field, atype |-> "",
     ref |-> ref, pos |-> pos, neg |-> neg]

SetRule(line, tx, atype, desc, ref, pos, neg) ==
    [src |-> Settlement, line |-> line, tx |-> tx, desc |-> desc, field |-> "", atype |-> atype,
     ref |-> ref, pos |-> pos, neg |-> neg]

ByRef == <<"txn_ref">>
SalesRule == PayRule(2, "Order", "any", "product_sales", ByRef, Sales, Sales)
FeesRule == PayRule(3, "Order", "any", "selling_fees", ByRef, Fees, Fees)
SalesAgain == PayRule(4, "ORDER", "any", "product_sales", ByRef, Sales, Sales)
SalesFallback == PayRule(5, "", "any", "product_sales", ByRef, Sales, Sales)
PromoRule == PayRule(6, "Order", "promo", "product_sales", ByRef, Fees, Fees)
TotalRule == PayRule(7, "Order", "any", "total", ByRef, Sales, Fees)
OtherKeyRule == PayRule(8, "Order", "any", "selling_fees", <<"record_type", "txn_ref">>, Fees, Fees)
TransferRule == PayRule(9, "Transfer", "To account ending", "total", <<"PAYOUT", "settlement_id">>, "", "")
WithheldRule == PayRule(10, "Order", "any", Withheld, ByRef, "", "")
WithheldRouted == PayRule(11, "Order", "any", Withheld, ByRef, Sales, "")
UnknownColumn == PayRule(12, "Order", "any", "gift_wrap_credits", ByRef, "", "")
UnknownToken == PayRule(13, "Order", "any", "fba_fees", <<"order_number">>, "", "")
FbaRule == PayRule(14, "Order", "any", "fba_fees", ByRef, "", "")
NoField == PayRule(15, "Order", "any", "", ByRef, "", "")

PriceRule == SetRule(2, "Order", "ItemPrice", "any", ByRef, Sales, Sales)
FeeRule == SetRule(3, "Order", "Fee", "any", ByRef, Fees, Fees)
PriceFallback == SetRule(4, "", "ItemPrice", "any", ByRef, Sales, Sales)
PromoPrice == SetRule(5, "Order", "ItemPrice", "promo", ByRef, Fees, Fees)
BalanceRule == SetRule(6, "Order", "Fee", "any", ByRef, Balance, Balance)
NoTarget == SetRule(7, "Order", "Fee", "any", ByRef, "", "")

Config(pay, set) == [s \in Source |-> IF s = Payment THEN pay ELSE set]

Configs == {
    Config(<<FeesRule, SalesRule, WithheldRule, TransferRule>>, <<PriceRule, FeeRule>>),
    Config(<<SalesFallback, SalesRule, PromoRule, FeesRule>>,
           <<PriceFallback, PriceRule, PromoPrice, FeeRule>>),
    Config(<<SalesFallback>>, <<PriceFallback, NoTarget>>),
    Config(<<SalesRule, FeesRule, SalesAgain>>, <<PriceRule, FeeRule>>),
    Config(<<SalesRule, TotalRule>>, <<PriceRule, PromoPrice, BalanceRule>>),
    Config(<<SalesRule, OtherKeyRule>>, <<PriceRule, NoTarget>>)}

FaultyConfigs == {
    Config(<<FbaRule, SalesRule, WithheldRouted>>, <<PriceRule>>),
    Config(<<UnknownColumn, SalesRule>>, <<PriceRule>>),
    Config(<<UnknownToken, SalesRule>>, <<PriceRule>>),
    Config(<<SalesRule, NoField>>, <<PriceRule>>)}

-----------------------------------------------------------------------------
\* Input files.  The parser made the total of a payment the sum of its parts.

PayRow(tx, desc, sid, status, sales, fee, ref) ==
    [src |-> Payment, kind |-> "transaction", ord |-> 0, tx |-> tx, desc |-> desc, atype |-> "",
     sid |-> sid, cur |-> "AUD", status |-> status, amount |-> sales + fee,
     comp |-> ("product_sales" :> sales @@ "selling_fees" :> fee
               @@ "fulfilment_by_amazon_fees" :> 0 @@ "total" :> sales + fee),
     tok |-> ("txn_ref" :> ref), scope |-> ""]

SetRow(kind, tx, atype, desc, sid, amount, ref) ==
    [src |-> Settlement, kind |-> kind, ord |-> 0, tx |-> tx, desc |-> desc, atype |-> atype,
     sid |-> sid, cur |-> "AUD", status |-> "", amount |-> amount, comp |-> Empty,
     tok |-> ("txn_ref" :> ref), scope |-> "METADATA"]

PayRows == <<
    PayRow("Order", "", "A", "Released", 5, -1, "x"),
    PayRow("ORDER", "promo", "A", "Released", 5, -1, "x"),
    PayRow("Order", "", "A", "Deferred", 5, -1, "x"),
    PayRow("Order", "", "B", "Released", 60, 0, "x"),
    PayRow("", "", "A", "Released", 5, 0, "x"),
    PayRow("Refund", "", "A", "Released", 5, 0, "y"),
    PayRow("Order", "", "A", "Released", 60, 0, "y"),
    PayRow("Order", "", "A", "Released", -5, 0, ""),
    PayRow("Order", "", "A", "Released", 5, 0, "x-delimiter-y"),
    PayRow("Transfer", "To account ending with: 12", "A", "Released", -4, 0, "")>>

Order(desc, sid, amount, ref) == SetRow("transaction", "Order", "ItemPrice", desc, sid, amount, ref)
SetRows == <<
    Order("", "A", 5, "x"),
    SetRow("transaction", "Order", "Fee", "", "A", -1, "x"),
    Order("promo", "A", 5, "x"),
    Order("", "B", 4, "x"),
    SetRow("transaction", "Refund", "ItemPrice", "", "A", 5, "y"),
    Order("", "A", 60, "y"),
    Order("", "A", 5, "")>>

\* The files with at most two of these rows, in one order.
FilesOf(rows) ==
    {<<>>} \cup {<<rows[i]>> : i \in DOMAIN rows}
           \cup {<<rows[p[1]], rows[p[2]]>> : p \in {q \in (1..Len(rows)) \X (1..Len(rows)) : q[1] <= q[2]}}

Numbered(file) == [i \in DOMAIN file |-> [file[i] EXCEPT !.ord = i]]

\* A total that no int64 holds is misstated.
Meta(sid, total) ==
    SetRow("settlement_metadata", "", "", "", sid, IF total \in Int64 THEN total ELSE MaxInt, "")

TotalOf(file, sid) ==
    LET own(r) == r.sid = sid
        rows == SelectSeq(file, own)
    IN  FoldLeft(LAMBDA a, r : a + r.amount, 0, rows)

\* The headers agree; one file misstates the selected one, one lacks it, and one
\* has amounts whose sum fits in file order and overflows in another.
WithHeaders(file) == <<Meta("A", TotalOf(file, "A")), Meta("B", TotalOf(file, "B"))>> \o file
SettlementFiles ==
    {WithHeaders(f) : f \in FilesOf(SetRows)}
    \cup {<<Meta("A", 6), SetRows[1]>>, <<Meta("B", 4), SetRows[4]>>,
          WithHeaders(<<Order("", "A", 60, "y"),
                        SetRow("transaction", "Order", "Fee", "", "A", -60, "y"),
                        Order("promo", "A", 60, "y")>>)}

\* Only files that the parsers could have returned: the guarantee that Ingest checks.
ASSUME ContractAssumption ==
    /\ \A file \in FilesOf(PayRows) : PaymentsGuaranteed(Numbered(file))
    /\ \A file \in SettlementFiles : SettlementsGuaranteed(Numbered(file))

InputsWith(modes, configs, payments, settlements) ==
    {[mode |-> m, rules |-> c,
      rows |-> [s \in Source |-> Numbered(IF s = Payment THEN p ELSE f)]] :
        m \in modes, c \in configs, p \in payments, f \in settlements}

Modes == {StrictMode, DiagnosticMode}

\* In a diagnostic run one of the files has at most one transaction.
MCInputs ==
    {i \in InputsWith(Modes, Configs, FilesOf(PayRows), SettlementFiles) :
        i.mode = StrictMode \/ Len(i.rows[Payment]) <= 1 \/ Len(i.rows[Settlement]) <= 3}
    \cup InputsWith(Modes, FaultyConfigs, {<<r>> : r \in Range(PayRows)}, {WithHeaders(<<SetRows[1]>>)})

\* A few files that are enough to show where the code and its docs part.
FewInputs ==
    InputsWith(Modes, Configs,
               {<<PayRows[1]>>, <<PayRows[5]>>, <<PayRows[1], PayRows[4]>>, <<PayRows[1], PayRows[6]>>},
               {WithHeaders(<<SetRows[1], SetRows[2], SetRows[4]>>),
                WithHeaders(<<SetRows[1], SetRows[2], SetRows[5]>>)})
=============================================================================
