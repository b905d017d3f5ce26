------------------------------ MODULE MCIngest ------------------------------
(***************************************************************************)
(* Small files: five ways to begin, records of every kind the parsers tell *)
(* apart, blank lines between them, with and without a byte order mark.    *)
(***************************************************************************)
EXTENDS Ingest

MCColumns == <<"product_sales", "selling_fees", "other">>

Line(kind, height, size) ==
    [kind |-> kind, height |-> height, size |-> size, sane |-> TRUE, dup |-> FALSE, wide |-> TRUE,
     data |-> <<>>]
BlankLine == Line("blank", 1, 1)
TextLine == Line("text", 1, 2)
HeaderLine == Line("header", 1, 3)
Record(d) == [Line("record", 1, 2) EXCEPT !.data = d]
Tall(d) == [Line("record", 2, 4) EXCEPT !.data = d]

T(shows, zone) == [shows |-> shows, offset |-> zone]
Noon == T(12, 0)

Pay(sid, status, posted, release, a, b, c, total) ==
    Record([sid |-> sid, tx |-> "ORDER", status |-> status, posted |-> posted, release |-> release,
            parts |-> [k \in ToSet(MCColumns) |->
                          IF k = MCColumns[1] THEN a ELSE IF k = MCColumns[2] THEN b ELSE c],
            total |-> total])

GoodPay == <<
    Pay("A", "Released", Noon, T(30, 10), 5, -1, 0, 4),
    Pay("A", "Released", Noon, T(20, 0), 6, -1, 0, 5),
    Pay("B", "Deferred", T(60, 10), Empty, 127, 0, -127, 0),
    Tall(Pay("B", "Released", Noon, T(24, 0), 1, 1, 1, 3).data)>>

BadPay == <<
    Pay("A", "Released", Noon, Noon, 100, 100, 0, -56),
    Pay("A", "Released", Noon, Noon, 127, 1, -100, 28),
    Pay("A", "Released", Noon, Noon, 5, -1, 0, 5),
    Pay("A", "Released", Noon, Empty, 5, -1, 0, 4),
    Pay("A", "Deferred", Empty, Noon, 5, -1, 0, 4),
    Pay("A", "Released", Noon, Bad, 5, -1, 0, 4),
    Pay("A", "Pending", Noon, Noon, 5, -1, 0, 4),
    Pay("A", "Released", Noon, Noon, 5, Empty, 0, 5),
    [Pay("A", "Released", Noon, Noon, 5, -1, 0, 4) EXCEPT !.wide = FALSE],
    [Pay("A", "Released", Noon, Noon, 5, -1, 0, 4) EXCEPT !.sane = FALSE],
    TextLine, HeaderLine>>

Set(sid, tx, cur, amount, header, time, date) ==
    Record([sid |-> sid, tx |-> tx, cur |-> cur, amount |-> amount, header |-> header,
            time |-> time, date |-> date])

GoodSet == <<
    Set("A", "", "AUD", Empty, 5, Empty, Empty),
    Set("A", "", "NZD", Empty, 6, Empty, Empty),
    Set("B", "", "NZD", Empty, 6, Empty, T(24, 0)),
    Set("A", "ORDER", "", 5, Empty, T(30, 0), T(24, 0)),
    Set("A", "ORDER", "AUD", 5, Empty, Empty, T(24, 0)),
    Tall(Set("B", "ORDER", "NZD", 6, Empty, Empty, T(48, 0)).data)>>

BadSet == <<
    Set("A", "", "", Empty, 5, Empty, Empty),
    Set("A", "", "AUD", 5, 5, Empty, Empty),
    Set("A", "", "AUD", Empty, Bad, Empty, Empty),
    Set("A", "", "AUD", Empty, Empty, Empty, Empty),
    Set("A", "ORDER", "AUD", Empty, Empty, Empty, T(24, 0)),
    Set("A", "ORDER", "AUD", Bad, Empty, Empty, T(24, 0)),
    Set("A", "ORDER", "AUD", 5, Empty, T(54, 0), T(24, 0)),
    Set("A", "ORDER", "AUD", 5, Empty, T(24, 0), Empty),
    Set("", "ORDER", "AUD", 5, Empty, Empty, T(24, 0))>>

Preambles == {
    <<>>, <<HeaderLine>>, <<BlankLine, TextLine, HeaderLine>>, <<TextLine, TextLine, HeaderLine>>,
    <<[HeaderLine EXCEPT !.dup = TRUE]>>, <<[TextLine EXCEPT !.sane = FALSE], HeaderLine>>}

File(source, bom, entries) == [source |-> source, bom |-> bom, entries |-> entries]

\* Bodies of up to two records of any kind and of up to four good ones;
\* with blank lines, of which two make a record too long.
Bodies(good, bad) ==
    LET g == Range(good) IN
    {<<>>} \cup {<<x>> : x \in g \cup Range(bad)} \cup {<<x, y>> : x, y \in g}
           \cup {<<good[1], x>> : x \in Range(bad)} \cup {<<x, y, z>> : x, y, z \in g}
           \cup {<<x, good[2], good[3], y>> : x, y \in g}
           \cup {<<x, BlankLine, y, BlankLine>> : x, y \in g}
           \cup {<<x, BlankLine, BlankLine, y>> : x, y \in g}

MCFiles ==
    {File("payment", bom, pre \o body) :
        bom \in BOOLEAN, pre \in Preambles, body \in Bodies(GoodPay, BadPay)}
    \cup {File("settlement", bom, pre \o body) :
        bom \in BOOLEAN, pre \in Preambles, body \in Bodies(GoodSet, BadSet)}

MCReplacements ==
    {File("payment", TRUE, <<HeaderLine, GoodPay[2]>>),
     File("payment", FALSE, <<HeaderLine, GoodPay[1], BadPay[1]>>),
     File("settlement", FALSE, <<HeaderLine, GoodSet[1], GoodSet[4]>>),
     File("settlement", TRUE, <<HeaderLine, GoodSet[3]>>)}
=============================================================================
