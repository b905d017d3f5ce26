------------------------------- MODULE Ingest -------------------------------
(***************************************************************************)
(* internal/ingest: ParsePayments and ParseSettlements read one file,      *)
(* record by record, while its path may be given to another file.          *)
(*                                                                         *)
(* A file is the sequence of its entries: blank lines, other text, the     *)
(* header and records, each with its physical lines and bytes.  A record   *)
(* carries the values of the columns the parser looks at; an amount that   *)
(* money.ParseCents refuses and a text that is no date are Bad, an empty   *)
(* text is Empty.  A timestamp is the hour its text shows and the offset   *)
(* it names.                                                               *)
(***************************************************************************)
EXTENDS Money, SequencesExt, ParserContract

CONSTANTS
    Files,        \* the files that may be parsed
    Replacements, \* the ones another process may put at the path
    Bad,          \* a text that does not parse
    Empty,        \* an empty text
    Columns,      \* the component columns of a payment, in the order they are added
    MaxBytes,     \* maxInputBytes
    MaxRecord,    \* maxRecordBytes
    MaxRows,      \* maxInputRows
    MaxPreamble,  \* lines before the header of a payments file
    MaxReplaced   \* bound on the times the path is given to another file

\* What csv.Reader, money.ParseCents and the date parsers make of a text.
Amount == Int64 \cup {Bad, Empty}
Time == [shows : Int, offset : Int]
Date == Time \cup {Bad, Empty}

ASSUME TextAssumption == ({Bad, Empty} \cap (Int \cup Time) = {}) /\ Bad # Empty

\* validatePaymentComponents names ten different columns, and not the total.
ASSUME ColumnAssumption ==
    /\ Columns \in Seq(Range(Columns)) /\ "total" \notin Range(Columns)
    /\ \A i, j \in DOMAIN Columns : Columns[i] = Columns[j] => i = j

ASSUME FilesAssumption ==
    /\ Replacements \subseteq Files
    /\ \A f \in Files :
          /\ DOMAIN f = {"source", "bom", "entries"} /\ f.entries \in Seq(Range(f.entries))
          /\ \A i \in DOMAIN f.entries :
                LET e == f.entries[i]
                    d == e.data
                IN  /\ e.height \in Nat \ {0} /\ e.size \in Nat
                    /\ e.kind = "record" /\ f.source = "payment" =>
                          /\ {d.posted, d.release} \subseteq Date /\ d.total \in Amount
                          /\ d.parts \in [Range(Columns) -> Amount]
                    /\ e.kind = "record" /\ f.source # "payment" =>
                          {d.time, d.date} \subseteq Date /\ {d.amount, d.header} \subseteq Amount

ASSUME LimitAssumption == {MaxBytes, MaxRecord, MaxRows, MaxPreamble, MaxReplaced} \subseteq Nat

\* A file says what it is: it is only ever parsed as that.
IsPayments(f) == f.source = "payment"

Preamble(f) == IF IsPayments(f) THEN MaxPreamble ELSE 0

VARIABLES
    atPath,    \* the file at the path
    replaced,  \* how often it was replaced
    fd,        \* the file the parser has open
    hashed,    \* the file whose SHA-256 it returns
    pc,        \* where the parser is
    at,        \* the next entry to read
    line,      \* the physical line and ...
    offset,    \* ... csv.Reader.InputOffset before it, plus three for a byte order mark
    tried,     \* header candidates read
    rows       \* the rows so far

vars == <<atPath, replaced, fd, hashed, pc, at, line, offset, tried, rows>>
cursor == <<at, line, offset>>
environment == <<atPath, replaced>>

Init ==
    /\ atPath \in Files
    /\ replaced = 0
    /\ fd = atPath /\ hashed = atPath
    /\ pc = "open"
    /\ at = 1 /\ line = 1 /\ offset = 0 /\ tried = 0
    /\ rows = <<>>

Fail == pc' = "failed"

-----------------------------------------------------------------------------
\* csv.Reader: blank lines are skipped, a record may span lines.

\* The sum of the first i of a sequence of numbers.
TotalTo(w, i) ==
    LET total[k \in 0..Len(w)] == IF k = 0 THEN 0 ELSE total[k - 1] + w[k]
    IN  total[i]

End(f) == Len(f.entries)
Blank(f, i) == f.entries[i].kind = "blank"

\* The physical lines, the bytes and the entries that are not blank among the
\* first i entries.
LinesTo(f, i) == TotalTo([k \in 1..End(f) |-> f.entries[k].height], i)
BytesTo(f, i) == TotalTo([k \in 1..End(f) |-> f.entries[k].size], i)
FilledTo(f, i) == TotalTo([k \in 1..End(f) |-> IF Blank(f, k) THEN 0 ELSE 1], i)

Mark(f) == IF f.bom THEN 3 ELSE 0

\* The entry that the next Read returns; one past the end at EOF.
NextEntry == Min({ i \in at..End(fd) : ~Blank(fd, i) } \cup {End(fd) + 1})

AtEOF == NextEntry > End(fd)

Entry == fd.entries[NextEntry]

\* The bytes that Read consumes: the entry and the blank lines before it.
Consumed == BytesTo(fd, NextEntry) - BytesTo(fd, at - 1)

Advance ==
    /\ at' = NextEntry + 1
    /\ line' = line + (LinesTo(fd, NextEntry) - LinesTo(fd, at - 1))
    /\ offset' = offset + Consumed

\* validateRecord, and csv's own errors; the blank lines count as bytes of the record.
Sane == Entry.sane /\ Consumed <= MaxRecord

\* lineRange: where the record starts and ends.
LineStart == line + (LinesTo(fd, NextEntry - 1) - LinesTo(fd, at - 1))
LineEnd == LineStart + Entry.height - 1

-----------------------------------------------------------------------------
\* Mutant: the path is opened a second time to be parsed.
Descriptor_Reopened == atPath

\* The descriptor that was hashed is rewound and parsed.
Descriptor == hashed

\* open: a size limit, and the hash of the whole file.
Open ==
    /\ pc = "open"
    /\ hashed' = atPath
    /\ fd' = atPath
    /\ IF Mark(atPath) + BytesTo(atPath, End(atPath)) > MaxBytes
       THEN Fail
       ELSE pc' = "clean"
    /\ UNCHANGED <<environment, cursor, tried, rows>>

\* cleanReader: skip a byte order mark.
Clean ==
    /\ pc = "clean"
    /\ fd' = Descriptor
    /\ offset' = Mark(fd')
    /\ pc' = "header"
    /\ UNCHANGED <<environment, hashed, at, line, tried, rows>>

\* readHeader: one candidate; the required columns must appear within the
\* preamble, and no column twice.
HeaderCandidate ==
    /\ pc = "header"
    /\ IF AtEOF \/ tried > Preamble(fd)
       THEN Fail /\ UNCHANGED <<cursor, tried>>
       ELSE /\ Advance
            /\ tried' = tried + 1
            /\ IF ~Sane \/ (Entry.kind = "header" /\ Entry.dup)
               THEN Fail
               ELSE pc' = (IF Entry.kind = "header" THEN "record" ELSE pc)
    /\ UNCHANGED <<environment, fd, hashed, rows>>

-----------------------------------------------------------------------------
\* Dates.

\* parsePaymentDate, parseSettlementDate: an instant, in hours.
Instant(d) == d.shows - d.offset

\* Mutant: the calendar day as written, in the zone of the text.
Day_Local(d) == d.shows \div 24

\* t.UTC().Format("2006-01-02").
Day(d) == Instant(d) \div 24

-----------------------------------------------------------------------------
\* Payments.

\* Mutant: unchecked addition.
SumOf_Wrapping(d) ==
    LET sum[k \in 0..Len(Columns)] == IF k = 0 THEN 0 ELSE Wrap(sum[k - 1] + d.parts[Columns[k]])
    IN  sum[Len(Columns)]

\* validatePaymentComponents adds the columns in order with overflow checks.
SumOf(d) ==
    LET sum[k \in 0..Len(Columns)] ==
            IF k = 0 THEN 0
            ELSE IF sum[k - 1] = Overflow THEN Overflow
            ELSE Add(sum[k - 1], d.parts[Columns[k]])
    IN  sum[Len(Columns)]

PaymentOK(d) ==
    /\ d.posted # Bad /\ d.release # Bad
    /\ ({d.total} \cup Range(d.parts)) \cap {Bad, Empty} = {}
    /\ SumOf(d) = d.total
    /\ d.posted # Empty
    /\ d.status \in {"Released", "Deferred"}
    /\ d.status = "Released" => d.release # Empty

\* A row, which gets its place in the file when it is read.
PaymentRow(d) ==
    [ord |-> 0, lines |-> <<0, 0>>, bytes |-> <<0, 0>>,
     kind |-> "transaction", sid |-> d.sid, cur |-> "AUD", status |-> d.status,
     amount |-> d.total,
     comp |-> [c \in Range(Columns) \cup {"total"} |-> IF c = "total" THEN d.total ELSE d.parts[c]],
     keydate |-> Day(IF d.status = "Released" THEN d.release ELSE d.posted),
     event |-> IF d.tx = "TRANSFER" THEN "BANK_TRANSFER" ELSE "OPERATING"]

-----------------------------------------------------------------------------
\* Settlements.

IsMetadata(d) == d.tx = "" /\ d.header # Empty

SettlementOK(d) ==
    /\ d.tx # "" \/ IsMetadata(d)
    /\ (d.amount = Empty) = IsMetadata(d)
    /\ d.amount # Bad /\ d.time # Bad /\ d.date # Bad
    /\ d.time # Empty /\ d.date # Empty => Day(d.time) = Day(d.date)
    /\ d.sid # ""
    /\ IF IsMetadata(d) THEN d.cur # "" /\ d.header # Bad ELSE d.date # Empty

SettlementRow(d) ==
    [ord |-> 0, lines |-> <<0, 0>>, bytes |-> <<0, 0>>,
     kind |-> IF IsMetadata(d) THEN "settlement_metadata" ELSE "transaction",
     sid |-> d.sid, cur |-> d.cur, status |-> "",
     amount |-> IF IsMetadata(d) THEN d.header ELSE d.amount,
     comp |-> <<>>,
     keydate |-> IF IsMetadata(d) THEN Empty ELSE Day(d.date),
     event |-> IF IsMetadata(d) THEN "CONTROL" ELSE "OPERATING"]

-----------------------------------------------------------------------------
RecordOK(f, e) ==
    /\ e.kind = "record" /\ e.wide
    /\ IF IsPayments(f) THEN PaymentOK(e.data) ELSE SettlementOK(e.data)

RowOf(f, e) == IF IsPayments(f) THEN PaymentRow(e.data) ELSE SettlementRow(e.data)

\* Mutant: the offsets of csv.Reader, which never saw the byte order mark.
Span_NoMark == <<offset - Mark(fd), offset' - Mark(fd)>>

\* byteBase + InputOffset before and after Read.
Span == <<offset, offset'>>

\* ordinal > maxInputRows.
AtLimit == Len(rows) + 1 > MaxRows

\* One turn of the loop: the row limit comes before the end of the file.
ReadRecord ==
    /\ pc = "record"
    /\ \/ /\ AtLimit
          /\ Fail
          /\ UNCHANGED <<cursor, rows>>
       \/ /\ ~AtLimit /\ AtEOF
          /\ pc' = "post"
          /\ UNCHANGED <<cursor, rows>>
       \/ /\ ~AtLimit /\ ~AtEOF
          /\ Advance
          /\ IF Sane /\ RecordOK(fd, Entry)
             THEN /\ rows' = Append(rows, [RowOf(fd, Entry) EXCEPT !.ord = Len(rows) + 1,
                                    !.lines = <<LineStart, LineEnd>>, !.bytes = Span])
                  /\ UNCHANGED pc
             ELSE Fail /\ UNCHANGED rows
    /\ UNCHANGED <<environment, fd, hashed, tried>>

-----------------------------------------------------------------------------
\* The second pass over a settlements file.

Metadata(rs) == { i \in DOMAIN rs : rs[i].kind = "settlement_metadata" }

\* Mutant: the last metadata row of a settlement wins.
PostOK_LastWins(rs) ==
    \A i \in DOMAIN rs : \E m \in Metadata(rs) :
        rs[m].sid = rs[i].sid /\ rs[i].cur \in {"", rs[m].cur}

\* No duplicate metadata, none missing, no conflicting currency.
PostOK(rs) ==
    /\ \A i, j \in Metadata(rs) : rs[i].sid = rs[j].sid => i = j
    /\ \A i \in DOMAIN rs : \E m \in Metadata(rs) :
          rs[m].sid = rs[i].sid /\ rs[i].cur \in {"", rs[m].cur}

\* A transaction takes the currency of its metadata row.
WithCurrency(rs) ==
    [i \in DOMAIN rs |->
        [rs[i] EXCEPT !.cur = rs[CHOOSE m \in Metadata(rs) : rs[m].sid = rs[i].sid].cur]]

PostPass ==
    /\ pc = "post"
    /\ IF IsPayments(fd) \/ PostOK(rows)
       THEN /\ pc' = "ok"
            /\ rows' = IF IsPayments(fd) THEN rows ELSE WithCurrency(rows)
       ELSE Fail /\ UNCHANGED rows
    /\ UNCHANGED <<environment, fd, hashed, cursor, tried>>

\* Another process renames a file to the path.
Replace ==
    /\ replaced < MaxReplaced
    /\ replaced' = replaced + 1
    /\ atPath' \in { f \in Replacements : f.source = atPath.source }
    /\ UNCHANGED <<fd, hashed, pc, cursor, tried, rows>>

Over == pc \in {"ok", "failed"} /\ UNCHANGED vars

Next == Open \/ Clean \/ HeaderCandidate \/ ReadRecord \/ PostPass \/ Replace \/ Over

Spec == Init /\ [][Next]_vars

-----------------------------------------------------------------------------
\* What an accepted file is, without the order in which it is read.

\* The first header line, 0 if there is none.
HeaderAt(f) == Max({0} \cup { i \in 1..End(f) :
    /\ f.entries[i].kind = "header"
    /\ \A j \in 1..(i - 1) : f.entries[j].kind # "header" })

\* The entries that must be records, and which row each of them becomes.
Body(f) == { i \in (HeaderAt(f) + 1)..End(f) : ~Blank(f, i) }
Ordinal(f, i) == FilledTo(f, i) - FilledTo(f, HeaderAt(f))

\* Bytes of an entry and of the blank lines right before it.
BytesAt(f, i) ==
    BytesTo(f, i) - BytesTo(f, Max({0} \cup { j \in 1..(i - 1) : ~Blank(f, j) }))

Tame(f) ==
    \A i \in 1..End(f) : ~Blank(f, i) => f.entries[i].sane /\ BytesAt(f, i) <= MaxRecord

\* The components add up to the total, and no running sum leaves the word.
AddsUp(d) ==
    LET parts == [k \in DOMAIN Columns |-> d.parts[Columns[k]]]
    IN  /\ TotalTo(parts, Len(Columns)) = d.total
        /\ \A k \in DOMAIN Columns : TotalTo(parts, k) \in Int64

Numeric(d) == {d.total} \cup Range(d.parts) \subseteq Int64

\* A record of a payments file, and of a settlements file: a header amount and its
\* currency on a metadata line, an amount and a date on any other.
PaymentRecord(d) ==
    /\ Numeric(d) /\ AddsUp(d)
    /\ d.posted \notin {Bad, Empty} /\ d.release # Bad
    /\ d.status = "Deferred" \/ (d.status = "Released" /\ d.release # Empty)

SettlementRecord(d) ==
    /\ d.sid # "" /\ d.time # Bad /\ d.date # Bad
    /\ {d.time, d.date} \subseteq Time => Instant(d.time) \div 24 = Instant(d.date) \div 24
    /\ \/ d.tx = "" /\ d.header \in Int64 /\ d.amount = Empty /\ d.cur # ""
       \/ d.tx # "" /\ d.amount \in Int64 /\ d.date \in Time

Clerical(f, e) ==
    /\ e.kind = "record" /\ e.wide
    /\ IF IsPayments(f) THEN PaymentRecord(e.data) ELSE SettlementRecord(e.data)

\* Every record of a settlements file has one metadata line, of its settlement and of
\* its currency.
Settled(f) ==
    \A i \in Body(f) : \E m \in Body(f) :
        LET d == f.entries[i].data
            control == f.entries[m].data
        IN  /\ control.tx = "" /\ control.sid = d.sid /\ d.cur \in {"", control.cur}
            /\ \A k \in Body(f) :
                  f.entries[k].data.tx = "" /\ f.entries[k].data.sid = d.sid => k = m

\* What the parsers' limits and error messages say a file must be, without the order of
\* the checks; "exceeds %d-row limit" (parser.go:159, 256) refuses more than MaxRows.
WellFormed(f) ==
    /\ Mark(f) + BytesTo(f, End(f)) <= MaxBytes
    /\ Tame(f)
    /\ HeaderAt(f) > 0 /\ ~f.entries[HeaderAt(f)].dup
    /\ FilledTo(f, HeaderAt(f) - 1) <= Preamble(f)
    /\ Cardinality(Body(f)) <= MaxRows
    /\ \A i \in Body(f) : Clerical(f, f.entries[i])
    /\ IsPayments(f) \/ Settled(f)

\* A settlements file in another currency than AUD: "Unsupported currency or precision
\* is rejected rather than inferred" (README.md:103).
Foreign(f) == ~IsPayments(f) /\ \E i \in Body(f) : f.entries[i].data.cur \notin {"", "AUD"}

Documented(f) == WellFormed(f) /\ ~Foreign(f)

\* The two places where the code departs from that.  The loops test the limit before
\* they look for the end of the file, so exactly MaxRows records are too many; and a
\* metadata line only needs some currency (parser.go:325).
RefusedAtLimit(f) == Documented(f) /\ Cardinality(Body(f)) = MaxRows
AcceptedForeign(f) == WellFormed(f) /\ Foreign(f) /\ Cardinality(Body(f)) < MaxRows

\* The parsers accept exactly the documented files - a header within the preamble, every
\* record sane, complete and adding up in exact arithmetic, one metadata line for each
\* settlement - except for those two deviations, whatever happens at the path: no other
\* check of readHeader, validateRecord, the loops or the second pass is missing, too
\* strict or dependent on the order of the records.
AcceptedExactly ==
    pc \in {"ok", "failed"} =>
        (pc = "ok" <=> (Documented(fd) /\ ~RefusedAtLimit(fd)) \/ AcceptedForeign(fd))

\* The returned rows are those of the file whose SHA-256 is returned with them, in
\* its order, even if the path is given to another file meanwhile (open hashes and
\* rewinds one descriptor).
RowsOfHashedFile ==
    pc = "ok" =>
        /\ Len(rows) = Cardinality(Body(hashed))
        /\ \A i \in Body(hashed) :
              LET d == hashed.entries[i].data
                  row == rows[Ordinal(hashed, i)]
              IN  /\ Ordinal(hashed, i) \in DOMAIN rows
                  /\ row.sid = d.sid
                  /\ row.amount = IF IsPayments(hashed) THEN d.total
                                  ELSE IF IsMetadata(d) THEN d.header ELSE d.amount

\* The recorded spans tile the file: the first one starts after the header, each
\* one where the previous ended, with the last byte and on the last physical line of
\* its own record, and lines never overlap ("row ordinal, physical line and byte span", README.md:91).
SpansTile ==
    /\ \A i \in DOMAIN rows :
          /\ rows[i].bytes[1] = IF i = 1 THEN Mark(fd) + BytesTo(fd, HeaderAt(fd))
                                ELSE rows[i - 1].bytes[2]
          /\ rows[i].lines[1] <= rows[i].lines[2]
          /\ i > 1 => rows[i - 1].lines[2] < rows[i].lines[1]
    /\ \A i \in Body(fd) : Ordinal(fd, i) \in DOMAIN rows =>
          /\ rows[Ordinal(fd, i)].bytes[2] = Mark(fd) + BytesTo(fd, i)
          /\ rows[Ordinal(fd, i)].lines[2] = LinesTo(fd, i)

\* The parsers keep the contract the reconciliation relies on.
ContractHolds ==
    pc = "ok" => IF IsPayments(hashed) THEN PaymentsGuaranteed(rows) ELSE SettlementsGuaranteed(rows)

\* The key date of a released payment is the UTC day of its release: two rows with
\* the same instant have the same day whatever offsets their texts show, and days
\* never go against time (README.md:102).
KeyDatesFollowTime ==
    pc = "ok" /\ IsPayments(hashed) =>
        \A i, j \in Body(hashed) :
            LET d == hashed.entries[i].data  e == hashed.entries[j].data
                day == rows[Ordinal(hashed, i)].keydate  other == rows[Ordinal(hashed, j)].keydate
            IN  d.status = "Released" /\ e.status = "Released" =>
                    /\ Instant(d.release) <= Instant(e.release) => day <= other
                    /\ Instant(d.release) - Instant(e.release) >= 24 => day > other
=============================================================================
