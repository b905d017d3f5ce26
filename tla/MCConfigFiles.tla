---------------------------- MODULE MCConfigFiles ----------------------------
(***************************************************************************)
(* Instances of ConfigFiles for TLC.  Files have a blank line and a record *)
(* of two lines, so that physical lines and record numbers differ.         *)
(***************************************************************************)
EXTENDS ConfigFiles, TLC

Col(n) == [name |-> n, spelling |-> 0]

Plain == << Col("transaction_type"), Col("record_ref"), Col(Positive), Col(Negative) >>
Marked == [Plain EXCEPT ![1].spelling = 1]        \* a byte order mark before the first name
Cased == [Plain EXCEPT ![3].spelling = 1]         \* To-Summary-Field-When-Positive-Amount
NoRef == [Plain EXCEPT ![2] = Col("note")]
Twice == Append(Plain, [name |-> Negative, spelling |-> 1])

Rec(k, h, pos, neg) ==
    [blank |-> FALSE, height |-> h, key |-> k, ref |-> TRUE, pos |-> Bare(pos), neg |-> Bare(neg),
     wide |-> TRUE]

\* Lines 2, 4 and 6: a record of two lines after a blank one.
Entries == << Rec("a", 1, "ship", "ship"), Blank, Rec("b", 2, "ship", "ship"), Rec("c", 1, "", "") >>

File(h, b) == [head |-> h, body |-> b]
Original == File(Plain, Entries)
Settlement == File(Plain, << Rec("s", 1, "tax", "tax") >>)

PaymentFiles ==
    { File(h, Entries) : h \in {Plain, Marked, Cased, NoRef, Twice} } \cup
    { File(Plain, b) : b \in
        { << Entries[1], Entries[3], Entries[4] >>,               \* no blank line
          [Entries EXCEPT ![3].neg = Bare("tax")],                \* another target
          [Entries EXCEPT ![1].key = "b", ![3].key = "a"],        \* other selectors
          [Entries EXCEPT ![4].wide = FALSE],
          [Entries EXCEPT ![1].neg = Bare("bogus")],
          [Entries EXCEPT ![4].ref = FALSE],                      \* routes nowhere yet
          [Entries EXCEPT ![1].pos.padded = TRUE],
          [Entries EXCEPT ![4].neg.padded = TRUE] } } \cup
    { Absent }

MCDisk ==
    { [o \in {"in", "out", "out2", "set"} |->
         CASE o = "in" -> f [] o = "set" -> Settlement [] OTHER -> g] :
      f \in PaymentFiles, g \in {Absent, Original} }

Op(line, action, old, new, key) ==
    [source |-> "payment", line |-> line, action |-> action, old |-> old, new |-> new, key |-> key]

DeleteOp == Op(4, "delete", <<"ship", "ship">>, <<"", "">>, "b")
UpdateOp == Op(6, "update", <<"", "">>, <<"tax", "tax">>, "c")
UnknownOp == Op(6, "update", <<"", "">>, <<"bogus", "">>, "c")

Patch(in, out, ops) == [op |-> "patch", in |-> in, out |-> out, source |-> "payment", ops |-> ops]
ImportOf(a, b) == [op |-> "import", from |-> <<a, b>>]

MCCommand ==
    { Patch("in", "out", << DeleteOp, UpdateOp >>),
      Patch("in", "out", << UpdateOp >>),
      Patch("in", "out", << UnknownOp >>),
      Patch("out", "out2", << DeleteOp >>),
      Patch("in", "in", << DeleteOp >>),
      Patch("in", "out", << DeleteOp, DeleteOp >>),
      Patch("in", "out", << [DeleteOp EXCEPT !.action = "rename"] >>),
      Patch("in", "out", << [DeleteOp EXCEPT !.source = "settlement"] >>),
      ImportOf("in", "set"), ImportOf("out", "set"), ImportOf("set", "out2") }

MCSymmetry == Permutations(Proc)
==============================================================================
