----------------------------- MODULE ConfigFiles -----------------------------
(***************************************************************************)
(* Mapping configuration files: `recon patch-config` (mapping.LoadPatch,   *)
(* ApplyPatch) rewrites one into another, and `recon import-config` or     *)
(* `recon run` reads one (mapping.LoadConfig, store.FileInfoForPath) while *)
(* other processes replace it.                                             *)
(*                                                                         *)
(* A file is its header and the sequence of CSV entries after it: blank    *)
(* lines, which the reader skips, and records, which may span several      *)
(* physical lines.  A rule is known by the physical line it starts on.     *)
(* LoadConfig normalises header names and trims every cell; ApplyPatch     *)
(* looks for exact names, compares the cells as they are, and copies both. *)
(***************************************************************************)
EXTENDS Naturals, FiniteSets, Sequences, SequencesExt

CONSTANTS
    Proc,       \* processes, one command each
    Path,       \* file names
    Key,        \* selector columns of a rule (type, description, field, ...), trimmed
    Target,     \* texts of the two summary-field columns, trimmed
    Known,      \* the texts that KnownSummaryField accepts
    ColumnName, \* header names after normalize.Header
    Absent,     \* no file, nothing read
    Disk,       \* initial contents of the paths
    Command,    \* command lines
    MaxHeight,  \* bound on the physical lines of a record
    MaxFaults   \* bound on dead processes

\* A header name without its surrounding blanks: what normalize.Header makes of it
\* (byte order mark, case, spaces and dashes), and how it is spelled; spelling 0 is
\* the normalised name itself.
Column == [name : ColumnName, spelling : Nat]

\* A cell: its text, and whether blanks surround it.
Cell == [text : Target, padded : BOOLEAN]

Bare(t) == [text |-> t, padded |-> FALSE]

Blank == [blank |-> TRUE, height |-> 1]

\* `ref`: record_ref is not blank; `wide`: the record has the header's width.
Record == [blank : {FALSE}, height : 1..MaxHeight, key : Key, ref : BOOLEAN,
           pos : Cell, neg : Cell, wide : BOOLEAN]

Body == Seq(Record \cup {Blank})

Content == [head : Seq(Column), body : Body]

Source == {"payment", "settlement"}

\* A row of the patch file, its cells trimmed (LoadPatch).  `key` is not in it: it is
\* the selector that apply_mapping_fixes adds to the guard of the same correction.
Operation == [source : Source \cup {"other"}, line : Nat, action : {"update", "delete", "rename"},
              old : Target \X Target, new : Target \X Target, key : Key]

ASSUME CommandAssumption ==
    \A c \in Command :
        \/ c.op = "patch" /\ {c.in, c.out} \subseteq Path /\ c.source \in Source
             /\ c.ops \in Seq(Operation)
        \/ c.op = "import" /\ c.from \in [1..2 -> Path]

ASSUME TextAssumption == "" \in Target /\ Known \subseteq Target \ {""} /\ {MaxHeight, MaxFaults} \subseteq Nat

ASSUME DiskAssumption ==
    /\ Absent \notin Content
    /\ \A d \in Disk : DOMAIN d = Path /\ \A o \in Path : d[o] # Absent => d[o] \in Content

-----------------------------------------------------------------------------
\* LoadConfig.

Positive == "to_summary_field_when_positive_amount"
Negative == "to_summary_field_when_negative_amount"
Required == {"transaction_type", "record_ref", Positive, Negative}

\* After normalisation no name is blank, none comes twice and none is missing.
LoadsHead(h) ==
    /\ \A i, j \in 1..Len(h) : h[i].name # "" /\ (h[i].name = h[j].name => i = j)
    /\ \A n \in Required : \E i \in 1..Len(h) : h[i].name = n

\* csv.Reader.FieldPos: where entry i of body b starts, the line after the entries
\* before it; the header is line 1.
LineAt(b, i) ==
    LET after[k \in 0..Len(b)] == IF k = 0 THEN 2 ELSE after[k - 1] + b[k].height
    IN  after[i - 1]

Records(b) == { i \in 1..Len(b) : ~b[i].blank }

\* The rule of record i: every cell through strings.TrimSpace.
RuleAt(b, i) ==
    [line |-> LineAt(b, i), key |-> b[i].key, ref |-> b[i].ref,
     pos |-> b[i].pos.text, neg |-> b[i].neg.text]

Rules(b) == { RuleAt(b, i) : i \in Records(b) }

\* A rule that routes nowhere, or to known summary fields and with a record_ref.
Acceptable(r) ==
    /\ (r.pos # "" \/ r.neg # "") => r.ref
    /\ {r.pos, r.neg} \subseteq Known \cup {""}

\* LoadConfig returns rules, and no error.
Loads(f) ==
    /\ f # Absent
    /\ LoadsHead(f.head)
    /\ \A i \in Records(f.body) : f.body[i].wide /\ Acceptable(RuleAt(f.body, i))

-----------------------------------------------------------------------------
\* LoadPatch and ApplyPatch.

Valid(op) == op.source \in Source /\ op.line >= 2 /\ op.action \in {"update", "delete"}

\* LoadPatch returns operations, and no error.
LoadsPatch(ops) ==
    /\ \A i \in 1..Len(ops) : Valid(ops[i])
    /\ \A i, j \in 1..Len(ops) :
          ops[i].source = ops[j].source /\ ops[i].line = ops[j].line => i = j

\* The operations of one source (pby).
For(source, ops) == { op \in ToSet(ops) : op.source = source }

At(line, mine) == { op \in mine : op.line = line }

\* Names are trimmed and not normalised: none comes twice, and the two target
\* columns are there under their exact names.
PatchesHead(h) ==
    /\ \A i, j \in 1..Len(h) : h[i] = h[j] => i = j
    /\ \A n \in {Positive, Negative} : \E i \in 1..Len(h) : h[i] = [name |-> n, spelling |-> 0]

\* The cells as they are in the file against the trimmed texts of the patch.
GuardHolds(e, op) == e.pos = Bare(op.old[1]) /\ e.neg = Bare(op.old[2])

\* ApplyPatch reaches the end of the input without an error: there is something to
\* do, every record is well formed, every guard holds and every line was met.
Applies(f, mine) ==
    /\ f # Absent
    /\ PatchesHead(f.head)
    /\ mine # {}
    /\ \A i \in Records(f.body) :
          /\ f.body[i].wide
          /\ \A op \in At(LineAt(f.body, i), mine) : GuardHolds(f.body[i], op)
    /\ \A op \in mine : \E i \in Records(f.body) : LineAt(f.body, i) = op.line

\* Mutant: an update leaves the negative target alone.
Edited_PositiveOnly(e, op) == [e EXCEPT !.pos = Bare(op.new[1])]

Edited(e, op) == [e EXCEPT !.pos = Bare(op.new[1]), !.neg = Bare(op.new[2])]

\* Mutant: a deleted record is kept without its targets.
Output_Cleared(b, i, mine) ==
    IF b[i].blank THEN <<>>
    ELSE IF At(LineAt(b, i), mine) = {} THEN << b[i] >>
    ELSE LET op == CHOOSE op \in At(LineAt(b, i), mine) : TRUE IN << Edited(b[i], op) >>

\* What becomes of entry i: blank lines are not written.
Output(b, i, mine) ==
    IF b[i].blank THEN <<>>
    ELSE IF At(LineAt(b, i), mine) = {} THEN << b[i] >>
    ELSE LET op == CHOOSE op \in At(LineAt(b, i), mine) : TRUE IN
         IF op.action = "delete" THEN <<>> ELSE << Edited(b[i], op) >>

\* The file ApplyPatch writes: the header as it was, and the rows.
Rows(b, mine) == FlattenSeq([i \in 1..Len(b) |-> Output(b, i, mine)])

Patched(f, mine) == [head |-> f.head, body |-> Rows(f.body, mine)]

-----------------------------------------------------------------------------
VARIABLES
    disk,    \* the content of each path
    start,   \* the content each path had at the start
    pc,      \* per process: where it is
    cmd,     \* per process: its command line
    input,   \* per patch: the file it read
    temp,    \* per patch: its temporary file
    rules,   \* per import: the rules of each of its two files
    info,    \* per import: the identity of each of its two files
    ever,    \* every content a path has had
    faults   \* faults spent so far

vars == <<disk, start, pc, cmd, input, temp, rules, info, ever, faults>>

Over == {"ok", "failed", "dead"}

Init ==
    /\ disk \in Disk
    /\ start = disk
    /\ cmd \in [Proc -> Command]
    /\ pc = [p \in Proc |-> IF cmd[p].op = "patch" THEN "patch" ELSE "load1"]
    /\ input = [p \in Proc |-> Absent]
    /\ temp = [p \in Proc |-> Absent]
    /\ rules = [p \in Proc |-> [i \in 1..2 |-> Absent]]
    /\ info = [p \in Proc |-> [i \in 1..2 |-> Absent]]
    /\ ever = [o \in Path |-> {disk[o]}]
    /\ faults = 0

Goto(p, label) == pc' = [pc EXCEPT ![p] = label]

-----------------------------------------------------------------------------
\* patch-config.

\* LoadPatch, and the checks of ApplyPatch that need no file.
ReadPatch(p) ==
    /\ pc[p] = "patch"
    /\ Goto(p, IF LoadsPatch(cmd[p].ops) /\ cmd[p].in # cmd[p].out THEN "read" ELSE "failed")
    /\ UNCHANGED <<disk, start, cmd, input, temp, rules, info, ever, faults>>

Mine(p) == For(cmd[p].source, cmd[p].ops)

\* Open the input and read it to the end; a rename by another process does not
\* touch a file that is open.
ReadInput(p) ==
    /\ pc[p] = "read"
    /\ input' = [input EXCEPT ![p] = disk[cmd[p].in]]
    /\ Goto(p, IF Applies(disk[cmd[p].in], Mine(p)) THEN "write" ELSE "failed")
    /\ UNCHANGED <<disk, start, cmd, temp, rules, info, ever, faults>>

\* Mutant: the rows are written straight to the output; the last one is still in
\* the buffer of the writer.
WriteTemp_InPlace(p) ==
    /\ pc[p] = "write"
    /\ temp' = [temp EXCEPT ![p] = Patched(input[p], Mine(p))]
    /\ disk' = [disk EXCEPT ![cmd[p].out] =
                    [temp'[p] EXCEPT !.body = SubSeq(@, 1, Len(@) - 1)]]
    /\ ever' = [ever EXCEPT ![cmd[p].out] = @ \cup {disk'[cmd[p].out]}]
    /\ Goto(p, "rename")
    /\ UNCHANGED <<start, cmd, input, rules, info, faults>>

\* os.CreateTemp in the output's directory, all rows, Sync, Close.
WriteTemp(p) ==
    /\ pc[p] = "write"
    /\ temp' = [temp EXCEPT ![p] = Patched(input[p], Mine(p))]
    /\ Goto(p, "rename")
    /\ UNCHANGED <<disk, start, cmd, input, rules, info, ever, faults>>

\* os.Rename replaces the output.
Rename(p) ==
    /\ pc[p] = "rename"
    /\ disk' = [disk EXCEPT ![cmd[p].out] = temp[p]]
    /\ ever' = [ever EXCEPT ![cmd[p].out] = @ \cup {temp[p]}]
    /\ temp' = [temp EXCEPT ![p] = Absent]
    /\ Goto(p, "ok")
    /\ UNCHANGED <<start, cmd, input, rules, info, faults>>

-----------------------------------------------------------------------------
\* import-config, and `recon run` with configuration files: both files are
\* parsed, then both are opened again to be hashed.

LoadLabel == <<"load1", "load2">>
InfoLabel == <<"info1", "info2">>

LoadConfig(p, i) ==
    /\ pc[p] = LoadLabel[i]
    /\ LET f == disk[cmd[p].from[i]] IN
       IF Loads(f)
       THEN /\ rules' = [rules EXCEPT ![p][i] = Rules(f.body)]
            /\ Goto(p, IF i = 1 THEN "load2" ELSE "info1")
       ELSE UNCHANGED rules /\ Goto(p, "failed")
    /\ UNCHANGED <<disk, start, cmd, input, temp, info, ever, faults>>

\* FileInfoForPath: the SHA-256 of the bytes, here the content itself.
FileInfo(p, i) ==
    /\ pc[p] = InfoLabel[i]
    /\ LET f == disk[cmd[p].from[i]] IN
       IF f # Absent
       THEN /\ info' = [info EXCEPT ![p][i] = f]
            /\ Goto(p, IF i = 1 THEN "info2" ELSE "ok")
       ELSE UNCHANGED info /\ Goto(p, "failed")
    /\ UNCHANGED <<disk, start, cmd, input, temp, rules, ever, faults>>

-----------------------------------------------------------------------------
\* A process dies; a temporary file it leaves behind has a name of its own.
Die(p) ==
    /\ pc[p] \notin Over
    /\ faults < MaxFaults
    /\ faults' = faults + 1
    /\ Goto(p, "dead")
    /\ UNCHANGED <<disk, start, cmd, input, temp, rules, info, ever>>

Step(p) ==
    \/ ReadPatch(p) \/ ReadInput(p) \/ WriteTemp(p) \/ Rename(p)
    \/ \E i \in 1..2 : LoadConfig(p, i) \/ FileInfo(p, i)

Finished == (\A p \in Proc : pc[p] \in Over) /\ UNCHANGED vars

Next == (\E p \in Proc : Step(p) \/ Die(p)) \/ Finished

Spec == Init /\ [][Next]_vars

-----------------------------------------------------------------------------
\* Properties.

Importers == { p \in Proc : cmd[p].op = "import" }
Patchers == { p \in Proc : cmd[p].op = "patch" }

\* Whatever dies and whoever else writes, a path holds what it held at the start or
\* a whole patch of something its patcher's input path has held.
OutputIsWholePatch ==
    \A o \in Path :
        \/ disk[o] = start[o]
        \/ \E p \in Patchers :
              /\ cmd[p].out = o
              /\ \E f \in ever[cmd[p].in] :
                    Applies(f, Mine(p)) /\ disk[o] = Patched(f, Mine(p))

\* apply_mapping_fixes on the imported rules of one source: the guard also asks for
\* the selector of the rule.
SqlAccepts(R, mine) ==
    \A op \in mine : \E r \in R :
        r.line = op.line /\ r.key = op.key /\ <<r.pos, r.neg>> = op.old

SqlFixed(R, mine) ==
    { r \in R : At(r.line, mine) = {} } \cup
    { [x[1] EXCEPT !.pos = x[2].new[1], !.neg = x[2].new[2]] :
      x \in { y \in R \X mine : y[1].line = y[2].line /\ y[2].action = "update" } }

\* The rules by their place in the file, as ApplyPatch renumbers the lines.
Ranked(R) == { [r EXCEPT !.line = Cardinality({ s \in R : s.line < r.line })] : r \in R }

\* A record that a correction is about has blanks around a target.
PaddedGuard(b, mine) ==
    \E i \in Records(b) :
        At(LineAt(b, i), mine) # {} /\ (b[i].pos.padded \/ b[i].neg.padded)

\* The two ways to correct a configuration, where they agree and where they do not.
\* Of a file whose import apply_mapping_fixes would accept, patch-config refuses
\* exactly those in which a target column is not named exactly or a cell it compares
\* has blanks around it.  Otherwise the rules of the file it writes are those the SQL
\* leaves, in that order, and LoadConfig accepts the file if and only if it would
\* accept every one of these rules: the SQL checks neither targets nor record_ref.
PatchAgreesWithSQL ==
    \A p \in Patchers :
        LET f == input[p] IN
        Loads(f) /\ Mine(p) # {} /\ SqlAccepts(Rules(f.body), Mine(p)) =>
            /\ pc[p] = "failed" => ~PatchesHead(f.head) \/ PaddedGuard(f.body, Mine(p))
            /\ pc[p] \in {"write", "rename"} =>
                  PatchesHead(f.head) /\ ~PaddedGuard(f.body, Mine(p))
            /\ pc[p] = "rename" =>
                  LET R == SqlFixed(Rules(f.body), Mine(p)) IN
                  /\ Ranked(Rules(temp[p].body)) = Ranked(R)
                  /\ Loads(temp[p]) <=> \A r \in R : Acceptable(r)

\* What an import reads from a path that is being patched is never a mixture: the
\* rules of the file that was there at the start, or those the corrections of one
\* patcher leave, as the SQL would, of one file that was at the patcher's input.
ImportSeesWholePatch ==
    \A p \in Importers : \A i \in 1..2 :
        LET o == cmd[p].from[i] IN
        rules[p][i] # Absent =>
            \/ start[o] # Absent /\ rules[p][i] = Rules(start[o].body)
            \/ \E q \in Patchers : \E f \in ever[cmd[q].in] :
                  /\ cmd[q].out = o
                  /\ f # Absent
                  /\ Ranked(rules[p][i]) = Ranked(SqlFixed(Rules(f.body), Mine(q)))
==============================================================================
