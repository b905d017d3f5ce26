----------------------------- MODULE ConfigStore -----------------------------
(***************************************************************************)
(* Configuration versions: concurrent processes that import mapping files  *)
(* (store.EnsureFrozenConfig), clone and correct a version                 *)
(* (clone_config_version, apply_mapping_fixes, MAPPING_FIXES.sql,          *)
(* tools/end_to_end.sh), and use one (LookupConfigVersion, LoadRules, the  *)
(* rule lookups of Persist), against the tables config_versions,           *)
(* config_version_files, mapping_rules, config_fix_history, source_files   *)
(* and their triggers.                                                     *)
(*                                                                         *)
(* Every process runs one command; a retry is another process with the     *)
(* same command.  Statements run at READ COMMITTED: a step is a statement, *)
(* and it waits where PostgreSQL waits, on an uncommitted unique key or a  *)
(* row lock.  A content hash is the content it is computed from: both      *)
(* encodings prefix every part with its length, so they are injective.     *)
(***************************************************************************)
EXTENDS Naturals, FiniteSets

CONSTANTS
    Proc,      \* processes, one command each
    Name,      \* config_versions.name
    File,      \* (source_kind, sha256) keys of source_files
    Line,      \* (source, origin_file, origin_line) keys of mapping_rules
    Payment,   \* the lines whose source is 'payment'; the others are 'settlement'
    Rule,      \* the other columns of a mapping rule
    Gone,      \* no rule at this line
    None,      \* SQL NULL, no row
    Command,   \* command lines
    NFix,      \* number of defects apply_mapping_fixes corrects, in order
    DefectOf,  \* the defect that corrects a line, 0 if none does
    Old,       \* the rule the guard of that defect expects at the line
    New,       \* the rule it leaves there, Gone for a delete
    MaxFaults  \* bound on dead processes and lost commit acknowledgements

Cell == Rule \cup {Gone}

\* What a pair of mapping files holds: the hashes of the two files, and the rules.
Content == [files : [1..2 -> File \cup {None}], rules : [Line -> Cell]]

Op == {"import", "run", "script", "fixes", "use", "edit", "add"}

ASSUME CommandAssumption ==
    Command \subseteq [op : Op, name : Name, content : Content, child : Name,
                       line : Line, cell : Cell]

\* "config files must have content hashes"
ASSUME HashedAssumption ==
    \A c \in Command : c.op \in {"import", "run", "script"} => c.content.files \in [1..2 -> File]

ASSUME LineAssumption == Payment \subseteq Line

ASSUME FixAssumption ==
    /\ NFix \in Nat
    /\ DefectOf \in [Line -> 0..NFix]
    /\ Old \in [Line -> Rule]
    /\ New \in [Line -> Cell]

ASSUME NullAssumption ==
    /\ Gone \notin Rule
    /\ None \notin Name /\ None \notin File
    /\ None \notin Content

ASSUME FaultAssumption == MaxFaults \in Nat

\* A row of config_versions with the rows that hang from it.
Version == [state : {"DRAFT", "FROZEN"}, hash : Content \cup {None}, parent : Name \cup {None},
            files : [1..2 -> File \cup {None}], rules : [Line -> Cell], history : SUBSET Nat]

ASSUME RowAssumption ==
    /\ None \notin Version
    /\ None \notin [state : {"DRAFT", "FROZEN"}, content : Content, parent : Name \cup {None}]

\* A process is over when its command succeeded, failed or died.
Over == {"ok", "failed", "dead"}

Label == {"byname", "byhash", "insert", "file1", "file2", "wait1", "wait2", "rules",
          "find", "clone", "cloneinsert", "clonecommit", "apply", "fix", "freeze", "commit",
          "check", "lookup", "load", "persist", "edit", "add", "addkey", "editcommit"} \cup Over

VARIABLES
    version,  \* the committed rows, by name
    files,    \* committed rows of source_files
    drafted,  \* the names other transactions have been able to see as DRAFT
    pc,       \* per process: where it is
    cmd,      \* per process: its command line
    tx,       \* per process: its open transaction
    got,      \* per process: the version EnsureFrozenConfig or LookupConfigVersion returned
    loaded,   \* per process: the rules it maps with
    faults    \* faults spent so far

database == <<version, files, drafted>>
vars == <<database, pc, cmd, tx, got, loaded, faults>>

\* An open transaction: the version it creates or freezes, the row if the
\* transaction inserted it (None: it locked a committed row FOR UPDATE), the
\* source_files rows it inserted, the defects it corrected and the hash it froze.
Tx == [name : Name \cup {None}, row : Version \cup {None}, files : SUBSET File,
       fixes : Nat, hash : Content \cup {None}]

NoTx == [name |-> None, row |-> None, files |-> {}, fixes |-> 0, hash |-> None]

\* The types of the tables and of the processes' local state.
TypeOK ==
    /\ version \in [Name -> Version \cup {None}]
    /\ files \in SUBSET File
    /\ drafted \in SUBSET Name
    /\ pc \in [Proc -> Label]
    /\ cmd \in [Proc -> Command]
    /\ tx \in [Proc -> Tx]
    /\ got \in [Proc -> Name \cup {None}]
    /\ loaded \in [Proc -> [Line -> Cell] \cup {None}]
    /\ faults \in 0..MaxFaults

\* The first statement of a command.
First(c) ==
    CASE c.op \in {"import", "run", "script"} -> "byname"
      [] c.op = "fixes" -> "clone"
      [] c.op = "use" -> "lookup"
      [] c.op = "edit" -> "edit"
      [] c.op = "add" -> "add"

Init ==
    /\ version = [n \in Name |-> None]
    /\ files = {}
    /\ drafted = {}
    /\ cmd \in [Proc -> Command]
    /\ pc = [p \in Proc |-> First(cmd[p])]
    /\ tx = [p \in Proc |-> NoTx]
    /\ got = [p \in Proc |-> None]
    /\ loaded = [p \in Proc |-> None]
    /\ faults = 0

-----------------------------------------------------------------------------
\* Helpers.

Goto(p, label) == pc' = [pc EXCEPT ![p] = label]

\* An error ends the command; defer tx.Rollback, or psql, drops the transaction.
Fail(p) ==
    /\ Goto(p, "failed")
    /\ tx' = [tx EXCEPT ![p] = NoTx]
    /\ UNCHANGED <<database, cmd, got, loaded, faults>>

\* compute_config_sha256 and configHash.
Canonical(v) == [files |-> v.files, rules |-> v.rules]

Exists(n) == version[n] # None

Frozen(n) == Exists(n) /\ version[n].state = "FROZEN"

Draft(n) == Exists(n) /\ version[n].state = "DRAFT"

\* A row inserted by another transaction that is still open.
NamePending(p, n) == \E q \in Proc \ {p} : tx[q].name = n /\ tx[q].row # None

\* A committed row that another transaction has locked FOR UPDATE.
Locked(p, n) == \E q \in Proc \ {p} : tx[q].name = n /\ tx[q].row = None

NewRow(parent) ==
    [state |-> "DRAFT", hash |-> None, parent |-> parent, files |-> [i \in 1..2 |-> None],
     rules |-> [l \in Line |-> Gone], history |-> {}]

Opened(n, row) == [NoTx EXCEPT !.name = n, !.row = row]

\* EnsureFrozenConfig returned version n: import-config prints it, `recon run`
\* with files goes on to map with the rules it parsed, end_to_end.sh goes on to
\* the child.
Return(p, n) ==
    /\ got' = [got EXCEPT ![p] = n]
    /\ loaded' = [loaded EXCEPT ![p] =
                     IF cmd[p].op = "run" THEN cmd[p].content.rules ELSE @]
    /\ Goto(p, CASE cmd[p].op = "import" -> "ok"
                 [] cmd[p].op = "run" -> "persist"
                 [] cmd[p].op = "script" -> "find")

-----------------------------------------------------------------------------
\* EnsureFrozenConfig.

\* Mutant: an existing name is returned without comparing its content.
ByName_AnyContent(p) ==
    /\ pc[p] = "byname"
    /\ IF Exists(cmd[p].name)
       THEN IF Frozen(cmd[p].name)
            THEN Return(p, cmd[p].name) /\ UNCHANGED <<database, cmd, tx, faults>>
            ELSE Fail(p)
       ELSE Goto(p, "byhash") /\ UNCHANGED <<database, cmd, tx, got, loaded, faults>>

\* SELECT ... WHERE name: the same frozen content is returned, anything else of
\* that name is refused.
ByName(p) ==
    /\ pc[p] = "byname"
    /\ IF Exists(cmd[p].name)
       THEN IF Frozen(cmd[p].name) /\ version[cmd[p].name].hash = cmd[p].content
            THEN Return(p, cmd[p].name) /\ UNCHANGED <<database, cmd, tx, faults>>
            ELSE Fail(p)
       ELSE Goto(p, "byhash") /\ UNCHANGED <<database, cmd, tx, got, loaded, faults>>

\* SELECT ... WHERE content_sha256: the same content under another name.
ByHash(p) ==
    /\ pc[p] = "byhash"
    /\ \/ /\ \A n \in Name : Exists(n) => version[n].hash # cmd[p].content
          /\ Goto(p, "insert")
          /\ UNCHANGED <<database, cmd, tx, got, loaded, faults>>
       \/ \E n \in Name :
             /\ Exists(n) /\ version[n].hash = cmd[p].content
             /\ IF Frozen(n)
                THEN Return(p, n) /\ UNCHANGED <<database, cmd, tx, faults>>
                ELSE Fail(p)

\* Mutant: ON CONFLICT(name) DO UPDATE.
Insert_Upsert(p) ==
    /\ pc[p] = "insert"
    /\ ~NamePending(p, cmd[p].name)
    /\ tx' = [tx EXCEPT ![p] = Opened(cmd[p].name, NewRow(None))]
    /\ Goto(p, "file1")
    /\ UNCHANGED <<database, cmd, got, loaded, faults>>

\* INSERT INTO config_versions: UNIQUE(name) makes it wait for an open
\* transaction with the same name, and fail on a committed one.
Insert(p) ==
    /\ pc[p] = "insert"
    /\ ~NamePending(p, cmd[p].name)
    /\ IF Exists(cmd[p].name)
       THEN Fail(p)
       ELSE /\ tx' = [tx EXCEPT ![p] = Opened(cmd[p].name, NewRow(None))]
            /\ Goto(p, "file1")
            /\ UNCHANGED <<database, cmd, got, loaded, faults>>

FileLabel == <<"file1", "file2">>
WaitLabel == <<"wait1", "wait2">>

FilePending(p, f) == \E q \in Proc \ {p} : f \in tx[q].files

\* Mutant: the two files are taken from a map, in either order.
FileAt_MapOrder(p, i) == cmd[p].content.files[IF cmd[p].op = "run" THEN 3 - i ELSE i]

\* payment_config first, settlement_config second.
FileAt(p, i) == cmd[p].content.files[i]

\* The i-th file is in source_files, by this transaction or before it:
\* INSERT INTO config_version_files.
LinkFile(p, i, inserted) ==
    /\ tx' = [tx EXCEPT ![p].row.files[i] = FileAt(p, i), ![p].files = @ \cup inserted]
    /\ Goto(p, IF i = 1 THEN "file2" ELSE "rules")
    /\ UNCHANGED <<database, cmd, got, loaded, faults>>

\* INSERT ... ON CONFLICT DO NOTHING, UNION ALL SELECT.  A row another open
\* transaction inserted makes the statement wait, with the snapshot it has.
SourceFile(p, i) ==
    /\ pc[p] = FileLabel[i]
    /\ LET f == FileAt(p, i) IN
       IF f \in files
       THEN LinkFile(p, i, {})
       ELSE IF FilePending(p, f)
            THEN Goto(p, WaitLabel[i]) /\ UNCHANGED <<database, cmd, tx, got, loaded, faults>>
            ELSE LinkFile(p, i, {f})

\* The other transaction is over.  If it committed, DO NOTHING returns no row and
\* the old snapshot does not see it: the import fails.
SourceFileWake(p, i) ==
    /\ pc[p] = WaitLabel[i]
    /\ ~FilePending(p, FileAt(p, i))
    /\ IF FileAt(p, i) \in files THEN Fail(p) ELSE LinkFile(p, i, {FileAt(p, i)})

\* The batch of INSERT INTO mapping_rules.
InsertRules(p) ==
    /\ pc[p] = "rules"
    /\ tx' = [tx EXCEPT ![p].row.rules = cmd[p].content.rules]
    /\ Goto(p, "freeze")
    /\ UNCHANGED <<database, cmd, got, loaded, faults>>

-----------------------------------------------------------------------------
\* Freezing, for an import, for apply_mapping_fixes and for MAPPING_FIXES.sql.

\* The rules r with the first k defects corrected.
Fixed(r, k) == [l \in Line |-> IF DefectOf[l] \in 1..k THEN New[l] ELSE r[l]]

Base(p) == IF tx[p].row = None THEN version[tx[p].name] ELSE tx[p].row

\* The version as its transaction sees it: committed rows, and its own changes.
View(p) ==
    [Base(p) EXCEPT !.rules = Fixed(@, tx[p].fixes), !.history = @ \cup 1..tx[p].fixes]

HashPending(p, h) == \E q \in Proc \ {p} : tx[q].hash = h

\* Mutant: the UNIQUE constraint on content_sha256 is dropped.
Freeze_NotUnique(p) ==
    /\ pc[p] = "freeze"
    /\ tx' = [tx EXCEPT ![p].hash = Canonical(View(p))]
    /\ Goto(p, "commit")
    /\ UNCHANGED <<database, cmd, got, loaded, faults>>

\* Mutant: the hash of the row before the corrections is stored.
Freeze_StaleHash(p) ==
    /\ pc[p] = "freeze"
    /\ tx' = [tx EXCEPT ![p].hash = Canonical(Base(p))]
    /\ Goto(p, "commit")
    /\ UNCHANGED <<database, cmd, got, loaded, faults>>

\* UPDATE config_versions SET state='FROZEN': the trigger
\* config_versions_canonical_hash computes the hash from the tables; UNIQUE
\* (content_sha256) waits for an open transaction and fails on a committed row.
Freeze(p) ==
    /\ pc[p] = "freeze"
    /\ LET h == Canonical(View(p)) IN
       /\ ~HashPending(p, h)
       /\ IF \E n \in Name : Exists(n) /\ version[n].hash = h
          THEN Fail(p)
          ELSE /\ tx' = [tx EXCEPT ![p].hash = h]
               /\ Goto(p, "commit")
               /\ UNCHANGED <<database, cmd, got, loaded, faults>>

\* What COMMIT makes visible.
Committed(p) ==
    /\ version' = [version EXCEPT ![tx[p].name] =
                      [View(p) EXCEPT !.state = "FROZEN", !.hash = tx[p].hash]]
    /\ files' = files \cup tx[p].files
    /\ tx' = [tx EXCEPT ![p] = NoTx]
    /\ UNCHANGED drafted

\* Mutant: EnsureFrozenConfig returns the id it scanned last, that of the settlement
\* file, as the id of the version.
Commit_FileID(p) ==
    /\ pc[p] = "commit"
    /\ Committed(p)
    /\ IF tx[p].row = None \/ cmd[p].op = "fixes"
       THEN /\ Goto(p, IF cmd[p].op = "script" THEN "check" ELSE "ok")
            /\ UNCHANGED <<got, loaded>>
       ELSE Return(p, FileAt(p, 2))
    /\ UNCHANGED <<cmd, faults>>

Commit(p) ==
    /\ pc[p] = "commit"
    /\ Committed(p)
    /\ IF tx[p].row = None \/ cmd[p].op = "fixes"
       THEN /\ Goto(p, IF cmd[p].op = "script" THEN "check" ELSE "ok")
            /\ UNCHANGED <<got, loaded>>
       ELSE Return(p, tx[p].name)
    /\ UNCHANGED <<cmd, faults>>

-----------------------------------------------------------------------------
\* tools/end_to_end.sh and MAPPING_FIXES.sql.

\* The script applies the corrections only to a child it has created itself.
FindChild(p) ==
    /\ pc[p] = "find"
    /\ Goto(p, IF Exists(cmd[p].child) THEN "check" ELSE "clone")
    /\ UNCHANGED <<database, cmd, tx, got, loaded, faults>>

\* The parent of the clone: what the import returned, or the given baseline.
Parent(p) == IF cmd[p].op = "script" THEN got[p] ELSE cmd[p].name

\* Mutant: clone_config_version accepts a parent in any state.
Clone_AnyState(p) ==
    /\ pc[p] = "clone"
    /\ ~Locked(p, Parent(p))
    /\ IF Exists(Parent(p))
       THEN Goto(p, "cloneinsert") /\ UNCHANGED <<database, cmd, tx, got, loaded, faults>>
       ELSE Fail(p)

\* SELECT state ... FOR SHARE: the parent must exist and be FROZEN.
Clone(p) ==
    /\ pc[p] = "clone"
    /\ ~Locked(p, Parent(p))
    /\ IF Frozen(Parent(p))
       THEN Goto(p, "cloneinsert") /\ UNCHANGED <<database, cmd, tx, got, loaded, faults>>
       ELSE Fail(p)

\* INSERT the DRAFT child and copy the parent's files and rules.  The script's
\* SELECT clone_config_version commits by itself, MAPPING_FIXES.sql goes on in
\* the same transaction.
CloneInsert(p) ==
    /\ pc[p] = "cloneinsert"
    /\ ~NamePending(p, cmd[p].child)
    /\ IF Exists(cmd[p].child)
       THEN Fail(p)
       ELSE /\ tx' = [tx EXCEPT ![p] =
                         Opened(cmd[p].child,
                                [NewRow(Parent(p)) EXCEPT !.files = version[Parent(p)].files,
                                                          !.rules = version[Parent(p)].rules])]
            /\ Goto(p, IF cmd[p].op = "script" THEN "clonecommit" ELSE "fix")
            /\ UNCHANGED <<database, cmd, got, loaded, faults>>

CommittedDraft(p) ==
    /\ version' = [version EXCEPT ![tx[p].name] = tx[p].row]
    /\ drafted' = drafted \cup {tx[p].name}
    /\ tx' = [tx EXCEPT ![p] = NoTx]
    /\ UNCHANGED files

\* Mutant: the script goes on without apply_mapping_fixes.
CloneCommit_NotApplied(p) ==
    /\ pc[p] = "clonecommit"
    /\ CommittedDraft(p)
    /\ Goto(p, "check")
    /\ UNCHANGED <<cmd, got, loaded, faults>>

CloneCommit(p) ==
    /\ pc[p] = "clonecommit"
    /\ CommittedDraft(p)
    /\ Goto(p, "apply")
    /\ UNCHANGED <<cmd, got, loaded, faults>>

\* An INSERT of a rule holds FOR KEY SHARE on its version until it commits.
KeyShared(n) == \E q \in Proc : pc[q] = "editcommit" /\ cmd[q].op = "add" /\ cmd[q].name = n

\* apply_mapping_fixes: SELECT state ... FOR UPDATE; only a DRAFT without history.
ApplyLock(p) ==
    /\ pc[p] = "apply"
    /\ ~Locked(p, cmd[p].child) /\ ~KeyShared(cmd[p].child)
    /\ IF Draft(cmd[p].child) /\ version[cmd[p].child].history = {}
       THEN /\ tx' = [tx EXCEPT ![p] = Opened(cmd[p].child, None)]
            /\ Goto(p, "fix")
            /\ UNCHANGED <<database, cmd, got, loaded, faults>>
       ELSE Fail(p)

\* An edit of a line of defect i is open: the guarded statement waits for the row.
RowPending(p, i) ==
    \E q \in Proc : /\ pc[q] = "editcommit" /\ cmd[q].op = "edit"
                    /\ cmd[q].name = tx[p].name /\ DefectOf[cmd[q].line] = i

\* The guard of defect i finds every line as it expects it.
Guard(r, i) == \A l \in Line : DefectOf[l] = i => r[l] = Old[l]

\* One guarded block: DELETE or UPDATE the expected rows, compare the row count,
\* record the history; any mismatch rolls everything back.
Fix(p) ==
    /\ pc[p] = "fix"
    /\ LET i == tx[p].fixes + 1 IN
       \/ /\ tx[p].fixes = NFix
          /\ Goto(p, "freeze")
          /\ UNCHANGED <<database, cmd, tx, got, loaded, faults>>
       \/ /\ tx[p].fixes < NFix
          /\ tx[p].row = None => ~RowPending(p, i)
          /\ IF Guard(View(p).rules, i)
             THEN /\ tx' = [tx EXCEPT ![p].fixes = i]
                  /\ UNCHANGED <<database, pc, cmd, got, loaded, faults>>
             ELSE Fail(p)

\* end_to_end.sh counts the frozen versions whose hash is not the canonical one,
\* and runs the reconciliation with the child.
HashCheck(p) ==
    /\ pc[p] = "check"
    /\ IF \A n \in Name : Frozen(n) => version[n].hash = Canonical(version[n])
       THEN Goto(p, "lookup") /\ UNCHANGED <<database, cmd, tx, got, loaded, faults>>
       ELSE Fail(p)

-----------------------------------------------------------------------------
\* recon run --config-version.

Wanted(p) == IF cmd[p].op = "script" THEN cmd[p].child ELSE cmd[p].name

\* Mutant: LookupConfigVersion returns a DRAFT too.
Lookup_AnyState(p) ==
    /\ pc[p] = "lookup"
    /\ IF Exists(Wanted(p))
       THEN /\ got' = [got EXCEPT ![p] = Wanted(p)]
            /\ Goto(p, "load")
            /\ UNCHANGED <<database, cmd, tx, loaded, faults>>
       ELSE Fail(p)

\* LookupConfigVersion.
Lookup(p) ==
    /\ pc[p] = "lookup"
    /\ IF Frozen(Wanted(p))
       THEN /\ got' = [got EXCEPT ![p] = Wanted(p)]
            /\ Goto(p, "load")
            /\ UNCHANGED <<database, cmd, tx, loaded, faults>>
       ELSE Fail(p)

\* LoadRules, and the test that the version has rules of both sources.
LoadRules(p) ==
    /\ pc[p] = "load"
    /\ IF \A L \in {Payment, Line \ Payment} : \E l \in L : version[got[p]].rules[l] # Gone
       THEN /\ loaded' = [loaded EXCEPT ![p] = version[got[p]].rules]
            /\ Goto(p, "persist")
            /\ UNCHANGED <<database, cmd, tx, got, faults>>
       ELSE Fail(p)

\* Persist finds the id of every rule it mapped with; it would INSERT one that is
\* missing, which the trigger refuses on a FROZEN version.
PersistRules(p) ==
    /\ pc[p] = "persist"
    /\ IF \A l \in Line : loaded[p][l] # Gone => version[got[p]].rules[l] # Gone
       THEN Goto(p, "ok") /\ UNCHANGED <<database, cmd, tx, got, loaded, faults>>
       ELSE Fail(p)

-----------------------------------------------------------------------------
\* An operator's own SQL on mapping_rules, through the trigger
\* mapping_rules_frozen_guard.

\* A transaction that corrects this version has changed the row of line l.
RowLocked(n, l) ==
    \E q \in Proc : tx[q].name = n /\ tx[q].row = None /\ DefectOf[l] \in 1..tx[q].fixes

HasRule(n, l) == Exists(n) /\ version[n].rules[l] # Gone

EditPending(p) ==
    \E q \in Proc \ {p} : /\ pc[q] = "editcommit"
                          /\ cmd[q].name = cmd[p].name /\ cmd[q].line = cmd[p].line

\* Mutant: no trigger.
Edit_Unguarded(p) ==
    /\ pc[p] = "edit"
    /\ ~RowLocked(cmd[p].name, cmd[p].line) /\ ~EditPending(p)
    /\ Goto(p, IF HasRule(cmd[p].name, cmd[p].line) THEN "editcommit" ELSE "ok")
    /\ UNCHANGED <<database, cmd, tx, got, loaded, faults>>

\* UPDATE or DELETE of one rule: the row is locked first, then the trigger reads
\* the state of the version, without a lock on it.
Edit(p) ==
    /\ pc[p] = "edit"
    /\ ~RowLocked(cmd[p].name, cmd[p].line) /\ ~EditPending(p)
    /\ IF Frozen(cmd[p].name) /\ HasRule(cmd[p].name, cmd[p].line)
       THEN Fail(p)
       ELSE /\ Goto(p, IF HasRule(cmd[p].name, cmd[p].line) THEN "editcommit" ELSE "ok")
            /\ UNCHANGED <<database, cmd, tx, got, loaded, faults>>

\* INSERT of one rule: the trigger comes first ...
Add(p) ==
    /\ pc[p] = "add"
    /\ IF Draft(cmd[p].name)
       THEN Goto(p, "addkey") /\ UNCHANGED <<database, cmd, tx, got, loaded, faults>>
       ELSE Fail(p)

\* ... then the unique index, then the foreign key, which waits for a FOR UPDATE
\* lock on the version and does not ask for the state again.
AddKey(p) ==
    /\ pc[p] = "addkey"
    /\ ~Locked(p, cmd[p].name) /\ ~EditPending(p)
    /\ IF version[cmd[p].name].rules[cmd[p].line] = Gone
       THEN Goto(p, "editcommit") /\ UNCHANGED <<database, cmd, tx, got, loaded, faults>>
       ELSE Fail(p)

EditCommit(p) ==
    /\ pc[p] = "editcommit"
    /\ version' = [version EXCEPT ![cmd[p].name].rules[cmd[p].line] = cmd[p].cell]
    /\ Goto(p, "ok")
    /\ UNCHANGED <<files, drafted, cmd, tx, got, loaded, faults>>

-----------------------------------------------------------------------------
\* Faults.

Fault == faults < MaxFaults /\ faults' = faults + 1

\* The process or its connection dies; the server rolls the transaction back.
Die(p) ==
    /\ pc[p] \notin Over
    /\ Fault
    /\ Goto(p, "dead")
    /\ tx' = [tx EXCEPT ![p] = NoTx]
    /\ UNCHANGED <<database, cmd, got, loaded>>

\* The server commits, and the process dies before it hears of it.
DieCommitted(p) ==
    /\ \/ pc[p] = "commit" /\ Committed(p)
       \/ pc[p] = "clonecommit" /\ CommittedDraft(p)
    /\ Fault
    /\ Goto(p, "dead")
    /\ UNCHANGED <<cmd, got, loaded>>

Import(p) ==
    \/ ByName(p) \/ ByHash(p) \/ Insert(p) \/ InsertRules(p)
    \/ \E i \in 1..2 : SourceFile(p, i) \/ SourceFileWake(p, i)

Correct(p) ==
    \/ FindChild(p) \/ Clone(p) \/ CloneInsert(p) \/ CloneCommit(p)
    \/ ApplyLock(p) \/ Fix(p) \/ HashCheck(p)

Use(p) == Lookup(p) \/ LoadRules(p) \/ PersistRules(p)

Operator(p) == Edit(p) \/ Add(p) \/ AddKey(p) \/ EditCommit(p)

Step(p) == Import(p) \/ Freeze(p) \/ Commit(p) \/ Correct(p) \/ Use(p) \/ Operator(p)

\* Every command has ended.
Finished == (\A p \in Proc : pc[p] \in Over) /\ UNCHANGED vars

Next == (\E p \in Proc : Step(p) \/ Die(p) \/ DieCommitted(p)) \/ Finished

Spec == Init /\ [][Next]_vars

\* A process that can take a step takes it: the server answers every statement
\* whose locks are free.
FairSpec == Spec /\ \A p \in Proc : WF_vars(Step(p))

-----------------------------------------------------------------------------
\* Properties.

\* A FROZEN version's content_sha256 is the hash of the files and rules the tables
\* hold for it: what end_to_end.sh counts, in every state and not only when it looks.
FrozenCanonical ==
    \A n \in Name : Frozen(n) => version[n].hash = Canonical(version[n])

\* Of two frozen versions with equal content there is only one, although imports
\* look for the content and insert it in different statements.
OneVersionPerContent ==
    \A m, n \in Name : Frozen(m) /\ Frozen(n) /\ Canonical(version[m]) = Canonical(version[n]) => m = n

\* A version EnsureFrozenConfig has returned, new or found by name or by hash, is
\* frozen and holds exactly the files and rules of that command line, for good.
ReturnedContent ==
    \A p \in Proc :
        /\ cmd[p].op \in {"import", "run"} /\ got[p] # None
        => Frozen(got[p]) /\ Canonical(version[got[p]]) = cmd[p].content

\* Between LoadRules (or EnsureFrozenConfig) and Persist the version still holds
\* the rules the run maps with: the rule ids in the lineage are those rules.
RulesStand ==
    \A p \in Proc : pc[p] = "persist" => loaded[p] = version[got[p]].rules

\* A frozen child is its frozen parent with every correction made, each recorded
\* once, and the parent is as it was when it was cloned.
ChildIsFixedParent ==
    \A n \in Name :
        Frozen(n) /\ version[n].parent # None =>
            LET m == version[n].parent IN
            /\ Frozen(m)
            /\ version[n].files = version[m].files
            /\ version[n].rules = Fixed(version[m].rules, NFix)
            /\ version[n].history = 1..NFix

\* No step changes a frozen version or anything that hangs from it.
FrozenImmutable ==
    [][\A n \in Name : Frozen(n) => version'[n] = version[n]]_vars

\* A version that appeared frozen (EnsureFrozenConfig, MAPPING_FIXES.sql: inserted
\* and frozen in one transaction) never changes, whatever SQL the operators issue:
\* for such a version the unlocked read of the trigger is enough.
ImportedImmutable ==
    [][\A n \in Name : Exists(n) /\ n \notin drafted => version'[n] = version[n]]_vars

\* ... and its hash is the canonical one.
ImportedCanonical ==
    \A n \in Name : Exists(n) /\ n \notin drafted =>
        version[n].state = "FROZEN" /\ version[n].hash = Canonical(version[n])

\* The contents the command lines import, and the corrections of a content.
Importable == { c.content : c \in { d \in Command : d.op \in {"import", "run", "script"} } }

Corrected(c) == [c EXCEPT !.rules = Fixed(@, NFix)]

\* A row as an entry of the catalogue: the hash and the history are left out.
EntryOf(v) == [state |-> v.state, content |-> Canonical(v), parent |-> v.parent]

Entries == [n \in Name |-> IF Exists(n) THEN EntryOf(version[n]) ELSE None]

Catalog == INSTANCE ConfigCatalog WITH catalog <- Entries

\* The statements of concurrent imports, clones and corrections, with their locks,
\* rollbacks and lost acknowledgements, amount to a catalogue of contents that are
\* frozen once, by an import or by correcting a clone of a frozen one.
ImplementsCatalog == Catalog!Spec

\* No two commands wait for each other: names, payment files, settlement files and
\* hashes are taken in one order by every transaction.
Terminates == \A p \in Proc : <>(pc[p] \in Over)

\* The corrections cannot be made: a guard does not find its old state, or the
\* corrected content exists already.
Uncorrectable(n) ==
    /\ Exists(n)
    /\ \/ \E i \in 1..NFix : ~Guard(version[n].rules, i)
       \/ \E m \in Name : Exists(m) /\
             version[m].hash = [Canonical(version[n]) EXCEPT !.rules = Fixed(@, NFix)]

\* A script that commits a clone gets it frozen, whatever operators edit and whoever
\* holds the locks it needs, unless the corrections cannot be made or that very script
\* dies before it has made them: no other script takes its child up.
ChildSettles ==
    \A p \in Proc :
        pc[p] = "clonecommit" ~> \/ Frozen(cmd[p].child)
                                 \/ Uncorrectable(cmd[p].child)
                                 \/ pc[p] = "dead"
==============================================================================
