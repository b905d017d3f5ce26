# Payment and settlement reconciliation: TLA+ specifications

This directory specifies `recon`, a Go command that reads a payments file and a
settlements file of a marketplace seller, maps every row through a configuration
to summary fields and reconciliation keys, compares both sources, and stores the
result with its full lineage in PostgreSQL. The specifications follow the source
under `src/`; `PROJECT.json` names the lines behind every definition.

## 1. The system

| Component | State | Operations | Interacts with |
|---|---|---|---|
| Command line (`cmd/recon/main.go`) | none of its own | `migrate`, `import-config`, `run`, `verify`, `verify-db`, `explain` ... | calls everything below, in a fixed order |
| Input parsers (`internal/ingest`) | none | `ParsePayments`, `ParseSettlements`, dates | give rows to mapping and header totals to `run` |
| Money (`internal/money`) | none | `ParseCents`, `Add`, `Sub`, `FormatCents` | used by every sum in the program |
| Config files and patches (`internal/mapping/config.go`, `patch.go`) | the mapping files on disk | `LoadConfig`, `LoadPatch`, `ApplyPatch` (temporary file, rename), `FileInfoForPath` | give rules to the engine and to the config tables |
| Mapping engine (`internal/mapping/engine.go`, `normalize`) | rule index, summary | `Map` | uses money; feeds grouping and the report |
| Classification and grouping (`internal/reconcile`) | groups by identity | `Classify`, `BuildGroups` | uses mapped rows |
| Workbook (`internal/report`) | a file at `--output` | `Write` (temporary file, check, rename), `Verify` | reads summary, groups, issues; the file is hashed by the store |
| Run store (`internal/store/store.go`, `artifact.go`) | `runs`, `source_files`, lineage tables, `report_artifacts` | `Persist`, `claimRun`, `markRunFailed`, `RegisterReport` | several processes share the database |
| Migrations (`store.Migrate`, `migrations/*.sql`) | `schema_migrations`, an advisory lock | `Migrate` | first step of every command that writes |
| Configuration versions (`internal/store/config.go`, `migrations/002, 003, 007, 010`, `MAPPING_FIXES.sql`, `tools/end_to_end.sh`) | `config_versions`, `config_version_files`, `mapping_rules`, `config_fix_history` and their triggers | `EnsureFrozenConfig`, `clone_config_version`, `apply_mapping_fixes`, freezing | gives `run` its config version |
| Audit (`internal/store/verify.go`, `explain.go`) | none, reads the tables | `VerifyRun`, `Explain` | recomputes what `Persist` stored |

What is hard in it:

* **Concurrency.** Any number of `recon` processes share one database and a file
  system. They meet at the advisory lock of `Migrate`, at the unique indexes on
  `runs.fingerprint`, `runs.name` and `source_files`, at row locks on `runs`, and,
  without any lock, at the output path. Imports of configurations meet at names,
  files and content hashes; a freeze meets edits of the same rules.
* **Failure.** `run` consists of several commits (claim, lineage, registration)
  and a file. A process may die between any two of them, a statement may fail, and
  a commit may take effect although the client is told it did not.
* **Agreement of independent computations.** The in-memory gate of `Persist`, the
  formulas of the workbook and the SQL of `verify-db` define "balanced" three times.
* **Rule selection.** Specificity, fallbacks, ambiguity and key expansion interact,
  and the two modes treat every error differently.
* **Limits.** All sums are checked `int64` cents; inputs have limits on bytes, record
  size and rows.
* **Two of everything.** Corrections exist as a file patch and as SQL; a mapping file
  is opened once to be parsed and once to be hashed.

What makes each component correct, in short: a run is worked on by one process at
a time and its rows appear all at once or not at all; a migration runs once, in
order, and a changed file is noticed; amounts are exact or refused; a persisted
strict run accounts for every cent of the settlement and passes the checks that
`verify-db` applies to the settlement; groups partition the transactions; mapping
does not depend on how the configuration file is sorted; a frozen configuration
never changes, its hash is that of what it holds, and whoever imports or names one
gets exactly the rules they asked for; a corrected mapping file is a whole patch, and
holds what the SQL corrections would leave; the parsers accept exactly the documented
files, but for the deviations of section 6, and return the rows of the file they hashed. The full list of what
could go wrong, with its line, is under `hazards` in `PROJECT.json`.

## 2. Modules

| Module | Models |
|---|---|
| `RunLedger` | abstract: what the `runs` table promises a reader |
| `RunLifecycle` | concurrent `recon run` processes from the workbook to `REPORTED`; refines `RunLedger` |
| `RunLifecycleProofs` | its theorems |
| `Migrate`, `MigrateProofs` | `store.Migrate` and its theorems |
| `Money` | `internal/money` as operators on a machine word |
| `MoneyAccount`, `MoneyProofs` | an account kept with those operators beside its exact value, and the theorem that they never part |
| `Mapping` | the mapping engine as operators |
| `Reconciliation` | one run over its input: classify, map, group, header, workbook, gate, tables; and `verify-db` over the tables |
| `ReconciliationProofs` | theorems about both |
| `ConfigCatalog` | abstract: what `config_versions` promises: contents frozen once, under a name, for good |
| `ConfigStore` | concurrent imports, clones, corrections, uses and operators' edits, statement by statement; refines `ConfigCatalog` |
| `ConfigStoreProofs` | its theorems |
| `ConfigFiles`, `ConfigFilesProofs` | `patch-config` and `import-config` on shared paths, and their theorems |
| `Ingest`, `IngestProofs` | the two parsers, record by record, and their theorems |
| `DataInduction` | lemmas for the proofs: induction over numbers and finite sets, recursive functions, sums |
| `ParserContract` | what the parsers promise to the rest of the pipeline |
| `MC*` | instances for TLC |

Definitions named `X_Something` stand directly before a definition `X` and differ
from it the way a plausible defect would (a dropped guard, a missing reset). They
are used by no specification; substituting one for `X` must break a property,
which shows that the property depends on that piece of code.

### RunLifecycle

A *job* is everything `runFingerprint` hashes; because `fingerprint` is unique, jobs
index `runs`. Parsing and mapping are functions of the job, so only two facts about
them remain: whether its summary balances (`SummaryBalanced`) and whether its
in-scope groups do (`GroupsBalanced`).

| State | Code |
|---|---|
| `stage`, `status`, `attempt`, `runName` | columns of `runs` (`ABSENT`: no row) |
| `lineage[j]` | the attempts whose rows (`run_files`, `source_rows`, ...) are committed |
| `sourceFiles`, `pending` | committed and uncommitted rows of `source_files` |
| `artifact` | `report_artifacts.sha256`, as the job whose workbook has that hash |
| `disk` | the workbook at each output path, as the job it was written for |
| `pc`, `inv`, `fileIx`, `hashed` | a process: position, command line, loop index, hash taken |

One action is one statement, or a group of statements nobody else can observe
separately. `ClaimInsert`/`ClaimCommit` are the two halves of the claim, because the
unique indexes make a second inserter wait in between. `FileWait`, `FileWakeInsert`
and `FileWakeNoRows` model `INSERT .. ON CONFLICT DO NOTHING` combined with a
`SELECT` in one statement: after waiting for a transaction that then commits, the
statement's snapshot does not contain the row, so no id is returned and `Persist`
fails (and can be retried). `MarkFailed` is the deferred `markRunFailed`, guarded by
`stage='CLAIMED'`. `RowLocked` is the lock on the `runs` row. Faults are `Crash`
(also standing for an error return where nothing is deferred), `PersistError`, and
the three commits whose acknowledgement is lost.

`RunLedger` is the abstract specification: claim, fail or reconcile in one step with
all rows, retry only what failed, report only what was reconciled. `ImplementsLedger`
says that `RunLifecycle` implements it with `rows <- lineage`.

### Migrate

`recorded` is `schema_migrations`, `executions` and `executed` are ghosts that count
and identify the SQL that took effect, `holder` is the advisory lock, and each
process has its own checkout. The initial database may come from an older release
that recorded no checksums; such rows are adopted (`Adopt`). SQL text is opaque.

### Money and MoneyAccount

`MaxInt` stands for `2^63-1`; intermediate results wrap where the Go code uses
`int64` or `uint64` arithmetic. A text is its sign, the number its whole digits
spell, and its decimals; texts that `amountPattern` rejects are left out.
`MoneyAccount` parses, adds, subtracts, formats and re-reads amounts while `exact`
keeps the mathematical value.

### Mapping and Reconciliation

Texts are members of small sets. A `record_ref` template is the sequence of its
tokens and a key the sequence of its parts: the code refuses parts that contain the
delimiter, so equal strings are equal sequences. `normalize.Label` is the function
`LabelOf` on the texts that occur.

`pc` follows `recon run`: `payment`, `settlement` (mapping row by row), `group`,
`header`, `report`, `persist`, `register`, `reported`; or `failed`, with the reason.
The order in which `sumSummary` adds is arbitrary, because Go ranges over a map in
any order. `db` holds the lineage tables; `VerifyRun` and its parts recompute from
them what `store.VerifyRun` does in SQL. The transaction is one step here:
interleavings and failures are the subject of `RunLifecycle`.

The input rows satisfy `ParserContract`, which `MCReconciliation` states as an
assumption on the rows it chooses, and which `Ingest` shows the parsers to keep.

### ConfigStore and ConfigCatalog

| State | Code |
|---|---|
| `version[n]` | the committed row of `config_versions` named `n` with its `config_version_files`, `mapping_rules` and `config_fix_history` |
| `files` | committed rows of `source_files` |
| `drafted` | names that other sessions have been able to see as `DRAFT` (a ghost) |
| `tx[p]` | the open transaction: the row it inserted or has locked, files, corrections made, hash |
| `got`, `loaded` | the version `EnsureFrozenConfig` or `LookupConfigVersion` returned, the rules mapped with |

A process runs one command: `import` (import-config), `run` (a run from files, which
imports and then persists with the rules it parsed), `script` (`end_to_end.sh`:
import, clone, correct, check the hashes, run), `fixes` (`MAPPING_FIXES.sql`: clone
and correct in one transaction), `use` (a run of a named version), and an operator's
own `edit` or `add` on `mapping_rules`. A step is a statement at READ COMMITTED that
waits where PostgreSQL waits: on another transaction's uncommitted unique key (name,
file, hash) or row lock (`FOR UPDATE`, an updated rule, the key-share lock of a
foreign key). A file row that another import commits meanwhile is invisible to the
waiting statement's snapshot: `SourceFileWake` then fails the import. The trigger
`mapping_rules_frozen_guard` reads the version's state without a lock, between taking
the row and committing: `Edit`/`Add`, then `EditCommit`. Content hashes are their
content: both encodings prefix every part with its length. Faults are `Die` (the
transaction rolls back) and `DieCommitted` (it does not).

`ConfigCatalog` leaves out processes, statements and faults: a content is frozen
under a name once, by an import, or by correcting a clone of a frozen one.

### ConfigFiles

A file is its header and the sequence of its CSV entries. A header name is what
`normalize.Header` makes of it and how it is spelled; a cell is its text and whether
blanks surround it. Blank lines and records of several physical lines make line numbers
and record numbers differ, because patches and corrections are keyed by physical lines.
`start` and `ever` keep what each path held first, and ever.

The two programs read the same file differently. `LoadConfig` normalises the header,
trims every cell, and refuses unknown targets and routes without a `record_ref`
(`LoadsHead`, `RuleAt`, `Acceptable`). `ApplyPatch` needs the two target columns under
their exact names and compares the cells as they are with the trimmed texts of the patch
(`PatchesHead`, `GuardHolds`). `PatchAgreesWithSQL` compares it with
`apply_mapping_fixes` on the imported rules, two implementations of the same
corrections, and says where they part: `patch-config` refuses exactly the files with
another spelling of a target column or blanks around a compared cell; otherwise both
leave the same rules in the same order, and the patched file loads if and only if
`LoadConfig` accepts each rule that the SQL, which checks none, leaves.
`ImportSeesWholePatch` says what an import that reads such a file meanwhile can get.

### Ingest and ParserContract

One parse of one file, while the path may be given to another file. An entry has
its physical lines and bytes; an amount that does not parse, or a text that is no
date, is `Bad`. The parser finds the header within the preamble, checks every record
(limits, sanity, components adding up in checked arithmetic, dates and their UTC
days), and, for settlements, makes the second pass over metadata rows.

The reference definition `WellFormed` says which files the limits and error messages
ask for, without using the parser's own tests: amounts add up in exact arithmetic
(`AddsUp`), a record of a settlements file is a metadata line or a transaction
(`SettlementRecord`), and each has one metadata line of its settlement and currency
among all records (`Settled`). `Documented` adds the AUD of README.md:103.
`AcceptedExactly` compares the parser's verdict with it and names the two deviations:
`RefusedAtLimit` (a documented file of exactly `maxInputRows` records) and
`AcceptedForeign` (another currency). Both occur in the instance.
`Body` is the set of entries after the header that are not blank, and `Ordinal` the
row each of them becomes. Lines, bytes and entries are counted by running totals
(`LinesTo`, `BytesTo`, `FilledTo`).

## 3. Runs

| Run | Instance | Shows |
|---|---|---|
| `lifecycle_safety` | 2 processes, 4 jobs, 5 command lines, two of which share an output path, 2 faults | exclusive claims, files exist, PASS is earned, refinement of `RunLedger` |
| `lifecycle_liveness` | 2 processes, 2 jobs, 2 faults | every process returns; every claimed run is eventually reported or its claim is orphaned |
| `lifecycle_shared_output` | 2 runs with the same `--output`, no faults | *violation*, see section 6 |
| `migrate_safety` | 3 processes, 3 checkouts, 3 versions, 2 faults | exactly once, in order, no duplicate attempt, nil means current; every `Migrate` returns |
| `money_exact` | a ten-bit word | exact or refused |
| `reconciliation` | files of at most two of 10 payment rows and two of 7 settlement rows, 6 configurations, plus 4 faulty configurations, both modes | gate, workbook and `verify-db` agree; summary, groups, rule order, specificity |
| `config_safety` | 3 processes out of ten command lines, 3 files, 3 lines, 2 corrections, 1 fault | frozen versions are immutable and hashed canonically; imports get their content, runs their rules, children their corrections; refinement of `ConfigCatalog` |
| `config_edits` | 3 processes out of a script, `MAPPING_FIXES.sql` and a run that share files, names and content, and three operators' edits, 1 fault | versions that appeared frozen never change, whatever operators do; every command ends; the child a script cloned is frozen unless the corrections cannot be made or that script died |
| `config_frozen_edited` | the same commands as `config_edits` | *violation*, see section 6 |
| `config_files` | 3 processes, 4 paths, 13 payment files, 11 command lines, 1 fault | a path holds whole patches only, and so does what an import reads; where patch and SQL agree and where not |
| `parsers` | files of at most a few entries, seven-bit amounts, every limit reached | the documented files are accepted and no others, but for the two deviations; rows are those of the hashed file; spans tile the file; the contract; key dates are UTC days |
| `verify_out_of_scope` | a few of the files of `reconciliation` | *violation*, see section 6 |

Why the bounds are enough:

* Two processes and two faults let one process die or lose an acknowledgement at
  any point while another claims, retries, waits for its source file or registers,
  and let the recovery fail once more. The jobs cover the ways two runs can meet:
  same fingerprint, same files under another fingerprint, one shared file, same name.
  The proofs remove the bounds.
* Three migrators and three checkouts cover the current files, an older checkout and
  one with an edited file, on databases with 0 to 3 old rows. Proved for all sizes.
* Ten bits are enough to reach both limits, one below and one above, and whole parts
  that overflow the unsigned word. Proved for every word with `MaxInt >= 100`.
* `Reconciliation`: the rows are chosen so that any two of them form a case the code distinguishes: same and other settlement, deferred,
  without type, without reference, reference with the delimiter, transfer, amounts
  whose sum overflows (`MaxInt = 100`); the configurations agree, overlap, repeat a
  selector, route a total and a component, expand to two keys, lack a target, or are
  refused. One file adds up in file order and overflows in another order. In a
  diagnostic run one of the files has at most one transaction. Proved for all inputs.

* `ConfigStore`: three commands are enough for one to hold what the second waits for
  while the third commits, dies or looks on; the ten command lines share names,
  content under two names, one of two files, and parents. Two corrections let one
  succeed before the next is refused. The safety properties are proved for all sizes.
* `ConfigFiles`: one patcher's output is another's input and an importer's file, and
  an input may be its own output; the files differ in what the guards tell apart: byte
  order mark, spelling, missing or repeated columns, padded cells, selectors, targets,
  unknown ones, `record_ref`, width, blank lines.
  Proved for all files, patches and processes.
* `Ingest`: three of the ten component columns, an amount limit of 127, 18 bytes, 5
  bytes per record, 3 rows, one line of preamble and one replacement: every limit is
  met, missed by one and passed, and running sums leave the word although the total
  fits. Proved for all files and limits.

The two reconciliation configurations disable the deadlock check, because the command
ends. `ConfigStore`, `ConfigFiles` and `Ingest` have an explicit last step instead
(`Finished`, `Over`), so that their runs also show that nobody gets stuck; in
`RunLifecycle` and `Migrate` a process that returned may be started again.

## 4. Fairness

* `RunLifecycle!FairSpec`: `WF(Step(p))` for every process. A started process is
  scheduled by the operating system; PostgreSQL wakes a waiter when the transaction
  it waits for ends. Weak fairness is enough for every process to return.
* `OperatedSpec` adds strong fairness of every command line: an operator who keeps
  re-running with `--retry`. Only `ReportedOrOrphaned` needs it. Faults are finite
  (`MaxFaults`), as eventual progress requires.
* `Migrate!FairSpec`: weak fairness for a process that has the lock, strong fairness
  for `Lock`, because PostgreSQL queues waiters for an advisory lock. Weak fairness
  would not do: the lock is taken and released repeatedly by others.

* `ConfigStore!FairSpec`: `WF(Step(p))` for every process: the server answers every
  statement whose locks are free, and a client goes on when it is answered. There is
  no starvation to rule out, because commands are finite. `Terminates` then says that
  no two commands wait for each other.

## 5. Proofs

All theorems hold for every value of the constants under the named assumptions of
the modules (`InvocationAssumption`, `FileAssumption`, `ModeAssumption`,
`NoneAssumption`, `FaultAssumption`; `CheckoutAssumption`, `NullAssumption`,
`ProcAssumption`, `BoundAssumption`; `WordAssumption`, `OverflowAssumption`,
`TextAssumption`; `CommandAssumption`, `HashedAssumption`, `LineAssumption`,
`FixAssumption`, `RowAssumption`; `FieldAssumption`, `TargetAssumption`,
`InputAssumption`; `DiskAssumption`; `ColumnAssumption`, `FilesAssumption`,
`LimitAssumption`), which TLC evaluates on its instances. The ones about data say what
a value is and not how it is: rows are numbered and have `int64` amounts, rule files
and inputs are finite sequences, the ten component columns differ, a text parses or is
`Bad` or `Empty`.

**RunLifecycle.** `TypeCorrect` first. `SingleOwner` and `OwnerHoldsClaim` are not
inductive: that only one process gets a run depends on what every other process has
found out about it. `ClaimInv` joins them with what a process knows at each label:
an uncommitted claim is the only one and its run is absent (`PendingClaims`), a
process about to mark its run failed sees CLAIMED or, after a lost acknowledgement, a
finished run (`MarkingStages`), one that hashes or registers sees a finished run
(`RegisteringStages`). `LineageMatchesStageHolds` follows step by step, because an
owner finds its run CLAIMED and hence without rows, and so does `LedgerRefinement`:
every action is a step of the ledger or leaves it alone.
`PassIsEarnedHolds` adds that a process past the gate has a job that passes it;
`LineageFilesExistHolds` that a file a process went past is committed or its own
pending row. That a run registers its own workbook
(`ReportIsOwn`) is not proved: the code does not guarantee it (section 6).

**Migrate.** `MigrateInv` adds to the properties that a process with an open
transaction has a file without a row (`Applying`), that everything it went past is
recorded with its own digests (`Progress`), and the range of its loop (`LoopBound`).
The lemma `RecordedIsFinal` (a recorded digest never changes) carries `Progress` over
the steps of other processes.

**ConfigStore.** The safety of the store rests on transactions that own the row they
work on. `StoreInv` says so: a transaction has inserted its row, which nobody else
sees, or has locked a committed DRAFT (`TxOK`); no two have the same name (`Unique`,
from the unique index and the row lock); what a process has found frozen still is
(`GotOK`); only names in `drafted` are ever DRAFT (`Drafts`). It is inductive
statement by statement (`PrivateStep` for those that commit nothing, `PublicStep` for
the three that do) *with* the operators' edits, and gives `TypeCorrect`,
`ImportedCanonicalHolds` and `ImportedImmutableHolds`: the trigger's unlocked read is
enough for versions that were never visible as DRAFT.

For the others it is not (section 6), so the remaining theorems have the hypothesis
`Editless`: no command line edits rules by hand. Under it `OthersStand` shows that a
version is changed only by the transaction that owns it, which gives
`FrozenImmutableHolds`; `Canon` (what is about to be committed is what was hashed)
gives `FrozenCanonicalHolds`; with `UniqueHash` (no hash is stored or pending twice,
true of any commands) follows `OneVersionPerContentHolds`. `ContentInv` follows how
far each import has copied its content (`ImportOK`) and that a clone, open or
committed, is a copy of a frozen parent, corrected completely when it is frozen
(`CloneOK`, `CopyOf`); it gives `ReturnedContentHolds`, `RulesStandHolds`,
`ChildIsFixedParentHolds` and, with `UniqueHash`, `CatalogRefinement`: the three
commits map to the catalogue's actions and every other statement to a stutter.

**Money.** Each operator equals the exact operation when the result is an `int64`
and `Overflow` otherwise (`AddExact`, `SubExact`, `ParseExact`, `FormatExact`), from
which `MoneyExact` follows by induction over the steps. It matters that the word size
is a variable of the theorem: no bit width is special.

**DataInduction.** What totals, line numbers, offsets and mapped rows are for inputs
of any length needs induction over data. The library's induction theorems have an
operator as parameter, which the provers cannot instantiate; here the same schemes
speak of sets: a set of numbers that contains 0 and is closed under successor (`NatInd`,
`UpTo`), a family of sets closed under adding an element (`FiniteInd`). A recursive
function is the one solution of its equations (`HistoryExists`, `HistoryUnique`). On
these rest the facts about sums over finite sets, whatever the order in which they are
taken: one more element, disjoint unions, renumbering (`SumOnto`) and summing by parts
(`SumFibres`).

**Reconciliation.** `Inv` has five parts. `MapInv`: what is mapped is `mapRow` of the
first rows, in order, and strict mode went on only without errors. `PlaceInv`: how far
mapping is at each stage. `SummaryInv`: each total is the exact sum of the
contributions of the rows counted so far and fits the word, although it was reached by
checked additions one contribution at a time. `GroupInv`: after so many rows there is
one group for each identity seen, with exactly the rows of that identity and the sums
of their amounts. `ReportInv`: what the header check, the workbook and the gate have
established before the tables are written, and that the tables are what was in memory.
`TypeCorrect`, `GroupsPartitionHolds` and `SummaryRecomputesHolds` follow by summing the
same contributions by field, by row and by group. For `StrictRunVerifiesHolds` the
amounts per `record_ref` that `verify-db` recomputes are shown to be the groups' amounts,
and `AccountsForHeaderHolds` adds that no order in which `sumSummary` ranges over its
map can make it accept anything but the exact total. `StrictIgnoresRuleOrderHolds` compares the
rules that `Map` selects from two orders of a file: if it finds at most one rule for
every field, as strict mode demands, the two selections are the same.

**ConfigFiles.** `FilesInv` says what a patcher and an importer have read so far and
that it was the content of the path at some time (`ever`). `OutputIsWholePatchHolds`
is part of it, since only a rename changes a path. `PatchAgreesWithSQLHolds` is about
every file and patch: both corrections are keyed by the physical lines of the file as
it was, and although deleting a record moves the ones behind it up, the patched file is
read as the rules that the SQL leaves, in the same order. With the selectors and guards
of the SQL given, what is left for `patch-config` to refuse is the header and the blanks
around a compared cell. `ImportSeesWholePatchHolds` puts the two together for an import
that reads while patchers rename.

**Ingest.** `Inv` says that the parser reads the file it hashed and stands behind an
entry that is not blank, with `line` and `offset` being the totals up to it
(`CursorInv`); that everything it has passed is as `Accepted` demands (`HeaderInv`);
that there is a row for every record passed, number `Ordinal` of it, with its values
(`RowsInv`); and that a parse that failed had a file that is not `Accepted`
(`OutcomeInv`). `Accepted` is `WellFormed` below the limit; `DeviationsAre` shows that
this is `Documented` with the two deviations. `AcceptedExactlyHolds` needs that each
check of the code refuses only what `Accepted` refuses. `SettlementIs` compares the
tests of a settlement record with `SettlementRecord`. For the amounts `SumOfIs` shows that the checked sum is the exact
one if no running total leaves the word and an error otherwise. Since `Ordinal`
numbers the records from 1 without gaps (`BodyNumbered`), the second pass over the rows
says the same as over the records (`PostIs`), which is `Settled` (`SettledIs`).
`ContractHoldsAlways` is the assumption under which `MCReconciliation` chooses rows.

Proved and not listed among the properties of a run, because a property of the
run catches the same defects on its instance: `OwnerHoldsClaimHolds` and `LineageMatchesStageHolds`
(`ImplementsLedger`), `OneVersionPerContentHolds` (`ImplementsCatalog`),
`ImportedCanonicalHolds` (`ImportedImmutable`), and `MigrateLocked` and
`MigrateChecksums`, the means to `NoDuplicateApply` and `NilMeansCurrent`.

Only model-checked: the liveness properties (`Terminates`, `ReportedOrOrphaned`,
`EveryMigrateReturns`, `ChildSettles`), because temporal reasoning about fairness is
beyond the prover. Every invariant, action property and refinement that a passing run
checks is proved; those of the configuration store, apart from `TypeOK` and
`ImportedImmutable`, under the hypothesis named above.

## 6. Where the code and its documentation part

Three have a run that reproduces them.

1. `lifecycle_shared_output`: two concurrent runs with the same `--output` (its
   default value) can register each other's workbook as their verified artifact.
2. `verify_out_of_scope`: rows of another settlement never stop a strict run, which
   is recorded as PASS, but make `verify-db` reject it.
3. `config_frozen_edited`: the trigger that protects frozen rules reads the version's
   state without locking it. An edit that saw DRAFT can commit after
   `apply_mapping_fixes` has hashed and frozen the version, whose hash then is not
   that of its rules.

Others are in the models, and a passing property names them or is stated around them:

* A file of exactly `maxInputRows` records is refused as exceeding the limit
  (`parser.go:158`): `RefusedAtLimit` in `AcceptedExactly`.
* Settlements of any currency are accepted (`parser.go:325`) and reconciled with
  payments, which are AUD, although README.md:103 says that an unsupported currency is
  rejected: `AcceptedForeign` in `AcceptedExactly`.
* `patch-config` refuses mapping files that import without complaint (raw cells,
  `patch.go:161`; exact header names, `patch.go:123`), and both it and
  `apply_mapping_fixes` write targets that `LoadConfig` would refuse, or a target for a
  rule without `record_ref` (`config.go:75`): all four in `PatchAgreesWithSQL`.
* A diagnostic row that fails half-way leaves contributions that the stored totals do
  not include (`engine.go:62`), and `verify-db` rejects the run; `StrictRunVerifies` is
  about strict runs, and `SummaryRecomputes` about runs in which every row mapped.
* Diagnostic rows of both sources without any key share the empty key and are stored
  as one *reconciled* group (`reconcile.go:46`), which `GroupsPartition` allows.
* For a payment row without a type each fallback rule competes with itself
  (`engine.go:100`): ambiguous in strict mode, contributed twice in diagnostic mode.

One has no property, because nothing weaker than it is worth stating: the mapping files
are parsed through one open of the path and hashed through another
(`main.go:196`, `main.go:204`). In the model `LoadConfig(p, 1)` reads the file at
`out`, a patcher's `Rename` replaces it, and `FileInfo(p, 1)` records the identity of
the new file with the rules of the old one. The input parsers do not have this problem:
they rewind one descriptor (`RowsOfHashedFile`).

A script that dies between cloning and correcting leaves a DRAFT that no later script
takes up, so every later script refuses to run; `ChildSettles` says that nothing but
that death, and corrections that cannot be made, keeps a child from being frozen.
In `ReportedOrOrphaned`, a claim whose process died stays CLAIMED, and `--retry` does
not apply to it. The code says so in its error message, so this is
listed as a hazard and not as a disagreement.

## 7. Not modelled

* `explain` and `verify` as a command: they read and print.
* Flag parsing, printing, memory marks and the container tools. The steps of `run`,
  `import-config`, `patch-config` and `end_to_end.sh` are in the modules of the
  components they drive; the script's baseline run in diagnostic mode is left out of
  `ConfigStore`, where it would be a second use of a frozen version.
* Three conditions whose absence only adds behaviours: the script's test that `runs` is
  empty (`end_to_end.sh:17`) is not in `ConfigStore`, the overflow checks of differences
  and subtotals in the workbook (`report.go:282`, `372`) are not in `Reconciliation`, and
  statuses that the parser refuses have no scope of their own there.
* Files modified in place while they are read: files are replaced as a whole.
* Layout and formats of the workbook; sort orders; logging; the decision labels of
  contributions.
* The lineage triggers of migration 006, the one-time backfill of 008 and the text of
  the other migrations.
* Failures of the disk, and a rename that fails after the workbook was checked.

## 8. Plan

1. *Done:* all modules above, their runs, and a theorem for every invariant and action
   property that a passing run checks.
2. The lineage triggers of migration 006 as guards of the tables in `Reconciliation`.
3. The disagreement of section 6 that a hypothesis excludes (`Editless`): when the code
   changes, prove the theorems without it; likewise `ReportIsOwn`, and the tie between
   the rules and the identity of a mapping file.
4. Whether the steps of `Reconciliation` implement an abstract ledger of a run, as
   `RunLifecycle` does for the `runs` table.
