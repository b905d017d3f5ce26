---------------------------- MODULE RunLifecycle ----------------------------
(***************************************************************************)
(* Concurrent `recon run` processes sharing one PostgreSQL database and a  *)
(* file system: write and verify the workbook, claim the run, persist its  *)
(* lineage in one transaction, register the workbook                       *)
(* (cmd/recon/main.go run, internal/store Persist, claimRun,               *)
(* markRunFailed, RegisterReport).                                         *)
(*                                                                         *)
(* A Job stands for everything runFingerprint hashes: the two input files, *)
(* the selected settlement, the mode, the config version and its rules.    *)
(* fingerprint is UNIQUE in `runs`, so Job indexes the rows of that table. *)
(* Parsing, mapping and grouping are functions of the job: here they only  *)
(* matter through the constants SummaryBalanced and GroupsBalanced.        *)
(***************************************************************************)
EXTENDS Naturals, FiniteSets

CONSTANTS
    Proc,             \* operating-system processes running `recon run`
    Job,              \* run fingerprints
    Name,             \* values of --run-name
    Path,             \* values of --output
    File,             \* (source_kind, sha256) keys of source_files
    None,             \* SQL NULL / no workbook
    Invocation,       \* command lines: [job, name, out, retry]
    FileOf,           \* FileOf[j][1] the payments file, FileOf[j][2] the settlements file
    Strict,           \* the jobs whose mode is strict
    SummaryBalanced,  \* the jobs whose summary agrees field by field
    GroupsBalanced,   \* the jobs whose in-scope groups agree in amount and bucket
    MaxFaults         \* bound on crashes, failed statements and lost commit acknowledgements

ASSUME InvocationAssumption ==
    Invocation \subseteq [job : Job, name : Name, out : Path, retry : BOOLEAN]

ASSUME FileAssumption == FileOf \in [Job -> [1..2 -> File]]

ASSUME ModeAssumption ==
    Strict \subseteq Job /\ SummaryBalanced \subseteq Job /\ GroupsBalanced \subseteq Job

ASSUME NoneAssumption == None \notin Job /\ None \notin Name

ASSUME FaultAssumption == MaxFaults \in Nat

\* A row of `runs` that does not exist yet has stage ABSENT.
Stage == {"ABSENT", "CLAIMED", "RECONCILED", "REPORTED", "FAILED"}

Status == {"NOT_CHECKED", "FAIL", "PASS", "DIAGNOSTIC"}

\* The steps of one process; the transaction of Persist is open from
\* "files" to "commit".
InPersist == {"files", "filewait", "lineage", "commit"}

Label == {"idle", "write", "verify", "gate", "claim", "claimcommit", "mark",
          "hash", "register"} \cup InPersist

VARIABLES
    stage,        \* runs.stage
    status,       \* runs.verification_status
    attempt,      \* runs.attempt
    runName,      \* runs.name
    lineage,      \* the attempts whose run_files, source_rows, ... are committed
    sourceFiles,  \* committed rows of source_files
    artifact,     \* report_artifacts.sha256, as the job whose workbook it hashes
    disk,         \* the workbook at each output path, as the job it was written for
    pc,           \* per process: where it is
    inv,          \* per process: its command line
    fileIx,       \* per process: the source file Persist is inserting, 1 or 2
    pending,      \* per process: source_files rows inserted and not committed
    hashed,       \* per process: what RegisterReport hashed
    faults        \* faults spent so far

runsTable == <<stage, status, attempt, runName>>
database  == <<runsTable, lineage, sourceFiles, artifact>>
local     == <<inv, fileIx, pending, hashed>>
vars      == <<database, disk, pc, local, faults>>

\* The types of the tables, the file system and the processes' local state.
TypeOK ==
    /\ stage \in [Job -> Stage]
    /\ status \in [Job -> Status]
    /\ attempt \in [Job -> Nat]
    /\ runName \in [Job -> Name \cup {None}]
    /\ lineage \in [Job -> SUBSET Nat]
    /\ sourceFiles \in SUBSET File
    /\ artifact \in [Job -> Job \cup {None}]
    /\ disk \in [Path -> Job \cup {None}]
    /\ pc \in [Proc -> Label]
    /\ inv \in [Proc -> Invocation]
    /\ fileIx \in [Proc -> 1..2]
    /\ pending \in [Proc -> SUBSET File]
    /\ hashed \in [Proc -> Job \cup {None}]
    /\ faults \in 0..MaxFaults

Init ==
    /\ stage = [j \in Job |-> "ABSENT"]
    /\ status = [j \in Job |-> "NOT_CHECKED"]
    /\ attempt = [j \in Job |-> 0]
    /\ runName = [j \in Job |-> None]
    /\ lineage = [j \in Job |-> {}]
    /\ sourceFiles = {}
    /\ artifact = [j \in Job |-> None]
    /\ disk = [o \in Path |-> None]
    /\ pc = [p \in Proc |-> "idle"]
    /\ inv \in [Proc -> Invocation]
    /\ fileIx = [p \in Proc |-> 1]
    /\ pending = [p \in Proc |-> {}]
    /\ hashed = [p \in Proc |-> None]
    /\ faults = 0

-----------------------------------------------------------------------------
\* Helpers.

job(p) == inv[p].job

Goto(p, label) == pc' = [pc EXCEPT ![p] = label]

\* Every fault is counted, so that a behaviour has finitely many of them.
Fault == faults < MaxFaults /\ faults' = faults + 1

\* The transaction of Persist has inserted run_files rows (a KEY SHARE lock on
\* the run) and updated the run: nobody else may lock that row.
RowLocked(j) == \E q \in Proc : pc[q] = "commit" /\ job(q) = j

-----------------------------------------------------------------------------
\* cmd/recon run: from the command line to the workbook.

\* A process starts with some command line.  Migrations, config import, parsing
\* and mapping precede the first step that this module tells apart.
StartWith(p, i) ==
    /\ pc[p] = "idle"
    /\ inv' = [inv EXCEPT ![p] = i]
    /\ Goto(p, "write")
    /\ fileIx' = [fileIx EXCEPT ![p] = 1]
    /\ hashed' = [hashed EXCEPT ![p] = None]
    /\ UNCHANGED <<database, disk, pending, faults>>

\* report.Write publishes the workbook by renaming a verified temporary file.
WriteReport(p) ==
    /\ pc[p] = "write"
    /\ disk' = [disk EXCEPT ![inv[p].out] = job(p)]
    /\ Goto(p, IF job(p) \in Strict THEN "verify" ELSE "gate")
    /\ UNCHANGED <<database, local, faults>>

Start(p) == \E i \in Invocation : StartWith(p, i)

\* report.Verify: zero summary differences, strict mode, no mapping issue.
Verifies(w) == w \in Strict /\ w \in SummaryBalanced

\* Strict mode reopens whatever workbook is at the output path now.
VerifyReport(p) ==
    /\ pc[p] = "verify"
    /\ Goto(p, IF Verifies(disk[inv[p].out]) THEN "gate" ELSE "idle")
    /\ UNCHANGED <<database, disk, local, faults>>

\* Persist refuses a strict job whose summary or in-scope groups disagree.
GatePasses_SummaryOnly(j) == j \in Strict => j \in SummaryBalanced
GatePasses(j) == j \in Strict => j \in SummaryBalanced /\ j \in GroupsBalanced

Gate(p) ==
    /\ pc[p] = "gate"
    /\ Goto(p, IF GatePasses(job(p)) THEN "claim" ELSE "idle")
    /\ UNCHANGED <<database, disk, local, faults>>

-----------------------------------------------------------------------------
\* claimRun.

\* Another process has inserted, and not committed, this fingerprint or name:
\* the unique indexes make the second INSERT wait.
ClaimInFlight(p) ==
    \E q \in Proc \ {p} :
        pc[q] = "claimcommit" /\ (job(q) = job(p) \/ inv[q].name = inv[p].name)

NameTaken(n) == \E j \in Job : runName[j] = n

\* INSERT INTO runs ... ON CONFLICT(fingerprint) DO NOTHING, no conflict.
ClaimInsert(p) ==
    /\ pc[p] = "claim"
    /\ stage[job(p)] = "ABSENT"
    /\ ~ClaimInFlight(p)
    /\ ~NameTaken(inv[p].name)
    /\ Goto(p, "claimcommit")
    /\ UNCHANGED <<database, disk, local, faults>>

\* A new fingerprint under a name that is in use violates runs_name_uq.
ClaimNameTaken(p) ==
    /\ pc[p] = "claim"
    /\ stage[job(p)] = "ABSENT"
    /\ ~ClaimInFlight(p)
    /\ NameTaken(inv[p].name)
    /\ Goto(p, "idle")
    /\ UNCHANGED <<database, disk, local, faults>>

InsertedRun(p) ==
    /\ stage' = [stage EXCEPT ![job(p)] = "CLAIMED"]
    /\ status' = [status EXCEPT ![job(p)] = "NOT_CHECKED"]
    /\ attempt' = [attempt EXCEPT ![job(p)] = 1]
    /\ runName' = [runName EXCEPT ![job(p)] = inv[p].name]

ClaimCommit(p) ==
    /\ pc[p] = "claimcommit"
    /\ InsertedRun(p)
    /\ Goto(p, "files")
    /\ UNCHANGED <<lineage, sourceFiles, artifact, disk, local, faults>>

\* The commit takes effect and its acknowledgement is lost: claimRun returns
\* the error, and Persist has not yet deferred markRunFailed.
ClaimCommitLost(p) ==
    /\ pc[p] = "claimcommit"
    /\ Fault
    /\ InsertedRun(p)
    /\ Goto(p, "idle")
    /\ UNCHANGED <<lineage, sourceFiles, artifact, disk, local>>

\* stage == "REPORTED" || stage == "RECONCILED"
Finished_ReportedOnly(j) == stage[j] = "REPORTED"
Finished(j) == stage[j] \in {"RECONCILED", "REPORTED"}

\* SELECT ... FOR UPDATE finds the finished run: nothing to persist again.
ClaimFinished(p) ==
    /\ pc[p] = "claim"
    /\ Finished(job(p))
    /\ ~RowLocked(job(p))
    /\ Goto(p, "hash")
    /\ UNCHANGED <<database, disk, local, faults>>

Retryable_StealsClaim(j, retry) == stage[j] \in {"FAILED", "CLAIMED"} /\ retry
Retryable(j, retry) == stage[j] = "FAILED" /\ retry

RetriedRun(p) ==
    /\ stage' = [stage EXCEPT ![job(p)] = "CLAIMED"]
    /\ status' = [status EXCEPT ![job(p)] = "NOT_CHECKED"]
    /\ attempt' = [attempt EXCEPT ![job(p)] = @ + 1]
    /\ UNCHANGED runName

\* A FAILED run is claimed again with --retry; the lock is held until commit.
ClaimRetry(p) ==
    /\ pc[p] = "claim"
    /\ Retryable(job(p), inv[p].retry)
    /\ ~RowLocked(job(p))
    /\ RetriedRun(p)
    /\ Goto(p, "files")
    /\ UNCHANGED <<lineage, sourceFiles, artifact, disk, local, faults>>

ClaimRetryLost(p) ==
    /\ pc[p] = "claim"
    /\ Retryable(job(p), inv[p].retry)
    /\ ~RowLocked(job(p))
    /\ Fault
    /\ RetriedRun(p)
    /\ Goto(p, "idle")
    /\ UNCHANGED <<lineage, sourceFiles, artifact, disk, local>>

\* "run fingerprint is already CLAIMED/FAILED (use --retry only for FAILED runs)"
ClaimRefused(p) ==
    /\ pc[p] = "claim"
    /\ stage[job(p)] # "ABSENT"
    /\ ~Finished(job(p))
    /\ ~Retryable(job(p), inv[p].retry)
    /\ ~RowLocked(job(p))
    /\ Goto(p, "idle")
    /\ UNCHANGED <<database, disk, local, faults>>

-----------------------------------------------------------------------------
\* Persist: the transaction after the claim.

file(p) == FileOf[job(p)][fileIx[p]]

PendingElsewhere(p) == \E q \in Proc \ {p} : file(p) \in pending[q]

\* The current file has an id: go on with the next one, or with the lineage.
NextFile_OffByOne(p) ==
    /\ Goto(p, IF fileIx[p] \in 1..2 THEN "files" ELSE "lineage")
    /\ fileIx' = [fileIx EXCEPT ![p] = @ + 1]

NextFile(p) ==
    /\ Goto(p, IF fileIx[p] = 1 THEN "files" ELSE "lineage")
    /\ fileIx' = [fileIx EXCEPT ![p] = 2]

\* tx.Rollback releases what the transaction inserted; markRunFailed comes next.
Rollback_Leaked(p) ==
    /\ UNCHANGED pending
    /\ Goto(p, "mark")

Rollback(p) ==
    /\ pending' = [pending EXCEPT ![p] = {}]
    /\ Goto(p, "mark")

\* Mutant: the lookup also sees rows of open transactions.
FileFound_ReadsUncommitted(p) ==
    /\ pc[p] = "files"
    /\ file(p) \in sourceFiles \/ PendingElsewhere(p)
    /\ NextFile(p)
    /\ UNCHANGED <<database, disk, inv, pending, hashed, faults>>

\* The row exists when the statement takes its snapshot: its id is selected.
FileFound(p) ==
    /\ pc[p] = "files"
    /\ file(p) \in sourceFiles
    /\ NextFile(p)
    /\ UNCHANGED <<database, disk, inv, pending, hashed, faults>>

FileInsert(p) ==
    /\ pc[p] = "files"
    /\ file(p) \notin sourceFiles
    /\ ~PendingElsewhere(p)
    /\ pending' = [pending EXCEPT ![p] = @ \cup {file(p)}]
    /\ NextFile(p)
    /\ UNCHANGED <<database, disk, inv, hashed, faults>>

\* Another open transaction inserted the same key: the INSERT waits for it, the
\* statement's snapshot already taken.
FileWait(p) ==
    /\ pc[p] = "files"
    /\ file(p) \notin sourceFiles
    /\ PendingElsewhere(p)
    /\ Goto(p, "filewait")
    /\ UNCHANGED <<database, disk, local, faults>>

\* The other transaction rolled back: this INSERT goes through.
FileWakeInsert(p) ==
    /\ pc[p] = "filewait"
    /\ ~PendingElsewhere(p)
    /\ file(p) \notin sourceFiles
    /\ pending' = [pending EXCEPT ![p] = @ \cup {file(p)}]
    /\ NextFile(p)
    /\ UNCHANGED <<database, disk, inv, hashed, faults>>

\* The other transaction committed: DO NOTHING returns no row, the old snapshot
\* does not see the new one, Scan reports no rows, Persist fails.
FileWakeNoRows(p) ==
    /\ pc[p] = "filewait"
    /\ ~PendingElsewhere(p)
    /\ file(p) \in sourceFiles
    /\ Rollback(p)
    /\ UNCHANGED <<database, disk, inv, fileIx, hashed, faults>>

\* Everything from run_files to UPDATE runs, inside the open transaction.
\* run_files has PRIMARY KEY(run_id, role): a second lineage is refused.
WriteLineage(p) ==
    /\ pc[p] = "lineage"
    /\ ~RowLocked(job(p))
    /\ IF lineage[job(p)] = {}
       THEN Goto(p, "commit") /\ UNCHANGED pending
       ELSE Rollback(p)
    /\ UNCHANGED <<database, disk, inv, fileIx, hashed, faults>>

CommittedLineage(p) ==
    /\ stage' = [stage EXCEPT ![job(p)] = "RECONCILED"]
    /\ status' = [status EXCEPT ![job(p)] = "NOT_CHECKED"]
    /\ lineage' = [lineage EXCEPT ![job(p)] = @ \cup {attempt[job(p)]}]
    /\ sourceFiles' = sourceFiles \cup pending[p]
    /\ pending' = [pending EXCEPT ![p] = {}]

PersistCommit(p) ==
    /\ pc[p] = "commit"
    /\ CommittedLineage(p)
    /\ Goto(p, "hash")
    /\ UNCHANGED <<attempt, runName, artifact, disk, inv, fileIx, hashed, faults>>

\* The commit takes effect, Persist sees an error and still marks the run failed.
PersistCommitLost(p) ==
    /\ pc[p] = "commit"
    /\ Fault
    /\ CommittedLineage(p)
    /\ Goto(p, "mark")
    /\ UNCHANGED <<attempt, runName, artifact, disk, inv, fileIx, hashed>>

\* Any statement of the transaction, or its commit, fails without effect.
PersistError(p) ==
    /\ pc[p] \in InPersist
    /\ Fault
    /\ Rollback(p)
    /\ UNCHANGED <<database, disk, inv, fileIx, hashed>>

\* WHERE ... stage='CLAIMED'
MayFail_AnyStage(j) == stage[j] # "ABSENT"
MayFail(j) == stage[j] = "CLAIMED"

\* markRunFailed: UPDATE ... WHERE id=$1 AND stage='CLAIMED'.
MarkFailed(p) ==
    /\ pc[p] = "mark"
    /\ ~RowLocked(job(p))
    /\ IF MayFail(job(p))
       THEN /\ stage' = [stage EXCEPT ![job(p)] = "FAILED"]
            /\ status' = [status EXCEPT ![job(p)] = "FAIL"]
       ELSE UNCHANGED <<stage, status>>
    /\ Goto(p, "idle")
    /\ UNCHANGED <<attempt, runName, lineage, sourceFiles, artifact, disk, local, faults>>

-----------------------------------------------------------------------------
\* RegisterReport.

\* FileInfoForPath hashes what is at the output path now; a missing file is an error.
HashReport(p) ==
    /\ pc[p] = "hash"
    /\ hashed' = [hashed EXCEPT ![p] = disk[inv[p].out]]
    /\ Goto(p, IF disk[inv[p].out] = None THEN "idle" ELSE "register")
    /\ UNCHANGED <<database, disk, inv, fileIx, pending, faults>>

\* One transaction: upsert report_artifacts, move the run to REPORTED.
RegisterReport(p) ==
    /\ pc[p] = "register"
    /\ ~RowLocked(job(p))
    /\ artifact' = [artifact EXCEPT ![job(p)] = hashed[p]]
    /\ IF stage[job(p)] \in {"RECONCILED", "REPORTED"}
       THEN /\ stage' = [stage EXCEPT ![job(p)] = "REPORTED"]
            /\ status' = [status EXCEPT
                             ![job(p)] = IF job(p) \in Strict THEN "PASS" ELSE "DIAGNOSTIC"]
       ELSE UNCHANGED <<stage, status>>
    /\ Goto(p, "idle")
    /\ UNCHANGED <<attempt, runName, lineage, sourceFiles, disk, local, faults>>

-----------------------------------------------------------------------------
\* The process dies, or returns an error where nothing is deferred (before and
\* during the claim, in markRunFailed whose own error is dropped, while
\* registering).  PostgreSQL rolls its open transaction back.
Crash(p) ==
    /\ pc[p] # "idle"
    /\ Fault
    /\ pending' = [pending EXCEPT ![p] = {}]
    /\ Goto(p, "idle")
    /\ UNCHANGED <<database, disk, inv, fileIx, hashed>>

ClaimRun(p) ==
    \/ ClaimInsert(p) \/ ClaimNameTaken(p) \/ ClaimCommit(p)
    \/ ClaimFinished(p) \/ ClaimRetry(p) \/ ClaimRefused(p)

Persist(p) ==
    \/ FileFound(p) \/ FileInsert(p) \/ FileWait(p)
    \/ FileWakeInsert(p) \/ FileWakeNoRows(p)
    \/ WriteLineage(p) \/ PersistCommit(p) \/ MarkFailed(p)

\* What a process does by itself once started, and when nothing goes wrong.
Step(p) ==
    \/ WriteReport(p) \/ VerifyReport(p) \/ Gate(p)
    \/ ClaimRun(p) \/ Persist(p)
    \/ HashReport(p) \/ RegisterReport(p)

Faulty(p) ==
    \/ ClaimCommitLost(p) \/ ClaimRetryLost(p)
    \/ PersistCommitLost(p) \/ PersistError(p) \/ Crash(p)

Next == \E p \in Proc : Start(p) \/ Step(p) \/ Faulty(p)

Spec == Init /\ [][Next]_vars

\* Started processes keep running: the operating system schedules them and
\* PostgreSQL grants a lock once it is free.
FairSpec == Spec /\ \A p \in Proc : WF_vars(Step(p))

\* Moreover an operator keeps issuing every command line.
OperatedSpec ==
    /\ FairSpec
    /\ \A i \in Invocation : SF_vars(\E p \in Proc : StartWith(p, i))

-----------------------------------------------------------------------------
\* Properties.

\* p holds the claim of run j: claimRun returned it, markRunFailed is not done.
Owns(p, j) == job(p) = j /\ pc[p] \in InPersist \cup {"mark"}

\* At most one process at a time works on a run after claiming it: neither a
\* concurrent first claim nor --retry hands one run to two processes
\* (claimRun's unique fingerprint and FOR UPDATE).
SingleOwner ==
    \A p, q \in Proc : \A j \in Job : Owns(p, j) /\ Owns(q, j) => p = q

\* While a process is inside the transaction of Persist nobody moves its run
\* away from CLAIMED: no stale or foreign markRunFailed, no second retry.
OwnerHoldsClaim ==
    \A p \in Proc : pc[p] \in InPersist => stage[job(p)] = "CLAIMED"

\* The rows of a run exist exactly when its stage says so, and they are those of
\* the run's last attempt: retries never mix with an earlier attempt, and a
\* commit whose acknowledgement is lost is never marked FAILED.
LineageMatchesStage ==
    \A j \in Job :
        lineage[j] = IF stage[j] \in {"RECONCILED", "REPORTED"} THEN {attempt[j]} ELSE {}

\* A committed run never refers to a source file that another transaction
\* inserted and rolled back (the source_files upsert of Persist).
LineageFilesExist ==
    \A j \in Job : lineage[j] # {} => {FileOf[j][1], FileOf[j][2]} \subseteq sourceFiles

\* A PASS status is only ever on a strict run whose summary and groups agree,
\* and a run is REPORTED exactly when it carries PASS or DIAGNOSTIC.
PassIsEarned ==
    \A j \in Job :
        /\ status[j] = "PASS" => j \in Strict \cap SummaryBalanced \cap GroupsBalanced
        /\ stage[j] = "REPORTED" <=> status[j] \in {"PASS", "DIAGNOSTIC"}

\* The registered workbook of a REPORTED run is the workbook of that run.
ReportIsOwn ==
    \A j \in Job : stage[j] = "REPORTED" => artifact[j] = j

Ledger == INSTANCE RunLedger WITH rows <- lineage

\* The processes, their crashes and retries implement the ledger: a reader of
\* `runs` sees single claims, all-or-nothing attempts and no way back.
ImplementsLedger == Ledger!Spec

\* No process waits forever on a unique index or a row lock: every started
\* process returns.
Terminates == \A p \in Proc : pc[p] # "idle" ~> pc[p] = "idle"

\* A claim whose process is gone: --retry does not apply to it.
Orphan(j) == stage[j] = "CLAIMED" /\ \A p \in Proc : ~Owns(p, j)

\* With an operator who re-runs (with --retry) and finitely many faults, every
\* claimed run ends REPORTED, except the ones whose claim was orphaned.
ReportedOrOrphaned ==
    \A j \in Job : stage[j] # "ABSENT" ~> stage[j] = "REPORTED" \/ Orphan(j)

=============================================================================
