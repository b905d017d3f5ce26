------------------------- MODULE RunLifecycleProofs -------------------------
(***************************************************************************)
(* Theorems about RunLifecycle for any number of processes, jobs, names,   *)
(* paths, files, command lines and faults.                                 *)
(***************************************************************************)
EXTENDS RunLifecycle, TLAPS

\* A command line gives its process a job, a name and an output path.
LEMMA InvocationType ==
    ASSUME TypeOK, NEW p \in Proc
    PROVE  /\ inv[p].job \in Job
           /\ inv[p].name \in Name
           /\ inv[p].out \in Path
           /\ inv[p].retry \in BOOLEAN
BY InvocationAssumption DEF TypeOK

\* Every reachable state of the run lifecycle is well typed.
THEOREM TypeCorrect == Spec => []TypeOK
<1>1. Init => TypeOK
  BY FaultAssumption DEF Init, TypeOK, Stage, Status, Label
<1>2. TypeOK /\ [Next]_vars => TypeOK'
  <2> SUFFICES ASSUME TypeOK, [Next]_vars PROVE TypeOK'
    OBVIOUS
  <2> USE FaultAssumption, FileAssumption DEF TypeOK, database, runsTable, local, Goto, job
  <2>1. CASE UNCHANGED vars
    BY <2>1 DEF vars
  <2> SUFFICES ASSUME NEW p \in Proc, Start(p) \/ Step(p) \/ Faulty(p) PROVE TypeOK'
    BY <2>1 DEF Next
  <2>2. CASE Start(p)
    BY <2>2 DEF Start, StartWith, Label
  <2>3. inv[p].job \in Job /\ inv[p].name \in Name /\ inv[p].out \in Path
    BY InvocationType
  <2>4. CASE WriteReport(p)
    BY <2>3, <2>4 DEF WriteReport, Label
  <2>5. CASE VerifyReport(p)
    BY <2>3, <2>5 DEF VerifyReport, Label
  <2>6. CASE Gate(p)
    BY <2>3, <2>6 DEF Gate, Label, InPersist
  <2>7. CASE ClaimInsert(p)
    BY <2>3, <2>7 DEF ClaimInsert, Label
  <2>8. CASE ClaimNameTaken(p)
    BY <2>3, <2>8 DEF ClaimNameTaken, Label
  <2>9. CASE ClaimCommit(p)
    BY <2>3, <2>9 DEF ClaimCommit, InsertedRun, Label, InPersist, Stage, Status
  <2>10. CASE ClaimFinished(p)
    BY <2>3, <2>10 DEF ClaimFinished, Label
  <2>11. CASE ClaimRetry(p)
    BY <2>3, <2>11 DEF ClaimRetry, RetriedRun, Label, InPersist, Stage, Status
  <2>12. CASE ClaimRefused(p)
    BY <2>3, <2>12 DEF ClaimRefused, Label
  <2>13. CASE FileFound(p)
    BY <2>3, <2>13 DEF FileFound, NextFile, Label, InPersist
  <2>14. CASE FileInsert(p)
    BY <2>3, <2>14 DEF FileInsert, NextFile, file, Label, InPersist
  <2>15. CASE FileWait(p)
    BY <2>3, <2>15 DEF FileWait, Label, InPersist
  <2>16. CASE FileWakeInsert(p)
    BY <2>3, <2>16 DEF FileWakeInsert, NextFile, file, Label, InPersist
  <2>17. CASE FileWakeNoRows(p)
    BY <2>3, <2>17 DEF FileWakeNoRows, Rollback, Label
  <2>18. CASE WriteLineage(p)
    BY <2>3, <2>18 DEF WriteLineage, Rollback, Label, InPersist
  <2>19. CASE PersistCommit(p)
    BY <2>3, <2>19 DEF PersistCommit, CommittedLineage, Label, Stage, Status
  <2>20. CASE MarkFailed(p)
    BY <2>3, <2>20 DEF MarkFailed, Label, Stage, Status
  <2>21. CASE HashReport(p)
    BY <2>3, <2>21 DEF HashReport, Label
  <2>22. CASE RegisterReport(p)
    BY <2>3, <2>22 DEF RegisterReport, Label, Stage, Status
  <2>23. CASE ClaimCommitLost(p)
    BY <2>3, <2>23 DEF ClaimCommitLost, InsertedRun, Fault, Label, Stage, Status
  <2>24. CASE ClaimRetryLost(p)
    BY <2>3, <2>24 DEF ClaimRetryLost, RetriedRun, Fault, Label, Stage, Status
  <2>25. CASE PersistCommitLost(p)
    BY <2>3, <2>25 DEF PersistCommitLost, CommittedLineage, Fault, Label, Stage, Status
  <2>26. CASE PersistError(p)
    BY <2>3, <2>26 DEF PersistError, Rollback, Fault, Label
  <2>27. CASE Crash(p)
    BY <2>3, <2>27 DEF Crash, Fault, Label
  <2> QED BY <2>1, <2>2, <2>3, <2>4, <2>5, <2>6, <2>7, <2>8, <2>9, <2>10, <2>11, <2>12,
      <2>13, <2>14, <2>15, <2>16, <2>17, <2>18, <2>19, <2>20, <2>21, <2>22, <2>23, <2>24,
      <2>25, <2>26, <2>27 DEF Step, ClaimRun, Persist, Faulty
<1> QED BY <1>1, <1>2, PTL DEF Spec

-----------------------------------------------------------------------------
\* The inductive invariant behind the claim protocol.

\* An uncommitted INSERT INTO runs is the only one for its fingerprint.
PendingClaims ==
    /\ \A p \in Proc : pc[p] = "claimcommit" => stage[job(p)] = "ABSENT"
    /\ \A p, q \in Proc :
          pc[p] = "claimcommit" /\ pc[q] = "claimcommit" /\ job(p) = job(q) => p = q

\* A process that is about to mark its run failed still holds the claim, or its
\* transaction was committed after all.
MarkingStages ==
    \A p \in Proc : pc[p] = "mark" => stage[job(p)] \in {"CLAIMED", "RECONCILED", "REPORTED"}

\* RegisterReport is only reached with a run that is reconciled or reported.
RegisteringStages ==
    \A p \in Proc : pc[p] \in {"hash", "register"} => stage[job(p)] \in {"RECONCILED", "REPORTED"}

ClaimInv ==
    PendingClaims /\ OwnerHoldsClaim /\ MarkingStages /\ RegisteringStages /\ SingleOwner

\* The claim protocol's invariant is inductive: one case per action.
LEMMA ClaimInvStep == TypeOK /\ ClaimInv /\ [Next]_vars => ClaimInv'
<1> SUFFICES ASSUME TypeOK, ClaimInv, [Next]_vars PROVE ClaimInv'
    OBVIOUS
<1> USE DEF TypeOK, ClaimInv, PendingClaims, OwnerHoldsClaim, MarkingStages,
              RegisteringStages, SingleOwner, Owns, InPersist, database, runsTable, local, Goto, job
<1>1. CASE UNCHANGED vars
    BY <1>1 DEF vars
<1> SUFFICES ASSUME NEW p \in Proc, Start(p) \/ Step(p) \/ Faulty(p) PROVE ClaimInv'
    BY <1>1 DEF Next
<1>2. CASE Start(p)
    BY <1>2 DEF Start, StartWith
<1>3. inv[p].job \in Job
    BY InvocationType
<1>4. CASE WriteReport(p)
    BY <1>3, <1>4 DEF WriteReport
<1>5. CASE VerifyReport(p)
    BY <1>3, <1>5 DEF VerifyReport
<1>6. CASE Gate(p)
    BY <1>3, <1>6 DEF Gate
<1>7. CASE ClaimInsert(p)
    BY <1>3, <1>7 DEF ClaimInsert, ClaimInFlight
<1>8. CASE ClaimNameTaken(p)
    BY <1>3, <1>8 DEF ClaimNameTaken
<1>9. CASE ClaimCommit(p)
    BY <1>3, <1>9 DEF ClaimCommit, InsertedRun
<1>10. CASE ClaimFinished(p)
    BY <1>3, <1>10 DEF ClaimFinished, Finished
<1>11. CASE ClaimRetry(p)
    BY <1>3, <1>11 DEF ClaimRetry, RetriedRun, Retryable
<1>12. CASE ClaimRefused(p)
    BY <1>3, <1>12 DEF ClaimRefused
<1>13. CASE FileFound(p)
    BY <1>3, <1>13 DEF FileFound, NextFile
<1>14. CASE FileInsert(p)
    BY <1>3, <1>14 DEF FileInsert, NextFile
<1>15. CASE FileWait(p)
    BY <1>3, <1>15 DEF FileWait
<1>16. CASE FileWakeInsert(p)
    BY <1>3, <1>16 DEF FileWakeInsert, NextFile
<1>17. CASE FileWakeNoRows(p)
    BY <1>3, <1>17 DEF FileWakeNoRows, Rollback
<1>18. CASE WriteLineage(p)
    BY <1>3, <1>18 DEF WriteLineage, Rollback
<1>19. CASE PersistCommit(p)
    BY <1>3, <1>19 DEF PersistCommit, CommittedLineage
<1>20. CASE MarkFailed(p)
  <2>1. inv' = inv /\ pc[p] = "mark" /\ pc' = [pc EXCEPT ![p] = "idle"]
    BY <1>20 DEF MarkFailed
  <2>2. \A j \in Job : stage'[j] # stage[j] => j = job(p) /\ stage[j] = "CLAIMED"
    BY <1>3, <1>20 DEF MarkFailed, MayFail
  <2>3. \A q \in Proc : inv[q].job \in Job
    BY InvocationType
  <2> QED BY <2>1, <2>2, <2>3
<1>21. CASE HashReport(p)
    BY <1>3, <1>21 DEF HashReport
<1>22. CASE RegisterReport(p)
  <2>1. inv' = inv /\ pc[p] = "register" /\ pc' = [pc EXCEPT ![p] = "idle"]
    BY <1>22 DEF RegisterReport
  <2>2. \A j \in Job : stage'[j] # stage[j] =>
           stage[j] \in {"RECONCILED", "REPORTED"} /\ stage'[j] = "REPORTED"
    BY <1>3, <1>22 DEF RegisterReport
  <2>3. \A q \in Proc : inv[q].job \in Job
    BY InvocationType
  <2> QED BY <2>1, <2>2, <2>3
<1>23. CASE ClaimCommitLost(p)
    BY <1>3, <1>23 DEF ClaimCommitLost, InsertedRun
<1>24. CASE ClaimRetryLost(p)
    BY <1>3, <1>24 DEF ClaimRetryLost, RetriedRun, Retryable
<1>25. CASE PersistCommitLost(p)
    BY <1>3, <1>25 DEF PersistCommitLost, CommittedLineage
<1>26. CASE PersistError(p)
    BY <1>3, <1>26 DEF PersistError, Rollback
<1>27. CASE Crash(p)
    BY <1>3, <1>27 DEF Crash
<1> QED BY <1>1, <1>2, <1>3, <1>4, <1>5, <1>6, <1>7, <1>8, <1>9, <1>10, <1>11, <1>12,
    <1>13, <1>14, <1>15, <1>16, <1>17, <1>18, <1>19, <1>20, <1>21, <1>22, <1>23, <1>24,
    <1>25, <1>26, <1>27 DEF Step, ClaimRun, Persist, Faulty

\* Only the claim, its retry, the two outcomes of the Persist commit,
\* markRunFailed and RegisterReport touch a run's stage, attempt or rows.
LEMMA QuietSteps ==
    ASSUME NEW p \in Proc,
           \/ Start(p) \/ WriteReport(p) \/ VerifyReport(p) \/ Gate(p)
           \/ ClaimInsert(p) \/ ClaimNameTaken(p) \/ ClaimFinished(p) \/ ClaimRefused(p)
           \/ FileFound(p) \/ FileInsert(p) \/ FileWait(p) \/ FileWakeInsert(p)
           \/ FileWakeNoRows(p) \/ WriteLineage(p) \/ HashReport(p)
           \/ PersistError(p) \/ Crash(p)
    PROVE  UNCHANGED <<stage, attempt, lineage, status>>
BY DEF Start, StartWith, WriteReport, VerifyReport, Gate, ClaimInsert, ClaimNameTaken,
       ClaimFinished, ClaimRefused, FileFound, FileInsert, FileWait, FileWakeInsert,
       FileWakeNoRows, WriteLineage, HashReport, PersistError, Crash, database, runsTable

\* Every step of every process is a step of the ledger or leaves it unchanged.
LEMMA LedgerStep ==
    TypeOK /\ ClaimInv /\ LineageMatchesStage /\ [Next]_vars =>
        [Ledger!Next]_(Ledger!ledger)
<1> SUFFICES ASSUME TypeOK, ClaimInv, LineageMatchesStage, [Next]_vars
             PROVE  [Ledger!Next]_(Ledger!ledger)
  OBVIOUS
<1>1. CASE UNCHANGED vars
  BY <1>1 DEF vars, database, runsTable, Ledger!ledger
<1> SUFFICES ASSUME NEW p \in Proc, Start(p) \/ Step(p) \/ Faulty(p)
             PROVE  [Ledger!Next]_(Ledger!ledger)
  BY <1>1 DEF Next
<1>2. inv[p].job \in Job
  BY InvocationType
<1> USE DEF TypeOK, job, Ledger!Next
<1>3. CASE \/ Start(p) \/ WriteReport(p) \/ VerifyReport(p) \/ Gate(p)
           \/ ClaimInsert(p) \/ ClaimNameTaken(p) \/ ClaimFinished(p) \/ ClaimRefused(p)
           \/ FileFound(p) \/ FileInsert(p) \/ FileWait(p) \/ FileWakeInsert(p)
           \/ FileWakeNoRows(p) \/ WriteLineage(p) \/ HashReport(p)
           \/ PersistError(p) \/ Crash(p)
  BY <1>3, QuietSteps DEF Ledger!ledger
<1>4. CASE ClaimCommit(p) \/ ClaimCommitLost(p)
  <2>1. stage[job(p)] = "ABSENT"
    BY <1>4 DEF ClaimCommit, ClaimCommitLost, ClaimInv, PendingClaims
  <2>2. Ledger!Claim(job(p))
    BY <1>4, <2>1 DEF ClaimCommit, ClaimCommitLost, InsertedRun, Ledger!Claim
  <2> QED BY <1>2, <2>2
<1>5. CASE ClaimRetry(p) \/ ClaimRetryLost(p)
  <2>1. Ledger!Retry(job(p))
    BY <1>5 DEF ClaimRetry, ClaimRetryLost, RetriedRun, Retryable, Ledger!Retry
  <2> QED BY <1>2, <2>1
<1>6. CASE PersistCommit(p) \/ PersistCommitLost(p)
  <2>1. stage[job(p)] = "CLAIMED"
    BY <1>6 DEF PersistCommit, PersistCommitLost, ClaimInv, OwnerHoldsClaim, InPersist
  <2>2. lineage[job(p)] = {}
    BY <1>2, <2>1 DEF LineageMatchesStage
  <2>3. lineage[job(p)] \cup {attempt[job(p)]} = {attempt[job(p)]}
    BY <2>2
  <2>4. Ledger!Reconcile(job(p))
    BY <1>6, <2>1, <2>3 DEF PersistCommit, PersistCommitLost, CommittedLineage, Ledger!Reconcile
  <2> QED BY <1>2, <2>4
<1>7. CASE MarkFailed(p)
  <2>1. CASE MayFail(job(p))
    <3>1. Ledger!Fail(job(p))
      BY <1>7, <2>1 DEF MarkFailed, MayFail, Ledger!Fail
    <3> QED BY <1>2, <3>1
  <2>2. CASE ~MayFail(job(p))
    BY <1>7, <2>2 DEF MarkFailed, Ledger!ledger
  <2> QED BY <2>1, <2>2
<1>8. CASE RegisterReport(p)
  <2>1. CASE stage[job(p)] = "RECONCILED"
    <3>1. Ledger!Report(job(p))
      BY <1>8, <2>1 DEF RegisterReport, Ledger!Report
    <3> QED BY <1>2, <3>1
  <2>2. CASE stage[job(p)] # "RECONCILED"
    BY <1>2, <1>8, <2>2 DEF RegisterReport, Ledger!ledger
  <2> QED BY <2>1, <2>2
<1> QED BY <1>3, <1>4, <1>5, <1>6, <1>7, <1>8 DEF Step, ClaimRun, Persist, Faulty

\* A step of the ledger keeps rows and stage together.
LEMMA LineageStep ==
    TypeOK /\ LineageMatchesStage /\ [Ledger!Next]_(Ledger!ledger) => LineageMatchesStage'
BY DEF TypeOK, LineageMatchesStage, Ledger!Next, Ledger!ledger, Ledger!Claim, Ledger!Retry,
       Ledger!Reconcile, Ledger!Fail, Ledger!Report

\* The three facts of the inductive invariant, put together.
LEMMA ControlInvariant == Spec => [](TypeOK /\ ClaimInv /\ LineageMatchesStage)
<1>1. Init => ClaimInv /\ LineageMatchesStage
  BY DEF Init, ClaimInv, PendingClaims, OwnerHoldsClaim, MarkingStages, RegisteringStages,
         SingleOwner, Owns, InPersist, LineageMatchesStage
<1>2. TypeOK /\ ClaimInv /\ LineageMatchesStage /\ [Next]_vars => (ClaimInv /\ LineageMatchesStage)'
  BY ClaimInvStep, LedgerStep, LineageStep
<1> QED BY <1>1, <1>2, TypeCorrect, PTL DEF Spec

\* No run is ever in the hands of two processes, whatever the interleaving of
\* claims, retries and crashes (claimRun).
THEOREM SingleOwnerHolds == Spec => []SingleOwner
<1>1. ClaimInv => SingleOwner
  BY DEF ClaimInv
<1> QED BY <1>1, ControlInvariant, PTL

\* A process inside the Persist transaction always finds its run still CLAIMED.
THEOREM OwnerHoldsClaimHolds == Spec => []OwnerHoldsClaim
<1>1. ClaimInv => OwnerHoldsClaim
  BY DEF ClaimInv
<1> QED BY <1>1, ControlInvariant, PTL

\* A run has rows exactly when it is reconciled or reported, and they are the
\* rows of its last attempt (Persist, markRunFailed).
THEOREM LineageMatchesStageHolds == Spec => []LineageMatchesStage
BY ControlInvariant, PTL

\* The process-level protocol implements the abstract run ledger.
THEOREM LedgerRefinement == Spec => ImplementsLedger
<1>1. Init => Ledger!Init
  BY DEF Init, Ledger!Init
<1> QED BY <1>1, LedgerStep, ControlInvariant, PTL DEF Spec, ImplementsLedger, Ledger!Spec

-----------------------------------------------------------------------------
\* Verification status.

\* Past the strict gate of Persist a process carries a job that passes it.
Gated ==
    /\ \A p \in Proc :
          pc[p] \notin {"idle", "write", "verify", "gate"} => GatePasses(job(p))
    /\ PassIsEarned

\* The gate is passed before anything of a run is written.
LEMMA GatedStep == TypeOK /\ Gated /\ [Next]_vars => Gated'
<1> SUFFICES ASSUME TypeOK, Gated, [Next]_vars PROVE Gated'
  OBVIOUS
<1> USE DEF TypeOK, Gated, PassIsEarned, GatePasses, InPersist, database, runsTable, local, Goto, job
<1>1. CASE UNCHANGED vars
  BY <1>1 DEF vars
<1> SUFFICES ASSUME NEW p \in Proc, Start(p) \/ Step(p) \/ Faulty(p) PROVE Gated'
  BY <1>1 DEF Next
<1>2. CASE Start(p)
  BY <1>2 DEF Start, StartWith
<1>3. inv[p].job \in Job /\ inv[p].out \in Path
  BY InvocationType
<1>4. CASE WriteReport(p)
  BY <1>3, <1>4 DEF WriteReport
<1>5. CASE VerifyReport(p)
  BY <1>3, <1>5 DEF VerifyReport
<1>6. CASE Gate(p)
  BY <1>3, <1>6 DEF Gate
<1>7. CASE ClaimInsert(p)
  BY <1>3, <1>7 DEF ClaimInsert
<1>8. CASE ClaimNameTaken(p)
  BY <1>3, <1>8 DEF ClaimNameTaken
<1>9. CASE ClaimCommit(p)
  BY <1>3, <1>9 DEF ClaimCommit, InsertedRun
<1>10. CASE ClaimFinished(p)
  BY <1>3, <1>10 DEF ClaimFinished
<1>11. CASE ClaimRetry(p)
  BY <1>3, <1>11 DEF ClaimRetry, RetriedRun
<1>12. CASE ClaimRefused(p)
  BY <1>3, <1>12 DEF ClaimRefused
<1>13. CASE FileFound(p)
  BY <1>3, <1>13 DEF FileFound, NextFile
<1>14. CASE FileInsert(p)
  BY <1>3, <1>14 DEF FileInsert, NextFile
<1>15. CASE FileWait(p)
  BY <1>3, <1>15 DEF FileWait
<1>16. CASE FileWakeInsert(p)
  BY <1>3, <1>16 DEF FileWakeInsert, NextFile
<1>17. CASE FileWakeNoRows(p)
  BY <1>3, <1>17 DEF FileWakeNoRows, Rollback
<1>18. CASE WriteLineage(p)
  BY <1>3, <1>18 DEF WriteLineage, Rollback
<1>19. CASE PersistCommit(p)
  BY <1>3, <1>19 DEF PersistCommit, CommittedLineage
<1>20. CASE MarkFailed(p)
  BY <1>3, <1>20 DEF MarkFailed
<1>21. CASE HashReport(p)
  BY <1>3, <1>21 DEF HashReport
<1>22. CASE RegisterReport(p)
  BY <1>3, <1>22 DEF RegisterReport
<1>23. CASE ClaimCommitLost(p)
  BY <1>3, <1>23 DEF ClaimCommitLost, InsertedRun
<1>24. CASE ClaimRetryLost(p)
  BY <1>3, <1>24 DEF ClaimRetryLost, RetriedRun
<1>25. CASE PersistCommitLost(p)
  BY <1>3, <1>25 DEF PersistCommitLost, CommittedLineage
<1>26. CASE PersistError(p)
  BY <1>3, <1>26 DEF PersistError, Rollback
<1>27. CASE Crash(p)
  BY <1>3, <1>27 DEF Crash
<1> QED BY <1>1, <1>2, <1>3, <1>4, <1>5, <1>6, <1>7, <1>8, <1>9, <1>10, <1>11, <1>12,
    <1>13, <1>14, <1>15, <1>16, <1>17, <1>18, <1>19, <1>20, <1>21, <1>22, <1>23, <1>24,
    <1>25, <1>26, <1>27 DEF Step, ClaimRun, Persist, Faulty

\* PASS is never recorded for a run that the strict gate would refuse, however
\* the run got to REPORTED (RegisterReport, possibly by a later process).
THEOREM PassIsEarnedHolds == Spec => []PassIsEarned
<1>1. Init => Gated
  BY DEF Init, Gated, PassIsEarned
<1>2. Gated => PassIsEarned
  BY DEF Gated
<1> QED BY <1>1, <1>2, GatedStep, TypeCorrect, PTL DEF Spec

-----------------------------------------------------------------------------
\* Source files.

\* What a process has obtained an id for is committed, or its own insert.
FileInv ==
    /\ \A p \in Proc :
          /\ pc[p] \in {"write", "verify", "gate", "claim", "claimcommit"} => fileIx[p] = 1
          /\ pc[p] \in InPersist /\ fileIx[p] = 2 =>
                FileOf[job(p)][1] \in sourceFiles \cup pending[p]
          /\ pc[p] \in {"lineage", "commit"} =>
                /\ FileOf[job(p)][1] \in sourceFiles \cup pending[p]
                /\ FileOf[job(p)][2] \in sourceFiles \cup pending[p]
    /\ LineageFilesExist

\* Files stay known from their upsert to the commit.
LEMMA FileInvStep == TypeOK /\ FileInv /\ [Next]_vars => FileInv'
<1> SUFFICES ASSUME TypeOK, FileInv, [Next]_vars PROVE FileInv'
  OBVIOUS
<1> USE DEF TypeOK, FileInv, LineageFilesExist, InPersist, database, runsTable, local, Goto, job
<1>1. CASE UNCHANGED vars
  BY <1>1 DEF vars
<1> SUFFICES ASSUME NEW p \in Proc, Start(p) \/ Step(p) \/ Faulty(p) PROVE FileInv'
  BY <1>1 DEF Next
<1>2. CASE Start(p)
  BY <1>2 DEF Start, StartWith
<1>3. inv[p].job \in Job /\ inv[p].out \in Path
  BY InvocationType
<1>4. CASE WriteReport(p)
  BY <1>3, <1>4 DEF WriteReport
<1>5. CASE VerifyReport(p)
  BY <1>3, <1>5 DEF VerifyReport
<1>6. CASE Gate(p)
  BY <1>3, <1>6 DEF Gate
<1>7. CASE ClaimInsert(p)
  BY <1>3, <1>7 DEF ClaimInsert
<1>8. CASE ClaimNameTaken(p)
  BY <1>3, <1>8 DEF ClaimNameTaken
<1>9. CASE ClaimCommit(p)
  BY <1>3, <1>9 DEF ClaimCommit, InsertedRun
<1>10. CASE ClaimFinished(p)
  BY <1>3, <1>10 DEF ClaimFinished
<1>11. CASE ClaimRetry(p)
  BY <1>3, <1>11 DEF ClaimRetry, RetriedRun
<1>12. CASE ClaimRefused(p)
  BY <1>3, <1>12 DEF ClaimRefused
<1>13. CASE FileFound(p)
  BY <1>3, <1>13 DEF FileFound, NextFile, file
<1>14. CASE FileInsert(p)
  BY <1>3, <1>14 DEF FileInsert, NextFile, file
<1>15. CASE FileWait(p)
  BY <1>3, <1>15 DEF FileWait
<1>16. CASE FileWakeInsert(p)
  BY <1>3, <1>16 DEF FileWakeInsert, NextFile, file
<1>17. CASE FileWakeNoRows(p)
  BY <1>3, <1>17 DEF FileWakeNoRows, Rollback
<1>18. CASE WriteLineage(p)
  BY <1>3, <1>18 DEF WriteLineage, Rollback
<1>19. CASE PersistCommit(p)
  BY <1>3, <1>19 DEF PersistCommit, CommittedLineage
<1>20. CASE MarkFailed(p)
  BY <1>3, <1>20 DEF MarkFailed
<1>21. CASE HashReport(p)
  BY <1>3, <1>21 DEF HashReport
<1>22. CASE RegisterReport(p)
  BY <1>3, <1>22 DEF RegisterReport
<1>23. CASE ClaimCommitLost(p)
  BY <1>3, <1>23 DEF ClaimCommitLost, InsertedRun
<1>24. CASE ClaimRetryLost(p)
  BY <1>3, <1>24 DEF ClaimRetryLost, RetriedRun
<1>25. CASE PersistCommitLost(p)
  BY <1>3, <1>25 DEF PersistCommitLost, CommittedLineage
<1>26. CASE PersistError(p)
  BY <1>3, <1>26 DEF PersistError, Rollback
<1>27. CASE Crash(p)
  BY <1>3, <1>27 DEF Crash
<1> QED BY <1>1, <1>2, <1>3, <1>4, <1>5, <1>6, <1>7, <1>8, <1>9, <1>10, <1>11, <1>12,
    <1>13, <1>14, <1>15, <1>16, <1>17, <1>18, <1>19, <1>20, <1>21, <1>22, <1>23, <1>24,
    <1>25, <1>26, <1>27 DEF Step, ClaimRun, Persist, Faulty

\* The source_files rows a committed run refers to are committed as well.
THEOREM LineageFilesExistHolds == Spec => []LineageFilesExist
<1>1. Init => FileInv
  BY DEF Init, FileInv, LineageFilesExist, InPersist
<1>2. FileInv => LineageFilesExist
  BY DEF FileInv
<1> QED BY <1>1, <1>2, FileInvStep, TypeCorrect, PTL DEF Spec

=============================================================================
