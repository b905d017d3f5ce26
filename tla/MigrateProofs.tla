---------------------------- MODULE MigrateProofs ---------------------------
(***************************************************************************)
(* Theorems about Migrate for any number of processes, any checkouts and   *)
(* any number of faults.                                                   *)
(***************************************************************************)
EXTENDS Migrate, TLAPS

\* The file a process is looking at is a file of its checkout, hence a version.
LEMMA CurrentFile ==
    ASSUME TypeOK, NEW p \in Proc, ix[p] <= Len(checkout[p])
    PROVE  ix[p] \in Version /\ checkout[p][ix[p]] \in Digest /\ ix[p] + 1 \in 1..(MaxVersion + 1)
<1>1. checkout[p] \in Seq(Digest) /\ Len(checkout[p]) \in Version /\ ix[p] \in 1..(MaxVersion + 1)
  BY CheckoutAssumption DEF TypeOK
<1> QED BY <1>1, BoundAssumption DEF Version

\* A process that has opened a transaction for a file has that file.
Applying ==
    \A p \in Proc : pc[p] = "apply" => ix[p] <= Len(checkout[p]) /\ recorded[ix[p]] = Absent

\* What a process has gone through is recorded with its own digests.
Progress ==
    \A p \in Proc :
        /\ pc[p] \in {"loop", "apply"} =>
              \A v \in Version : v < ix[p] => recorded[v] = checkout[p][v]
        /\ pc[p] \in {"unlock", "returned"} /\ result[p] = "nil" =>
              \A v \in 1..Len(checkout[p]) : recorded[v] = checkout[p][v]

\* The loop starts at the first file and runs at most one past the last.
LoopBound ==
    \A p \in Proc :
        /\ pc[p] = "start" => ix[p] = 1
        /\ pc[p] = "loop" => ix[p] <= Len(checkout[p]) + 1

MigrateInv ==
    /\ TypeOK
    /\ LockHeld
    /\ Applying
    /\ Progress
    /\ LoopBound
    /\ ExactlyOnce
    /\ NoDuplicateApply
    /\ AppliedInOrder
    /\ ChecksumIsOfExecuted

\* A recorded digest is final: rows are only added, or completed when they have
\* no digest yet.
LEMMA RecordedIsFinal ==
    MigrateInv /\ [Next]_vars =>
        \A v \in Version : recorded[v] \in Digest => recorded'[v] = recorded[v]
<1> SUFFICES ASSUME MigrateInv, [Next]_vars
             PROVE  \A v \in Version : recorded[v] \in Digest => recorded'[v] = recorded[v]
  OBVIOUS
<1> USE BoundAssumption, NullAssumption DEF TypeOK, MigrateInv, Goto, schema, local
<1>1. CASE UNCHANGED vars
  BY <1>1 DEF vars
<1> SUFFICES ASSUME NEW p \in Proc, Step(p) \/ Faulty(p) \/ Restart(p)
             PROVE  \A v \in Version : recorded[v] \in Digest => recorded'[v] = recorded[v]
  BY <1>1 DEF Next
<1>2. TypeOK /\ (ix[p] <= Len(checkout[p]) =>
        ix[p] \in Version /\ checkout[p][ix[p]] \in Digest /\ ix[p] + 1 \in 1..(MaxVersion + 1))
  BY CurrentFile DEF MigrateInv
<1>3. CASE Lock(p)
  BY <1>2, <1>3 DEF Lock, LockFree
<1>4. CASE Unchanged(p)
  BY <1>2, <1>4 DEF Unchanged, Continue, AtFile, version, digest
<1>5. CASE Adopt(p)
  BY <1>2, <1>5 DEF Adopt, Continue, AtFile, version, digest
<1>6. CASE ChecksumChanged(p)
  BY <1>2, <1>6 DEF ChecksumChanged, Return, AtFile, version, digest
<1>7. CASE Begin(p)
  BY <1>2, <1>7 DEF Begin, AtFile, version, digest
<1>8. CASE Apply(p)
  <2>1. pc[p] = "apply" /\ ix[p] <= Len(checkout[p]) /\ recorded[ix[p]] = Absent
    BY <1>8 DEF Apply, MigrateInv, Applying
  <2>2. Applied(p) /\ Continue(p) /\ UNCHANGED <<result, holder, checkout, faults>>
    BY <1>8, <2>1 DEF Apply, version
  <2> QED BY <1>2, <2>1, <2>2 DEF Applied, Continue, version, digest
<1>9. CASE Finish(p)
  BY <1>2, <1>9 DEF Finish, Return
<1>10. CASE Unlock(p)
  BY <1>2, <1>10 DEF Unlock
<1>11. CASE ApplyLost(p)
  <2>1. pc[p] = "apply" /\ ix[p] <= Len(checkout[p]) /\ recorded[ix[p]] = Absent
    BY <1>11 DEF ApplyLost, MigrateInv, Applying
  <2>2. Applied(p) /\ Return(p, "error") /\ faults' \in 0..MaxFaults
        /\ UNCHANGED <<holder, checkout, ix>>
    BY <1>2, <1>11 DEF ApplyLost, Fault, TypeOK
  <2> QED BY <1>2, <2>1, <2>2 DEF Applied, Return, version, digest
<1>12. CASE StatementError(p)
  BY <1>2, <1>12 DEF StatementError, Return, Fault
<1>13. CASE Crash(p)
  BY <1>2, <1>13 DEF Crash, Fault
<1>14. CASE Restart(p)
  BY <1>2, <1>14 DEF Restart
<1> QED BY <1>1, <1>2, <1>3, <1>4, <1>5, <1>6, <1>7, <1>8, <1>9, <1>10, <1>11, <1>12,
    <1>13, <1>14 DEF Step, Faulty

\* Types are preserved by every step.
LEMMA TypeStep == MigrateInv /\ [Next]_vars => TypeOK'
<1> SUFFICES ASSUME MigrateInv, [Next]_vars PROVE TypeOK'
  OBVIOUS
<1> USE BoundAssumption, NullAssumption DEF TypeOK, MigrateInv, Label, Result, Goto, schema, local
<1>1. CASE UNCHANGED vars
  BY <1>1 DEF vars
<1> SUFFICES ASSUME NEW p \in Proc, Step(p) \/ Faulty(p) \/ Restart(p) PROVE TypeOK'
  BY <1>1 DEF Next
<1>2. TypeOK /\ (ix[p] <= Len(checkout[p]) =>
        ix[p] \in Version /\ checkout[p][ix[p]] \in Digest /\ ix[p] + 1 \in 1..(MaxVersion + 1))
  BY CurrentFile DEF MigrateInv
<1>3. CASE Lock(p)
  BY <1>2, <1>3 DEF Lock, LockFree
<1>4. CASE Unchanged(p)
  BY <1>2, <1>4 DEF Unchanged, Continue, AtFile, version, digest
<1>5. CASE Adopt(p)
  BY <1>2, <1>5 DEF Adopt, Continue, AtFile, version, digest
<1>6. CASE ChecksumChanged(p)
  BY <1>2, <1>6 DEF ChecksumChanged, Return, AtFile, version, digest
<1>7. CASE Begin(p)
  BY <1>2, <1>7 DEF Begin, AtFile, version, digest
<1>8. CASE Apply(p)
  <2>1. pc[p] = "apply" /\ ix[p] <= Len(checkout[p]) /\ recorded[ix[p]] = Absent
    BY <1>8 DEF Apply, MigrateInv, Applying
  <2>2. Applied(p) /\ Continue(p) /\ UNCHANGED <<result, holder, checkout, faults>>
    BY <1>8, <2>1 DEF Apply, version
  <2> QED BY <1>2, <2>1, <2>2 DEF Applied, Continue, version, digest
<1>9. CASE Finish(p)
  BY <1>2, <1>9 DEF Finish, Return
<1>10. CASE Unlock(p)
  BY <1>2, <1>10 DEF Unlock
<1>11. CASE ApplyLost(p)
  <2>1. pc[p] = "apply" /\ ix[p] <= Len(checkout[p]) /\ recorded[ix[p]] = Absent
    BY <1>11 DEF ApplyLost, MigrateInv, Applying
  <2>2. Applied(p) /\ Return(p, "error") /\ faults' \in 0..MaxFaults
        /\ UNCHANGED <<holder, checkout, ix>>
    BY <1>2, <1>11 DEF ApplyLost, Fault, TypeOK
  <2> QED BY <1>2, <2>1, <2>2 DEF Applied, Return, version, digest
<1>12. CASE StatementError(p)
  BY <1>2, <1>12 DEF StatementError, Return, Fault
<1>13. CASE Crash(p)
  BY <1>2, <1>13 DEF Crash, Fault
<1>14. CASE Restart(p)
  BY <1>2, <1>14 DEF Restart
<1> QED BY <1>1, <1>2, <1>3, <1>4, <1>5, <1>6, <1>7, <1>8, <1>9, <1>10, <1>11, <1>12,
    <1>13, <1>14 DEF Step, Faulty

\* Mutual exclusion through the advisory lock.
LEMMA LockStep == MigrateInv /\ [Next]_vars => LockHeld'
<1> SUFFICES ASSUME MigrateInv, [Next]_vars PROVE LockHeld'
  OBVIOUS
<1> USE BoundAssumption, NullAssumption
      DEF TypeOK, MigrateInv, LockHeld, InSession, Label, Goto, schema, local
<1>1. CASE UNCHANGED vars
  BY <1>1 DEF vars
<1> SUFFICES ASSUME NEW p \in Proc, Step(p) \/ Faulty(p) \/ Restart(p) PROVE LockHeld'
  BY <1>1 DEF Next
<1>2. TypeOK /\ (ix[p] <= Len(checkout[p]) =>
        ix[p] \in Version /\ checkout[p][ix[p]] \in Digest /\ ix[p] + 1 \in 1..(MaxVersion + 1))
  BY CurrentFile DEF MigrateInv
<1>3. CASE Lock(p)
  BY <1>2, ProcAssumption, <1>3 DEF Lock, LockFree
<1>4. CASE Unchanged(p)
  BY <1>2, ProcAssumption, <1>4 DEF Unchanged, Continue, AtFile, version, digest
<1>5. CASE Adopt(p)
  BY <1>2, ProcAssumption, <1>5 DEF Adopt, Continue, AtFile, version, digest
<1>6. CASE ChecksumChanged(p)
  BY <1>2, ProcAssumption, <1>6 DEF ChecksumChanged, Return, AtFile, version, digest
<1>7. CASE Begin(p)
  BY <1>2, ProcAssumption, <1>7 DEF Begin, AtFile, version, digest
<1>8. CASE Apply(p)
  BY <1>2, ProcAssumption, <1>8 DEF Apply, Applied, Continue, Return, version, digest
<1>9. CASE Finish(p)
  BY <1>2, ProcAssumption, <1>9 DEF Finish, Return
<1>10. CASE Unlock(p)
  BY <1>2, ProcAssumption, <1>10 DEF Unlock
<1>11. CASE ApplyLost(p)
  BY <1>2, ProcAssumption, <1>11 DEF ApplyLost, Applied, Return, Fault, version, digest
<1>12. CASE StatementError(p)
  BY <1>2, ProcAssumption, <1>12 DEF StatementError, Return, Fault
<1>13. CASE Crash(p)
  BY <1>2, ProcAssumption, <1>13 DEF Crash, Fault
<1>14. CASE Restart(p)
  BY <1>2, ProcAssumption, <1>14 DEF Restart
<1> QED BY <1>1, <1>2, <1>3, <1>4, <1>5, <1>6, <1>7, <1>8, <1>9, <1>10, <1>11, <1>12,
    <1>13, <1>14 DEF Step, Faulty

\* Only the holder of the lock changes schema_migrations, so an open transaction stays valid.
LEMMA ApplyingStep == MigrateInv /\ [Next]_vars => Applying'
<1> SUFFICES ASSUME MigrateInv, [Next]_vars PROVE Applying'
  OBVIOUS
<1> USE BoundAssumption, NullAssumption
      DEF TypeOK, MigrateInv, Applying, LockHeld, InSession, Goto, schema, local
<1>1. CASE UNCHANGED vars
  BY <1>1 DEF vars
<1> SUFFICES ASSUME NEW p \in Proc, Step(p) \/ Faulty(p) \/ Restart(p) PROVE Applying'
  BY <1>1 DEF Next
<1>2. TypeOK /\ (ix[p] <= Len(checkout[p]) =>
        ix[p] \in Version /\ checkout[p][ix[p]] \in Digest /\ ix[p] + 1 \in 1..(MaxVersion + 1))
  BY CurrentFile DEF MigrateInv
<1>3. CASE Lock(p)
  BY <1>2, <1>3 DEF Lock, LockFree
<1>4. CASE Unchanged(p)
  BY <1>2, <1>4 DEF Unchanged, Continue, AtFile, version, digest
<1>5. CASE Adopt(p)
  BY <1>2, <1>5 DEF Adopt, Continue, AtFile, version, digest
<1>6. CASE ChecksumChanged(p)
  BY <1>2, <1>6 DEF ChecksumChanged, Return, AtFile, version, digest
<1>7. CASE Begin(p)
  BY <1>2, <1>7 DEF Begin, AtFile, version, digest
<1>8. CASE Apply(p)
  BY <1>2, <1>8 DEF Apply, Applied, Continue, Return, version, digest
<1>9. CASE Finish(p)
  BY <1>2, <1>9 DEF Finish, Return
<1>10. CASE Unlock(p)
  BY <1>2, <1>10 DEF Unlock
<1>11. CASE ApplyLost(p)
  BY <1>2, <1>11 DEF ApplyLost, Applied, Return, Fault, version, digest
<1>12. CASE StatementError(p)
  BY <1>2, <1>12 DEF StatementError, Return, Fault
<1>13. CASE Crash(p)
  BY <1>2, <1>13 DEF Crash, Fault
<1>14. CASE Restart(p)
  BY <1>2, <1>14 DEF Restart
<1> QED BY <1>1, <1>2, <1>3, <1>4, <1>5, <1>6, <1>7, <1>8, <1>9, <1>10, <1>11, <1>12,
    <1>13, <1>14 DEF Step, Faulty

\* The loop index stays within one of the number of files.
LEMMA LoopStep == MigrateInv /\ [Next]_vars => LoopBound'
<1> SUFFICES ASSUME MigrateInv, [Next]_vars PROVE LoopBound'
  OBVIOUS
<1> USE BoundAssumption, NullAssumption DEF TypeOK, MigrateInv, LoopBound, Goto, schema, local
<1>1. CASE UNCHANGED vars
  BY <1>1 DEF vars
<1> SUFFICES ASSUME NEW p \in Proc, Step(p) \/ Faulty(p) \/ Restart(p) PROVE LoopBound'
  BY <1>1 DEF Next
<1>2. TypeOK /\ (ix[p] <= Len(checkout[p]) =>
        ix[p] \in Version /\ checkout[p][ix[p]] \in Digest /\ ix[p] + 1 \in 1..(MaxVersion + 1))
  BY CurrentFile DEF MigrateInv
<1>3. CASE Lock(p)
  BY <1>2, CheckoutAssumption, <1>3 DEF Lock, LockFree
<1>4. CASE Unchanged(p)
  BY <1>2, CheckoutAssumption, <1>4 DEF Unchanged, Continue, AtFile, version, digest
<1>5. CASE Adopt(p)
  BY <1>2, CheckoutAssumption, <1>5 DEF Adopt, Continue, AtFile, version, digest
<1>6. CASE ChecksumChanged(p)
  BY <1>2, CheckoutAssumption, <1>6 DEF ChecksumChanged, Return, AtFile, version, digest
<1>7. CASE Begin(p)
  BY <1>2, CheckoutAssumption, <1>7 DEF Begin, AtFile, version, digest
<1>8. CASE Apply(p)
  <2>1. pc[p] = "apply" /\ ix[p] <= Len(checkout[p]) /\ recorded[ix[p]] = Absent
    BY <1>8 DEF Apply, MigrateInv, Applying
  <2>2. Applied(p) /\ Continue(p) /\ UNCHANGED <<result, holder, checkout, faults>>
    BY <1>8, <2>1 DEF Apply, version
  <2> QED BY <1>2, <2>1, <2>2, CheckoutAssumption DEF Applied, Continue, version, digest
<1>9. CASE Finish(p)
  BY <1>2, CheckoutAssumption, <1>9 DEF Finish, Return
<1>10. CASE Unlock(p)
  BY <1>2, CheckoutAssumption, <1>10 DEF Unlock
<1>11. CASE ApplyLost(p)
  <2>1. pc[p] = "apply" /\ ix[p] <= Len(checkout[p]) /\ recorded[ix[p]] = Absent
    BY <1>11 DEF ApplyLost, MigrateInv, Applying
  <2>2. Applied(p) /\ Return(p, "error") /\ faults' \in 0..MaxFaults
        /\ UNCHANGED <<holder, checkout, ix>>
    BY <1>2, <1>11 DEF ApplyLost, Fault, TypeOK
  <2> QED BY <1>2, <2>1, <2>2, CheckoutAssumption DEF Applied, Return, version, digest
<1>12. CASE StatementError(p)
  BY <1>2, CheckoutAssumption, <1>12 DEF StatementError, Return, Fault
<1>13. CASE Crash(p)
  BY <1>2, CheckoutAssumption, <1>13 DEF Crash, Fault
<1>14. CASE Restart(p)
  BY <1>2, CheckoutAssumption, <1>14 DEF Restart
<1> QED BY <1>1, <1>2, <1>3, <1>4, <1>5, <1>6, <1>7, <1>8, <1>9, <1>10, <1>11, <1>12,
    <1>13, <1>14 DEF Step, Faulty

\* Rows and executions change together.
LEMMA OnceStep == MigrateInv /\ [Next]_vars => ExactlyOnce'
<1> SUFFICES ASSUME MigrateInv, [Next]_vars PROVE ExactlyOnce'
  OBVIOUS
<1> USE BoundAssumption, NullAssumption DEF TypeOK, MigrateInv, ExactlyOnce, Goto, schema, local
<1>1. CASE UNCHANGED vars
  BY <1>1 DEF vars
<1> SUFFICES ASSUME NEW p \in Proc, Step(p) \/ Faulty(p) \/ Restart(p) PROVE ExactlyOnce'
  BY <1>1 DEF Next
<1>2. TypeOK /\ (ix[p] <= Len(checkout[p]) =>
        ix[p] \in Version /\ checkout[p][ix[p]] \in Digest /\ ix[p] + 1 \in 1..(MaxVersion + 1))
  BY CurrentFile DEF MigrateInv
<1>3. CASE Lock(p)
  BY <1>2, <1>3 DEF Lock, LockFree
<1>4. CASE Unchanged(p)
  BY <1>2, <1>4 DEF Unchanged, Continue, AtFile, version, digest
<1>5. CASE Adopt(p)
  BY <1>2, <1>5 DEF Adopt, Continue, AtFile, version, digest
<1>6. CASE ChecksumChanged(p)
  BY <1>2, <1>6 DEF ChecksumChanged, Return, AtFile, version, digest
<1>7. CASE Begin(p)
  BY <1>2, <1>7 DEF Begin, AtFile, version, digest
<1>8. CASE Apply(p)
  <2>1. pc[p] = "apply" /\ ix[p] <= Len(checkout[p]) /\ recorded[ix[p]] = Absent
    BY <1>8 DEF Apply, MigrateInv, Applying
  <2>2. Applied(p) /\ Continue(p) /\ UNCHANGED <<result, holder, checkout, faults>>
    BY <1>8, <2>1 DEF Apply, version
  <2> QED BY <1>2, <2>1, <2>2 DEF Applied, Continue, version, digest
<1>9. CASE Finish(p)
  BY <1>2, <1>9 DEF Finish, Return
<1>10. CASE Unlock(p)
  BY <1>2, <1>10 DEF Unlock
<1>11. CASE ApplyLost(p)
  <2>1. pc[p] = "apply" /\ ix[p] <= Len(checkout[p]) /\ recorded[ix[p]] = Absent
    BY <1>11 DEF ApplyLost, MigrateInv, Applying
  <2>2. Applied(p) /\ Return(p, "error") /\ faults' \in 0..MaxFaults
        /\ UNCHANGED <<holder, checkout, ix>>
    BY <1>2, <1>11 DEF ApplyLost, Fault, TypeOK
  <2> QED BY <1>2, <2>1, <2>2 DEF Applied, Return, version, digest
<1>12. CASE StatementError(p)
  BY <1>2, <1>12 DEF StatementError, Return, Fault
<1>13. CASE Crash(p)
  BY <1>2, <1>13 DEF Crash, Fault
<1>14. CASE Restart(p)
  BY <1>2, <1>14 DEF Restart
<1> QED BY <1>1, <1>2, <1>3, <1>4, <1>5, <1>6, <1>7, <1>8, <1>9, <1>10, <1>11, <1>12,
    <1>13, <1>14 DEF Step, Faulty

\* The primary key of schema_migrations is never hit.
LEMMA DuplicateStep == MigrateInv /\ [Next]_vars => NoDuplicateApply'
<1> SUFFICES ASSUME MigrateInv, [Next]_vars PROVE NoDuplicateApply'
  OBVIOUS
<1> USE BoundAssumption, NullAssumption
      DEF TypeOK, MigrateInv, NoDuplicateApply, Goto, schema, local
<1>1. CASE UNCHANGED vars
  BY <1>1 DEF vars
<1> SUFFICES ASSUME NEW p \in Proc, Step(p) \/ Faulty(p) \/ Restart(p) PROVE NoDuplicateApply'
  BY <1>1 DEF Next
<1>2. TypeOK /\ (ix[p] <= Len(checkout[p]) =>
        ix[p] \in Version /\ checkout[p][ix[p]] \in Digest /\ ix[p] + 1 \in 1..(MaxVersion + 1))
  BY CurrentFile DEF MigrateInv
<1>3. CASE Lock(p)
  BY <1>2, <1>3 DEF Lock, LockFree
<1>4. CASE Unchanged(p)
  BY <1>2, <1>4 DEF Unchanged, Continue, AtFile, version, digest
<1>5. CASE Adopt(p)
  BY <1>2, <1>5 DEF Adopt, Continue, AtFile, version, digest
<1>6. CASE ChecksumChanged(p)
  BY <1>2, <1>6 DEF ChecksumChanged, Return, AtFile, version, digest
<1>7. CASE Begin(p)
  BY <1>2, <1>7 DEF Begin, AtFile, version, digest
<1>8. CASE Apply(p)
  <2>1. pc[p] = "apply" /\ ix[p] <= Len(checkout[p]) /\ recorded[ix[p]] = Absent
    BY <1>8 DEF Apply, MigrateInv, Applying
  <2>2. Applied(p) /\ Continue(p) /\ UNCHANGED <<result, holder, checkout, faults>>
    BY <1>8, <2>1 DEF Apply, version
  <2> QED BY <1>2, <2>1, <2>2 DEF Applied, Continue, version, digest
<1>9. CASE Finish(p)
  BY <1>2, <1>9 DEF Finish, Return
<1>10. CASE Unlock(p)
  BY <1>2, <1>10 DEF Unlock
<1>11. CASE ApplyLost(p)
  <2>1. pc[p] = "apply" /\ ix[p] <= Len(checkout[p]) /\ recorded[ix[p]] = Absent
    BY <1>11 DEF ApplyLost, MigrateInv, Applying
  <2>2. Applied(p) /\ Return(p, "error") /\ faults' \in 0..MaxFaults
        /\ UNCHANGED <<holder, checkout, ix>>
    BY <1>2, <1>11 DEF ApplyLost, Fault, TypeOK
  <2> QED BY <1>2, <2>1, <2>2 DEF Applied, Return, version, digest
<1>12. CASE StatementError(p)
  BY <1>2, <1>12 DEF StatementError, Return, Fault
<1>13. CASE Crash(p)
  BY <1>2, <1>13 DEF Crash, Fault
<1>14. CASE Restart(p)
  BY <1>2, <1>14 DEF Restart
<1> QED BY <1>1, <1>2, <1>3, <1>4, <1>5, <1>6, <1>7, <1>8, <1>9, <1>10, <1>11, <1>12,
    <1>13, <1>14 DEF Step, Faulty

\* The files a process has passed are versions, recorded with its own digests.
LEMMA PassedFiles ==
    ASSUME MigrateInv, NEW q \in Proc, pc[q] \in {"loop", "apply"}, NEW v \in Version, v < ix[q]
    PROVE  v \in 1..Len(checkout[q]) /\ recorded[v] = checkout[q][v]
           /\ recorded[v] \in Digest /\ recorded[v] # Absent
<1>1. checkout[q] \in Seq(Digest) /\ Len(checkout[q]) \in Version /\ ix[q] \in Nat
  BY CheckoutAssumption DEF MigrateInv, TypeOK
<1>2. v \in 1..Len(checkout[q])
  BY <1>1, BoundAssumption DEF MigrateInv, LoopBound, Applying, Version
<1>3. recorded[v] = checkout[q][v]
  BY DEF MigrateInv, Progress
<1> QED BY <1>1, <1>2, <1>3, NullAssumption

\* A process that finished its loop keeps the schema it has seen.
LEMMA FinishedFiles ==
    ASSUME MigrateInv, NEW q \in Proc, NEW v \in 1..Len(checkout[q])
    PROVE  v \in Version /\ checkout[q][v] \in Digest
<1>1. checkout[q] \in Seq(Digest) /\ Len(checkout[q]) \in Version
  BY CheckoutAssumption DEF MigrateInv, TypeOK
<1> QED BY <1>1, BoundAssumption DEF Version

\* A version is applied after all earlier ones.
LEMMA OrderStep == MigrateInv /\ [Next]_vars => AppliedInOrder'
<1> SUFFICES ASSUME MigrateInv, [Next]_vars PROVE AppliedInOrder'
  OBVIOUS
<1> USE BoundAssumption, NullAssumption
      DEF TypeOK, MigrateInv, AppliedInOrder, Version, Goto, schema, local
<1>1. CASE UNCHANGED vars
  BY <1>1 DEF vars
<1> SUFFICES ASSUME NEW p \in Proc, Step(p) \/ Faulty(p) \/ Restart(p) PROVE AppliedInOrder'
  BY <1>1 DEF Next
<1>2. TypeOK /\ (ix[p] <= Len(checkout[p]) =>
        ix[p] \in Version /\ checkout[p][ix[p]] \in Digest /\ ix[p] + 1 \in 1..(MaxVersion + 1))
  BY CurrentFile DEF MigrateInv
<1>3. CASE Lock(p)
  BY <1>2, <1>3 DEF Lock, LockFree
<1>4. CASE Unchanged(p)
  BY <1>2, <1>4 DEF Unchanged, Continue, AtFile, version, digest
<1>5. CASE Adopt(p)
  BY <1>2, <1>5 DEF Adopt, Continue, AtFile, version, digest
<1>6. CASE ChecksumChanged(p)
  BY <1>2, <1>6 DEF ChecksumChanged, Return, AtFile, version, digest
<1>7. CASE Begin(p)
  BY <1>2, <1>7 DEF Begin, AtFile, version, digest
<1>8. CASE Apply(p)
  <2>1. pc[p] = "apply" /\ ix[p] <= Len(checkout[p]) /\ recorded[ix[p]] = Absent
    BY <1>8 DEF Apply, MigrateInv, Applying
  <2>2. Applied(p) /\ Continue(p) /\ UNCHANGED <<result, holder, checkout, faults>>
    BY <1>8, <2>1 DEF Apply, version
  <2>3. \A v \in Version : v < ix[p] => recorded[v] # Absent
    BY <2>1, PassedFiles DEF MigrateInv
  <2> QED BY <1>2, <2>1, <2>2, <2>3 DEF Applied, Continue, version, digest
<1>9. CASE Finish(p)
  BY <1>2, <1>9 DEF Finish, Return
<1>10. CASE Unlock(p)
  BY <1>2, <1>10 DEF Unlock
<1>11. CASE ApplyLost(p)
  <2>1. pc[p] = "apply" /\ ix[p] <= Len(checkout[p]) /\ recorded[ix[p]] = Absent
    BY <1>11 DEF ApplyLost, MigrateInv, Applying
  <2>2. Applied(p) /\ Return(p, "error") /\ faults' \in 0..MaxFaults
        /\ UNCHANGED <<holder, checkout, ix>>
    BY <1>2, <1>11 DEF ApplyLost, Fault, TypeOK
  <2>3. \A v \in Version : v < ix[p] => recorded[v] # Absent
    BY <2>1, PassedFiles DEF MigrateInv
  <2> QED BY <1>2, <2>1, <2>2, <2>3 DEF Applied, Return, version, digest
<1>12. CASE StatementError(p)
  BY <1>2, <1>12 DEF StatementError, Return, Fault
<1>13. CASE Crash(p)
  BY <1>2, <1>13 DEF Crash, Fault
<1>14. CASE Restart(p)
  BY <1>2, <1>14 DEF Restart
<1> QED BY <1>1, <1>2, <1>3, <1>4, <1>5, <1>6, <1>7, <1>8, <1>9, <1>10, <1>11, <1>12,
    <1>13, <1>14 DEF Step, Faulty

\* A digest is recorded once and for the SQL that ran.
LEMMA ChecksumStep == MigrateInv /\ [Next]_vars => ChecksumIsOfExecuted'
<1> SUFFICES ASSUME MigrateInv, [Next]_vars PROVE ChecksumIsOfExecuted'
  OBVIOUS
<1> USE BoundAssumption, NullAssumption
      DEF TypeOK, MigrateInv, ChecksumIsOfExecuted, ExactlyOnce, Goto, schema, local
<1>1. CASE UNCHANGED vars
  BY <1>1 DEF vars
<1> SUFFICES ASSUME NEW p \in Proc, Step(p) \/ Faulty(p) \/ Restart(p) PROVE ChecksumIsOfExecuted'
  BY <1>1 DEF Next
<1>2. TypeOK /\ (ix[p] <= Len(checkout[p]) =>
        ix[p] \in Version /\ checkout[p][ix[p]] \in Digest /\ ix[p] + 1 \in 1..(MaxVersion + 1))
  BY CurrentFile DEF MigrateInv
<1>3. CASE Lock(p)
  BY <1>2, <1>3 DEF Lock, LockFree
<1>4. CASE Unchanged(p)
  BY <1>2, <1>4 DEF Unchanged, Continue, AtFile, version, digest
<1>5. CASE Adopt(p)
  BY <1>2, <1>5 DEF Adopt, Continue, AtFile, version, digest
<1>6. CASE ChecksumChanged(p)
  BY <1>2, <1>6 DEF ChecksumChanged, Return, AtFile, version, digest
<1>7. CASE Begin(p)
  BY <1>2, <1>7 DEF Begin, AtFile, version, digest
<1>8. CASE Apply(p)
  <2>1. pc[p] = "apply" /\ ix[p] <= Len(checkout[p]) /\ recorded[ix[p]] = Absent
    BY <1>8 DEF Apply, MigrateInv, Applying
  <2>2. Applied(p) /\ Continue(p) /\ UNCHANGED <<result, holder, checkout, faults>>
    BY <1>8, <2>1 DEF Apply, version
  <2> QED BY <1>2, <2>1, <2>2 DEF Applied, Continue, version, digest
<1>9. CASE Finish(p)
  BY <1>2, <1>9 DEF Finish, Return
<1>10. CASE Unlock(p)
  BY <1>2, <1>10 DEF Unlock
<1>11. CASE ApplyLost(p)
  <2>1. pc[p] = "apply" /\ ix[p] <= Len(checkout[p]) /\ recorded[ix[p]] = Absent
    BY <1>11 DEF ApplyLost, MigrateInv, Applying
  <2>2. Applied(p) /\ Return(p, "error") /\ faults' \in 0..MaxFaults
        /\ UNCHANGED <<holder, checkout, ix>>
    BY <1>2, <1>11 DEF ApplyLost, Fault, TypeOK
  <2> QED BY <1>2, <2>1, <2>2 DEF Applied, Return, version, digest
<1>12. CASE StatementError(p)
  BY <1>2, <1>12 DEF StatementError, Return, Fault
<1>13. CASE Crash(p)
  BY <1>2, <1>13 DEF Crash, Fault
<1>14. CASE Restart(p)
  BY <1>2, <1>14 DEF Restart
<1> QED BY <1>1, <1>2, <1>3, <1>4, <1>5, <1>6, <1>7, <1>8, <1>9, <1>10, <1>11, <1>12,
    <1>13, <1>14 DEF Step, Faulty

\* What a process has passed stays recorded with its digests, whatever the others do.
LEMMA ProgressStep == MigrateInv /\ [Next]_vars => Progress'
<1> SUFFICES ASSUME MigrateInv, [Next]_vars, NEW q \in Proc
             PROVE  /\ pc'[q] \in {"loop", "apply"} =>
                          \A v \in Version : v < ix'[q] => recorded'[v] = checkout'[q][v]
                    /\ pc'[q] \in {"unlock", "returned"} /\ result'[q] = "nil" =>
                          \A v \in 1..Len(checkout'[q]) : recorded'[v] = checkout'[q][v]
  BY DEF Progress
<1> DEFINE Looping == pc[q] \in {"loop", "apply"}
<1>1. Looping => \A v \in Version : v < ix[q] => recorded'[v] = checkout[q][v]
  BY PassedFiles, RecordedIsFinal
<1>2. pc[q] \in {"unlock", "returned"} /\ result[q] = "nil" =>
         \A v \in 1..Len(checkout[q]) : recorded'[v] = checkout[q][v]
  BY FinishedFiles, RecordedIsFinal DEF MigrateInv, Progress
<1>3. TypeOK
  BY DEF MigrateInv
<1> USE DEF TypeOK, Goto, schema, local
<1>4. CASE UNCHANGED <<pc, checkout, ix, result>>
  BY <1>1, <1>2, <1>4
<1> SUFFICES ASSUME NEW p \in Proc, Step(p) \/ Faulty(p) \/ Restart(p)
             PROVE  /\ pc'[q] \in {"loop", "apply"} =>
                          \A v \in Version : v < ix'[q] => recorded'[v] = checkout'[q][v]
                    /\ pc'[q] \in {"unlock", "returned"} /\ result'[q] = "nil" =>
                          \A v \in 1..Len(checkout'[q]) : recorded'[v] = checkout'[q][v]
  BY <1>4 DEF Next, vars
<1>5. CASE p # q
  <2>1. pc'[q] = pc[q] /\ checkout'[q] = checkout[q] /\ ix'[q] = ix[q] /\ result'[q] = result[q]
    BY <1>3, <1>5 DEF Step, Faulty, Lock, Unchanged, Adopt, ChecksumChanged, Begin, Apply, Finish,
       Unlock, ApplyLost, StatementError, Crash, Restart, Continue, Return
  <2> QED BY <1>1, <1>2, <2>1
<1>6. CASE p = q
  <2>1. CASE Lock(q)
    <3>1. ix[q] = 1 /\ ix' = ix /\ pc'[q] = "loop"
      BY <1>3, <2>1 DEF Lock, MigrateInv, LoopBound
    <3> QED BY <3>1, BoundAssumption DEF Version
  <2>2. CASE Unchanged(q)
    <3>1. pc[q] = "loop" /\ pc'[q] = "loop" /\ ix'[q] = ix[q] + 1 /\ checkout' = checkout
          /\ recorded' = recorded /\ recorded[ix[q]] = checkout[q][ix[q]] /\ ix[q] \in Nat
      BY <1>3, <2>2 DEF Unchanged, Continue, AtFile, version, digest
    <3> QED BY <1>1, <3>1, BoundAssumption DEF Version
  <2>3. CASE Adopt(q)
    <3>1. pc[q] = "loop" /\ pc'[q] = "loop" /\ ix'[q] = ix[q] + 1 /\ checkout' = checkout
          /\ ix[q] <= Len(checkout[q]) /\ ix[q] \in Nat
      BY <1>3, <2>3 DEF Adopt, Continue, AtFile
    <3>2. recorded'[ix[q]] = checkout[q][ix[q]]
      BY <1>3, <2>3, <3>1, CurrentFile DEF Adopt, version, digest
    <3> QED BY <1>1, <3>1, <3>2, BoundAssumption DEF Version
  <2>4. CASE ChecksumChanged(q) \/ StatementError(q) \/ ApplyLost(q) \/ Crash(q)
    BY <1>3, <2>4 DEF ChecksumChanged, StatementError, ApplyLost, Crash, Return, Result
  <2>5. CASE Begin(q)
    BY <1>1, <1>3, <2>5 DEF Begin, AtFile
  <2>6. CASE Apply(q)
    <3>1. pc[q] = "apply" /\ ix[q] <= Len(checkout[q]) /\ recorded[ix[q]] = Absent
      BY <2>6 DEF Apply, MigrateInv, Applying
    <3>2. Applied(q) /\ Continue(q) /\ UNCHANGED <<result, holder, checkout, faults>>
      BY <2>6, <3>1 DEF Apply, version
    <3>3. pc'[q] = "loop" /\ ix'[q] = ix[q] + 1 /\ checkout' = checkout /\ ix[q] \in Nat
      BY <1>3, <3>2 DEF Continue
    <3>4. recorded'[ix[q]] = checkout[q][ix[q]]
      BY <1>3, <3>1, <3>2, CurrentFile DEF Applied, version, digest
    <3> QED BY <1>1, <3>1, <3>3, <3>4, BoundAssumption DEF Version
  <2>7. CASE Finish(q)
    <3>1. pc[q] = "loop" /\ ix[q] > Len(checkout[q]) /\ checkout' = checkout /\ pc'[q] = "unlock"
          /\ ix[q] \in Nat /\ Len(checkout[q]) \in Nat
      BY <1>3, <2>7, CheckoutAssumption, BoundAssumption DEF Finish, Return, Version
    <3>2. \A v \in 1..Len(checkout[q]) : v \in Version /\ v < ix[q]
      BY <3>1, FinishedFiles, BoundAssumption DEF Version
    <3> QED BY <1>1, <3>1, <3>2
  <2>8. CASE Unlock(q)
    BY <1>2, <1>3, <2>8 DEF Unlock
  <2>9. CASE Restart(q)
    BY <1>3, <2>9 DEF Restart
  <2> QED BY <1>6, <2>1, <2>2, <2>3, <2>4, <2>5, <2>6, <2>7, <2>8, <2>9 DEF Step, Faulty
<1> QED BY <1>5, <1>6

\* The strengthened invariant holds in every reachable state.
LEMMA MigrateInvariant == Spec => []MigrateInv
<1>1. Init => MigrateInv
  <2> SUFFICES ASSUME Init PROVE MigrateInv
    OBVIOUS
  <2>1. PICK n \in 0..MaxVersion :
           /\ recorded = [v \in Version |-> IF v <= n THEN Null ELSE Absent]
           /\ executions = [v \in Version |-> IF v <= n THEN 1 ELSE 0]
           /\ executed = [v \in Version |-> IF v <= n THEN Null ELSE Absent]
    BY DEF Init
  <2>2. TypeOK
    BY <2>1, BoundAssumption DEF Init, TypeOK, Label, Result
  <2>3. LockHeld /\ Applying /\ Progress /\ LoopBound /\ NoDuplicateApply
    BY ProcAssumption DEF Init, LockHeld, InSession, Applying, Progress, LoopBound, NoDuplicateApply
  <2>4. ExactlyOnce /\ ChecksumIsOfExecuted
    BY <2>1, NullAssumption DEF ExactlyOnce, ChecksumIsOfExecuted
  <2>5. AppliedInOrder
    BY <2>1, BoundAssumption, NullAssumption DEF AppliedInOrder, Version
  <2> QED BY <2>2, <2>3, <2>4, <2>5 DEF MigrateInv
<1>2. MigrateInv /\ [Next]_vars => MigrateInv'
  BY TypeStep, LockStep, ApplyingStep, ProgressStep, LoopStep, OnceStep, DuplicateStep, OrderStep,
     ChecksumStep DEF MigrateInv
<1> QED BY <1>1, <1>2, PTL DEF Spec

\* Each migration takes effect exactly once and together with its row, over any
\* number of concurrent migrators, crashes and lost acknowledgements (Migrate).
THEOREM MigrateExactlyOnce == Spec => []ExactlyOnce
<1>1. MigrateInv => ExactlyOnce
  BY DEF MigrateInv
<1> QED BY <1>1, MigrateInvariant, PTL

\* Whatever dies when, the applied migrations are a prefix of the sequence.
THEOREM MigrateInOrder == Spec => []AppliedInOrder
<1>1. MigrateInv => AppliedInOrder
  BY DEF MigrateInv
<1> QED BY <1>1, MigrateInvariant, PTL

\* A nil result means that every file of the checkout is in the schema with its
\* checksum, from then on.
THEOREM MigrateNilMeansCurrent == Spec => []NilMeansCurrent
<1>1. MigrateInv => NilMeansCurrent
  BY DEF MigrateInv, Progress, NilMeansCurrent
<1> QED BY <1>1, MigrateInvariant, PTL

\* The advisory lock excludes: exactly its holder is between lock and unlock.
THEOREM MigrateLocked == Spec => []LockHeld
<1>1. MigrateInv => LockHeld
  BY DEF MigrateInv
<1> QED BY <1>1, MigrateInvariant, PTL

\* No migrator meets a version that another one has applied since it looked: the
\* primary key of schema_migrations never has to refuse.
THEOREM MigrateNoDuplicate == Spec => []NoDuplicateApply
<1>1. MigrateInv => NoDuplicateApply
  BY DEF MigrateInv
<1> QED BY <1>1, MigrateInvariant, PTL

\* A checksum recorded by an execution is that of the SQL that ran, and no later
\* checkout changes it.
THEOREM MigrateChecksums == Spec => []ChecksumIsOfExecuted
<1>1. MigrateInv => ChecksumIsOfExecuted
  BY DEF MigrateInv
<1> QED BY <1>1, MigrateInvariant, PTL

\* Every reachable state of Migrate is well typed.
THEOREM MigrateTypeCorrect == Spec => []TypeOK
<1>1. MigrateInv => TypeOK
  BY DEF MigrateInv
<1> QED BY <1>1, MigrateInvariant, PTL
=============================================================================
