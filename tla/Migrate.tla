------------------------------- MODULE Migrate ------------------------------
(***************************************************************************)
(* store.Migrate: processes that start at the same time, from checkouts    *)
(* that may differ, bring one database up to date under a session-level    *)
(* advisory lock, one transaction per migration file.                      *)
(*                                                                         *)
(* The sorted *.sql files of a checkout are the sequence of their digests: *)
(* version v is the v-th file.                                             *)
(***************************************************************************)
EXTENDS Naturals, Sequences

CONSTANTS
    Proc,       \* processes that call Migrate (migrate, import-config, run, ...)
    Digest,     \* SHA-256 values of migration files
    Checkout,   \* the migrations directories in use, as sequences of digests
    Absent,     \* no row in schema_migrations
    Null,       \* a row of an older release, without sha256
    NoProc,     \* the advisory lock is free
    MaxVersion, \* bound on the number of migration files
    MaxFaults   \* bound on crashes, failed statements and lost acknowledgements

Version == 1..MaxVersion

ASSUME CheckoutAssumption ==
    /\ Checkout \subseteq Seq(Digest)
    /\ \A c \in Checkout : Len(c) \in Version

ASSUME NullAssumption == Absent \notin Digest /\ Null \notin Digest /\ Absent # Null

ASSUME ProcAssumption == NoProc \notin Proc

ASSUME BoundAssumption == MaxVersion \in Nat /\ MaxFaults \in Nat

VARIABLES
    recorded,    \* schema_migrations: sha256 by version
    executions,  \* how often the SQL of a version was committed
    executed,    \* the digest of the SQL that was committed
    holder,      \* the session holding the advisory lock
    pc,          \* per process
    checkout,    \* per process: its migrations directory
    ix,          \* per process: loop position
    result,      \* per process: what Migrate is going to return
    faults

local == <<checkout, ix, result>>
schema == <<recorded, executions, executed>>
vars == <<schema, holder, pc, local, faults>>

Label == {"start", "loop", "apply", "unlock", "returned"}

Result == {"nil", "changed", "duplicate", "error"}

\* The types of Migrate's state: schema_migrations, the lock and the loops.
TypeOK ==
    /\ recorded \in [Version -> Digest \cup {Absent, Null}]
    /\ executions \in [Version -> Nat]
    /\ executed \in [Version -> Digest \cup {Absent, Null}]
    /\ holder \in Proc \cup {NoProc}
    /\ pc \in [Proc -> Label]
    /\ checkout \in [Proc -> Checkout]
    /\ ix \in [Proc -> 1..(MaxVersion + 1)]
    /\ result \in [Proc -> Result]
    /\ faults \in 0..MaxFaults

\* A database on which an older release, which kept no checksums, has run the
\* first n migrations (n = 0: an empty database).
Init ==
    /\ \E n \in 0..MaxVersion :
          /\ recorded = [v \in Version |-> IF v <= n THEN Null ELSE Absent]
          /\ executions = [v \in Version |-> IF v <= n THEN 1 ELSE 0]
          /\ executed = [v \in Version |-> IF v <= n THEN Null ELSE Absent]
    /\ holder = NoProc
    /\ pc = [p \in Proc |-> "start"]
    /\ checkout \in [Proc -> Checkout]
    /\ ix = [p \in Proc |-> 1]
    /\ result = [p \in Proc |-> "nil"]
    /\ faults = 0

-----------------------------------------------------------------------------
Goto(p, label) == pc' = [pc EXCEPT ![p] = label]

Fault == faults < MaxFaults /\ faults' = faults + 1

version(p) == ix[p]
digest(p) == checkout[p][ix[p]]

\* Migrate returns r once the deferred unlock has run.
Return(p, r) ==
    /\ Goto(p, "unlock")
    /\ result' = [result EXCEPT ![p] = r]

\* Mutant: the loop advances by two files.
Continue_SkipsOne(p) ==
    /\ Goto(p, "loop")
    /\ ix' = [ix EXCEPT ![p] = @ + 2]

Continue(p) ==
    /\ Goto(p, "loop")
    /\ ix' = [ix EXCEPT ![p] = @ + 1]

\* pg_advisory_lock waits until no other session holds the lock.
LockFree_Ignored(p) == TRUE  \* mutant: no lock is taken
LockFree(p) == holder = NoProc

Lock(p) ==
    /\ pc[p] = "start"
    /\ LockFree(p)
    /\ holder' = p
    /\ Goto(p, "loop")
    /\ UNCHANGED <<schema, local, faults>>

AtFile(p) == pc[p] = "loop" /\ ix[p] <= Len(checkout[p])

\* *recorded == digest: nothing to do for this version.
Unchanged(p) ==
    /\ AtFile(p)
    /\ recorded[version(p)] = digest(p)
    /\ Continue(p)
    /\ UNCHANGED <<schema, holder, checkout, result, faults>>

\* recorded == nil: the row of an older release adopts this file's digest.
Adopt(p) ==
    /\ AtFile(p)
    /\ recorded[version(p)] = Null
    /\ recorded' = [recorded EXCEPT ![version(p)] = digest(p)]
    /\ Continue(p)
    /\ UNCHANGED <<executions, executed, holder, checkout, result, faults>>

\* Mutant: a changed file is taken over instead of refused.
ChecksumChanged_Overwrites(p) ==
    /\ AtFile(p)
    /\ recorded[version(p)] \in Digest \ {digest(p)}
    /\ recorded' = [recorded EXCEPT ![version(p)] = digest(p)]
    /\ Continue(p)
    /\ UNCHANGED <<executions, executed, holder, checkout, result, faults>>

\* "migration %s checksum changed"
ChecksumChanged(p) ==
    /\ AtFile(p)
    /\ recorded[version(p)] \in Digest \ {digest(p)}
    /\ Return(p, "changed")
    /\ UNCHANGED <<schema, holder, checkout, ix, faults>>

\* No row: open a transaction and execute the file.
Begin(p) ==
    /\ AtFile(p)
    /\ recorded[version(p)] = Absent
    /\ Goto(p, "apply")
    /\ UNCHANGED <<schema, holder, local, faults>>

\* Mutant: the row is recorded, the SQL ran outside the transaction and is lost.
Applied_NotAtomic(p) ==
    /\ recorded' = [recorded EXCEPT ![version(p)] = digest(p)]
    /\ UNCHANGED <<executions, executed>>

\* The transaction's effect: the file's SQL and its row, together.
Applied(p) ==
    /\ recorded' = [recorded EXCEPT ![version(p)] = digest(p)]
    /\ executions' = [executions EXCEPT ![version(p)] = @ + 1]
    /\ executed' = [executed EXCEPT ![version(p)] = digest(p)]

\* INSERT INTO schema_migrations and commit; version is the primary key.
Apply(p) ==
    /\ pc[p] = "apply"
    /\ IF recorded[version(p)] = Absent
       THEN Applied(p) /\ Continue(p) /\ UNCHANGED result
       ELSE Return(p, "duplicate") /\ UNCHANGED <<schema, ix>>
    /\ UNCHANGED <<holder, checkout, faults>>

\* The commit takes effect and its acknowledgement is lost.
ApplyLost(p) ==
    /\ pc[p] = "apply"
    /\ recorded[version(p)] = Absent
    /\ Fault
    /\ Applied(p)
    /\ Return(p, "error")
    /\ UNCHANGED <<holder, checkout, ix>>

\* Mutant: a migration that fails is skipped.
StatementError_Continues(p) ==
    /\ AtFile(p) \/ pc[p] = "apply"
    /\ Fault
    /\ Continue(p)
    /\ UNCHANGED <<schema, holder, checkout, result>>

\* A statement fails; an open transaction is rolled back.
StatementError(p) ==
    /\ pc[p] \in {"loop", "apply"}
    /\ Fault
    /\ Return(p, "error")
    /\ UNCHANGED <<schema, holder, checkout, ix>>

\* The loop is over.
Finish(p) ==
    /\ pc[p] = "loop"
    /\ ix[p] > Len(checkout[p])
    /\ Return(p, "nil")
    /\ UNCHANGED <<schema, holder, checkout, ix, faults>>

\* Mutant: an early return before the deferred unlock is installed.
Unlock_OnlyOnSuccess(p) ==
    /\ pc[p] = "unlock"
    /\ holder' = IF result[p] = "nil" THEN NoProc ELSE holder
    /\ Goto(p, "returned")
    /\ UNCHANGED <<schema, local, faults>>

\* The deferred pg_advisory_unlock.
Unlock(p) ==
    /\ pc[p] = "unlock"
    /\ holder' = NoProc
    /\ Goto(p, "returned")
    /\ UNCHANGED <<schema, local, faults>>

\* The process dies, or the unlock fails and the connection is closed: the server
\* rolls back and drops the session's lock, and the caller sees no nil.
Crash(p) ==
    /\ pc[p] \notin {"start", "returned"}
    /\ Fault
    /\ holder' = NoProc
    /\ Goto(p, "returned")
    /\ result' = [result EXCEPT ![p] = "error"]
    /\ UNCHANGED <<schema, checkout, ix>>

\* The next command calls Migrate again, possibly from another checkout.
Restart(p) ==
    /\ pc[p] = "returned"
    /\ \E c \in Checkout : checkout' = [checkout EXCEPT ![p] = c]
    /\ ix' = [ix EXCEPT ![p] = 1]
    /\ result' = [result EXCEPT ![p] = "nil"]
    /\ Goto(p, "start")
    /\ UNCHANGED <<schema, holder, faults>>

Step(p) ==
    \/ Lock(p) \/ Unchanged(p) \/ Adopt(p) \/ ChecksumChanged(p) \/ Begin(p)
    \/ Apply(p) \/ Finish(p) \/ Unlock(p)

Faulty(p) == ApplyLost(p) \/ StatementError(p) \/ Crash(p)

Next == \E p \in Proc : Step(p) \/ Faulty(p) \/ Restart(p)

Spec == Init /\ [][Next]_vars

\* A process that has the lock keeps running, and PostgreSQL grants a free lock
\* to its waiters in turn.
FairSpec ==
    Spec /\ \A p \in Proc : WF_vars(Step(p) /\ pc[p] # "start") /\ SF_vars(Lock(p))

-----------------------------------------------------------------------------
\* Properties.

InSession(p) == pc[p] \in {"loop", "apply", "unlock"}

\* Whoever is past the lock is its holder: in particular never two processes,
\* also after crashes and failed unlocks.
LockHeld == \A p \in Proc : InSession(p) <=> holder = p

\* Every version's SQL takes effect exactly once, together with its row, over
\* all processes, restarts, crashes and lost acknowledgements.
ExactlyOnce ==
    \A v \in Version : executions[v] = IF recorded[v] = Absent THEN 0 ELSE 1

\* Nobody is turned away because somebody else applied the same version first.
NoDuplicateApply == \A p \in Proc : result[p] # "duplicate"

\* Whenever a process dies, the applied versions are a prefix of the sequence:
\* no migration is skipped and applied later.
AppliedInOrder ==
    \A v, w \in Version : v <= w /\ recorded[w] # Absent => recorded[v] # Absent

\* After a Migrate that returned nil every version it has a file for is recorded with
\* the checksum of that file, and no later process from another checkout changes
\* that.  A database may be ahead of it, and a row from before checksums were kept
\* was given the checksum of the first checkout that met it.
NilMeansCurrent ==
    \A p \in Proc : pc[p] = "returned" /\ result[p] = "nil" =>
        \A v \in 1..Len(checkout[p]) : recorded[v] = checkout[p][v]

\* The recorded checksum is that of the SQL that ran, for every version whose
\* execution was recorded with one.
ChecksumIsOfExecuted ==
    \A v \in Version : executed[v] \in Digest => recorded[v] = executed[v]

\* A process that wants to migrate gets its turn and returns.
EveryMigrateReturns == \A p \in Proc : pc[p] = "start" ~> pc[p] = "returned"
=============================================================================
