----------------------------- MODULE RunLedger ------------------------------
(***************************************************************************)
(* What the `runs` table promises to its readers (verify-db, explain, an   *)
(* operator looking at stage and attempt), without processes, locks or     *)
(* faults: each run is claimed, then failed or reconciled in one step      *)
(* together with all of its rows; only a failed run is attempted again;    *)
(* only a reconciled run is reported.                                      *)
(***************************************************************************)
EXTENDS Naturals

CONSTANT Job

VARIABLES
    stage,    \* runs.stage, ABSENT when there is no row
    attempt,  \* runs.attempt
    rows      \* the attempts whose lineage is visible

ledger == <<stage, attempt, rows>>

Init ==
    /\ stage = [j \in Job |-> "ABSENT"]
    /\ attempt = [j \in Job |-> 0]
    /\ rows = [j \in Job |-> {}]

Claim(j) ==
    /\ stage[j] = "ABSENT"
    /\ stage' = [stage EXCEPT ![j] = "CLAIMED"]
    /\ attempt' = [attempt EXCEPT ![j] = 1]
    /\ UNCHANGED rows

Reconcile(j) ==
    /\ stage[j] = "CLAIMED"
    /\ stage' = [stage EXCEPT ![j] = "RECONCILED"]
    /\ rows' = [rows EXCEPT ![j] = {attempt[j]}]
    /\ UNCHANGED attempt

Fail(j) ==
    /\ stage[j] = "CLAIMED"
    /\ stage' = [stage EXCEPT ![j] = "FAILED"]
    /\ UNCHANGED <<attempt, rows>>

Retry(j) ==
    /\ stage[j] = "FAILED"
    /\ stage' = [stage EXCEPT ![j] = "CLAIMED"]
    /\ attempt' = [attempt EXCEPT ![j] = @ + 1]
    /\ UNCHANGED rows

Report(j) ==
    /\ stage[j] = "RECONCILED"
    /\ stage' = [stage EXCEPT ![j] = "REPORTED"]
    /\ UNCHANGED <<attempt, rows>>

Next == \E j \in Job : Claim(j) \/ Reconcile(j) \/ Fail(j) \/ Retry(j) \/ Report(j)

Spec == Init /\ [][Next]_ledger
=============================================================================
