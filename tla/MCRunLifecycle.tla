--------------------------- MODULE MCRunLifecycle ---------------------------
(***************************************************************************)
(* Instances of RunLifecycle for TLC.  "strict" and "diag" are runs of the *)
(* same two input files in the two modes, "other" a run that shares only   *)
(* the settlements file, "skew" a strict run whose groups disagree         *)
(* although its summary does not.                                          *)
(***************************************************************************)
EXTENDS RunLifecycle, TLC

MCJob == {"strict", "diag", "other", "skew"}
MCName == {"n1", "n2"}
MCPath == {"a.xlsx", "b.xlsx", "c.xlsx", "d.xlsx"}
MCFile == {"pay1", "pay2", "set1"}
MCFileOf ==
    [j \in MCJob |-> IF j \in {"strict", "diag"} THEN <<"pay1", "set1">> ELSE <<"pay2", "set1">>]
MCStrict == {"strict", "skew"}
MCGroupsBalanced == {"strict", "diag"}

CommandLine(j, n, o, r) == [job |-> j, name |-> n, out |-> o, retry |-> r]

\* "strict" and "diag" share the default output path, so that a process may find the
\* other's workbook where it wrote its own; "other" reuses a name, "skew" never gets as
\* far as the database.
Issued ==
    { CommandLine("strict", "n1", "a.xlsx", FALSE), CommandLine("strict", "n1", "a.xlsx", TRUE),
      CommandLine("diag", "n2", "a.xlsx", TRUE), CommandLine("other", "n1", "c.xlsx", TRUE),
      CommandLine("skew", "n2", "d.xlsx", FALSE) }

\* The default --output of two runs of the same directory.
SharedPath ==
    { CommandLine("strict", "n1", "a.xlsx", FALSE), CommandLine("diag", "n2", "a.xlsx", FALSE) }

\* What an operator keeps issuing until the runs are reported.
Operated ==
    { CommandLine("strict", "n1", "a.xlsx", TRUE), CommandLine("diag", "n2", "b.xlsx", TRUE) }

MCSymmetry == Permutations(Proc)
=============================================================================
