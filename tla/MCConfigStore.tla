---------------------------- MODULE MCConfigStore ----------------------------
(***************************************************************************)
(* Instances of ConfigStore for TLC.  Line 1 and 2 are payment rules, line *)
(* 3 a settlement rule; defect 1 deletes line 1, defect 2 corrects line 3. *)
(* "here" and "there" are the same two files read from two directories     *)
(* (origin_file is a column of a rule), "late" shares only the settlement  *)
(* file and does not match the guards.                                     *)
(***************************************************************************)
EXTENDS ConfigStore, TLC

MCLine == 1..3
MCPayment == {1, 2}
MCRule == {"ok", "bad", "there"}
MCDefectOf == <<1, 0, 2>>
MCOld == <<"bad", "ok", "bad">>
MCNew == <<"gone", "ok", "ok">>

Here == [files |-> <<"pay", "set">>, rules |-> <<"bad", "ok", "bad">>]
There == [files |-> <<"pay", "set">>, rules |-> <<"there", "there", "there">>]
Late == [files |-> <<"pay2", "set">>, rules |-> <<"ok", "gone", "bad">>]

CommandLine(op, name, content, child, line, cell) ==
    [op |-> op, name |-> name, content |-> content, child |-> child, line |-> line, cell |-> cell]

Imports ==
    { CommandLine("import", "base", Here, "base", 1, "ok"),
      CommandLine("run", "auto", Here, "auto", 1, "ok"),
      CommandLine("import", "auto", There, "auto", 1, "ok"),
      CommandLine("import", "late", There, "late", 1, "ok"),
      CommandLine("run", "late", Late, "late", 1, "ok") }

Corrections ==
    { CommandLine("script", "base", Here, "fixed", 1, "ok"),
      CommandLine("script", "late", Late, "fixed", 1, "ok"),
      CommandLine("fixes", "base", Here, "fixed", 1, "ok"),
      CommandLine("fixes", "fixed", Here, "late", 1, "ok"),
      CommandLine("use", "fixed", Here, "fixed", 1, "ok") }

Commands == Imports \cup Corrections

\* Commands that wait for each other's names, files, hashes, versions and rows, with
\* operators who edit a line without a defect, a line with one, and add a line.
SharedCommands ==
    { CommandLine("script", "base", Here, "fixed", 1, "ok"),
      CommandLine("fixes", "base", Here, "fixed", 1, "ok"),
      CommandLine("run", "auto", Here, "auto", 1, "ok"),
      CommandLine("edit", "fixed", Here, "fixed", 2, "bad"),
      CommandLine("edit", "fixed", Here, "fixed", 3, "there"),
      CommandLine("add", "fixed", Here, "fixed", 1, "ok") }

MCSymmetry == Permutations(Proc)
==============================================================================
