------------------------- MODULE ConfigStoreProofs -------------------------
(***************************************************************************)
(* Theorems about ConfigStore for any number of processes, versions,       *)
(* files, lines, rules, command lines, defects and faults.                 *)
(*                                                                         *)
(* The first part holds whatever operators do by SQL; the second is about  *)
(* command lines without such edits.                                       *)
(***************************************************************************)
EXTENDS ConfigStore, TLAPS

-----------------------------------------------------------------------------
\* Facts about the operators.

LEMMA CommandType ==
    ASSUME TypeOK, NEW p \in Proc
    PROVE  /\ cmd[p] \in Command
           /\ cmd[p].op \in Op
           /\ cmd[p].name \in Name /\ cmd[p].child \in Name
           /\ cmd[p].content \in Content
           /\ cmd[p].line \in Line /\ cmd[p].cell \in Cell
BY CommandAssumption DEF TypeOK

\* Correcting the first k defects leaves a rule or nothing at every line.
LEMMA FixedType ==
    ASSUME NEW r \in [Line -> Cell], NEW k \in Nat
    PROVE  Fixed(r, k) \in [Line -> Cell]
BY FixAssumption DEF Fixed

\* No corrections change nothing.
LEMMA FixedNone ==
    ASSUME NEW r \in [Line -> Cell]
    PROVE  Fixed(r, 0) = r
BY FixAssumption DEF Fixed

LEMMA NewRowType ==
    ASSUME NEW m \in Name \cup {None}
    PROVE  /\ NewRow(m) \in Version
           /\ NewRow(m).state = "DRAFT" /\ NewRow(m).hash = None /\ NewRow(m).parent = m
           /\ NewRow(m).history = {}
BY DEF NewRow, Version, Cell

\* What a transaction sees of its version, and what of it is hashed.
LEMMA ViewType ==
    ASSUME TypeOK, NEW p \in Proc, Base(p) \in Version
    PROVE  /\ View(p) \in Version
           /\ Canonical(View(p)) \in Content
           /\ View(p).files = Base(p).files
           /\ View(p).rules = Fixed(Base(p).rules, tx[p].fixes)
           /\ View(p).history = Base(p).history \cup 1..tx[p].fixes
           /\ View(p).parent = Base(p).parent
           /\ View(p).state = Base(p).state
<1>1. tx[p].fixes \in Nat /\ 1..tx[p].fixes \subseteq Nat
  BY DEF TypeOK, Tx
<1>2. Base(p).rules \in [Line -> Cell] /\ Base(p).history \subseteq Nat
  BY DEF Version
<1>3. Fixed(Base(p).rules, tx[p].fixes) \in [Line -> Cell]
  BY <1>1, <1>2, FixedType
<1>4. View(p) \in Version
  BY <1>1, <1>2, <1>3 DEF View, Version
<1>5. /\ View(p).files = Base(p).files
      /\ View(p).rules = Fixed(Base(p).rules, tx[p].fixes)
      /\ View(p).history = Base(p).history \cup 1..tx[p].fixes
      /\ View(p).parent = Base(p).parent
      /\ View(p).state = Base(p).state
  BY DEF View, Version
<1>6. Canonical(View(p)) \in Content
  BY <1>4 DEF Canonical, Content, Version
<1> QED BY <1>4, <1>5, <1>6

\* The row that COMMIT of a freeze leaves.
FrozenRow(p) == [View(p) EXCEPT !.state = "FROZEN", !.hash = tx[p].hash]

LEMMA FrozenRowType ==
    ASSUME TypeOK, NEW p \in Proc, Base(p) \in Version
    PROVE  /\ FrozenRow(p) \in Version
           /\ FrozenRow(p) # None
           /\ FrozenRow(p).state = "FROZEN" /\ FrozenRow(p).hash = tx[p].hash
           /\ FrozenRow(p).files = View(p).files /\ FrozenRow(p).rules = View(p).rules
           /\ FrozenRow(p).parent = View(p).parent /\ FrozenRow(p).history = View(p).history
           /\ Canonical(FrozenRow(p)) = Canonical(View(p))
<1>1. View(p) \in Version
  BY ViewType
<1>2. tx[p].hash \in Content \cup {None}
  BY DEF TypeOK, Tx
<1>3. /\ FrozenRow(p) \in Version
      /\ FrozenRow(p).state = "FROZEN" /\ FrozenRow(p).hash = tx[p].hash
      /\ FrozenRow(p).files = View(p).files /\ FrozenRow(p).rules = View(p).rules
      /\ FrozenRow(p).parent = View(p).parent /\ FrozenRow(p).history = View(p).history
  BY <1>1, <1>2 DEF FrozenRow, Version
<1> QED BY <1>3, RowAssumption DEF Canonical

-----------------------------------------------------------------------------
\* The invariant behind the transactions.

InTx == {"file1", "file2", "wait1", "wait2", "rules", "clonecommit", "fix", "freeze", "commit"}

Inserting == {"file1", "file2", "wait1", "wait2", "rules", "clonecommit"}

\* Only the commands that have a statement are ever at it.
LabelOK(p) ==
    /\ pc[p] \in {"byname", "byhash", "insert", "file1", "file2", "wait1", "wait2", "rules"} =>
          cmd[p].op \in {"import", "run", "script"}
    /\ pc[p] \in {"find", "clonecommit", "apply", "check"} => cmd[p].op = "script"
    /\ pc[p] \in {"clone", "cloneinsert", "fix"} => cmd[p].op \in {"script", "fixes"}
    /\ pc[p] \in {"freeze", "commit"} => cmd[p].op \in {"import", "run", "script", "fixes"}
    /\ pc[p] \in {"lookup", "load"} => cmd[p].op \in {"use", "script"}
    /\ pc[p] \in {"edit", "add", "addkey", "editcommit"} => cmd[p].op \in {"edit", "add"}

\* A version a process refers to is still what it was when the process found it.
GotOK(p) ==
    /\ got[p] # None => Frozen(got[p])
    /\ pc[p] \in {"find", "clone", "cloneinsert"} /\ cmd[p].op = "script" => got[p] # None
    /\ pc[p] \in {"load", "persist"} => got[p] # None
    /\ pc[p] = "cloneinsert" => Frozen(Parent(p))
    /\ pc[p] \in {"addkey", "editcommit"} => cmd[p].name \in drafted

\* A transaction works on a row of its own: one it inserted, that nobody else sees,
\* or a DRAFT it has locked.
TxOK(p) ==
    /\ pc[p] \notin InTx => tx[p] = NoTx
    /\ pc[p] \in InTx => tx[p].name \in Name
    /\ pc[p] \in Inserting => tx[p].row # None
    /\ tx[p].row # None =>
          /\ tx[p].row.state = "DRAFT" /\ tx[p].row.hash = None /\ tx[p].row.history = {}
          /\ version[tx[p].name] = None
    /\ pc[p] \in InTx /\ tx[p].row = None => Draft(tx[p].name)
    /\ pc[p] = "commit" <=> tx[p].hash # None
    /\ pc[p] = "commit" /\ tx[p].row # None => tx[p].hash = Canonical(View(p))

Unique == \A p, q \in Proc : p # q /\ tx[p].name # None => tx[p].name # tx[q].name

\* Only clone_config_version makes a DRAFT visible.
Drafts == \A n \in Name : (Draft(n) => n \in drafted) /\ (n \in drafted => Exists(n))

StoreInv ==
    /\ TypeOK
    /\ \A p \in Proc : LabelOK(p) /\ GotOK(p) /\ TxOK(p)
    /\ Unique
    /\ Drafts
    /\ ImportedCanonical

LEMMA StoreInit == Init => StoreInv
<1> SUFFICES ASSUME Init PROVE StoreInv
  OBVIOUS
<1>1. \A p \in Proc : cmd[p] \in Command /\ cmd[p].op \in Op
  BY CommandAssumption DEF Init
<1>2. \A p \in Proc : First(cmd[p]) \in {"byname", "clone", "lookup", "edit", "add"}
  BY <1>1 DEF First, Op
<1>3. NoTx \in Tx
  BY DEF NoTx, Tx
<1>4. TypeOK
  BY <1>2, <1>3, FaultAssumption DEF Init, TypeOK, Label
<1>5. \A p \in Proc : LabelOK(p)
  BY <1>1 DEF Init, First, Op, LabelOK
<1>6. \A p \in Proc : GotOK(p)
  BY <1>1, <1>2 DEF Init, First, Op, GotOK
<1>7. \A p \in Proc : TxOK(p)
  BY <1>2 DEF Init, TxOK, InTx, Inserting, NoTx
<1> QED BY <1>4, <1>5, <1>6, <1>7 DEF StoreInv, Init, Unique, Drafts, NoTx, Draft, Exists, ImportedCanonical

\* The row a transaction works on exists, for it.
LEMMA BaseType ==
    ASSUME StoreInv, NEW p \in Proc, pc[p] \in InTx
    PROVE  Base(p) \in Version /\ tx[p].name \in Name
BY DEF StoreInv, TypeOK, TxOK, Base, Tx, Draft, Exists

-----------------------------------------------------------------------------
\* What a step of p means for the others.

\* Only p moves.
Moves(p) ==
    /\ pc' \in [Proc -> Label] /\ \A q \in Proc \ {p} : pc'[q] = pc[q]
    /\ got' \in [Proc -> Name \cup {None}] /\ \A q \in Proc \ {p} : got'[q] = got[q]
    /\ loaded' \in [Proc -> [Line -> Cell] \cup {None}]
    /\ \A q \in Proc \ {p} : loaded'[q] = loaded[q]
    /\ tx' \in [Proc -> Tx] /\ \A q \in Proc \ {p} : tx'[q] = tx[q]
    /\ tx'[p].name \in {tx[p].name, None} \/ \A q \in Proc \ {p} : tx[q].name # tx'[p].name
    /\ faults' \in 0..MaxFaults
    /\ cmd' = cmd

\* A step that changes no committed row concerns nobody else.
LEMMA PrivateStep ==
    ASSUME StoreInv, NEW p \in Proc, Moves(p), UNCHANGED database,
           (LabelOK(p) /\ GotOK(p) /\ TxOK(p))'
    PROVE  StoreInv'
<1> USE DEF StoreInv, Moves, database
<1>1. TypeOK'
  BY DEF TypeOK
<1>2. ASSUME NEW q \in Proc, q # p PROVE (LabelOK(q) /\ GotOK(q) /\ TxOK(q))'
  <2>1. pc'[q] = pc[q] /\ got'[q] = got[q] /\ loaded'[q] = loaded[q] /\ tx'[q] = tx[q]
    BY <1>2
  <2> QED BY <2>1 DEF LabelOK, GotOK, TxOK, Frozen, Draft, Exists, Parent, View, Base, Canonical
<1>3. Unique'
  BY DEF Unique
<1>4. Drafts' /\ ImportedCanonical'
  BY DEF Drafts, ImportedCanonical, Draft, Exists, Canonical
<1> QED BY <1>1, <1>2, <1>3, <1>4

\* Version n becomes v: its state stays, or it was nobody else's and not frozen.
Becomes(p, n, v) ==
    /\ version' = [version EXCEPT ![n] = v]
    /\ \/ Exists(n) /\ v.state = version[n].state
       \/ ~Frozen(n) /\ \A q \in Proc \ {p} : tx[q].name # n

\* A step that changes a committed row keeps what the others rely on.
LEMMA PublicStep ==
    ASSUME StoreInv, NEW p \in Proc, Moves(p), NEW n \in Name, NEW v \in Version,
           Becomes(p, n, v),
           files' \in SUBSET File, drafted' \in SUBSET Name, drafted \subseteq drafted',
           (LabelOK(p) /\ GotOK(p) /\ TxOK(p))',
           Drafts', ImportedCanonical'
    PROVE  StoreInv'
<1> USE DEF StoreInv, Moves, Becomes
<1>1. TypeOK'
  BY DEF TypeOK
<1>2. v # None /\ version'[n] = v /\ \A m \in Name : m # n => version'[m] = version[m]
  BY RowAssumption DEF TypeOK
<1>3. \A m \in Name : Frozen(m) => version'[m] # None /\ version'[m].state = "FROZEN"
  BY <1>2 DEF Frozen, Exists
<1>4. ASSUME NEW q \in Proc, q # p PROVE (LabelOK(q) /\ GotOK(q) /\ TxOK(q))'
  <2>1. pc'[q] = pc[q] /\ got'[q] = got[q] /\ loaded'[q] = loaded[q] /\ tx'[q] = tx[q]
    BY <1>4
  <2>2. LabelOK(q)'
    BY <2>1 DEF LabelOK
  <2>3. GotOK(q)'
    <3>1. cmd[q].name \in Name /\ got[q] \in Name \cup {None}
      BY CommandType DEF TypeOK
    <3>2. Parent(q)' = Parent(q) /\ (pc[q] = "cloneinsert" => Parent(q) \in Name)
      BY <2>1, <3>1, NullAssumption DEF Parent, GotOK, LabelOK
    <3>3. got[q] # None => Frozen(got[q])'
      BY <1>3, <2>1, <3>1 DEF GotOK, Frozen, Exists
    <3>4. pc[q] = "cloneinsert" => Frozen(Parent(q))'
      <4>1. pc[q] = "cloneinsert" => Frozen(Parent(q))
        BY DEF GotOK
      <4> QED BY <1>3, <3>2, <4>1 DEF Frozen, Exists
    <3> QED BY <2>1, <3>3, <3>4 DEF GotOK
  <2>4. TxOK(q)'
    <3>1. tx[q].row # None => tx[q].name # n \/ version[n] # None
      BY <1>4 DEF Exists, TxOK
    <3>2. tx[q].row # None => version'[tx[q].name] = None
      <4>1. tx[q].row # None => version[tx[q].name] = None /\ tx[q].name \in Name
        BY DEF TxOK, NoTx
      <4> QED BY <1>2, <3>1, <4>1
    <3>3. pc[q] \in InTx /\ tx[q].row = None => Draft(tx[q].name)'
      <4>1. pc[q] \in InTx /\ tx[q].row = None => tx[q].name \in Name /\ Draft(tx[q].name)
        BY DEF TxOK
      <4> QED BY <1>2, <1>4, <2>1, <4>1 DEF Draft, Exists, Frozen
    <3>4. tx[q].row # None => Canonical(View(q))' = Canonical(View(q))
      BY <2>1 DEF View, Base, Canonical
    <3>5. TxOK(q)
      OBVIOUS
    <3> QED BY <2>1, <3>2, <3>3, <3>4, <3>5 DEF TxOK
  <2> QED BY <2>2, <2>3, <2>4
<1>5. Unique'
  BY DEF Unique
<1> QED BY <1>1, <1>4, <1>5

-----------------------------------------------------------------------------
\* One step of a process, statement by statement.

\* An error, or death before the commit, leaves no trace.
LEMMA RollbackStep ==
    ASSUME StoreInv, NEW p \in Proc, NEW l \in {"failed", "dead"}, Goto(p, l),
           tx' = [tx EXCEPT ![p] = NoTx], faults' \in 0..MaxFaults,
           UNCHANGED <<database, cmd, got, loaded>>
    PROVE  StoreInv'
<1> USE DEF StoreInv, Goto
<1>1. NoTx \in Tx /\ NoTx.name = None
  BY DEF NoTx, Tx
<1>2. Moves(p)
  BY <1>1 DEF Moves, TypeOK, Label, Over
<1>3. pc'[p] = l /\ tx'[p] = NoTx
  BY DEF TypeOK
<1>4. TxOK(p)'
  BY <1>3 DEF TxOK, InTx, Inserting, NoTx
<1>5. LabelOK(p)' /\ GotOK(p)'
  BY <1>3 DEF LabelOK, GotOK, database, Frozen, Exists
<1> QED BY <1>2, <1>4, <1>5, PrivateStep

LEMMA FailStep ==
    ASSUME StoreInv, NEW p \in Proc, Fail(p)
    PROVE  StoreInv'
<1>1. faults' \in 0..MaxFaults
  BY DEF Fail, StoreInv, TypeOK
<1> QED BY <1>1, RollbackStep DEF Fail

\* A statement outside a transaction, or one that only reads.
LEMMA ReadStep ==
    ASSUME StoreInv, NEW p \in Proc, pc[p] \notin InTx,
           NEW l \in Label, l \notin InTx, Goto(p, l),
           NEW n \in Name \cup {None}, got' = [got EXCEPT ![p] = n],
           NEW r \in [Line -> Cell] \cup {None}, loaded' = [loaded EXCEPT ![p] = r],
           UNCHANGED <<database, cmd, tx, faults>>,
           (LabelOK(p) /\ GotOK(p))'
    PROVE  StoreInv'
<1> USE DEF StoreInv, Goto
<1>1. Moves(p)
  BY DEF Moves, TypeOK
<1>2. pc'[p] = l /\ tx'[p] = NoTx
  BY DEF TypeOK, TxOK
<1>3. TxOK(p)'
  BY <1>2 DEF TxOK, InTx, Inserting, NoTx
<1> QED BY <1>1, <1>3, PrivateStep

\* EnsureFrozenConfig returns a version that is frozen.
LEMMA ReturnStep ==
    ASSUME StoreInv, NEW p \in Proc, pc[p] \in {"byname", "byhash"}, NEW n \in Name, Frozen(n),
           Return(p, n), UNCHANGED <<database, cmd, tx, faults>>
    PROVE  StoreInv'
<1>1. cmd[p].op \in {"import", "run", "script"} /\ cmd[p].content.rules \in [Line -> Cell]
  BY CommandType DEF StoreInv, LabelOK, Content
<1>2. PICK l \in {"ok", "persist", "find"} :
        Goto(p, l) /\ (l = "persist" <=> cmd[p].op = "run") /\ (l = "find" <=> cmd[p].op = "script")
  BY <1>1 DEF Return
<1>3. PICK r \in [Line -> Cell] \cup {None} :
        loaded' = [loaded EXCEPT ![p] = r]
  BY <1>1, <1>2 DEF Return, StoreInv, TypeOK
<1>4. got' = [got EXCEPT ![p] = n]
  BY DEF Return
<1>5. /\ pc'[p] = l /\ got'[p] = n /\ loaded'[p] = r /\ cmd' = cmd
      /\ n # None
  BY <1>2, <1>3, <1>4, NullAssumption DEF Goto, StoreInv, TypeOK
<1>6. LabelOK(p)' /\ GotOK(p)'
  BY <1>2, <1>5 DEF LabelOK, GotOK, Frozen, Exists, database
<1> QED BY <1>2, <1>3, <1>4, <1>6, ReadStep DEF InTx, Label, Over

\* A statement that neither writes nor tells the process anything to keep.
LEMMA SkipStep ==
    ASSUME StoreInv, NEW p \in Proc, pc[p] \notin InTx,
           NEW l \in Label, l \notin InTx, Goto(p, l),
           UNCHANGED <<database, cmd, tx, got, loaded, faults>>,
           (LabelOK(p) /\ GotOK(p))'
    PROVE  StoreInv'
<1>1. /\ got[p] \in Name \cup {None} /\ got' = [got EXCEPT ![p] = got[p]]
      /\ loaded[p] \in [Line -> Cell] \cup {None} /\ loaded' = [loaded EXCEPT ![p] = loaded[p]]
  BY DEF StoreInv, TypeOK
<1> QED BY <1>1, ReadStep

\* The statements of EnsureFrozenConfig and of the end-to-end script that only read.
LEMMA QuietSteps ==
    ASSUME StoreInv, NEW p \in Proc,
           \/ ByName(p) \/ ByHash(p) \/ FindChild(p) \/ Clone(p) \/ HashCheck(p)
           \/ Lookup(p) \/ LoadRules(p) \/ PersistRules(p)
           \/ Edit(p) \/ Add(p) \/ AddKey(p)
    PROVE  StoreInv'
<1> USE DEF InTx
<1>1. /\ cmd[p].name \in Name /\ cmd[p].child \in Name /\ cmd[p].op \in Op /\ TypeOK
      /\ LabelOK(p) /\ GotOK(p) /\ TxOK(p) /\ Drafts
  BY CommandType DEF StoreInv
<1>2. \A l \in Label : Goto(p, l) => pc'[p] = l
  BY <1>1 DEF Goto, TypeOK
<1>3. CASE ByName(p)
  <2>1. CASE Exists(cmd[p].name)
    BY <1>1, <1>3, <2>1, FailStep, ReturnStep DEF ByName
  <2>2. CASE ~Exists(cmd[p].name)
    <3>1. pc[p] = "byname" /\ Goto(p, "byhash") /\ UNCHANGED <<database, cmd, tx, got, loaded, faults>>
      BY <1>3, <2>2 DEF ByName
    <3>2. pc'[p] = "byhash"
      BY <1>2, <3>1 DEF Label
    <3>3. (LabelOK(p) /\ GotOK(p))'
      BY <1>1, <3>1, <3>2 DEF LabelOK, GotOK, Frozen, Exists, database
    <3> QED BY <3>1, <3>3, SkipStep DEF Label
  <2> QED BY <2>1, <2>2
<1>4. CASE ByHash(p)
  <2>1. CASE \E n \in Name :
             /\ Exists(n) /\ version[n].hash = cmd[p].content
             /\ IF Frozen(n)
                THEN Return(p, n) /\ UNCHANGED <<database, cmd, tx, faults>>
                ELSE Fail(p)
    BY <1>4, <2>1, FailStep, ReturnStep DEF ByHash
  <2>2. CASE Goto(p, "insert") /\ UNCHANGED <<database, cmd, tx, got, loaded, faults>>
    <3>1. pc[p] = "byhash" /\ pc'[p] = "insert"
      BY <1>2, <1>4, <2>2 DEF ByHash, Label
    <3>2. (LabelOK(p) /\ GotOK(p))'
      BY <1>1, <2>2, <3>1 DEF LabelOK, GotOK, Frozen, Exists, database
    <3> QED BY <2>2, <3>1, <3>2, SkipStep DEF Label
  <2> QED BY <1>4, <2>1, <2>2 DEF ByHash
<1>5. CASE FindChild(p)
  <2>1. PICK l \in {"check", "clone"} : Goto(p, l)
    BY <1>5 DEF FindChild
  <2>2. /\ pc[p] = "find" /\ pc'[p] = l
        /\ UNCHANGED <<database, cmd, tx, got, loaded, faults>>
    BY <1>2, <1>5, <2>1 DEF FindChild, Label
  <2>3. (LabelOK(p) /\ GotOK(p))'
    BY <1>1, <2>2 DEF LabelOK, GotOK, Frozen, Exists, database
  <2> QED BY <2>1, <2>2, <2>3, SkipStep DEF Label
<1>6. CASE Clone(p)
  <2>1. CASE Frozen(Parent(p))
    <3>1. /\ pc[p] = "clone" /\ Goto(p, "cloneinsert") /\ pc'[p] = "cloneinsert"
          /\ UNCHANGED <<database, cmd, tx, got, loaded, faults>>
      BY <1>2, <1>6, <2>1 DEF Clone, Label
    <3>2. (LabelOK(p) /\ GotOK(p))'
      BY <1>1, <2>1, <3>1 DEF LabelOK, GotOK, Frozen, Exists, Parent, database
    <3> QED BY <3>1, <3>2, SkipStep DEF Label
  <2> QED BY <1>6, <2>1, FailStep DEF Clone
<1>7. CASE HashCheck(p)
  <2>1. CASE Goto(p, "lookup") /\ UNCHANGED <<database, cmd, tx, got, loaded, faults>>
    <3>1. pc[p] = "check" /\ pc'[p] = "lookup"
      BY <1>2, <1>7, <2>1 DEF HashCheck, Label
    <3>2. (LabelOK(p) /\ GotOK(p))'
      BY <1>1, <2>1, <3>1 DEF LabelOK, GotOK, Frozen, Exists, database
    <3> QED BY <2>1, <3>1, <3>2, SkipStep DEF Label
  <2> QED BY <1>7, <2>1, FailStep DEF HashCheck
<1>8. CASE Lookup(p)
  <2>1. CASE Frozen(Wanted(p))
    <3>1. /\ pc[p] = "lookup" /\ Goto(p, "load") /\ pc'[p] = "load"
          /\ got' = [got EXCEPT ![p] = Wanted(p)]
          /\ UNCHANGED <<database, cmd, tx, loaded, faults>>
      BY <1>2, <1>8, <2>1 DEF Lookup, Label
    <3>2. Wanted(p) \in Name /\ got'[p] = Wanted(p) /\ Wanted(p) # None
      BY <1>1, <3>1, NullAssumption DEF Wanted, TypeOK
    <3>3. (LabelOK(p) /\ GotOK(p))'
      BY <1>1, <2>1, <3>1, <3>2 DEF LabelOK, GotOK, Frozen, Exists, database
    <3>4. loaded[p] \in [Line -> Cell] \cup {None} /\ loaded' = [loaded EXCEPT ![p] = loaded[p]]
      BY <1>1, <3>1 DEF TypeOK
    <3> QED BY <3>1, <3>2, <3>3, <3>4, ReadStep DEF Label
  <2> QED BY <1>8, <2>1, FailStep DEF Lookup
<1>9. CASE LoadRules(p)
  <2>1. CASE Fail(p)
    BY <2>1, FailStep
  <2>2. CASE ~Fail(p)
    <3>1. /\ pc[p] = "load" /\ Goto(p, "persist") /\ pc'[p] = "persist"
          /\ loaded' = [loaded EXCEPT ![p] = version[got[p]].rules]
          /\ UNCHANGED <<database, cmd, tx, got, faults>>
      BY <1>2, <1>9, <2>2 DEF LoadRules, Label
    <3>2. version[got[p]].rules \in [Line -> Cell]
      BY <1>1, <3>1 DEF GotOK, Frozen, Exists, TypeOK, Version
    <3>3. (LabelOK(p) /\ GotOK(p))'
      BY <1>1, <3>1 DEF LabelOK, GotOK, Frozen, Exists, database
    <3>4. got[p] \in Name \cup {None} /\ got' = [got EXCEPT ![p] = got[p]]
      BY <1>1, <3>1 DEF TypeOK
    <3> QED BY <3>1, <3>2, <3>3, <3>4, ReadStep DEF Label
  <2> QED BY <2>1, <2>2
<1>10. CASE PersistRules(p)
  <2>1. CASE Goto(p, "ok") /\ UNCHANGED <<database, cmd, tx, got, loaded, faults>>
    <3>1. pc[p] = "persist" /\ pc'[p] = "ok"
      BY <1>2, <1>10, <2>1 DEF PersistRules, Label, Over
    <3>2. (LabelOK(p) /\ GotOK(p))'
      BY <1>1, <2>1, <3>1 DEF LabelOK, GotOK, Frozen, Exists, database
    <3> QED BY <2>1, <3>1, <3>2, SkipStep DEF Label, Over
  <2> QED BY <1>10, <2>1, FailStep DEF PersistRules
<1>11. CASE Edit(p)
  <2>1. CASE Fail(p)
    BY <2>1, FailStep
  <2>2. CASE ~Fail(p)
    <3>1. PICK l \in {"editcommit", "ok"} :
            Goto(p, l) /\ (l = "editcommit" => HasRule(cmd[p].name, cmd[p].line))
      BY <1>11, <2>2 DEF Edit
    <3>2. /\ pc[p] = "edit" /\ pc'[p] = l
          /\ UNCHANGED <<database, cmd, tx, got, loaded, faults>>
          /\ ~(Frozen(cmd[p].name) /\ HasRule(cmd[p].name, cmd[p].line))
      BY <1>2, <1>11, <2>2, <3>1 DEF Edit, Label, Over
    <3>3. l = "editcommit" => cmd[p].name \in drafted
      BY <1>1, <3>1, <3>2 DEF Drafts, Draft, Frozen, Exists, HasRule, TypeOK, Version
    <3>4. (LabelOK(p) /\ GotOK(p))'
      BY <1>1, <3>2, <3>3 DEF LabelOK, GotOK, Frozen, Exists, database
    <3> QED BY <3>1, <3>2, <3>4, SkipStep DEF Label, Over
  <2> QED BY <2>1, <2>2
<1>12. CASE Add(p)
  <2>1. CASE Draft(cmd[p].name)
    <3>1. /\ pc[p] = "add" /\ Goto(p, "addkey") /\ pc'[p] = "addkey"
          /\ UNCHANGED <<database, cmd, tx, got, loaded, faults>>
      BY <1>2, <1>12, <2>1 DEF Add, Label
    <3>2. cmd[p].name \in drafted
      BY <1>1, <2>1 DEF Drafts
    <3>3. (LabelOK(p) /\ GotOK(p))'
      BY <1>1, <3>1, <3>2 DEF LabelOK, GotOK, Frozen, Exists, database
    <3> QED BY <3>1, <3>3, SkipStep DEF Label
  <2> QED BY <1>12, <2>1, FailStep DEF Add
<1>13. CASE AddKey(p)
  <2>1. CASE Goto(p, "editcommit") /\ UNCHANGED <<database, cmd, tx, got, loaded, faults>>
    <3>1. pc[p] = "addkey" /\ pc'[p] = "editcommit"
      BY <1>2, <1>13, <2>1 DEF AddKey, Label
    <3>2. (LabelOK(p) /\ GotOK(p))'
      BY <1>1, <2>1, <3>1 DEF LabelOK, GotOK, Frozen, Exists, database
    <3> QED BY <2>1, <3>1, <3>2, SkipStep DEF Label
  <2> QED BY <1>13, <2>1, FailStep DEF AddKey
<1> QED BY <1>3, <1>4, <1>5, <1>6, <1>7, <1>8, <1>9, <1>10, <1>11, <1>12, <1>13

\* A statement inside a transaction: the committed rows stay as they are.
LEMMA TxStep ==
    ASSUME StoreInv, NEW p \in Proc, NEW l \in InTx, Goto(p, l), NEW t \in Tx,
           tx' = [tx EXCEPT ![p] = t],
           t.name = tx[p].name \/ \A q \in Proc \ {p} : tx[q].name # t.name,
           UNCHANGED <<database, cmd, got, loaded, faults>>,
           (LabelOK(p) /\ TxOK(p))'
    PROVE  StoreInv'
<1> USE DEF StoreInv, Goto
<1>1. Moves(p) /\ UNCHANGED database
  BY DEF Moves, TypeOK, InTx, Label
<1>2. pc'[p] = l
  BY DEF TypeOK, InTx
<1>3. GotOK(p)'
  BY <1>2 DEF GotOK, database, Frozen, Exists, InTx
<1> QED BY <1>1, <1>3, PrivateStep

\* A name that no other transaction holds.
LEMMA FreeName ==
    ASSUME StoreInv, NEW p \in Proc, NEW n \in Name,
           \/ ~NamePending(p, n) /\ ~Exists(n)
           \/ ~Locked(p, n) /\ Exists(n)
    PROVE  \A q \in Proc \ {p} : tx[q].name # n
<1> SUFFICES ASSUME NEW q \in Proc \ {p}, tx[q].name = n PROVE FALSE
  OBVIOUS
<1>1. pc[q] \in InTx
  BY NullAssumption DEF StoreInv, TxOK, NoTx
<1>2. tx[q].row # None => ~Exists(n)
  BY DEF StoreInv, TxOK, Exists
<1>3. tx[q].row = None => Exists(n)
  BY <1>1 DEF StoreInv, TxOK, Draft
<1> QED BY <1>2, <1>3 DEF NamePending, Locked

LEMMA OpenedType ==
    ASSUME NEW n \in Name, NEW row \in Version \cup {None}
    PROVE  /\ Opened(n, row) \in Tx
           /\ Opened(n, row).name = n /\ Opened(n, row).row = row
           /\ Opened(n, row).files = {} /\ Opened(n, row).fixes = 0 /\ Opened(n, row).hash = None
BY DEF Opened, NoTx, Tx

\* INSERT of a version of one's own, by an import or by a clone.
LEMMA OpenStep ==
    ASSUME StoreInv, NEW p \in Proc, NEW n \in Name, ~NamePending(p, n), ~Exists(n),
           NEW row \in Version, row.state = "DRAFT", row.hash = None, row.history = {},
           NEW l \in InTx \ {"commit"}, Goto(p, l), tx' = [tx EXCEPT ![p] = Opened(n, row)],
           UNCHANGED <<database, cmd, got, loaded, faults>>,
           LabelOK(p)'
    PROVE  StoreInv'
<1>1. pc'[p] = l /\ tx'[p] = Opened(n, row)
  BY DEF StoreInv, TypeOK, Goto
<1>2. TxOK(p)'
  BY <1>1, OpenedType, RowAssumption DEF TxOK, database, Exists, Inserting, InTx
<1>3. Opened(n, row) \in Tx /\ Opened(n, row).name = n
  BY OpenedType
<1>4. \A q \in Proc \ {p} : tx[q].name # Opened(n, row).name
  BY <1>3, FreeName
<1>5. (LabelOK(p) /\ TxOK(p))'
  BY <1>2
<1> QED BY <1>3, <1>4, <1>5, TxStep

LEMMA InsertStep ==
    ASSUME StoreInv, NEW p \in Proc, Insert(p)
    PROVE  StoreInv'
<1>1. CASE Exists(cmd[p].name)
  BY <1>1, FailStep DEF Insert
<1>2. CASE ~Exists(cmd[p].name)
  <2>1. cmd[p].name \in Name /\ TypeOK /\ LabelOK(p)
    BY CommandType DEF StoreInv
  <2>2. /\ pc[p] = "insert" /\ Goto(p, "file1") /\ ~NamePending(p, cmd[p].name)
        /\ tx' = [tx EXCEPT ![p] = Opened(cmd[p].name, NewRow(None))]
        /\ UNCHANGED <<database, cmd, got, loaded, faults>>
    BY <1>2 DEF Insert
  <2>3. pc'[p] = "file1"
    BY <2>1, <2>2 DEF Goto, TypeOK
  <2>4. LabelOK(p)'
    BY <2>1, <2>2, <2>3 DEF LabelOK
  <2> QED BY <1>2, <2>1, <2>2, <2>4, NewRowType, OpenStep DEF InTx
<1> QED BY <1>1, <1>2

LEMMA CloneInsertStep ==
    ASSUME StoreInv, NEW p \in Proc, CloneInsert(p)
    PROVE  StoreInv'
<1>1. CASE Exists(cmd[p].child)
  BY <1>1, FailStep DEF CloneInsert
<1>2. CASE ~Exists(cmd[p].child)
  <2> DEFINE row == [NewRow(Parent(p)) EXCEPT !.files = version[Parent(p)].files,
                                              !.rules = version[Parent(p)].rules]
             l == IF cmd[p].op = "script" THEN "clonecommit" ELSE "fix"
  <2>1. cmd[p].child \in Name /\ cmd[p].name \in Name /\ TypeOK /\ LabelOK(p) /\ GotOK(p)
    BY CommandType DEF StoreInv
  <2>2. /\ pc[p] = "cloneinsert" /\ Goto(p, l) /\ ~NamePending(p, cmd[p].child)
        /\ tx' = [tx EXCEPT ![p] = Opened(cmd[p].child, row)]
        /\ UNCHANGED <<database, cmd, got, loaded, faults>>
    BY <1>2 DEF CloneInsert
  <2>3. Parent(p) \in Name /\ version[Parent(p)] \in Version
    BY <2>1, <2>2 DEF GotOK, LabelOK, Parent, Frozen, Exists, TypeOK
  <2>4. row \in Version /\ row.state = "DRAFT" /\ row.hash = None /\ row.history = {}
    <3>1. /\ version[Parent(p)].files \in [1..2 -> File \cup {None}]
          /\ version[Parent(p)].rules \in [Line -> Cell]
      BY <2>3 DEF Version
    <3> QED BY <2>3, <3>1 DEF NewRow, Version
  <2>5. pc'[p] = l /\ l \in InTx \ {"commit"}
    BY <2>1, <2>2 DEF Goto, TypeOK, InTx
  <2>6. LabelOK(p)'
    BY <2>1, <2>2, <2>5 DEF LabelOK
  <2> QED BY <1>2, <2>1, <2>2, <2>4, <2>5, <2>6, OpenStep
<1> QED BY <1>1, <1>2

LEMMA ApplyLockStep ==
    ASSUME StoreInv, NEW p \in Proc, ApplyLock(p)
    PROVE  StoreInv'
<1>1. CASE Fail(p)
  BY <1>1, FailStep
<1>2. CASE ~Fail(p)
  <2>1. cmd[p].child \in Name /\ TypeOK /\ LabelOK(p)
    BY CommandType DEF StoreInv
  <2>2. /\ pc[p] = "apply" /\ Goto(p, "fix") /\ ~Locked(p, cmd[p].child) /\ Draft(cmd[p].child)
        /\ tx' = [tx EXCEPT ![p] = Opened(cmd[p].child, None)]
        /\ UNCHANGED <<database, cmd, got, loaded, faults>>
    BY <1>2 DEF ApplyLock
  <2>3. pc'[p] = "fix" /\ tx'[p] = Opened(cmd[p].child, None)
    BY <2>1, <2>2 DEF Goto, TypeOK
  <2>4. LabelOK(p)'
    BY <2>1, <2>2, <2>3 DEF LabelOK
  <2>5. TxOK(p)'
    BY <2>1, <2>2, <2>3, OpenedType DEF TxOK, Inserting, InTx, Draft, Exists, database
  <2>6. \A q \in Proc \ {p} : tx[q].name # cmd[p].child
    BY <2>1, <2>2, FreeName DEF Draft
  <2>7. Opened(cmd[p].child, None) \in Tx /\ Opened(cmd[p].child, None).name = cmd[p].child
    BY <2>1, OpenedType
  <2>8. \A q \in Proc \ {p} : tx[q].name # Opened(cmd[p].child, None).name
    BY <2>6, <2>7
  <2>9. (LabelOK(p) /\ TxOK(p))' /\ "fix" \in InTx
    BY <2>4, <2>5 DEF InTx
  <2> QED BY <2>2, <2>7, <2>8, <2>9, TxStep
<1> QED BY <1>1, <1>2

\* A statement that fills the row the transaction has inserted.
LEMMA FillStep ==
    ASSUME StoreInv, NEW p \in Proc, pc[p] \in Inserting,
           NEW l \in InTx \ {"commit"}, Goto(p, l), NEW t \in Tx, tx' = [tx EXCEPT ![p] = t],
           t.name = tx[p].name, t.hash = tx[p].hash, t.row # None,
           t.row.state = tx[p].row.state, t.row.hash = tx[p].row.hash,
           t.row.history = tx[p].row.history,
           UNCHANGED <<database, cmd, got, loaded, faults>>,
           LabelOK(p)'
    PROVE  StoreInv'
<1>1. TxOK(p) /\ pc[p] # "commit" /\ pc[p] \in InTx /\ tx[p].row # None
  BY DEF StoreInv, TxOK, Inserting, InTx
<1>2. pc'[p] = l /\ tx'[p] = t /\ version' = version
  BY DEF StoreInv, TypeOK, Goto, database
<1>3. TxOK(p)'
  BY <1>1, <1>2 DEF TxOK
<1>4. (LabelOK(p) /\ TxOK(p))'
  BY <1>3
<1> QED BY <1>4, TxStep

LEMMA LinkFileStep ==
    ASSUME StoreInv, NEW p \in Proc, NEW i \in 1..2, pc[p] \in {FileLabel[i], WaitLabel[i]},
           NEW new \in SUBSET File, LinkFile(p, i, new)
    PROVE  StoreInv'
<1> DEFINE l == IF i = 1 THEN "file2" ELSE "rules"
           row == [tx[p].row EXCEPT !.files = [@ EXCEPT ![i] = FileAt(p, i)]]
           t == [tx[p] EXCEPT !.row = row, !.files = @ \cup new]
<1>1. pc[p] \in {"file1", "file2", "wait1", "wait2"}
  BY DEF FileLabel, WaitLabel
<1>2. TypeOK /\ LabelOK(p) /\ tx[p] \in Tx /\ tx[p].row \in Version
  BY <1>1 DEF StoreInv, TypeOK, TxOK, Inserting, Tx
<1>3. FileAt(p, i) \in File \cup {None}
  BY CommandType DEF StoreInv, FileAt, Content
<1>4. /\ row \in Version /\ row # None
      /\ row.state = tx[p].row.state /\ row.hash = tx[p].row.hash
      /\ row.history = tx[p].row.history
  <2>1. tx[p].row.files \in [1..2 -> File \cup {None}]
    BY <1>2 DEF Version
  <2>2. row \in Version
    BY <1>2, <1>3, <2>1 DEF Version
  <2> QED BY <1>2, <2>2, RowAssumption DEF Version
<1>5. /\ t \in Tx /\ t.name = tx[p].name /\ t.hash = tx[p].hash /\ t.row = row
  BY <1>2, <1>4 DEF Tx
<1>6. tx' = [tx EXCEPT ![p] = t]
  BY DEF LinkFile
<1>7. Goto(p, l) /\ l \in InTx \ {"commit"} /\ UNCHANGED <<database, cmd, got, loaded, faults>>
  BY DEF LinkFile, InTx
<1>8. LabelOK(p)'
  <2>1. pc'[p] = l
    BY <1>2, <1>7 DEF Goto, TypeOK
  <2> QED BY <1>1, <1>2, <1>7, <2>1 DEF LabelOK
<1>9. pc[p] \in Inserting
  BY <1>1 DEF Inserting
<1> QED BY <1>4, <1>5, <1>6, <1>7, <1>8, <1>9, FillStep

LEMMA InsertRulesStep ==
    ASSUME StoreInv, NEW p \in Proc, InsertRules(p)
    PROVE  StoreInv'
<1> DEFINE row == [tx[p].row EXCEPT !.rules = cmd[p].content.rules]
           t == [tx[p] EXCEPT !.row = row]
<1>1. pc[p] = "rules"
  BY DEF InsertRules
<1>2. TypeOK /\ LabelOK(p) /\ tx[p] \in Tx /\ tx[p].row \in Version
  BY <1>1 DEF StoreInv, TypeOK, TxOK, Inserting, Tx
<1>3. cmd[p].content.rules \in [Line -> Cell]
  BY CommandType DEF StoreInv, Content
<1>4. /\ row \in Version /\ row # None
      /\ row.state = tx[p].row.state /\ row.hash = tx[p].row.hash
      /\ row.history = tx[p].row.history
  <2>1. row \in Version
    BY <1>2, <1>3 DEF Version
  <2> QED BY <1>2, <2>1, RowAssumption DEF Version
<1>5. /\ t \in Tx /\ t.name = tx[p].name /\ t.hash = tx[p].hash /\ t.row = row
  BY <1>2, <1>4 DEF Tx
<1>6. tx' = [tx EXCEPT ![p] = t]
  BY DEF InsertRules
<1>7. Goto(p, "freeze") /\ "freeze" \in InTx \ {"commit"}
      /\ UNCHANGED <<database, cmd, got, loaded, faults>>
  BY DEF InsertRules, InTx
<1>8. LabelOK(p)'
  <2>1. pc'[p] = "freeze"
    BY <1>2, <1>7 DEF Goto, TypeOK
  <2> QED BY <1>1, <1>2, <1>7, <2>1 DEF LabelOK
<1>9. pc[p] \in Inserting
  BY <1>1 DEF Inserting
<1> QED BY <1>4, <1>5, <1>6, <1>7, <1>8, <1>9, FillStep

LEMMA FixStep ==
    ASSUME StoreInv, NEW p \in Proc, Fix(p)
    PROVE  StoreInv'
<1>1. TypeOK /\ LabelOK(p) /\ TxOK(p) /\ tx[p] \in Tx /\ pc[p] = "fix"
  BY DEF StoreInv, TypeOK, Fix
<1>2. CASE Fail(p)
  BY <1>2, FailStep
<1>3. CASE tx[p].fixes = NFix
  <2>1. /\ Goto(p, "freeze") /\ tx' = tx /\ UNCHANGED <<database, cmd, got, loaded, faults>>
    BY <1>1, <1>3, FixAssumption DEF Fix
  <2>2. pc'[p] = "freeze" /\ tx' = [tx EXCEPT ![p] = tx[p]] /\ "freeze" \in InTx
    BY <1>1, <2>1 DEF Goto, TypeOK, InTx
  <2>3. (LabelOK(p) /\ TxOK(p))'
    BY <1>1, <2>1, <2>2 DEF LabelOK, TxOK, InTx, Inserting, Draft, Exists, database
  <2> QED BY <1>1, <2>1, <2>2, <2>3, TxStep
<1>4. CASE ~Fail(p) /\ tx[p].fixes # NFix
  <2> DEFINE t == [tx[p] EXCEPT !.fixes = tx[p].fixes + 1]
  <2>1. /\ tx' = [tx EXCEPT ![p] = t] /\ pc' = pc
        /\ UNCHANGED <<database, cmd, got, loaded, faults>>
    BY <1>4 DEF Fix
  <2>2. t \in Tx /\ t.name = tx[p].name /\ t.row = tx[p].row /\ t.hash = tx[p].hash
    BY <1>1 DEF Tx
  <2>3. Goto(p, "fix") /\ "fix" \in InTx /\ tx'[p] = t
    BY <1>1, <2>1 DEF Goto, TypeOK, InTx
  <2>4. (LabelOK(p) /\ TxOK(p))'
    BY <1>1, <2>1, <2>2, <2>3 DEF LabelOK, TxOK, InTx, Inserting, Draft, Exists, database
  <2> QED BY <2>1, <2>2, <2>3, <2>4, TxStep
<1> QED BY <1>2, <1>3, <1>4

LEMMA FreezeStep ==
    ASSUME StoreInv, NEW p \in Proc, Freeze(p)
    PROVE  StoreInv'
<1>1. CASE Fail(p)
  BY <1>1, FailStep
<1>2. CASE ~Fail(p)
  <2> DEFINE h == Canonical(View(p))
             t == [tx[p] EXCEPT !.hash = h]
  <2>1. TypeOK /\ LabelOK(p) /\ TxOK(p) /\ tx[p] \in Tx /\ pc[p] = "freeze"
    BY DEF StoreInv, TypeOK, Freeze
  <2>2. Base(p) \in Version
    BY <2>1, BaseType DEF InTx
  <2>3. h \in Content /\ h # None
    BY <2>1, <2>2, ViewType, NullAssumption
  <2>4. /\ Goto(p, "commit") /\ tx' = [tx EXCEPT ![p] = t]
        /\ UNCHANGED <<database, cmd, got, loaded, faults>>
    BY <1>2 DEF Freeze
  <2>5. /\ t \in Tx /\ t.name = tx[p].name /\ t.row = tx[p].row /\ t.fixes = tx[p].fixes
        /\ t.hash = h
    BY <2>1, <2>3 DEF Tx
  <2>6. pc'[p] = "commit" /\ tx'[p] = t /\ version' = version
    BY <2>1, <2>4 DEF Goto, TypeOK, database
  <2>7. View(p)' = View(p)
    BY <2>5, <2>6 DEF View, Base
  <2>8. Canonical(View(p))' = h
    BY <2>7 DEF Canonical
  <2>9. LabelOK(p)'
    BY <2>1, <2>4, <2>6 DEF LabelOK
  <2>10. TxOK(p)'
    BY <2>1, <2>3, <2>5, <2>6, <2>8 DEF TxOK, InTx, Inserting, Draft, Exists
  <2>11. (LabelOK(p) /\ TxOK(p))' /\ "commit" \in InTx
    BY <2>9, <2>10 DEF InTx
  <2> QED BY <2>4, <2>5, <2>11, TxStep
<1> QED BY <1>1, <1>2

-----------------------------------------------------------------------------
\* The steps that change committed rows.

\* COMMIT of a freeze, heard of or not.
LEMMA CommittedStep ==
    ASSUME StoreInv, NEW p \in Proc, pc[p] = "commit", Committed(p),
           NEW l \in Label, Goto(p, l), l \notin InTx,
           NEW n \in {got[p], tx[p].name}, got' = [got EXCEPT ![p] = n],
           NEW r \in [Line -> Cell] \cup {None}, loaded' = [loaded EXCEPT ![p] = r],
           faults' \in 0..MaxFaults, cmd' = cmd,
           LabelOK(p)',
           l \in {"find", "persist"} => n = tx[p].name,
           l \notin {"clone", "cloneinsert", "load", "addkey", "editcommit"}
    PROVE  StoreInv'
<1> DEFINE m == tx[p].name
           v == FrozenRow(p)
<1>1. /\ TypeOK /\ TxOK(p) /\ GotOK(p) /\ tx[p] \in Tx /\ pc[p] \in InTx
      /\ Base(p) \in Version /\ m \in Name
  BY BaseType DEF StoreInv, TypeOK, InTx
<1>2. /\ v \in Version /\ v # None /\ v.state = "FROZEN" /\ v.hash = tx[p].hash
      /\ Canonical(v) = Canonical(View(p))
  BY <1>1, FrozenRowType
<1>3. /\ version' = [version EXCEPT ![m] = v] /\ files' = files \cup tx[p].files
      /\ drafted' = drafted /\ tx' = [tx EXCEPT ![p] = NoTx]
  BY DEF Committed, FrozenRow
<1>4. version'[m] = v /\ \A k \in Name : k # m => version'[k] = version[k]
  BY <1>1, <1>3 DEF TypeOK
<1>5. NoTx \in Tx /\ NoTx.name = None
  BY DEF NoTx, Tx
<1>6. Moves(p)
  BY <1>1, <1>3, <1>5 DEF Moves, Goto, TypeOK
<1>7. ~Frozen(m) /\ \A q \in Proc \ {p} : tx[q].name # m
  <2>1. \A q \in Proc \ {p} : tx[q].name # m
    BY <1>1, NullAssumption DEF StoreInv, Unique
  <2>2. ~Frozen(m)
    BY <1>1 DEF TxOK, Frozen, Draft, Exists
  <2> QED BY <2>1, <2>2
<1>8. Becomes(p, m, v)
  BY <1>3, <1>7 DEF Becomes
<1>9. pc'[p] = l /\ tx'[p] = NoTx /\ got'[p] = n
  BY <1>1, <1>3 DEF Goto, TypeOK
<1>10. TxOK(p)'
  BY <1>9 DEF TxOK, InTx, Inserting, NoTx
<1>11. GotOK(p)'
  <2>1. got[p] # None => version'[got[p]] # None /\ version'[got[p]].state = "FROZEN"
    BY <1>1, <1>2, <1>4 DEF GotOK, Frozen, Exists, TypeOK
  <2>2. n # None => version'[n] # None /\ version'[n].state = "FROZEN"
    BY <1>2, <1>4, <2>1
  <2>3. m # None
    BY <1>1, NullAssumption
  <2> QED BY <1>9, <2>2, <2>3 DEF GotOK, Frozen, Exists
<1>12. Drafts'
  BY <1>2, <1>3, <1>4 DEF StoreInv, Drafts, Draft, Exists
<1>13. ImportedCanonical'
  <2>1. m \notin drafted => tx[p].row # None
    BY <1>1 DEF StoreInv, TxOK, Drafts
  <2>2. m \notin drafted => v.hash = Canonical(v)
    BY <1>1, <1>2, <2>1 DEF TxOK
  <2>3. \A k \in Name : k # m => Canonical(version[k])' = Canonical(version[k])
    BY <1>4 DEF Canonical
  <2>4. \A k \in Name : k = m => Canonical(version[k])' = Canonical(v)
    BY <1>4 DEF Canonical
  <2> QED BY <1>2, <1>3, <1>4, <2>2, <2>3, <2>4 DEF StoreInv, ImportedCanonical, Exists
<1>14. files' \in SUBSET File /\ drafted' \in SUBSET Name
  BY <1>1, <1>3 DEF TypeOK, Tx
<1> QED BY <1>1, <1>2, <1>3, <1>6, <1>8, <1>10, <1>11, <1>12, <1>13, <1>14, PublicStep

LEMMA CommitStep ==
    ASSUME StoreInv, NEW p \in Proc, Commit(p)
    PROVE  StoreInv'
<1>1. /\ TypeOK /\ LabelOK(p) /\ TxOK(p) /\ tx[p].name \in Name
      /\ pc[p] = "commit" /\ Committed(p) /\ UNCHANGED <<cmd, faults>>
      /\ got[p] \in Name \cup {None} /\ loaded[p] \in [Line -> Cell] \cup {None}
      /\ faults' \in 0..MaxFaults
  BY DEF StoreInv, Commit, TypeOK, TxOK, InTx
<1>2. CASE tx[p].row = None \/ cmd[p].op = "fixes"
  <2>1. PICK l \in {"check", "ok"} : Goto(p, l) /\ (l = "check" => cmd[p].op = "script")
    BY <1>2 DEF Commit
  <2>2. got' = [got EXCEPT ![p] = got[p]] /\ loaded' = [loaded EXCEPT ![p] = loaded[p]]
    BY <1>1, <1>2 DEF Commit, TypeOK
  <2>3. pc'[p] = l
    BY <1>1, <2>1 DEF Goto, TypeOK
  <2>4. LabelOK(p)'
    BY <1>1, <2>1, <2>3 DEF LabelOK
  <2> QED BY <1>1, <2>1, <2>2, <2>4, CommittedStep DEF InTx, Label, Over
<1>3. CASE ~(tx[p].row = None \/ cmd[p].op = "fixes")
  <2>1. Return(p, tx[p].name) /\ cmd[p].op \in {"import", "run", "script"}
    BY <1>1, <1>3 DEF Commit, LabelOK
  <2>2. PICK l \in {"ok", "persist", "find"} : Goto(p, l) /\ (l = "find" => cmd[p].op = "script")
    BY <2>1 DEF Return
  <2>3. cmd[p].content.rules \in [Line -> Cell]
    BY CommandType DEF StoreInv, Content
  <2>4. PICK r \in [Line -> Cell] \cup {None} : loaded' = [loaded EXCEPT ![p] = r]
    BY <1>1, <2>1, <2>3 DEF Return, TypeOK
  <2>5. got' = [got EXCEPT ![p] = tx[p].name]
    BY <2>1 DEF Return
  <2>6. pc'[p] = l
    BY <1>1, <2>2 DEF Goto, TypeOK
  <2>7. LabelOK(p)'
    BY <1>1, <2>2, <2>6 DEF LabelOK
  <2> QED BY <1>1, <2>2, <2>4, <2>5, <2>7, CommittedStep DEF InTx, Label, Over
<1> QED BY <1>2, <1>3

\* The clone becomes visible as DRAFT, heard of or not.
LEMMA CommittedDraftStep ==
    ASSUME StoreInv, NEW p \in Proc, pc[p] = "clonecommit", CommittedDraft(p),
           NEW l \in {"apply", "dead"}, Goto(p, l), faults' \in 0..MaxFaults,
           UNCHANGED <<cmd, got, loaded>>
    PROVE  StoreInv'
<1> DEFINE m == tx[p].name
           v == tx[p].row
<1>1. /\ TypeOK /\ TxOK(p) /\ GotOK(p) /\ LabelOK(p) /\ m \in Name /\ v \in Version
      /\ v # None /\ v.state = "DRAFT" /\ version[m] = None
  BY DEF StoreInv, TypeOK, Tx, TxOK, InTx, Inserting
<1>2. /\ version' = [version EXCEPT ![m] = v] /\ files' = files
      /\ drafted' = drafted \cup {m} /\ tx' = [tx EXCEPT ![p] = NoTx]
  BY DEF CommittedDraft
<1>3. version'[m] = v /\ \A k \in Name : k # m => version'[k] = version[k]
  BY <1>1, <1>2 DEF TypeOK
<1>4. NoTx \in Tx /\ NoTx.name = None
  BY DEF NoTx, Tx
<1>5. Moves(p)
  BY <1>1, <1>2, <1>4 DEF Moves, Goto, TypeOK, Label, Over
<1>6. Becomes(p, m, v)
  BY <1>1, <1>2, NullAssumption DEF Becomes, Frozen, Exists, StoreInv, Unique
<1>7. pc'[p] = l /\ tx'[p] = NoTx
  BY <1>1, <1>2 DEF Goto, TypeOK
<1>8. TxOK(p)'
  BY <1>7 DEF TxOK, InTx, Inserting, NoTx
<1>9. LabelOK(p)'
  BY <1>1, <1>7 DEF LabelOK
<1>10. GotOK(p)'
  <2>1. got[p] # None => version'[got[p]] # None /\ version'[got[p]].state = "FROZEN"
    BY <1>1, <1>3 DEF GotOK, Frozen, Exists, TypeOK
  <2> QED BY <1>7, <2>1 DEF GotOK, Frozen, Exists
<1>11. Drafts'
  BY <1>1, <1>2, <1>3 DEF StoreInv, Drafts, Draft, Exists
<1>12. ImportedCanonical'
  <2>1. \A k \in Name : k # m => Canonical(version[k])' = Canonical(version[k])
    BY <1>3 DEF Canonical
  <2> QED BY <1>2, <1>3, <2>1 DEF StoreInv, ImportedCanonical, Exists
<1>13. files' \in SUBSET File /\ drafted' \in SUBSET Name
  BY <1>1, <1>2 DEF TypeOK
<1> QED BY <1>1, <1>2, <1>5, <1>6, <1>8, <1>9, <1>10, <1>11, <1>12, <1>13, PublicStep

\* An operator's edit of a version that has been visible as DRAFT.
LEMMA EditCommitStep ==
    ASSUME StoreInv, NEW p \in Proc, EditCommit(p)
    PROVE  StoreInv'
<1> DEFINE m == cmd[p].name
           v == [version[m] EXCEPT !.rules = [@ EXCEPT ![cmd[p].line] = cmd[p].cell]]
<1>1. /\ TypeOK /\ TxOK(p) /\ GotOK(p) /\ LabelOK(p) /\ m \in Name /\ pc[p] = "editcommit"
      /\ m \in drafted /\ cmd[p].line \in Line /\ cmd[p].cell \in Cell
      /\ tx[p] = NoTx
  BY CommandType DEF StoreInv, EditCommit, GotOK, TxOK, InTx
<1>2. Exists(m) /\ version[m] \in Version
  BY <1>1 DEF StoreInv, Drafts, Exists, TypeOK
<1>3. v \in Version /\ v # None /\ v.state = version[m].state
  <2>1. version[m].rules \in [Line -> Cell]
    BY <1>2 DEF Version
  <2>2. v \in Version
    BY <1>1, <1>2, <2>1 DEF Version
  <2> QED BY <1>2, <2>2, RowAssumption DEF Version
<1>4. /\ version' = [version EXCEPT ![m] = v] /\ Goto(p, "ok")
      /\ UNCHANGED <<files, drafted, cmd, tx, got, loaded, faults>>
  BY DEF EditCommit
<1>5. version'[m] = v /\ \A k \in Name : k # m => version'[k] = version[k]
  BY <1>1, <1>4 DEF TypeOK
<1>6. Moves(p)
  BY <1>1, <1>4 DEF Moves, Goto, TypeOK, Label, Over
<1>7. Becomes(p, m, v)
  BY <1>2, <1>3, <1>4 DEF Becomes
<1>8. pc'[p] = "ok"
  BY <1>1, <1>4 DEF Goto, TypeOK
<1>9. LabelOK(p)'
  BY <1>8 DEF LabelOK
<1>10. TxOK(p)'
  BY <1>1, <1>4, <1>8 DEF TxOK, InTx, Inserting, NoTx
<1>11. GotOK(p)'
  <2>1. got[p] # None => version'[got[p]] # None /\ version'[got[p]].state = "FROZEN"
    BY <1>1, <1>3, <1>5 DEF GotOK, Frozen, Exists, TypeOK
  <2> QED BY <1>4, <1>8, <2>1 DEF GotOK, Frozen, Exists
<1>12. Drafts'
  BY <1>1, <1>2, <1>3, <1>4, <1>5 DEF StoreInv, Drafts, Draft, Exists
<1>13. ImportedCanonical'
  <2>1. \A k \in Name : k # m => Canonical(version[k])' = Canonical(version[k])
    BY <1>5 DEF Canonical
  <2> QED BY <1>1, <1>4, <1>5, <2>1 DEF StoreInv, ImportedCanonical, Exists
<1>14. files' \in SUBSET File /\ drafted' \in SUBSET Name
  BY <1>1, <1>4 DEF TypeOK
<1> QED BY <1>1, <1>3, <1>4, <1>6, <1>7, <1>9, <1>10, <1>11, <1>12, <1>13, <1>14, PublicStep

-----------------------------------------------------------------------------
\* The invariant is inductive: one case per action.
LEMMA StoreStep == StoreInv /\ [Next]_vars => StoreInv'
<1> SUFFICES ASSUME StoreInv, [Next]_vars PROVE StoreInv'
  OBVIOUS
<1>1. CASE UNCHANGED vars
  BY <1>1 DEF vars, database, StoreInv, TypeOK, LabelOK, GotOK, TxOK, Unique, Drafts,
     ImportedCanonical, Draft, Frozen, Exists, Canonical, View, Base, Parent
<1> SUFFICES ASSUME NEW p \in Proc, Step(p) \/ Die(p) \/ DieCommitted(p) PROVE StoreInv'
  BY <1>1 DEF Next, Finished
<1>2. ASSUME NEW i \in 1..2, SourceFile(p, i) \/ SourceFileWake(p, i) PROVE StoreInv'
  <2>1. CASE Fail(p)
    BY <2>1, FailStep
  <2>2. CASE Goto(p, WaitLabel[i]) /\ pc[p] = FileLabel[i]
             /\ UNCHANGED <<database, cmd, tx, got, loaded, faults>>
    <3>1. TypeOK /\ LabelOK(p) /\ TxOK(p) /\ tx[p] \in Tx
      BY DEF StoreInv, TypeOK
    <3>2. /\ pc[p] \in {"file1", "file2"} /\ WaitLabel[i] \in {"wait1", "wait2"}
          /\ pc'[p] = WaitLabel[i]
      BY <2>2, <3>1 DEF FileLabel, WaitLabel, Goto, TypeOK
    <3>3. (LabelOK(p) /\ TxOK(p))'
      BY <2>2, <3>1, <3>2 DEF LabelOK, TxOK, InTx, Inserting, database
    <3>4. tx' = [tx EXCEPT ![p] = tx[p]] /\ WaitLabel[i] \in InTx
      BY <2>2, <3>1, <3>2 DEF TypeOK, InTx
    <3> QED BY <2>2, <3>1, <3>3, <3>4, TxStep
  <2>3. CASE pc[p] \in {FileLabel[i], WaitLabel[i]} /\ \E new \in {{}, {FileAt(p, i)}} : LinkFile(p, i, new)
    <3>1. FileAt(p, i) \in File
      <4>1. pc[p] \in {"file1", "file2", "wait1", "wait2"}
        BY <2>3 DEF FileLabel, WaitLabel
      <4>2. cmd[p] \in Command /\ cmd[p].op \in {"import", "run", "script"}
        BY <4>1, CommandType DEF StoreInv, LabelOK
      <4> QED BY <4>2, HashedAssumption DEF FileAt
    <3> QED BY <2>3, <3>1, LinkFileStep
  <2> QED BY <1>2, <2>1, <2>2, <2>3 DEF SourceFile, SourceFileWake
<1>3. CASE Die(p)
  <2>1. faults' \in 0..MaxFaults
    BY <1>3, FaultAssumption DEF Die, Fault, StoreInv, TypeOK
  <2> QED BY <1>3, <2>1, RollbackStep DEF Die
<1>4. CASE DieCommitted(p)
  <2>1. faults' \in 0..MaxFaults /\ Goto(p, "dead") /\ UNCHANGED <<cmd, got, loaded>>
    BY <1>4, FaultAssumption DEF DieCommitted, Fault, StoreInv, TypeOK
  <2>2. /\ got' = [got EXCEPT ![p] = got[p]] /\ loaded' = [loaded EXCEPT ![p] = loaded[p]]
        /\ loaded[p] \in [Line -> Cell] \cup {None} /\ pc'[p] = "dead"
    BY <2>1 DEF StoreInv, TypeOK, Goto
  <2>3. LabelOK(p)'
    BY <2>2 DEF LabelOK
  <2>4. CASE pc[p] = "commit" /\ Committed(p)
    BY <2>1, <2>2, <2>3, <2>4, CommittedStep DEF InTx, Label, Over
  <2>5. CASE pc[p] = "clonecommit" /\ CommittedDraft(p)
    BY <2>1, <2>5, CommittedDraftStep
  <2> QED BY <1>4, <2>4, <2>5 DEF DieCommitted
<1>5. CASE CloneCommit(p)
  <2>1. faults' \in 0..MaxFaults
    BY <1>5 DEF CloneCommit, StoreInv, TypeOK
  <2> QED BY <1>5, <2>1, CommittedDraftStep DEF CloneCommit
<1> QED BY <1>2, <1>3, <1>4, <1>5, QuietSteps, InsertStep, InsertRulesStep, FreezeStep, CommitStep,
    CloneInsertStep, ApplyLockStep, FixStep, EditCommitStep
    DEF Step, Import, Correct, Use, Operator

\* Every reachable state of the configuration store is well typed.
THEOREM TypeCorrect == Spec => []TypeOK
<1>1. StoreInv => TypeOK
  BY DEF StoreInv
<1> QED BY <1>1, StoreInit, StoreStep, PTL DEF Spec

\* A version that was inserted and frozen in one transaction carries the hash of its
\* own files and rules, for any processes, faults and operators' SQL.
THEOREM ImportedCanonicalHolds == Spec => []ImportedCanonical
<1>1. StoreInv => ImportedCanonical
  BY DEF StoreInv
<1> QED BY <1>1, StoreInit, StoreStep, PTL DEF Spec

\* A freeze that succeeds: the hash is nobody else's.
Freezes(p) ==
    /\ pc[p] = "freeze"
    /\ tx' = [tx EXCEPT ![p].hash = Canonical(View(p))]
    /\ \A n \in Name : Exists(n) => version[n].hash # Canonical(View(p))
    /\ \A q \in Proc \ {p} : tx[q].hash # Canonical(View(p))

\* The ways in which a step of p changes committed versions, or gets p to COMMIT.
LEMMA Changes ==
    ASSUME StoreInv, NEW p \in Proc, Step(p) \/ Die(p) \/ DieCommitted(p)
    PROVE  /\ \/ version' = version
              \/ pc[p] = "commit" /\ Committed(p)
              \/ pc[p] = "clonecommit" /\ CommittedDraft(p)
              \/ EditCommit(p)
           /\ cmd' = cmd
           /\ \A q \in Proc : q # p =>
                 tx'[q] = tx[q] /\ pc'[q] = pc[q] /\ got'[q] = got[q] /\ loaded'[q] = loaded[q]
           /\ pc'[p] = "commit" => Freezes(p) /\ version' = version
<1> USE DEF StoreInv, TypeOK, Goto, Over
<1>1. ASSUME Fail(p) PROVE version' = version /\ cmd' = cmd /\ pc'[p] = "failed" /\
                           \A q \in Proc : q # p => tx'[q] = tx[q] /\ pc'[q] = pc[q] /\
                                                    got'[q] = got[q] /\ loaded'[q] = loaded[q]
  BY <1>1 DEF Fail, database
<1>2. CASE ByName(p)
  BY <1>1, <1>2 DEF ByName, Return, database, LabelOK
<1>3. CASE ByHash(p)
  BY <1>1, <1>3 DEF ByHash, Return, database, LabelOK
<1>4. CASE Insert(p) \/ InsertRules(p)
  BY <1>1, <1>4 DEF Insert, InsertRules, database
<1>5. ASSUME NEW i \in 1..2, SourceFile(p, i) \/ SourceFileWake(p, i)
      PROVE  /\ version' = version /\ cmd' = cmd /\ pc'[p] # "commit"
             /\ \A q \in Proc : q # p =>
                   tx'[q] = tx[q] /\ pc'[q] = pc[q] /\ got'[q] = got[q] /\ loaded'[q] = loaded[q]
  BY <1>1, <1>5 DEF SourceFile, SourceFileWake, LinkFile, WaitLabel, database
<1>6. CASE Freeze(p)
  BY <1>1, <1>6 DEF Freeze, Freezes, HashPending, database
<1>7. CASE Commit(p)
  <2>1. pc'[p] # "commit"
    BY <1>7 DEF Commit, Return, LabelOK
  <2> QED BY <1>7, <2>1 DEF Commit, Committed, Return
<1>8. CASE FindChild(p) \/ Clone(p) \/ CloneInsert(p)
  BY <1>1, <1>8 DEF FindChild, Clone, CloneInsert, database
<1>9. CASE CloneCommit(p)
  BY <1>9 DEF CloneCommit, CommittedDraft
<1>10. CASE ApplyLock(p) \/ Fix(p) \/ HashCheck(p)
  BY <1>1, <1>10 DEF ApplyLock, Fix, HashCheck, database
<1>11. CASE Lookup(p) \/ LoadRules(p) \/ PersistRules(p)
  BY <1>1, <1>11 DEF Lookup, LoadRules, PersistRules, database
<1>12. CASE Edit(p) \/ Add(p) \/ AddKey(p)
  BY <1>1, <1>12 DEF Edit, Add, AddKey, database
<1>13. CASE EditCommit(p)
  BY <1>13 DEF EditCommit
<1>14. CASE Die(p)
  BY <1>14 DEF Die, database
<1>15. CASE DieCommitted(p)
  BY <1>15 DEF DieCommitted, Committed, CommittedDraft
<1> QED BY <1>2, <1>3, <1>4, <1>5, <1>6, <1>7, <1>8, <1>9, <1>10, <1>11, <1>12, <1>13, <1>14, <1>15
        DEF Step, Import, Correct, Use, Operator

\* A step changes nothing, or is the step of one process.
LEMMA StepCases ==
    ASSUME [Next]_vars
    PROVE  UNCHANGED vars \/ \E p \in Proc : Step(p) \/ Die(p) \/ DieCommitted(p)
BY DEF Next, Finished

\* No version is changed by anyone but the transaction that owns it, edits aside.
LEMMA OthersStand ==
    ASSUME StoreInv, NEW p \in Proc, Step(p) \/ Die(p) \/ DieCommitted(p), ~EditCommit(p),
           NEW n \in Name, version'[n] # version[n]
    PROVE  /\ n = tx[p].name
           /\ ~Frozen(n)
           /\ \/ pc[p] = "commit" /\ version'[n] = FrozenRow(p)
              \/ pc[p] = "clonecommit" /\ version'[n] = tx[p].row
<1>1. (pc[p] = "commit" /\ Committed(p)) \/ (pc[p] = "clonecommit" /\ CommittedDraft(p))
  BY Changes
<1>2. /\ tx[p].name \in Name /\ ~Frozen(tx[p].name)
  BY <1>1 DEF StoreInv, TxOK, InTx, Draft, Frozen, Exists
<1>3. version \in [Name -> Version \cup {None}]
  BY DEF StoreInv, TypeOK
<1>4. CASE pc[p] = "commit" /\ Committed(p)
  BY <1>2, <1>3, <1>4 DEF Committed, FrozenRow
<1>5. CASE pc[p] = "clonecommit" /\ CommittedDraft(p)
  BY <1>2, <1>3, <1>5 DEF CommittedDraft
<1> QED BY <1>1, <1>4, <1>5

\* No step changes a version that was inserted and frozen in one transaction,
\* whatever SQL operators issue.
THEOREM ImportedImmutableHolds == Spec => ImportedImmutable
<1>1. StoreInv /\ [Next]_vars =>
        [\A n \in Name : Exists(n) /\ n \notin drafted => version'[n] = version[n]]_vars
  <2> SUFFICES ASSUME StoreInv, [Next]_vars, NEW n \in Name, Exists(n), n \notin drafted
               PROVE  version'[n] = version[n]
    OBVIOUS
  <2>1. ASSUME NEW p \in Proc, Step(p) \/ Die(p) \/ DieCommitted(p), ~EditCommit(p)
        PROVE  version'[n] = version[n]
    BY <2>1, OthersStand DEF StoreInv, Drafts, Draft, Frozen, Exists, ImportedCanonical
  <2>2. ASSUME NEW p \in Proc, EditCommit(p) PROVE version'[n] = version[n]
    <3>1. n # cmd[p].name
      BY <2>2 DEF StoreInv, GotOK, EditCommit
    <3> QED BY <2>2, <3>1 DEF EditCommit, StoreInv, TypeOK
  <2>3. CASE UNCHANGED vars
    BY <2>3 DEF vars, database
  <2> QED BY <2>1, <2>2, <2>3, StepCases
<1> QED BY <1>1, StoreInit, StoreStep, PTL DEF Spec, ImportedImmutable

-----------------------------------------------------------------------------
\* Hashes, under any command lines.

\* No hash is stored twice, and none that a transaction is about to commit is stored.
UniqueHash ==
    /\ \A m, n \in Name :
          Exists(m) /\ Exists(n) /\ version[m].hash = version[n].hash => m = n \/ version[m].hash = None
    /\ \A p \in Proc : pc[p] = "commit" =>
          \A n \in Name : Exists(n) => version[n].hash # tx[p].hash
    /\ \A p, q \in Proc :
          pc[p] = "commit" /\ pc[q] = "commit" /\ tx[p].hash = tx[q].hash => p = q

\* Where a hash comes from.
LEMMA HashSource ==
    ASSUME StoreInv, NEW p \in Proc, Step(p) \/ Die(p) \/ DieCommitted(p), NEW n \in Name
    PROVE  \/ Exists(n)' = Exists(n) /\ (Exists(n) => version'[n].hash = version[n].hash)
           \/ /\ pc[p] = "commit" /\ pc'[p] # "commit"
              /\ n = tx[p].name /\ version'[n].hash = tx[p].hash
           \/ pc[p] = "clonecommit" /\ pc'[p] # "commit" /\ version'[n].hash = None
<1>1. CASE version'[n] = version[n]
  BY <1>1 DEF Exists
<1>2. CASE version'[n] # version[n] /\ ~EditCommit(p)
  <2>1. pc'[p] # "commit"
    BY <1>2, Changes DEF Freezes
  <2>2. CASE pc[p] = "commit"
    BY <1>2, <2>1, <2>2, OthersStand, BaseType, FrozenRowType DEF StoreInv, InTx
  <2>3. CASE pc[p] = "clonecommit"
    BY <1>2, <2>1, <2>3, OthersStand DEF StoreInv, TxOK, Inserting
  <2> QED BY <1>2, <2>2, <2>3, OthersStand
<1>3. CASE EditCommit(p)
  <2>1. cmd[p].name \in drafted /\ cmd[p].name \in Name
    BY <1>3, CommandType DEF StoreInv, GotOK, EditCommit
  <2>2. Exists(cmd[p].name)
    BY <2>1 DEF StoreInv, Drafts
  <2>3. version \in [Name -> Version \cup {None}]
    BY DEF StoreInv, TypeOK
  <2>4. \A m \in Name : m # cmd[p].name => version'[m] = version[m]
    BY <1>3, <2>3 DEF EditCommit
  <2>5. version[cmd[p].name] \in Version
    BY <2>1, <2>2, <2>3 DEF Exists
  <2>6. version'[cmd[p].name] =
          [version[cmd[p].name] EXCEPT !.rules[cmd[p].line] = cmd[p].cell]
    BY <1>3, <2>1, <2>3 DEF EditCommit
  <2>7. version'[cmd[p].name] \in Version /\ version'[cmd[p].name].hash = version[cmd[p].name].hash
    BY <2>5, <2>6, CommandType DEF StoreInv, Version
  <2>8. version'[cmd[p].name] # None
    BY <2>7, RowAssumption
  <2> QED BY <2>2, <2>4, <2>7, <2>8 DEF Exists
<1> QED BY <1>1, <1>2, <1>3

LEMMA UniqueHashStep ==
    ASSUME StoreInv, UniqueHash, [Next]_vars
    PROVE  UniqueHash'
<1>1. CASE UNCHANGED vars
  BY <1>1 DEF UniqueHash, vars, database, Exists
<1>2. ASSUME NEW p \in Proc, Step(p) \/ Die(p) \/ DieCommitted(p) PROVE UniqueHash'
  <2>1. /\ \A q \in Proc : q # p => tx'[q] = tx[q] /\ pc'[q] = pc[q]
        /\ pc'[p] = "commit" => Freezes(p) /\ version' = version
    BY <1>2, Changes
  <2>2. ASSUME pc'[p] = "commit"
        PROVE  /\ \A q \in Proc \ {p} : tx[q].hash # tx'[p].hash
               /\ \A n \in Name : Exists(n) => version[n].hash # tx'[p].hash
    <3>1. tx'[p].hash = Canonical(View(p))
      BY <2>1, <2>2 DEF Freezes, StoreInv, TypeOK, Tx
    <3> QED BY <2>1, <2>2, <3>1 DEF Freezes
  <2>3. \A n \in Name :
           \/ Exists(n)' = Exists(n) /\ (Exists(n) => version'[n].hash = version[n].hash)
           \/ /\ pc[p] = "commit" /\ pc'[p] # "commit"
              /\ n = tx[p].name /\ version'[n].hash = tx[p].hash
           \/ pc[p] = "clonecommit" /\ pc'[p] # "commit" /\ version'[n].hash = None
    BY <1>2, HashSource
  <2>4. \A q \in Proc : pc[q] = "commit" => tx[q].hash # None
    BY DEF StoreInv, TxOK
  <2>5. ASSUME NEW m \in Name, NEW n \in Name, Exists(m)', Exists(n)', version'[m].hash = version'[n].hash
        PROVE  m = n \/ version'[m].hash = None
    BY <2>3, <2>5 DEF UniqueHash
  <2>6. ASSUME NEW q \in Proc, pc'[q] = "commit", NEW n \in Name, Exists(n)'
        PROVE  version'[n].hash # tx'[q].hash
    <3>1. CASE q = p
      BY <2>1, <2>2, <2>6, <3>1 DEF Exists
    <3>2. CASE q # p
      BY <2>1, <2>3, <2>4, <2>6, <3>2 DEF UniqueHash
    <3> QED BY <3>1, <3>2
  <2>7. ASSUME NEW q \in Proc, NEW r \in Proc, pc'[q] = "commit", pc'[r] = "commit", tx'[q].hash = tx'[r].hash
        PROVE  q = r
    BY <2>1, <2>2, <2>7 DEF UniqueHash
  <2> QED BY <2>5, <2>6, <2>7 DEF UniqueHash
<1> QED BY <1>1, <1>2, StepCases

LEMMA UniqueHashInit == Init => UniqueHash
<1> SUFFICES ASSUME Init PROVE UniqueHash
  OBVIOUS
<1>1. StoreInv /\ \A p \in Proc : tx[p].hash = None
  BY StoreInit DEF Init, NoTx
<1>2. \A p \in Proc : pc[p] # "commit"
  BY <1>1 DEF StoreInv, TxOK
<1> QED BY <1>2 DEF Init, UniqueHash, Exists

-----------------------------------------------------------------------------
\* Command lines without an operator's own SQL on mapping_rules.

Editless == \A c \in Command : c.op \notin {"edit", "add"}

LEMMA NoEdit ==
    ASSUME Editless, StoreInv, NEW p \in Proc
    PROVE  ~EditCommit(p)
BY CommandType DEF Editless, StoreInv, LabelOK, EditCommit

LEMMA FrozenStands ==
    ASSUME Editless, StoreInv, [Next]_vars, NEW n \in Name, Frozen(n)
    PROVE  version'[n] = version[n] /\ Frozen(n)'
BY StepCases, NoEdit, OthersStand DEF vars, database, Frozen, Exists

\* Under these commands no step changes a frozen version or what hangs from it.
THEOREM FrozenImmutableHolds == Editless => (Spec => FrozenImmutable)
<1> SUFFICES ASSUME Editless PROVE Spec => FrozenImmutable
  OBVIOUS
<1>1. StoreInv /\ [Next]_vars => [\A n \in Name : Frozen(n) => version'[n] = version[n]]_vars
  BY FrozenStands
<1> QED BY <1>1, StoreInit, StoreStep, PTL DEF Spec, FrozenImmutable

\* What a transaction is about to commit is what it has hashed.
Canon ==
    /\ FrozenCanonical
    /\ \A p \in Proc : pc[p] = "commit" => tx[p].hash = Canonical(View(p))

\* Nobody changes what an open transaction sees, but the transaction.
LEMMA ViewStands ==
    ASSUME Editless, StoreInv, NEW p \in Proc, Step(p) \/ Die(p) \/ DieCommitted(p),
           NEW q \in Proc, q # p, pc[q] \in InTx
    PROVE  Base(q)' = Base(q) /\ View(q)' = View(q)
<1>1. tx'[q] = tx[q] /\ tx[q].name \in Name
  BY Changes, BaseType
<1>2. tx[q].name # tx[p].name
  BY <1>1, NullAssumption DEF StoreInv, Unique
<1>3. \A n \in Name : n # tx[p].name => version'[n] = version[n]
  BY OthersStand, NoEdit
<1>4. version'[tx[q].name] = version[tx[q].name]
  BY <1>1, <1>2, <1>3
<1>5. Base(q)' = Base(q)
  BY <1>1, <1>4 DEF Base
<1> QED BY <1>1, <1>5 DEF View

LEMMA CanonStep ==
    ASSUME Editless, StoreInv, Canon, [Next]_vars
    PROVE  Canon'
<1>1. CASE UNCHANGED vars
  BY <1>1 DEF Canon, FrozenCanonical, vars, database, Frozen, Exists, Canonical, View, Base
<1>2. ASSUME NEW p \in Proc, Step(p) \/ Die(p) \/ DieCommitted(p) PROVE Canon'
  <2>1. ASSUME NEW n \in Name, Frozen(n)' PROVE version'[n].hash = Canonical(version'[n])
    <3>1. CASE version'[n] = version[n]
      BY <2>1, <3>1 DEF Canon, FrozenCanonical, Frozen, Exists
    <3>2. CASE pc[p] = "commit" /\ version'[n] = FrozenRow(p)
      BY <3>2, FrozenRowType, BaseType DEF Canon, StoreInv, InTx
    <3>3. CASE pc[p] = "clonecommit" /\ version'[n] = tx[p].row
      BY <2>1, <3>3 DEF StoreInv, TxOK, Inserting, Frozen
    <3> QED BY <1>2, <3>1, <3>2, <3>3, OthersStand, NoEdit
  <2>2. ASSUME NEW q \in Proc, pc'[q] = "commit" PROVE (tx[q].hash = Canonical(View(q)))'
    <3>1. CASE q # p
      <4>1. pc[q] = "commit" /\ tx'[q] = tx[q]
        BY <1>2, <2>2, <3>1, Changes
      <4>2. View(q)' = View(q)
        BY <1>2, <3>1, <4>1, ViewStands DEF InTx
      <4>3. Canonical(View(q))' = Canonical(View(q))
        BY <4>2 DEF Canonical
      <4> QED BY <4>1, <4>3 DEF Canon
    <3>2. CASE q = p
      <4>1. Freezes(p) /\ version' = version
        BY <1>2, <2>2, <3>2, Changes
      <4>2. tx[p] \in Tx /\ tx'[p] = [tx[p] EXCEPT !.hash = Canonical(View(p))]
        BY <4>1 DEF Freezes, StoreInv, TypeOK
      <4>3. /\ tx'[p].hash = Canonical(View(p)) /\ tx'[p].row = tx[p].row
            /\ tx'[p].name = tx[p].name /\ tx'[p].fixes = tx[p].fixes
        BY <4>2 DEF Tx
      <4>4. View(p)' = View(p)
        BY <4>1, <4>3 DEF View, Base
      <4>5. Canonical(View(p))' = Canonical(View(p))
        BY <4>4 DEF Canonical
      <4> QED BY <3>2, <4>3, <4>5
    <3> QED BY <3>1, <3>2
  <2> QED BY <2>1, <2>2 DEF Canon, FrozenCanonical, Canonical
<1> QED BY <1>1, <1>2, StepCases

LEMMA CanonInit == Init => Canon
<1> SUFFICES ASSUME Init PROVE Canon
  OBVIOUS
<1>1. StoreInv /\ \A p \in Proc : tx[p].hash = None
  BY StoreInit DEF Init, NoTx
<1>2. \A p \in Proc : pc[p] # "commit"
  BY <1>1 DEF StoreInv, TxOK
<1> QED BY <1>2 DEF Init, Canon, FrozenCanonical, Frozen, Exists

\* A frozen version's content_sha256 is the hash of the files and rules the tables
\* hold for it, so the count end_to_end.sh makes is always zero.
THEOREM FrozenCanonicalHolds == Editless => (Spec => []FrozenCanonical)
<1> SUFFICES ASSUME Editless PROVE Spec => []FrozenCanonical
  OBVIOUS
<1>1. StoreInv /\ Canon /\ [Next]_vars => Canon'
  BY CanonStep
<1>2. Canon => FrozenCanonical
  BY DEF Canon
<1> QED BY <1>1, <1>2, CanonInit, StoreInit, StoreStep, PTL DEF Spec

\* Two frozen versions never have equal files and rules: the hash each stores is the
\* canonical one, and the unique key makes the later of two freezes fail.
THEOREM OneVersionPerContentHolds == Editless => (Spec => []OneVersionPerContent)
<1> SUFFICES ASSUME Editless PROVE Spec => []OneVersionPerContent
  OBVIOUS
<1>1. StoreInv /\ Canon /\ [Next]_vars => Canon'
  BY CanonStep
<1>2. StoreInv /\ UniqueHash /\ [Next]_vars => UniqueHash'
  BY UniqueHashStep
<1>3. StoreInv /\ Canon /\ UniqueHash => OneVersionPerContent
  <2> SUFFICES ASSUME StoreInv, Canon, UniqueHash, NEW m \in Name, NEW n \in Name,
                      Frozen(m), Frozen(n), Canonical(version[m]) = Canonical(version[n])
               PROVE  m = n
    BY DEF OneVersionPerContent
  <2>1. version[m] \in Version
    BY DEF StoreInv, TypeOK, Frozen, Exists
  <2>2. Canonical(version[m]) \in Content
    BY <2>1 DEF Canonical, Content, Version
  <2>3. version[m].hash = version[n].hash /\ version[m].hash # None
    BY <2>2, NullAssumption DEF Canon, FrozenCanonical
  <2> QED BY <2>3 DEF UniqueHash, Frozen
<1> QED BY <1>1, <1>2, <1>3, CanonInit, UniqueHashInit, StoreInit, StoreStep, PTL DEF Spec

-----------------------------------------------------------------------------
\* What versions hold: the command line's files, or the corrected rules of a parent.

\* A clone that has not been corrected.
CopyOf(v) ==
    /\ v.parent \in Name /\ Frozen(v.parent)
    /\ v.files = version[v.parent].files /\ v.rules = version[v.parent].rules
    /\ v.history = {}

\* A transaction that clones or corrects.
CloneOK(p) ==
    /\ tx[p].row # None /\ tx[p].row.parent # None => CopyOf(tx[p].row)
    /\ pc[p] = "clonecommit" => tx[p].row.parent # None
    /\ pc[p] \in {"fix", "freeze", "commit"} /\ cmd[p].op = "fixes" =>
          tx[p].row # None /\ tx[p].row.parent # None
    /\ pc[p] = "fix" /\ cmd[p].op # "fixes" => tx[p].row = None
    /\ pc[p] \in {"freeze", "commit"} /\ (tx[p].row = None \/ tx[p].row.parent # None) =>
          tx[p].fixes = NFix

\* A transaction that imports: how much of the command line's content it has inserted.
ImportOK(p) ==
    /\ pc[p] \in {"file1", "file2", "wait1", "wait2", "rules"} =>
          tx[p].row.parent = None /\ tx[p].fixes = 0
    /\ pc[p] \in {"file2", "wait2", "rules"} => tx[p].row.files[1] = cmd[p].content.files[1]
    /\ pc[p] = "rules" => tx[p].row.files[2] = cmd[p].content.files[2]
    /\ pc[p] \in {"freeze", "commit"} /\ tx[p].row # None /\ cmd[p].op # "fixes" =>
          /\ tx[p].row.parent = None /\ tx[p].fixes = 0
          /\ Canonical(tx[p].row) = cmd[p].content

\* What the version a process got holds.
GotContent(p) ==
    /\ cmd[p].op \in {"import", "run"} /\ got[p] # None =>
          Canonical(version[got[p]]) = cmd[p].content
    /\ pc[p] = "persist" => loaded[p] = version[got[p]].rules

ContentInv ==
    /\ Canon
    /\ ChildIsFixedParent
    /\ \A n \in Name : Draft(n) => CopyOf(version[n])
    /\ \A p \in Proc : CloneOK(p) /\ ImportOK(p) /\ GotContent(p)

LEMMA ContentInit == Init => ContentInv
<1> SUFFICES ASSUME Init PROVE ContentInv
  OBVIOUS
<1>1. StoreInv /\ \A p \in Proc : tx[p] = NoTx /\ got[p] = None
  BY StoreInit DEF Init
<1>2. \A p \in Proc : cmd[p] \in Command /\ cmd[p].op \in Op
  BY CommandAssumption DEF Init
<1>3. \A p \in Proc : pc[p] \in {"byname", "clone", "lookup", "edit", "add"}
  BY <1>2 DEF Init, First, Op
<1>4. \A p \in Proc : CloneOK(p) /\ ImportOK(p) /\ GotContent(p)
  BY <1>1, <1>3 DEF CloneOK, ImportOK, GotContent, NoTx
<1> QED BY <1>4, CanonInit DEF Init, ContentInv, ChildIsFixedParent, Frozen, Draft, Exists

\* The statements after which a process has an open transaction.
LEMMA Enters ==
    ASSUME StoreInv, NEW p \in Proc, Step(p) \/ Die(p) \/ DieCommitted(p), pc'[p] \in InTx
    PROVE  \/ Insert(p) \/ InsertRules(p) \/ Freeze(p) \/ CloneInsert(p) \/ ApplyLock(p) \/ Fix(p)
           \/ \E i \in 1..2 : SourceFile(p, i) \/ SourceFileWake(p, i)
<1> USE DEF StoreInv, TypeOK, Goto, Over, InTx
<1>1. ~Fail(p)
  BY DEF Fail
<1>2. ~ByName(p) /\ ~ByHash(p)
  BY <1>1 DEF ByName, ByHash, Return, LabelOK
<1>3. ~Commit(p)
  BY DEF Commit, Return, LabelOK
<1>4. ~FindChild(p) /\ ~Clone(p) /\ ~CloneCommit(p) /\ ~HashCheck(p)
  BY <1>1 DEF FindChild, Clone, CloneCommit, HashCheck
<1>5. ~Use(p)
  BY <1>1 DEF Use, Lookup, LoadRules, PersistRules
<1>6. ~Operator(p)
  BY <1>1 DEF Operator, Edit, Add, AddKey, EditCommit
<1>7. ~Die(p) /\ ~DieCommitted(p)
  BY DEF Die, DieCommitted
<1> QED BY <1>2, <1>3, <1>4, <1>5, <1>6, <1>7 DEF Step, Import, Correct

LEMMA LinkRow ==
    ASSUME StoreInv, NEW p \in Proc, ImportOK(p), NEW i \in 1..2,
           pc[p] \in {FileLabel[i], WaitLabel[i]}, NEW new \in SUBSET File, LinkFile(p, i, new)
    PROVE  (CloneOK(p) /\ ImportOK(p))'
<1> DEFINE l == IF i = 1 THEN "file2" ELSE "rules"
           row == [tx[p].row EXCEPT !.files = [@ EXCEPT ![i] = FileAt(p, i)]]
           t == [tx[p] EXCEPT !.row = row, !.files = @ \cup new]
<1>1. pc[p] \in {"file1", "file2", "wait1", "wait2"} /\ (i = 2 => pc[p] \in {"file2", "wait2"})
  BY DEF FileLabel, WaitLabel
<1>2. TypeOK /\ tx[p] \in Tx /\ tx[p].row \in Version
  BY <1>1 DEF StoreInv, TypeOK, TxOK, Inserting, Tx
<1>3. tx[p].row.files \in [1..2 -> File \cup {None}]
  BY <1>2 DEF Version
<1>4. /\ row.parent = tx[p].row.parent
      /\ row.files[i] = cmd[p].content.files[i]
      /\ i = 2 => row.files[1] = tx[p].row.files[1]
  BY <1>2, <1>3 DEF Version, FileAt
<1>5. t.row = row /\ t.fixes = tx[p].fixes
  BY <1>2 DEF Tx
<1>6. tx'[p] = t /\ pc'[p] = l /\ cmd' = cmd
  BY <1>2 DEF LinkFile, Goto, TypeOK
<1>7. row.parent = None /\ t.fixes = 0
  BY <1>1, <1>4, <1>5 DEF ImportOK
<1>8. CloneOK(p)'
  BY <1>5, <1>6, <1>7 DEF CloneOK
<1>9. ImportOK(p)'
  <2>1. CASE i = 1
    BY <1>4, <1>5, <1>6, <1>7, <2>1 DEF ImportOK
  <2>2. CASE i = 2
    <3>1. row.files[1] = cmd[p].content.files[1]
      BY <1>1, <1>4, <2>2 DEF ImportOK
    <3> QED BY <1>4, <1>5, <1>6, <1>7, <2>2, <3>1 DEF ImportOK
  <2> QED BY <2>1, <2>2
<1> QED BY <1>8, <1>9

LEMMA RulesRow ==
    ASSUME StoreInv, NEW p \in Proc, ImportOK(p), InsertRules(p)
    PROVE  (CloneOK(p) /\ ImportOK(p))'
<1> DEFINE row == [tx[p].row EXCEPT !.rules = cmd[p].content.rules]
           t == [tx[p] EXCEPT !.row = row]
<1>1. pc[p] = "rules" /\ cmd' = cmd
  BY DEF InsertRules
<1>2. TypeOK /\ tx[p] \in Tx /\ tx[p].row \in Version
  BY <1>1 DEF StoreInv, TypeOK, TxOK, Inserting, Tx
<1>3. /\ tx[p].row.files \in [1..2 -> File \cup {None}]
      /\ cmd[p].content \in Content
      /\ cmd[p].content.files \in [1..2 -> File \cup {None}]
  BY <1>2, CommandType DEF Version, Content
<1>4. tx[p].row.files = cmd[p].content.files
  <2>1. \A i \in 1..2 : i = 1 \/ i = 2
    OBVIOUS
  <2> QED BY <1>1, <1>3, <2>1 DEF ImportOK
<1>5. row.parent = None /\ row.files = cmd[p].content.files /\ row.rules = cmd[p].content.rules
  BY <1>1, <1>2, <1>4 DEF Version, ImportOK
<1>6. Canonical(row) = cmd[p].content
  BY <1>3, <1>5 DEF Canonical, Content
<1>7. t.row = row /\ t.fixes = 0
  BY <1>1, <1>2 DEF Tx, ImportOK
<1>8. tx'[p] = t /\ pc'[p] = "freeze"
  BY <1>2 DEF InsertRules, Goto, TypeOK
<1>9. row # None
  <2>1. row \in Version
    BY <1>2, <1>3 DEF Version, Content
  <2> QED BY <2>1, RowAssumption
<1>10. CloneOK(p)'
  <2>1. cmd[p].op # "fixes"
    BY <1>1 DEF StoreInv, LabelOK
  <2> QED BY <1>1, <1>5, <1>7, <1>8, <1>9, <2>1 DEF CloneOK
<1>11. Canonical(tx[p].row)' = cmd[p].content
  BY <1>6, <1>7, <1>8 DEF Canonical
<1>12. ImportOK(p)'
  BY <1>1, <1>5, <1>7, <1>8, <1>11 DEF ImportOK
<1> QED BY <1>10, <1>12

LEMMA CloneRow ==
    ASSUME StoreInv, NEW p \in Proc, CloneInsert(p), ~Fail(p)
    PROVE  (CloneOK(p) /\ ImportOK(p))'
<1> DEFINE row == [NewRow(Parent(p)) EXCEPT !.files = version[Parent(p)].files,
                                            !.rules = version[Parent(p)].rules]
           l == IF cmd[p].op = "script" THEN "clonecommit" ELSE "fix"
<1>1. cmd[p].child \in Name /\ cmd[p].name \in Name /\ TypeOK /\ LabelOK(p) /\ GotOK(p)
  BY CommandType DEF StoreInv
<1>2. /\ pc[p] = "cloneinsert" /\ Goto(p, l)
      /\ tx' = [tx EXCEPT ![p] = Opened(cmd[p].child, row)]
      /\ UNCHANGED <<database, cmd, got, loaded, faults>>
  BY DEF CloneInsert
<1>3. Parent(p) \in Name /\ version[Parent(p)] \in Version /\ Frozen(Parent(p))
  BY <1>1, <1>2 DEF GotOK, LabelOK, Parent, Frozen, Exists, TypeOK
<1>4. /\ row \in Version /\ row.parent = Parent(p) /\ row.history = {}
      /\ row.files = version[Parent(p)].files /\ row.rules = version[Parent(p)].rules
  <2>1. /\ version[Parent(p)].files \in [1..2 -> File \cup {None}]
        /\ version[Parent(p)].rules \in [Line -> Cell]
    BY <1>3 DEF Version
  <2> QED BY <1>3, <2>1 DEF NewRow, Version
<1>5. pc'[p] = l /\ tx'[p].row = row /\ version' = version /\ cmd' = cmd
  BY <1>1, <1>2, <1>4, OpenedType DEF Goto, TypeOK, database
<1>6. CopyOf(tx[p].row)' /\ row.parent # None
  BY <1>3, <1>4, <1>5, NullAssumption DEF CopyOf, Frozen, Exists
<1>7. CloneOK(p)'
  <2>1. cmd[p].op \in {"script", "fixes"}
    BY <1>1, <1>2 DEF LabelOK
  <2>2. row # None
    BY <1>4, RowAssumption
  <2> QED BY <1>4, <1>5, <1>6, <2>1, <2>2 DEF CloneOK
<1>8. ImportOK(p)'
  BY <1>5 DEF ImportOK
<1> QED BY <1>7, <1>8

LEMMA FixRow ==
    ASSUME StoreInv, NEW p \in Proc, CloneOK(p), Fix(p), ~Fail(p)
    PROVE  (CloneOK(p) /\ ImportOK(p))'
<1>1. TypeOK /\ tx[p] \in Tx /\ pc[p] = "fix" /\ version' = version /\ cmd' = cmd
  BY DEF StoreInv, TypeOK, Fix, database
<1>2. CASE tx[p].fixes = NFix
  <2>1. pc'[p] = "freeze" /\ tx' = tx
    BY <1>1, <1>2, FixAssumption DEF Fix, Goto, TypeOK
  <2>2. CloneOK(p)'
    BY <1>1, <1>2, <2>1 DEF CloneOK, CopyOf, Frozen, Exists
  <2>3. ImportOK(p)'
    BY <1>1, <2>1 DEF ImportOK, CloneOK
  <2> QED BY <2>2, <2>3
<1>3. CASE tx[p].fixes # NFix
  <2>1. pc' = pc /\ tx' = [tx EXCEPT ![p].fixes = tx[p].fixes + 1]
    BY <1>3 DEF Fix
  <2>2. tx'[p].row = tx[p].row
    BY <1>1, <2>1 DEF Tx, TypeOK
  <2>3. CloneOK(p)'
    BY <1>1, <2>1, <2>2 DEF CloneOK, CopyOf, Frozen, Exists
  <2>4. ImportOK(p)'
    BY <1>1, <2>1 DEF ImportOK
  <2> QED BY <2>3, <2>4
<1> QED BY <1>2, <1>3

\* A process keeps track of what its transaction holds.
LEMMA RowStep ==
    ASSUME StoreInv, StoreInv', NEW p \in Proc, Step(p) \/ Die(p) \/ DieCommitted(p),
           CloneOK(p), ImportOK(p)
    PROVE  (CloneOK(p) /\ ImportOK(p))'
<1>1. CASE pc'[p] \notin InTx
  <2>1. tx'[p] = NoTx
    BY <1>1 DEF StoreInv, TxOK
  <2> QED BY <1>1, <2>1 DEF CloneOK, ImportOK, NoTx, InTx
<1> SUFFICES ASSUME pc'[p] \in InTx PROVE (CloneOK(p) /\ ImportOK(p))'
  BY <1>1
<1>2. ~Fail(p)
  BY DEF Fail, Goto, InTx, StoreInv, TypeOK
<1>3. TypeOK /\ tx[p] \in Tx
  BY DEF StoreInv, TypeOK
<1>4. CASE Insert(p)
  <2>1. pc'[p] = "file1" /\ tx'[p] = Opened(cmd[p].name, NewRow(None))
    BY <1>2, <1>3, <1>4 DEF Insert, Goto, TypeOK
  <2>2. tx'[p].row = NewRow(None) /\ tx'[p].fixes = 0 /\ NewRow(None).parent = None
    BY <1>3, <2>1, OpenedType, NewRowType, CommandType
  <2> QED BY <2>1, <2>2 DEF CloneOK, ImportOK
<1>5. ASSUME NEW i \in 1..2, SourceFile(p, i) \/ SourceFileWake(p, i)
      PROVE  (CloneOK(p) /\ ImportOK(p))'
  <2>1. pc[p] \in {FileLabel[i], WaitLabel[i]} /\ FileAt(p, i) \in File \cup {None}
    BY <1>3, <1>5, CommandType DEF SourceFile, SourceFileWake, FileAt, Content
  <2>2. FileAt(p, i) \in File
    <3>1. pc[p] \in {"file1", "file2", "wait1", "wait2"}
      BY <2>1 DEF FileLabel, WaitLabel
    <3> QED BY <1>3, <3>1, CommandType, HashedAssumption DEF FileAt, StoreInv, LabelOK
  <2>3. CASE \E new \in SUBSET File : LinkFile(p, i, new)
    BY <2>1, <2>3, LinkRow
  <2>4. CASE pc[p] = FileLabel[i] /\ Goto(p, WaitLabel[i]) /\ UNCHANGED <<database, cmd, tx, got, loaded, faults>>
    <3>1. /\ i = 1 => pc[p] = "file1" /\ pc'[p] = "wait1"
          /\ i = 2 => pc[p] = "file2" /\ pc'[p] = "wait2"
          /\ i = 1 \/ i = 2
      BY <1>3, <2>4 DEF FileLabel, WaitLabel, Goto, TypeOK
    <3>2. tx'[p] = tx[p] /\ cmd' = cmd
      BY <2>4
    <3> QED BY <3>1, <3>2 DEF CloneOK, ImportOK
  <2> QED BY <1>2, <1>5, <2>2, <2>3, <2>4 DEF SourceFile, SourceFileWake
<1>6. CASE Freeze(p)
  <2>1. /\ pc[p] = "freeze" /\ pc'[p] = "commit" /\ version' = version /\ cmd' = cmd
        /\ tx'[p] = [tx[p] EXCEPT !.hash = Canonical(View(p))]
    BY <1>2, <1>3, <1>6 DEF Freeze, Goto, TypeOK, database
  <2>2. tx'[p].row = tx[p].row /\ tx'[p].fixes = tx[p].fixes
    BY <1>3, <2>1 DEF Tx
  <2>3. CloneOK(p)'
    BY <2>1, <2>2 DEF CloneOK, CopyOf, Frozen, Exists
  <2>4. ImportOK(p)'
    BY <2>1, <2>2 DEF ImportOK, Canonical
  <2> QED BY <2>3, <2>4
<1>7. CASE ApplyLock(p)
  <2>1. pc'[p] = "fix" /\ tx'[p] = Opened(cmd[p].child, None)
    BY <1>2, <1>3, <1>7 DEF ApplyLock, Goto, TypeOK
  <2>2. tx'[p].row = None
    BY <1>3, <2>1, OpenedType, CommandType
  <2>3. cmd'[p].op = "script"
    BY <1>2, <1>7 DEF ApplyLock, StoreInv, LabelOK
  <2> QED BY <2>1, <2>2, <2>3 DEF CloneOK, ImportOK
<1> QED BY <1>2, <1>4, <1>5, <1>6, <1>7, RulesRow, CloneRow, FixRow, Enters

\* Where the version a process uses comes from, and the rules it maps with.
LEMMA Gets ==
    ASSUME StoreInv, NEW p \in Proc, Step(p) \/ Die(p) \/ DieCommitted(p)
    PROVE  \/ got'[p] = got[p] /\ pc'[p] # "persist"
           \/ \E n \in Name :
                 /\ Return(p, n) /\ cmd[p].op \in {"import", "run", "script"}
                 /\ \/ version[n].hash = cmd[p].content /\ Frozen(n) /\ version' = version
                    \/ /\ pc[p] = "commit" /\ n = tx[p].name
                       /\ tx[p].row # None /\ cmd[p].op # "fixes" /\ Committed(p)
           \/ cmd[p].op \in {"use", "script"} /\ pc'[p] = "load"
           \/ pc[p] = "load" /\ got' = got /\ loaded'[p] = version[got[p]].rules /\ version' = version
<1> USE DEF StoreInv, TypeOK, Goto, Over
<1>1. ASSUME Fail(p) PROVE got'[p] = got[p] /\ pc'[p] # "persist"
  BY <1>1 DEF Fail
<1>2. CASE ByName(p)
  BY <1>1, <1>2, CommandType DEF ByName, LabelOK, database
<1>3. CASE ByHash(p)
  BY <1>1, <1>3 DEF ByHash, LabelOK, database
<1>4. CASE Insert(p) \/ InsertRules(p)
  BY <1>1, <1>4 DEF Insert, InsertRules
<1>5. ASSUME NEW i \in 1..2, SourceFile(p, i) \/ SourceFileWake(p, i)
      PROVE  got'[p] = got[p] /\ pc'[p] # "persist"
  BY <1>1, <1>5 DEF SourceFile, SourceFileWake, LinkFile, WaitLabel
<1>6. CASE Freeze(p)
  BY <1>1, <1>6 DEF Freeze
<1>7. CASE Commit(p)
  BY <1>7 DEF Commit, LabelOK, TxOK, InTx
<1>8. CASE Correct(p)
  BY <1>1, <1>8 DEF Correct, FindChild, Clone, CloneInsert, CloneCommit, ApplyLock, Fix, HashCheck
<1>9. CASE Lookup(p)
  BY <1>1, <1>9 DEF Lookup, LabelOK
<1>10. CASE LoadRules(p)
  BY <1>1, <1>10 DEF LoadRules, database
<1>11. CASE PersistRules(p)
  BY <1>1, <1>11 DEF PersistRules
<1>12. CASE Operator(p)
  BY <1>1, <1>12 DEF Operator, Edit, Add, AddKey, EditCommit
<1>13. CASE Die(p) \/ DieCommitted(p)
  BY <1>13 DEF Die, DieCommitted
<1> QED BY <1>2, <1>3, <1>4, <1>5, <1>6, <1>7, <1>8, <1>9, <1>10, <1>11, <1>12, <1>13
        DEF Step, Import, Use

\* What a process got stays what it asked for.
LEMMA GotStep ==
    ASSUME Editless, StoreInv, NEW p \in Proc, Step(p) \/ Die(p) \/ DieCommitted(p),
           FrozenCanonical, ImportOK(p), GotContent(p),
           \A n \in Name : Frozen(n) => version'[n] = version[n]
    PROVE  GotContent(p)'
<1>1. cmd' = cmd /\ got[p] \in Name \cup {None} /\ (got[p] # None => Frozen(got[p]))
  BY Changes DEF StoreInv, GotOK, TypeOK
<1>2. CASE got'[p] = got[p] /\ pc'[p] # "persist"
  BY <1>1, <1>2 DEF GotContent, Canonical
<1>3. ASSUME NEW n \in Name, Return(p, n), cmd[p].op \in {"import", "run", "script"},
             Canonical(version'[n]) = cmd[p].content
      PROVE  GotContent(p)'
  <2>1. /\ got'[p] = n
        /\ cmd[p].op = "run" => loaded'[p] = cmd[p].content.rules
        /\ pc'[p] = "persist" => cmd[p].op = "run"
    BY <1>3 DEF Return, Goto, StoreInv, TypeOK
  <2>2. version'[n].rules = cmd[p].content.rules
    BY <1>3 DEF Canonical
  <2> QED BY <1>1, <1>3, <2>1, <2>2 DEF GotContent, Canonical
<1>4. ASSUME NEW n \in Name, Return(p, n), cmd[p].op \in {"import", "run", "script"},
             version[n].hash = cmd[p].content /\ Frozen(n) /\ version' = version
      PROVE  GotContent(p)'
  <2>1. Canonical(version'[n]) = cmd[p].content
    BY <1>4 DEF FrozenCanonical
  <2> QED BY <1>3, <1>4, <2>1
<1>5. ASSUME Return(p, tx[p].name), cmd[p].op \in {"import", "run", "script"},
             pc[p] = "commit", tx[p].row # None, Committed(p), tx[p].name \in Name
      PROVE  GotContent(p)'
  <2>1. Base(p) = tx[p].row /\ tx[p].fixes = 0 /\ Canonical(tx[p].row) = cmd[p].content
    BY <1>5 DEF Base, ImportOK
  <2>2. Base(p) \in Version /\ TypeOK
    BY <1>5, BaseType DEF InTx, StoreInv
  <2>3. Base(p).rules \in [Line -> Cell]
    BY <2>2 DEF Version
  <2>4. View(p).files = tx[p].row.files /\ View(p).rules = tx[p].row.rules
    BY <2>1, <2>2, <2>3, ViewType, FixedNone
  <2>5. Canonical(FrozenRow(p)) = cmd[p].content
    BY <2>1, <2>2, <2>4, FrozenRowType DEF Canonical
  <2>6. version'[tx[p].name] = FrozenRow(p)
    BY <1>5 DEF Committed, FrozenRow, StoreInv, TypeOK
  <2> QED BY <1>3, <1>5, <2>5, <2>6
<1>6. CASE cmd[p].op \in {"use", "script"} /\ pc'[p] = "load"
  BY <1>1, <1>6 DEF GotContent
<1>7. CASE pc[p] = "load" /\ got' = got /\ loaded'[p] = version[got[p]].rules /\ version' = version
  <2>1. cmd[p].op \in {"use", "script"}
    BY <1>7 DEF StoreInv, LabelOK
  <2> QED BY <1>1, <1>7, <2>1 DEF GotContent
<1> QED BY <1>2, <1>4, <1>5, <1>6, <1>7, Gets

LEMMA ContentStep ==
    ASSUME Editless, StoreInv, StoreInv', ContentInv, [Next]_vars
    PROVE  ContentInv'
<1>1. Canon' /\ \A n \in Name : Frozen(n) => version'[n] = version[n] /\ Frozen(n)'
  BY CanonStep, FrozenStands DEF ContentInv
<1>2. CASE UNCHANGED vars
  BY <1>1, <1>2 DEF ContentInv, vars, database, ChildIsFixedParent, Draft, CopyOf, CloneOK, ImportOK,
                    GotContent, Frozen, Exists, Canonical
<1>3. ASSUME NEW p \in Proc, Step(p) \/ Die(p) \/ DieCommitted(p) PROVE ContentInv'
  <2>1. ASSUME NEW v, CopyOf(v) PROVE CopyOf(v)'
    BY <1>1, <2>1 DEF CopyOf
  <2>2. \A q \in Proc : q # p => tx'[q] = tx[q] /\ pc'[q] = pc[q] /\ got'[q] = got[q] /\ loaded'[q] = loaded[q]
    BY <1>3, Changes
  <2>3. cmd' = cmd
    BY <1>3, Changes
  <2>4. ASSUME NEW q \in Proc PROVE (CloneOK(q) /\ ImportOK(q) /\ GotContent(q))'
    <3>1. CASE q = p
      BY <1>1, <1>3, <3>1, RowStep, GotStep DEF ContentInv, Canon
    <3>2. CASE q # p
      <4>1. tx'[q] = tx[q] /\ pc'[q] = pc[q] /\ got'[q] = got[q] /\ loaded'[q] = loaded[q]
        BY <2>2, <3>2
      <4>2. CloneOK(q)'
        BY <2>1, <2>3, <4>1 DEF ContentInv, CloneOK
      <4>3. ImportOK(q)'
        BY <2>3, <4>1 DEF ContentInv, ImportOK, Canonical
      <4>4. got[q] \in Name \cup {None} /\ (got[q] # None => version'[got[q]] = version[got[q]])
        BY <1>1 DEF StoreInv, TypeOK, GotOK
      <4>5. GotContent(q)'
        BY <2>3, <4>1, <4>4 DEF ContentInv, GotContent, Canonical, StoreInv, GotOK
      <4> QED BY <4>2, <4>3, <4>5
    <3> QED BY <3>1, <3>2
  <2>5. ASSUME NEW n \in Name, Draft(n)' PROVE CopyOf(version[n])'
    <3>1. CASE version'[n] = version[n]
      BY <2>1, <2>5, <3>1 DEF ContentInv, Draft, Exists
    <3>2. CASE pc[p] = "commit" /\ version'[n] = FrozenRow(p)
      BY <2>5, <3>2, BaseType, FrozenRowType DEF StoreInv, InTx, Draft
    <3>3. CASE pc[p] = "clonecommit" /\ version'[n] = tx[p].row
      <4>1. CopyOf(tx[p].row)
        BY <3>3 DEF ContentInv, CloneOK, StoreInv, TxOK, Inserting
      <4> QED BY <2>1, <3>3, <4>1
    <3> QED BY <1>3, <3>1, <3>2, <3>3, OthersStand, NoEdit
  <2>6. ASSUME NEW n \in Name, Frozen(n)', version'[n].parent # None
        PROVE  /\ Frozen(version[n].parent)'
               /\ version'[n].files = version'[version'[n].parent].files
               /\ version'[n].rules = Fixed(version'[version'[n].parent].rules, NFix)
               /\ version'[n].history = 1..NFix
    <3>1. CASE version'[n] = version[n]
      <4>1. Frozen(n) /\ version[n] \in Version
        BY <2>6, <3>1 DEF Frozen, Exists, StoreInv, TypeOK
      <4>2. version[n].parent \in Name
        BY <2>6, <3>1, <4>1 DEF Version
      <4>3. /\ Frozen(version[n].parent)
            /\ version[n].files = version[version[n].parent].files
            /\ version[n].rules = Fixed(version[version[n].parent].rules, NFix)
            /\ version[n].history = 1..NFix
        BY <2>6, <3>1, <4>1 DEF ContentInv, ChildIsFixedParent
      <4>4. version'[version[n].parent] = version[version[n].parent]
        BY <1>1, <4>2, <4>3
      <4> QED BY <3>1, <4>3, <4>4 DEF Frozen, Exists
    <3>2. CASE pc[p] = "commit" /\ version'[n] = FrozenRow(p)
      <4>1. Base(p) \in Version /\ tx[p].name \in Name
        BY <3>2, BaseType DEF InTx
      <4>2. /\ FrozenRow(p).parent = Base(p).parent /\ FrozenRow(p).files = Base(p).files
            /\ FrozenRow(p).rules = Fixed(Base(p).rules, tx[p].fixes)
            /\ FrozenRow(p).history = Base(p).history \cup 1..tx[p].fixes
        BY <4>1, ViewType, FrozenRowType DEF StoreInv
      <4>3. Base(p).parent # None
        BY <2>6, <3>2, <4>2
      <4>4. CopyOf(Base(p)) /\ tx[p].fixes = NFix
        <5>1. CASE tx[p].row = None
          BY <3>2, <4>1, <5>1 DEF Base, ContentInv, CloneOK, StoreInv, TxOK, InTx
        <5>2. CASE tx[p].row # None
          BY <3>2, <4>3, <5>2 DEF Base, ContentInv, CloneOK
        <5> QED BY <5>1, <5>2
      <4>5. /\ Base(p).parent \in Name /\ Frozen(Base(p).parent)
            /\ version'[Base(p).parent] = version[Base(p).parent]
        BY <1>1, <4>4 DEF CopyOf
      <4>6. version'[n].parent = Base(p).parent
        BY <3>2, <4>2
      <4>7. Frozen(version[n].parent)'
        BY <4>5, <4>6 DEF Frozen, Exists
      <4> QED BY <3>2, <4>2, <4>4, <4>5, <4>6, <4>7 DEF CopyOf
    <3>3. CASE pc[p] = "clonecommit" /\ version'[n] = tx[p].row
      BY <2>6, <3>3 DEF StoreInv, TxOK, Inserting, Frozen
    <3> QED BY <1>3, <3>1, <3>2, <3>3, OthersStand, NoEdit
  <2>7. ChildIsFixedParent'
    BY <2>6 DEF ChildIsFixedParent
  <2> QED BY <1>1, <2>4, <2>5, <2>7 DEF ContentInv
<1> QED BY <1>2, <1>3, StepCases

LEMMA ContentHolds == Editless => (Spec => [](StoreInv /\ ContentInv))
<1> SUFFICES ASSUME Editless PROVE Spec => [](StoreInv /\ ContentInv)
  OBVIOUS
<1>1. StoreInv /\ ContentInv /\ [Next]_vars => (StoreInv /\ ContentInv)'
  BY StoreStep, ContentStep
<1> QED BY <1>1, StoreInit, ContentInit, PTL DEF Spec

\* A version EnsureFrozenConfig returned holds the files and rules of the command
\* line, whether it was found by name, by hash, or inserted.
THEOREM ReturnedContentHolds == Editless => (Spec => []ReturnedContent)
<1>1. StoreInv /\ ContentInv => ReturnedContent
  BY DEF StoreInv, ContentInv, GotOK, GotContent, ReturnedContent
<1> QED BY <1>1, ContentHolds, PTL

\* The rules a run maps with are those of the version its lineage points to.
THEOREM RulesStandHolds == Editless => (Spec => []RulesStand)
<1>1. ContentInv => RulesStand
  BY DEF ContentInv, GotContent, RulesStand
<1> QED BY <1>1, ContentHolds, PTL

\* A frozen child is its frozen parent with every correction made and recorded.
THEOREM ChildIsFixedParentHolds == Editless => (Spec => []ChildIsFixedParent)
<1>1. ContentInv => ChildIsFixedParent
  BY DEF ContentInv
<1> QED BY <1>1, ContentHolds, PTL

-----------------------------------------------------------------------------
\* The statements amount to the catalogue.

LEMMA EntryType ==
    ASSUME NEW v \in Version
    PROVE  /\ EntryOf(v) # None
           /\ EntryOf(v).state = v.state /\ EntryOf(v).parent = v.parent
           /\ EntryOf(v).content = Canonical(v)
<1>1. Canonical(v) \in Content
  BY DEF Canonical, Content, Version
<1>2. EntryOf(v) \in [state : {"DRAFT", "FROZEN"}, content : Content, parent : Name \cup {None}]
  BY <1>1 DEF EntryOf, Version
<1> QED BY <1>2, RowAssumption DEF EntryOf

\* What the catalogue says of a name.
LEMMA EntriesType ==
    ASSUME TypeOK, NEW n \in Name
    PROVE  /\ Entries[n] = None <=> ~Exists(n)
           /\ Exists(n) => Entries[n] = EntryOf(version[n])
           /\ Catalog!Frozen(n) <=> Frozen(n)
<1>1. Exists(n) => version[n] \in Version
  BY DEF TypeOK, Exists
<1>2. (Entries[n] = None <=> ~Exists(n)) /\ (Exists(n) => Entries[n] = EntryOf(version[n]))
  BY <1>1, EntryType DEF Entries
<1> QED BY <1>1, <1>2, EntryType DEF Catalog!Frozen, Frozen

\* One version changes: one entry changes.
LEMMA EntriesChange ==
    ASSUME TypeOK, NEW n \in Name, NEW v \in Version, version' = [version EXCEPT ![n] = v]
    PROVE  Entries' = [Entries EXCEPT ![n] = Catalog!Entry(v.state, Canonical(v), v.parent)]
<1>1. version'[n] = v /\ (\A m \in Name : m # n => version'[m] = version[m]) /\ v # None
  BY RowAssumption DEF TypeOK
<1>2. Entries'[n] = EntryOf(v)
  BY <1>1 DEF Entries, Exists, EntryOf, Canonical
<1>3. \A m \in Name : m # n => Entries'[m] = Entries[m]
  BY <1>1 DEF Entries, Exists, EntryOf, Canonical
<1>4. EntryOf(v) = Catalog!Entry(v.state, Canonical(v), v.parent)
  BY DEF EntryOf, Catalog!Entry
<1> QED BY <1>2, <1>3, <1>4 DEF Entries

\* A COMMIT of a freeze freezes a content that is not in the catalogue.
LEMMA CommitIsFreeze ==
    ASSUME StoreInv, UniqueHash, Canon, NEW p \in Proc, pc[p] = "commit", Committed(p),
           NEW n \in Name, n = tx[p].name
    PROVE  Catalog!FreezeAs(n, Canonical(View(p)), Base(p).parent)
<1>1. TypeOK /\ Base(p) \in Version
  BY BaseType DEF StoreInv, InTx
<1>2. /\ FrozenRow(p) \in Version /\ FrozenRow(p).state = "FROZEN"
      /\ FrozenRow(p).parent = Base(p).parent /\ Canonical(FrozenRow(p)) = Canonical(View(p))
  BY <1>1, FrozenRowType, ViewType
<1>3. version' = [version EXCEPT ![n] = FrozenRow(p)]
  BY DEF Committed, FrozenRow
<1>4. Entries' = [Entries EXCEPT ![n] = Catalog!Entry("FROZEN", Canonical(View(p)), Base(p).parent)]
  BY <1>1, <1>2, <1>3, EntriesChange
<1>5. ASSUME NEW m \in Name, Catalog!Frozen(m) PROVE Entries[m].content # Canonical(View(p))
  <2>1. Frozen(m) /\ Entries[m] = EntryOf(version[m]) /\ version[m] \in Version
    BY <1>1, <1>5, EntriesType DEF Frozen, Exists, TypeOK
  <2>2. Entries[m].content = version[m].hash
    BY <2>1, EntryType DEF Canon, FrozenCanonical
  <2> QED BY <2>1, <2>2 DEF UniqueHash, Canon, Frozen
<1> QED BY <1>4, <1>5 DEF Catalog!FreezeAs

LEMMA CatalogStep ==
    ASSUME Editless, StoreInv, UniqueHash, ContentInv, [Next]_vars
    PROVE  [Catalog!Next]_Entries
<1>1. CASE version' = version
  BY <1>1 DEF Entries, Exists, EntryOf, Canonical
<1>2. ASSUME NEW p \in Proc, pc[p] = "commit", Committed(p) PROVE Catalog!Next
  <2>1. PICK n \in Name : n = tx[p].name
    BY <1>2, BaseType DEF InTx
  <2>2. TypeOK /\ Base(p) \in Version /\ Canon /\ CloneOK(p) /\ ImportOK(p) /\ TxOK(p) /\ LabelOK(p)
    BY <1>2, BaseType DEF StoreInv, InTx, ContentInv
  <2>3. Catalog!FreezeAs(n, Canonical(View(p)), Base(p).parent)
    BY <1>2, <2>1, <2>2, CommitIsFreeze
  <2>4. /\ View(p).files = Base(p).files
        /\ View(p).rules = Fixed(Base(p).rules, tx[p].fixes)
    BY <2>2, ViewType
  <2>5. ASSUME NEW v, Canonical(v) = Canonical(Base(p)), tx[p].fixes = NFix
        PROVE  Canonical(View(p)) = Corrected(Canonical(v))
    BY <2>4, <2>5 DEF Canonical, Corrected
  <2>6. CASE tx[p].row = None
    <3>1. Draft(n) /\ Base(p) = version[n] /\ tx[p].fixes = NFix
      BY <1>2, <2>1, <2>2, <2>6 DEF Base, TxOK, CloneOK, InTx
    <3>2. /\ Entries[n] # None /\ Entries[n].state = "DRAFT"
          /\ Entries[n].content = Canonical(version[n]) /\ Entries[n].parent = Base(p).parent
      BY <2>2, <3>1, EntriesType, EntryType DEF Draft
    <3>3. Canonical(View(p)) = Corrected(Entries[n].content)
      BY <2>5, <3>1, <3>2
    <3>4. Catalog!Correct(n)
      BY <2>3, <3>2, <3>3 DEF Catalog!Correct
    <3> QED BY <3>4 DEF Catalog!Next
  <2>7. CASE tx[p].row # None /\ tx[p].row.parent # None
    <3>1. PICK m \in Name : m = tx[p].row.parent
      BY <2>2, <2>7 DEF CloneOK, CopyOf
    <3>2. /\ Base(p) = tx[p].row /\ tx[p].fixes = NFix /\ Frozen(m) /\ ~Exists(n)
          /\ tx[p].row.files = version[m].files /\ tx[p].row.rules = version[m].rules
      BY <1>2, <2>1, <2>2, <2>7, <3>1 DEF Base, CloneOK, CopyOf, TxOK, Exists
    <3>3. Canonical(version[m]) = Canonical(Base(p))
      BY <3>2 DEF Canonical
    <3>4. /\ Entries[n] = None /\ Catalog!Frozen(m)
          /\ Entries[m].content = Canonical(version[m])
      BY <2>2, <3>2, EntriesType, EntryType DEF Frozen, TypeOK, Exists
    <3>5. Canonical(View(p)) = Corrected(Entries[m].content) /\ Base(p).parent = m
      BY <2>5, <3>1, <3>2, <3>3, <3>4
    <3>6. Catalog!CloneCorrected(n, m)
      BY <2>3, <3>4, <3>5 DEF Catalog!CloneCorrected
    <3> QED BY <3>6 DEF Catalog!Next
  <2>8. CASE tx[p].row # None /\ tx[p].row.parent = None
    <3>1. cmd[p].op \in {"import", "run", "script"}
      BY <1>2, <2>2, <2>8 DEF LabelOK, CloneOK
    <3>2. /\ Base(p) = tx[p].row /\ tx[p].fixes = 0 /\ ~Exists(n) /\ Base(p).parent = None
          /\ Canonical(tx[p].row) = cmd[p].content
      BY <1>2, <2>1, <2>2, <2>8, <3>1 DEF Base, ImportOK, TxOK, Exists
    <3>3. Fixed(Base(p).rules, 0) = Base(p).rules
      BY <2>2, FixedNone DEF Version
    <3>4. Canonical(View(p)) = cmd[p].content
      BY <2>4, <3>2, <3>3 DEF Canonical
    <3>5. cmd[p].content \in Importable
      BY <2>2, <3>1, CommandType DEF Importable
    <3>6. Catalog!Import(n)
      BY <2>2, <2>3, <3>2, <3>4, <3>5, EntriesType DEF Catalog!Import
    <3> QED BY <3>6 DEF Catalog!Next
  <2> QED BY <2>6, <2>7, <2>8
<1>3. ASSUME NEW p \in Proc, pc[p] = "clonecommit", CommittedDraft(p) PROVE Catalog!Next
  <2>1. PICK n \in Name : n = tx[p].name
    BY <1>3, BaseType DEF InTx
  <2>2. TypeOK /\ CloneOK(p) /\ TxOK(p) /\ tx[p].row # None /\ tx[p].row \in Version
    BY <1>3 DEF StoreInv, ContentInv, TxOK, Inserting, TypeOK, Tx
  <2>3. PICK m \in Name : m = tx[p].row.parent
    BY <1>3, <2>2 DEF CloneOK, CopyOf
  <2>4. /\ tx[p].row.state = "DRAFT" /\ Frozen(m) /\ ~Exists(n)
        /\ tx[p].row.files = version[m].files /\ tx[p].row.rules = version[m].rules
    BY <1>3, <2>1, <2>2, <2>3 DEF CloneOK, CopyOf, TxOK, Exists
  <2>5. Canonical(tx[p].row) = Canonical(version[m])
    BY <2>4 DEF Canonical
  <2>6. version' = [version EXCEPT ![n] = tx[p].row]
    BY <1>3, <2>1 DEF CommittedDraft
  <2>7. Entries' = [Entries EXCEPT ![n] = Catalog!Entry("DRAFT", Canonical(version[m]), m)]
    BY <2>2, <2>3, <2>4, <2>5, <2>6, EntriesChange
  <2>8. Entries[n] = None /\ Catalog!Frozen(m) /\ Entries[m].content = Canonical(version[m])
    BY <2>2, <2>4, EntriesType, EntryType DEF Frozen, TypeOK, Exists
  <2>9. Catalog!Clone(n, m)
    BY <2>7, <2>8 DEF Catalog!Clone
  <2> QED BY <2>9 DEF Catalog!Next
<1>4. CASE UNCHANGED vars
  BY <1>1, <1>4 DEF vars, database
<1> QED BY <1>1, <1>2, <1>3, <1>4, StepCases, Changes, NoEdit

\* The statements of concurrent commands, with their locks, rollbacks and faults,
\* implement the catalogue of contents frozen once.
THEOREM CatalogRefinement == Editless => (Spec => ImplementsCatalog)
<1> SUFFICES ASSUME Editless PROVE Spec => ImplementsCatalog
  OBVIOUS
<1>1. Init => Catalog!Init
  BY DEF Init, Catalog!Init, Entries, Exists
<1>2. StoreInv /\ UniqueHash /\ ContentInv /\ [Next]_vars => [Catalog!Next]_Entries
  BY CatalogStep
<1>3. StoreInv /\ UniqueHash /\ [Next]_vars => UniqueHash'
  BY UniqueHashStep
<1> QED BY <1>1, <1>2, <1>3, ContentHolds, UniqueHashInit, PTL DEF Spec, ImplementsCatalog, Catalog!Spec

=============================================================================
