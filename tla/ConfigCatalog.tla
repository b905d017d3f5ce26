--------------------------- MODULE ConfigCatalog ---------------------------
(***************************************************************************)
(* What config_versions promises to its users (runs, explain, an operator  *)
(* who names a version in a report), without processes, statements, locks  *)
(* or faults: a catalogue to which frozen contents are added, each once,   *)
(* and in which a clone is a DRAFT until it is frozen, corrected, for good. *)
(***************************************************************************)
CONSTANTS
    Name,          \* version names
    Importable,    \* contents that can be imported
    Corrected(_),  \* a content with every correction made
    None           \* no such version

VARIABLE catalog   \* by name: state, content and parent

Init == catalog = [n \in Name |-> None]

Entry(state, content, parent) == [state |-> state, content |-> content, parent |-> parent]

Frozen(n) == catalog[n] # None /\ catalog[n].state = "FROZEN"

\* Content c gets frozen under name n, unless it is already frozen.
FreezeAs(n, c, parent) ==
    /\ \A m \in Name : Frozen(m) => catalog[m].content # c
    /\ catalog' = [catalog EXCEPT ![n] = Entry("FROZEN", c, parent)]

\* import-config, or a run from files.
Import(n) ==
    /\ catalog[n] = None
    /\ \E c \in Importable : FreezeAs(n, c, None)

\* clone_config_version.
Clone(n, m) ==
    /\ catalog[n] = None
    /\ Frozen(m)
    /\ catalog' = [catalog EXCEPT ![n] = Entry("DRAFT", catalog[m].content, m)]

\* apply_mapping_fixes.
Correct(n) ==
    /\ catalog[n] # None /\ catalog[n].state = "DRAFT"
    /\ FreezeAs(n, Corrected(catalog[n].content), catalog[n].parent)

\* MAPPING_FIXES.sql: both in one transaction.
CloneCorrected(n, m) ==
    /\ catalog[n] = None
    /\ Frozen(m)
    /\ FreezeAs(n, Corrected(catalog[m].content), m)

Next ==
    \E n \in Name :
        \/ Import(n) \/ Correct(n)
        \/ \E m \in Name : Clone(n, m) \/ CloneCorrected(n, m)

Spec == Init /\ [][Next]_catalog
=============================================================================
