SPECIFICATION Spec
CONSTANTS
    Proc = {p1, p2}
    Name = {"base", "auto", "late", "fixed"}
    File = {"pay", "pay2", "set"}
    Line <- MCLine
    Payment <- MCPayment
    Rule <- MCRule
    Gone = "gone"
    None = None
    Command <- SharedCommands
    NFix = 2
    DefectOf <- MCDefectOf
    Old <- MCOld
    New <- MCNew
    MaxFaults = 0
INVARIANT
    FrozenCanonical
