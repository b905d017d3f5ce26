SPECIFICATION Spec
CONSTANTS
    Proc = {p1, p2, p3}
    Path = {"in", "out", "out2", "set"}
    Key = {"a", "b", "c", "s"}
    Target = {"", "ship", "tax", "bogus"}
    Known = {"ship", "tax"}
    ColumnName = {"transaction_type", "record_ref", "to_summary_field_when_positive_amount", "to_summary_field_when_negative_amount", "note", ""}
    Absent = Absent
    Disk <- MCDisk
    Command <- MCCommand
    MaxHeight = 2
    MaxFaults = 1
SYMMETRY MCSymmetry
INVARIANTS
    OutputIsWholePatch
    PatchAgreesWithSQL
    ImportSeesWholePatch
