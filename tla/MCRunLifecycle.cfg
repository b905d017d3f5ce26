SPECIFICATION Spec
CONSTANTS
    Proc = {p1, p2}
    None = None
    Job <- MCJob
    Name <- MCName
    Path <- MCPath
    File <- MCFile
    Invocation <- Issued
    FileOf <- MCFileOf
    Strict <- MCStrict
    SummaryBalanced <- MCJob
    GroupsBalanced <- MCGroupsBalanced
    MaxFaults = 2
SYMMETRY MCSymmetry
INVARIANTS
    TypeOK
    SingleOwner
    LineageFilesExist
    PassIsEarned
PROPERTY ImplementsLedger
