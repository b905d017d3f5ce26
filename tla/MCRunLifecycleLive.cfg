SPECIFICATION OperatedSpec
CONSTANTS
    Proc = {p1, p2}
    None = None
    Job <- MCJob
    Name <- MCName
    Path <- MCPath
    File <- MCFile
    Invocation <- Operated
    FileOf <- MCFileOf
    Strict <- MCStrict
    SummaryBalanced <- MCJob
    GroupsBalanced <- MCGroupsBalanced
    MaxFaults = 2
PROPERTIES
    Terminates
    ReportedOrOrphaned
