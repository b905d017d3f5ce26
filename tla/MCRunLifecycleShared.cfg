SPECIFICATION Spec
CONSTANTS
    Proc = {p1, p2}
    None = None
    Job <- MCJob
    Name <- MCName
    Path <- MCPath
    File <- MCFile
    Invocation <- SharedPath
    FileOf <- MCFileOf
    Strict <- MCStrict
    SummaryBalanced <- MCJob
    GroupsBalanced <- MCGroupsBalanced
    MaxFaults = 0
INVARIANT ReportIsOwn
