SPECIFICATION FairSpec
CONSTANTS
    Proc = {p1, p2, p3}
    Absent = Absent
    Null = Null
    NoProc = NoProc
    Digest <- MCDigest
    Checkout <- MCCheckout
    MaxVersion = 3
    MaxFaults = 2
INVARIANTS
    TypeOK
    ExactlyOnce
    NoDuplicateApply
    AppliedInOrder
    NilMeansCurrent
PROPERTY EveryMigrateReturns
