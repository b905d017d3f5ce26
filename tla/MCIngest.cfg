CONSTANTS
    MaxInt = 127
    Overflow = Overflow
    Files <- MCFiles
    Replacements <- MCReplacements
    Bad = Bad
    Empty = Empty
    Columns <- MCColumns
    MaxBytes = 18
    MaxRecord = 5
    MaxRows = 3
    MaxPreamble = 1
    MaxReplaced = 1

SPECIFICATION Spec

INVARIANTS
    RowsOfHashedFile
    AcceptedExactly
    SpansTile
    ContractHolds
    KeyDatesFollowTime
