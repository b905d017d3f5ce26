SPECIFICATION Spec
CONSTANTS
    MaxInt = 100
    Overflow = Overflow
    NoAmount = NoAmount
    SelectedID = "A"
    LabelOf <- MCLabelOf
    TransferLabels <- MCTransferLabels
    FieldOrder <- MCFieldOrder
    Literals <- MCLiterals
    Reserved <- MCReserved
    Target <- MCTarget
    Sections <- MCSections
    Inputs <- MCInputs
INVARIANTS
    TypeOK
    StrictRunVerifies
    AccountsForHeader
    SummaryRecomputes
    GroupsPartition
    StrictIgnoresRuleOrder
    MostSpecificRule
CHECK_DEADLOCK FALSE
