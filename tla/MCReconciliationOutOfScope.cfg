SPECIFICATION Spec
CONSTANTS
    MaxInt = 100
    Overflow = Overflow
    NoAmount = NoAmount
    SelectedID = "A"
    LabelOf <- MCLabelOf
    TransferLabels <- MCTransferLabels
    FieldOrder <- MCFieldOrder
    Literals <- MCLiterals
    Reserved <- MCReserved
    Target <- MCTarget
    Sections <- MCSections
    Inputs <- FewInputs
INVARIANT
    StrictPassVerifies
CHECK_DEADLOCK FALSE
