SPECIFICATION Spec
CONSTANTS
    Bits = 5
    Ten = 4
    Day = 8
    OuterBlock = 2
    MaxTextSize = 3
    Scripts <- MCScripts
INVARIANTS RowsKept AnswerRight NumbersRight LogicRight TextRight
