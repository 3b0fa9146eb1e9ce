SPECIFICATION Spec
CONSTANTS
    r1 = r1
    r2 = r2
    Receipts = {r1, r2}
    Blank = blank
    Numbers = {0, 1}
    Unreadable = unreadable
    MaxItems = 2
    CallerRules <- AllRules
INVARIANTS
    TypeOK
    NoncesCurrent
    InBounds
PROPERTY ReceiptsKept
