SPECIFICATION Spec
CONSTANTS
    w1 = w1
    w2 = w2
    r1 = r1
    none = none
    gone = gone
    a = a
    b = b
    Wrappers <- MCWrappers
    Results = {r1}
    MaxReceipts = 1
    NoCell = none
    Gone = gone
    Logs <- MCLogs
    Fields = {0}
    DefaultFields = 0
    CallerRules <- AllRules
SYMMETRY Perms
INVARIANTS
    TypeOK
    HashOfReceipt
    LogEntriesCurrent
    NothingDangles
