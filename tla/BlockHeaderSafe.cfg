SPECIFICATION Spec
CONSTANTS
    w1 = w1
    w2 = w2
    block = block
    none = none
    p1 = p1
    p2 = p2
    s1 = s1
    s2 = s2
    Wrappers <- MCWrappers
    Block = block
    NoCell = none
    Parents = {p1, p2}
    Fields = {0, 1}
    DefaultFields = 0
    Sealers = {s1}
    MaxSignatures = 1
    CallerRules <- AllRules
SYMMETRY Perms
INVARIANTS
    TypeOK
    HashOfHeader
    ParentInfoCurrent
