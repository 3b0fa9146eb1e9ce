SPECIFICATION Spec
CONSTANTS
    t1 = t1
    t2 = t2
    t3 = t3
    w1 = w1
    w2 = w2
    Threads <- MCThreads
    Wrappers <- MCWrappers
    Kinds <- AllKinds
    CallerRules <- AllRules
SYMMETRY Perms
INVARIANTS
    TypeOK
    NoRace
