SPECIFICATION Spec
CONSTANTS
    c1 = c1
    c2 = c2
    Calls <- TwoCalls
    Operations <- ClientKinds
    CallerRules <- NoRules
SYMMETRY Perms
INVARIANTS
    TypeOK
PROPERTY AtMostOnce
