SPECIFICATION FairSpec
CONSTANTS
    c1 = c1
    c2 = c2
    Calls <- TwoCalls
    Operations <- ClientKinds
    CallerRules <- AllRules
INVARIANTS
    NoFault
PROPERTY EveryCallEnds
