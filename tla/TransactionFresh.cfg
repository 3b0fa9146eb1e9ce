SPECIFICATION Spec
CONSTANTS
    h1 = h1
    h2 = h2
    d1 = d1
    d2 = d2
    k1 = k1
    k2 = k2
    Handles <- MCHandles
    Payloads <- MCPayloads
    DefaultPayload = d1
    Attributes = {0}
    DefaultAttribute = 0
    Keys = {k1, k2}
    MaxTxs = 1
    CallerRules <- FreshAndSignOnce
SYMMETRY Perms
INVARIANTS
    TypeOK
    HashOfData
    HashFieldsCurrent
    SignatureOverData
    SenderIsSigner
