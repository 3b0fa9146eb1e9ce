SPECIFICATION DecodeSpec
CONSTANTS
    r1 = r1
    r2 = r2
    k1 = k1
    k2 = k2
    cut = cut
    Rests = {r1, r2}
    BlankRest = r1
    Nonces = {1}
    Keys = {k1, k2}
    Attributes = {0, 1}
    BlankAttribute = 0
    Cut = cut
    DecoderRules <- AllRules
INVARIANTS
    DecodeTypeOK
    BufferIsObject
    NonceCurrent
    CheckedIsWhole
