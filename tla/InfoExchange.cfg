SPECIFICATION Spec
CONSTANTS
    Names = {"n1", "n2"}
    NodeData = {"data", "blank"}
    GroupIDs = {"g1", "g2"}
    Genesis = {"genesis"}
    NodeIDs = {"i1", "i2"}
    Peers = {"peer"}
    Hashes = {"hash", "zero"}
    Numbers = {"numbers"}
    Half = 2
    Messages = {"failed", "none"}
    BlankName = "n1"
    BlankData = "blank"
    BlankID = "g1"
    BlankGenesis = "genesis"
    BlankPeer = "peer"
    ZeroHash = "zero"
    BlankMessage = "none"
    Services = {1, 2}
    Made <- MCMade
    Foreign <- MCForeign
    CallerRules <- AllRules
INVARIANTS
    TypeOK
    MeaningKept
