------------------------------ MODULE Conversions ------------------------------
(***************************************************************************)
(* Common.h and ErrorConverter.h: the structures of the node program       *)
(* (groups, gateways, ledger configurations, errors) as the tars           *)
(* structures that are sent, and back.                                     *)
(*                                                                         *)
(* The two sides differ in shape.  A group's nodes are a map from names,   *)
(* sent as a list without the names they are kept under; a gateway's node  *)
(* IDs are a map from groups to sets, sent as a list of groups with lists; *)
(* weights are unsigned, sent as signed; a hash is sent as bytes, which    *)
(* may be too few when they come back; a null pointer is sent as a default *)
(* structure, and an error with code 0 is none.  Fields copied as they are *)
(* are taken together.                                                     *)
(*                                                                         *)
(* An optional value, and a pointer that may be null, is <<>> or <<v>>.    *)
(***************************************************************************)
EXTENDS Integers, Sequences, FiniteSets

CONSTANTS
    Names,     \* names of nodes
    NodeData,  \* the other fields of a node, taken together
    GroupIDs, Genesis,  \* IDs of groups; a group's chain and configuration, taken together
    NodeIDs, Peers,     \* IDs of nodes; p2p information of a gateway
    Hashes, Numbers,    \* hashes; the four numbers of a ledger configuration, taken together
    Half,      \* 2^63: weights are 0 .. 2^64 - 1
    Messages,  \* error messages
    BlankName, BlankData, BlankID, BlankGenesis, BlankPeer, ZeroHash, BlankMessage
               \* what the fields of default structures are

ASSUME BlanksAssumption ==
    /\ BlankName \in Names /\ BlankData \in NodeData
    /\ BlankID \in GroupIDs /\ BlankGenesis \in Genesis
    /\ BlankPeer \in Peers /\ ZeroHash \in Hashes /\ BlankMessage \in Messages
ASSUME HalfAssumption == Half \in Nat \ {0}

Optional(S) == {<<>>} \cup [1 .. 1 -> S]

Elements(list) == {list[i] : i \in DOMAIN list}

\* The elements of a set one after the other, as a loop over a std::map or std::set
\* meets them; which order that is is of no account here.
Listing(S) ==
    CHOOSE list \in [1 .. Cardinality(S) -> S] : Elements(list) = S

-----------------------------------------------------------------------------
(* Groups *)

Nodes == [nodeName : Names, data : NodeData]

\* GroupInfo: nodeInfos() maps names to ChainNodeInfo pointers.
Groups == [groupID : GroupIDs, genesis : Genesis,
           nodeInfos : UNION {[keys -> Optional(Nodes)] : keys \in SUBSET Names}]

TarsGroups == [groupID : GroupIDs, genesis : Genesis, nodeList : Seq(Nodes)]

toTarsChainNodeInfo(node) ==
    IF node = <<>> THEN [nodeName |-> BlankName, data |-> BlankData] ELSE node[1]

toTarsGroupInfo(group) ==
    IF group = <<>>
    THEN [groupID |-> BlankID, genesis |-> BlankGenesis, nodeList |-> <<>>]
    ELSE LET infos == group[1].nodeInfos
             keys == Listing(DOMAIN infos)
         IN [groupID |-> group[1].groupID, genesis |-> group[1].genesis,
             nodeList |-> [i \in 1 .. Cardinality(DOMAIN infos) |->
                              toTarsChainNodeInfo(infos[keys[i]])]]

\* appendNodeInfo() keeps one node of each name.
toBcosGroupInfo(tars) ==
    <<[groupID |-> tars.groupID, genesis |-> tars.genesis,
       nodeInfos |-> [name \in {node.nodeName : node \in Elements(tars.nodeList)} |->
                        <<CHOOSE node \in Elements(tars.nodeList) : node.nodeName = name>>]]>>

-----------------------------------------------------------------------------
(* Gateways *)

Gateways == [p2pInfo : Peers,
             nodeIDInfo : UNION {[ids -> SUBSET NodeIDs] : ids \in SUBSET GroupIDs}]

TarsGateways == [p2pInfo : Peers,
                 nodeIDInfo : Seq([groupID : GroupIDs, nodeIDList : Seq(NodeIDs)])]

toTarsNodeIDInfo(id, ids) == [groupID |-> id, nodeIDList |-> Listing(ids)]

toTarsGatewayInfo(gateway) ==
    IF gateway = <<>>
    THEN [p2pInfo |-> BlankPeer, nodeIDInfo |-> <<>>]
    ELSE LET infos == gateway[1].nodeIDInfo
             keys == Listing(DOMAIN infos)
         IN [p2pInfo |-> gateway[1].p2pInfo,
             nodeIDInfo |-> [i \in 1 .. Cardinality(DOMAIN infos) |->
                                toTarsNodeIDInfo(keys[i], infos[keys[i]])]]

\* The entry of a group: the last of them.
EntryOf(list, id) ==
    CHOOSE i \in DOMAIN list :
        /\ list[i].groupID = id
        /\ \A j \in DOMAIN list : list[j].groupID = id => j <= i

fromTarsGatewayInfo(tars) ==
    LET list == tars.nodeIDInfo
    IN <<[p2pInfo |-> tars.p2pInfo,
          nodeIDInfo |-> [id \in {entry.groupID : entry \in Elements(list)} |->
                             Elements(list[EntryOf(list, id)].nodeIDList)]]>>

-----------------------------------------------------------------------------
(* Ledger configurations *)

Weights == 0 .. 2 * Half - 1

ConsensusNodes == Seq([nodeID : NodeIDs, weight : Weights])

Ledgers == [consensusNodeList : ConsensusNodes, observerNodeList : ConsensusNodes,
            hash : Hashes, numbers : Numbers]

TarsConsensusNodes == Seq([nodeID : NodeIDs, weight : -Half .. Half - 1])

\* A hash of fewer bytes than a hash has is <<>>.
TarsLedgers == [consensusNodeList : TarsConsensusNodes, observerNodeList : TarsConsensusNodes,
                hash : Optional(Hashes), numbers : Numbers]

\* Faulty: the field takes the number as it is.
ToSignedUncast(w) == w

ToSigned(w) == IF w < Half THEN w ELSE w - 2 * Half
ToUnsigned(n) == IF n < 0 THEN n + 2 * Half ELSE n

toTarsConsensusNodeList(list) ==
    [i \in 1 .. Len(list) |->
        [nodeID |-> list[i].nodeID, weight |-> ToSigned(list[i].weight)]]

toConsensusNodeList(list) ==
    [i \in 1 .. Len(list) |->
        [nodeID |-> list[i].nodeID, weight |-> ToUnsigned(list[i].weight)]]

\* Faulty: the one list for both.
toTarsLedgerConfigTwice(ledger) ==
    [consensusNodeList |-> toTarsConsensusNodeList(ledger.consensusNodeList),
     observerNodeList |-> toTarsConsensusNodeList(ledger.consensusNodeList),
     hash |-> <<ledger.hash>>, numbers |-> ledger.numbers]

toTarsLedgerConfig(ledger) ==
    [consensusNodeList |-> toTarsConsensusNodeList(ledger.consensusNodeList),
     observerNodeList |-> toTarsConsensusNodeList(ledger.observerNodeList),
     hash |-> <<ledger.hash>>, numbers |-> ledger.numbers]

toLedgerConfig(tars) ==
    [consensusNodeList |-> toConsensusNodeList(tars.consensusNodeList),
     observerNodeList |-> toConsensusNodeList(tars.observerNodeList),
     hash |-> IF tars.hash = <<>> THEN ZeroHash ELSE tars.hash[1],
     numbers |-> tars.numbers]

-----------------------------------------------------------------------------
(* Errors *)

Errors == [code : Int, message : Messages]

\* errorCode of a default tars error is 0.
toTarsError(error) ==
    IF error = <<>> THEN [code |-> 0, message |-> BlankMessage] ELSE error[1]

toBcosError(tars) == IF tars.code = 0 THEN <<>> ELSE <<tars>>
=============================================================================
