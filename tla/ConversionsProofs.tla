--------------------------- MODULE ConversionsProofs ---------------------------
(* Proofs about Conversions and InfoExchange, for any names, IDs, weights and   *)
(* lists: every conversion is undone by the one back, and so it is along any    *)
(* chain of services.                                                           *)
EXTENDS InfoExchange, FiniteSetTheorems, WellFoundedInduction, TLAPS

-----------------------------------------------------------------------------
(* Lemmas about optional values and listings. *)

LEMMA OptionalIntro ==
    ASSUME NEW S, NEW v \in S
    PROVE  <<v>> \in Optional(S) /\ <<v>> # <<>> /\ <<v>>[1] = v
BY DEF Optional

LEMMA OptionalElement ==
    ASSUME NEW S, NEW o \in Optional(S), o # <<>>
    PROVE  o[1] \in S /\ o = <<o[1]>>
<1>1. o \in [1 .. 1 -> S]
  BY DEF Optional
<1>2. o = [i \in 1 .. 1 |-> o[i]] /\ o[1] \in S
  BY <1>1
<1>3. <<o[1]>> = [i \in 1 .. 1 |-> o[i]]
  <2>1. <<o[1]>> \in [1 .. 1 -> S]
    BY <1>2
  <2> QED BY <2>1
<1> QED BY <1>2, <1>3

\* The loop over a std::map or std::set meets every element.
LEMMA ListingElements ==
    ASSUME NEW S, IsFiniteSet(S)
    PROVE  /\ Cardinality(S) \in Nat
           /\ Listing(S) \in [1 .. Cardinality(S) -> S]
           /\ Elements(Listing(S)) = S
<1>1. Cardinality(S) \in Nat /\ ExistsBijection(1 .. Cardinality(S), S)
  BY FS_CardinalityType
<1>2. PICK f \in Bijection(1 .. Cardinality(S), S) : TRUE
  BY <1>1 DEF ExistsBijection
<1>3. f \in [1 .. Cardinality(S) -> S] /\ \A x \in S : \E i \in 1 .. Cardinality(S) : f[i] = x
  BY <1>2 DEF Bijection, Surjection, Injection
<1>4. Elements(f) = S
  BY <1>3 DEF Elements
<1>5. \E list \in [1 .. Cardinality(S) -> S] : Elements(list) = S
  BY <1>3, <1>4
<1> QED BY <1>1, <1>5 DEF Listing

-----------------------------------------------------------------------------
(* Groups *)

LEMMA GroupToTars ==
    ASSUME NEW group \in Optional(Groups)
    PROVE  toTarsGroupInfo(group) \in TarsGroups
<1>1. CASE group = <<>>
  BY <1>1, BlanksAssumption DEF toTarsGroupInfo, TarsGroups
<1>2. CASE group # <<>>
  <2> DEFINE g == group[1]
             infos == g.nodeInfos
             keys == Listing(DOMAIN infos)
             n == Cardinality(DOMAIN infos)
             list == [i \in 1 .. n |-> toTarsChainNodeInfo(infos[keys[i]])]
  <2>1. g \in Groups
    BY <1>2, OptionalElement
  <2>2. DOMAIN infos \in SUBSET Names /\ infos \in [DOMAIN infos -> Optional(Nodes)]
    BY <2>1 DEF Groups
  <2>3. IsFiniteSet(DOMAIN infos)
    BY <2>2, FiniteAssumption, FS_Subset
  <2>4. n \in Nat /\ keys \in [1 .. n -> DOMAIN infos]
    BY <2>3, ListingElements
  <2>5. \A node \in Optional(Nodes) : toTarsChainNodeInfo(node) \in Nodes
    BY BlanksAssumption, OptionalElement DEF toTarsChainNodeInfo, Nodes
  <2> HIDE DEF n, keys, infos
  <2>6. list \in [1 .. n -> Nodes]
    BY <2>2, <2>4, <2>5
  <2>7. list \in Seq(Nodes)
    BY <2>4, <2>6
  <2> HIDE DEF list
  <2>8. toTarsGroupInfo(group) =
          [groupID |-> g.groupID, genesis |-> g.genesis, nodeList |-> list]
    BY <1>2 DEF toTarsGroupInfo, list, infos, keys, n
  <2> HIDE DEF g
  <2> QED BY <2>1, <2>7, <2>8 DEF TarsGroups, Groups
<1> QED BY <1>1, <1>2

LEMMA GroupToBcos ==
    ASSUME NEW tars \in TarsGroups
    PROVE  toBcosGroupInfo(tars) \in Optional(Groups)
<1> DEFINE nodes == Elements(tars.nodeList)
           keys == {node.nodeName : node \in nodes}
           infos == [name \in keys |-> <<CHOOSE node \in nodes : node.nodeName = name>>]
<1>1. nodes \subseteq Nodes
  BY DEF TarsGroups, Elements
<1>2. keys \in SUBSET Names
  BY <1>1 DEF Nodes
<1>3. ASSUME NEW name \in keys
      PROVE  infos[name] \in Optional(Nodes)
  <2>1. \E node \in nodes : node.nodeName = name
    OBVIOUS
  <2>2. (CHOOSE node \in nodes : node.nodeName = name) \in Nodes
    BY <1>1, <2>1
  <2> QED BY <2>2, OptionalIntro
<1>4. infos \in [keys -> Optional(Nodes)]
  BY <1>3
<1> HIDE DEF infos, keys
<1>5. [groupID |-> tars.groupID, genesis |-> tars.genesis, nodeInfos |-> infos] \in Groups
  BY <1>2, <1>4 DEF Groups, TarsGroups
<1> QED BY <1>5, OptionalIntro DEF toBcosGroupInfo, infos, keys

\* toBcosGroupInfo() undoes toTarsGroupInfo() when every node is there and kept
\* under its own name.
LEMMA GroupRoundTrip ==
    ASSUME NEW group \in Optional(Groups), group # <<>>,
           \A name \in DOMAIN group[1].nodeInfos :
              /\ group[1].nodeInfos[name] # <<>>
              /\ group[1].nodeInfos[name][1].nodeName = name
    PROVE  toBcosGroupInfo(toTarsGroupInfo(group)) = group
<1> DEFINE g == group[1]
           infos == g.nodeInfos
           keys == Listing(DOMAIN infos)
           n == Cardinality(DOMAIN infos)
           list == [i \in 1 .. n |-> toTarsChainNodeInfo(infos[keys[i]])]
           nodes == Elements(list)
<1>1. g \in Groups /\ group = <<g>>
  BY OptionalElement
<1>2. DOMAIN infos \in SUBSET Names /\ infos \in [DOMAIN infos -> Optional(Nodes)]
  BY <1>1 DEF Groups
<1>3. IsFiniteSet(DOMAIN infos)
  BY <1>2, FiniteAssumption, FS_Subset
<1>4. n \in Nat /\ keys \in [1 .. n -> DOMAIN infos] /\ Elements(keys) = DOMAIN infos
  BY <1>3, ListingElements
<1>5. \A name \in DOMAIN infos :
         infos[name] # <<>> /\ infos[name][1].nodeName = name /\ infos[name] = <<infos[name][1]>>
  BY <1>2, OptionalElement
<1> HIDE DEF n, keys, infos, g
<1>6. nodes = {infos[name][1] : name \in DOMAIN infos}
  <2>1. \A i \in 1 .. n : list[i] = infos[keys[i]][1]
    BY <1>4, <1>5 DEF toTarsChainNodeInfo
  <2>2. nodes = {list[i] : i \in 1 .. n}
    BY DEF Elements
  <2>3. {keys[i] : i \in 1 .. n} = DOMAIN infos
    BY <1>4 DEF Elements
  <2> HIDE DEF list, nodes
  <2> QED BY <2>1, <2>2, <2>3
<1> HIDE DEF nodes, list
<1>7. {node.nodeName : node \in nodes} = DOMAIN infos
  <2>1. \A node \in nodes : node.nodeName \in DOMAIN infos
    BY <1>5, <1>6
  <2>2. ASSUME NEW name \in DOMAIN infos
        PROVE  \E node \in nodes : node.nodeName = name
    <3>1. infos[name][1] \in nodes /\ infos[name][1].nodeName = name
      BY <1>5, <1>6
    <3> QED BY <3>1
  <2> DEFINE names == {node.nodeName : node \in nodes}
  <2>3. names \subseteq DOMAIN infos
    BY <2>1
  <2>4. \A name \in DOMAIN infos : name \in names
    BY <2>2
  <2> HIDE DEF names
  <2>5. names = DOMAIN infos
    BY <2>3, <2>4
  <2> QED BY <2>5 DEF names
<1>8. ASSUME NEW name \in DOMAIN infos
      PROVE  <<CHOOSE node \in nodes : node.nodeName = name>> = infos[name]
  <2>1. infos[name][1] \in nodes /\ infos[name][1].nodeName = name
    BY <1>5, <1>6
  <2>2. \A node \in nodes : node.nodeName = name => node = infos[name][1]
    BY <1>5, <1>6
  <2>3. (CHOOSE node \in nodes : node.nodeName = name) = infos[name][1]
    BY <2>1, <2>2
  <2> QED BY <1>5, <2>3
<1> DEFINE back == [name \in {node.nodeName : node \in nodes} |->
                       <<CHOOSE node \in nodes : node.nodeName = name>>]
<1>9. back = infos
  <2>1. back = [name \in DOMAIN infos |-> <<CHOOSE node \in nodes : node.nodeName = name>>]
    BY <1>7
  <2>2. [name \in DOMAIN infos |-> <<CHOOSE node \in nodes : node.nodeName = name>>]
          = [name \in DOMAIN infos |-> infos[name]]
    BY <1>8
  <2>3. infos = [name \in DOMAIN infos |-> infos[name]]
    BY <1>2
  <2> QED BY <2>1, <2>2, <2>3
<1> HIDE DEF back
<1>10. toTarsGroupInfo(group) =
         [groupID |-> g.groupID, genesis |-> g.genesis, nodeList |-> list]
  BY DEF toTarsGroupInfo, g, infos, keys, n, list
<1>11. toBcosGroupInfo(toTarsGroupInfo(group)) =
         <<[groupID |-> g.groupID, genesis |-> g.genesis, nodeInfos |-> back]>>
  BY <1>10 DEF toBcosGroupInfo, nodes, back
<1>12. g = [groupID |-> g.groupID, genesis |-> g.genesis, nodeInfos |-> infos]
  BY <1>1 DEF Groups, infos
<1> QED BY <1>1, <1>9, <1>11, <1>12
-----------------------------------------------------------------------------
(* Gateways *)

LEMMA GatewayToTars ==
    ASSUME NEW gateway \in Optional(Gateways)
    PROVE  toTarsGatewayInfo(gateway) \in TarsGateways
<1>1. CASE gateway = <<>>
  BY <1>1, BlanksAssumption DEF toTarsGatewayInfo, TarsGateways
<1>2. CASE gateway # <<>>
  <2> DEFINE g == gateway[1]
             infos == g.nodeIDInfo
             keys == Listing(DOMAIN infos)
             n == Cardinality(DOMAIN infos)
             list == [i \in 1 .. n |-> toTarsNodeIDInfo(keys[i], infos[keys[i]])]
             Entries == [groupID : GroupIDs, nodeIDList : Seq(NodeIDs)]
  <2>1. g \in Gateways
    BY <1>2, OptionalElement
  <2>2. DOMAIN infos \in SUBSET GroupIDs /\ infos \in [DOMAIN infos -> SUBSET NodeIDs]
    BY <2>1 DEF Gateways
  <2>3. IsFiniteSet(DOMAIN infos)
    BY <2>2, FiniteAssumption, FS_Subset
  <2>4. n \in Nat /\ keys \in [1 .. n -> DOMAIN infos]
    BY <2>3, ListingElements
  <2>5. ASSUME NEW id \in GroupIDs, NEW ids \in SUBSET NodeIDs
        PROVE  toTarsNodeIDInfo(id, ids) \in Entries
    <3>1. IsFiniteSet(ids)
      BY FiniteAssumption, FS_Subset
    <3>2. Cardinality(ids) \in Nat /\ Listing(ids) \in [1 .. Cardinality(ids) -> ids]
      BY <3>1, ListingElements
    <3>3. Listing(ids) \in [1 .. Cardinality(ids) -> NodeIDs]
      BY <3>2
    <3>4. Listing(ids) \in Seq(NodeIDs)
      BY <3>2, <3>3
    <3> QED BY <3>4 DEF toTarsNodeIDInfo
  <2> HIDE DEF n, keys, infos, Entries
  <2>6. list \in [1 .. n -> Entries]
    BY <2>2, <2>4, <2>5
  <2>7. list \in Seq(Entries)
    BY <2>4, <2>6
  <2> HIDE DEF list
  <2>8. toTarsGatewayInfo(gateway) = [p2pInfo |-> g.p2pInfo, nodeIDInfo |-> list]
    BY <1>2 DEF toTarsGatewayInfo, list, infos, keys, n
  <2>9. g.p2pInfo \in Peers
    BY <2>1 DEF Gateways
  <2> HIDE DEF g
  <2> QED BY <2>7, <2>8, <2>9 DEF TarsGateways, Entries
<1> QED BY <1>1, <1>2

\* The set of the indices at which a list has something has a greatest one.
LEMMA LastOne ==
    ASSUME NEW n \in Nat, NEW S \in SUBSET (1 .. n), S # {}
    PROVE  \E i \in S : \A j \in S : j <= i
<1> DEFINE T == {n - i : i \in S}
           R == {ss \in Nat \X Nat : ss[1] < ss[2]}
<1>1. IsWellFoundedOn(R, Nat)
  BY NatLessThanWellFounded DEF OpToRel
<1>2. T \subseteq Nat /\ T # {}
  <2>1. \A i \in S : n - i \in Nat
    OBVIOUS
  <2>2. PICK i \in S : TRUE
    OBVIOUS
  <2>3. n - i \in T
    OBVIOUS
  <2> QED BY <2>1, <2>3
<1> HIDE DEF T
<1>3. \E x \in T : \A y \in T : ~ (<<y, x>> \in R)
  <2> HIDE DEF R
  <2> QED BY <1>1, <1>2, WFMin
<1>4. PICK x \in T : \A y \in T : ~ (<<y, x>> \in R)
  BY <1>3
<1>5. \A y \in T : ~ (y < x)
  BY <1>2, <1>4
<1>6. PICK i \in S : x = n - i
  BY DEF T
<1>7. ASSUME NEW j \in S
      PROVE  j <= i
  <2>1. n - j \in T
    BY DEF T
  <2> QED BY <1>5, <1>6, <2>1
<1> QED BY <1>7

LEMMA EntryOfGroup ==
    ASSUME NEW E, NEW list \in Seq(E), NEW id, \E i \in DOMAIN list : list[i].groupID = id
    PROVE  EntryOf(list, id) \in DOMAIN list /\ list[EntryOf(list, id)].groupID = id
<1> DEFINE S == {i \in DOMAIN list : list[i].groupID = id}
<1>1. DOMAIN list = 1 .. Len(list) /\ Len(list) \in Nat
  OBVIOUS
<1>2. S # {} /\ S \in SUBSET (1 .. Len(list))
  BY <1>1
<1> HIDE DEF S
<1>3. \E i \in S : \A j \in S : j <= i
  BY <1>1, <1>2, LastOne
<1>4. \E i \in DOMAIN list : /\ list[i].groupID = id
                             /\ \A j \in DOMAIN list : list[j].groupID = id => j <= i
  BY <1>3 DEF S
<1> QED BY <1>4 DEF EntryOf

LEMMA GatewayFromTars ==
    ASSUME NEW tars \in TarsGateways
    PROVE  fromTarsGatewayInfo(tars) \in Optional(Gateways)
<1> DEFINE Entries == [groupID : GroupIDs, nodeIDList : Seq(NodeIDs)]
           list == tars.nodeIDInfo
           ids == {entry.groupID : entry \in Elements(list)}
           infos == [id \in ids |-> Elements(list[EntryOf(list, id)].nodeIDList)]
<1>1. list \in Seq(Entries) /\ tars.p2pInfo \in Peers
  BY DEF TarsGateways
<1> HIDE DEF list
<1>2. Elements(list) \subseteq Entries
  <2> HIDE DEF Entries
  <2>1. \A i \in DOMAIN list : list[i] \in Entries
    BY <1>1
  <2> QED BY <2>1 DEF Elements
<1>3. ids \subseteq GroupIDs
  BY <1>2
<1>4. ASSUME NEW id \in ids
      PROVE  Elements(list[EntryOf(list, id)].nodeIDList) \subseteq NodeIDs
  <2>1. \E i \in DOMAIN list : list[i].groupID = id
    BY DEF Elements
  <2>2. EntryOf(list, id) \in DOMAIN list
    <3> HIDE DEF Entries
    <3> QED BY <1>1, <2>1, EntryOfGroup
  <2>3. list[EntryOf(list, id)] \in Entries
    <3> HIDE DEF Entries
    <3> QED BY <1>1, <2>2
  <2>4. list[EntryOf(list, id)].nodeIDList \in Seq(NodeIDs)
    BY <2>3
  <2> QED BY <2>4 DEF Elements
<1> HIDE DEF ids
<1>5. infos \in [ids -> SUBSET NodeIDs]
  BY <1>4
<1> HIDE DEF infos
<1>6. [p2pInfo |-> tars.p2pInfo, nodeIDInfo |-> infos] \in Gateways
  BY <1>1, <1>3, <1>5 DEF Gateways
<1> QED BY <1>6, OptionalIntro DEF fromTarsGatewayInfo, infos, ids, list

\* When a list names each group once, the last entry of a group is its only one.
LEMMA OnlyEntry ==
    ASSUME NEW list, NEW k \in DOMAIN list,
           \A i, j \in DOMAIN list : list[i].groupID = list[j].groupID => i = j,
           DOMAIN list \subseteq Int
    PROVE  EntryOf(list, list[k].groupID) = k
<1> DEFINE id == list[k].groupID
           Last(i) == /\ list[i].groupID = id
                      /\ \A j \in DOMAIN list : list[j].groupID = id => j <= i
<1>1. Last(k)
  OBVIOUS
<1>2. \A i \in DOMAIN list : Last(i) => i = k
  OBVIOUS
<1> HIDE DEF Last
<1>3. (CHOOSE i \in DOMAIN list : Last(i)) = k
  BY <1>1, <1>2
<1> QED BY <1>3 DEF EntryOf, Last

\* What elsewhere is made of groups named once comes to what it says.
LEMMA ForeignGateway ==
    ASSUME NEW tars \in TarsGateways, Grouped(tars)
    PROVE  <<[p2pInfo |-> tars.p2pInfo,
              nodeIDInfo |-> [id \in {entry.groupID : entry \in Elements(tars.nodeIDInfo)} |->
                 UNION {Elements(entry.nodeIDList) :
                        entry \in {e \in Elements(tars.nodeIDInfo) : e.groupID = id}}]]>>
           = fromTarsGatewayInfo(tars)
<1> DEFINE list == tars.nodeIDInfo
           entries == Elements(list)
           Union(id) == UNION {Elements(entry.nodeIDList) : entry \in {e \in entries : e.groupID = id}}
<1>1. DOMAIN list \subseteq Int /\ \A i, j \in DOMAIN list : list[i].groupID = list[j].groupID => i = j
  BY DEF Grouped, TarsGateways
<1> HIDE DEF list
<1>2. ASSUME NEW id \in {entry.groupID : entry \in entries}
      PROVE  Union(id) = Elements(list[EntryOf(list, id)].nodeIDList)
  <2>1. PICK k \in DOMAIN list : list[k].groupID = id
    BY DEF Elements
  <2>2. EntryOf(list, id) = k
    BY <1>1, <2>1, OnlyEntry
  <2>3. {e \in entries : e.groupID = id} = {list[k]}
    BY <1>1, <2>1 DEF Elements
  <2> HIDE DEF entries
  <2> QED BY <2>2, <2>3
<1> HIDE DEF entries, Union
<1>3. [id \in {entry.groupID : entry \in entries} |-> Union(id)]
        = [id \in {entry.groupID : entry \in entries} |->
             Elements(list[EntryOf(list, id)].nodeIDList)]
  BY <1>2
<1> QED BY <1>3 DEF fromTarsGatewayInfo, list, entries, Union

\* fromTarsGatewayInfo() undoes toTarsGatewayInfo().
LEMMA GatewayRoundTrip ==
    ASSUME NEW gateway \in Optional(Gateways), gateway # <<>>
    PROVE  fromTarsGatewayInfo(toTarsGatewayInfo(gateway)) = gateway
<1> DEFINE g == gateway[1]
           infos == g.nodeIDInfo
           keys == Listing(DOMAIN infos)
           n == Cardinality(DOMAIN infos)
           list == [i \in 1 .. n |-> toTarsNodeIDInfo(keys[i], infos[keys[i]])]
           ids == {entry.groupID : entry \in Elements(list)}
           back == [id \in ids |-> Elements(list[EntryOf(list, id)].nodeIDList)]
<1>1. g \in Gateways /\ gateway = <<g>>
  BY OptionalElement
<1>2. DOMAIN infos \in SUBSET GroupIDs /\ infos \in [DOMAIN infos -> SUBSET NodeIDs]
  BY <1>1 DEF Gateways
<1>3. IsFiniteSet(DOMAIN infos)
  BY <1>2, FiniteAssumption, FS_Subset
<1>4. n \in Nat /\ keys \in [1 .. n -> DOMAIN infos] /\ Elements(keys) = DOMAIN infos
  BY <1>3, ListingElements
<1>5. g = [p2pInfo |-> g.p2pInfo, nodeIDInfo |-> infos]
  BY <1>1 DEF Gateways
<1>6. toTarsGatewayInfo(gateway) = [p2pInfo |-> g.p2pInfo, nodeIDInfo |-> list]
  BY DEF toTarsGatewayInfo
<1> HIDE DEF n, keys, infos, g
<1>7. /\ DOMAIN list = 1 .. n
      /\ \A i \in 1 .. n : /\ list[i].groupID = keys[i]
                           /\ list[i].nodeIDList = Listing(infos[keys[i]])
  BY DEF toTarsNodeIDInfo
<1> HIDE DEF list
<1>8. list \in Seq({list[i] : i \in 1 .. n})
  <2> DEFINE E == {list[i] : i \in 1 .. n}
  <2>1. list = [i \in 1 .. n |-> list[i]]
    BY DEF list
  <2>2. list \in [1 .. n -> E]
    BY <2>1
  <2> HIDE DEF E
  <2>3. list \in Seq(E)
    BY <1>4, <2>2
  <2> QED BY <2>3 DEF E
<1>9. ids = DOMAIN infos
  <2>1. \A id \in ids : id \in DOMAIN infos
    BY <1>4, <1>7 DEF Elements
  <2>2. ASSUME NEW id \in DOMAIN infos
        PROVE  id \in ids
    <3>1. PICK i \in 1 .. n : keys[i] = id
      BY <1>4 DEF Elements
    <3> QED BY <1>7, <3>1 DEF Elements
  <2> HIDE DEF ids
  <2> QED BY <2>1, <2>2
<1>10. ASSUME NEW id \in DOMAIN infos
       PROVE  Elements(list[EntryOf(list, id)].nodeIDList) = infos[id]
  <2> DEFINE k == EntryOf(list, id)
  <2>1. \E i \in DOMAIN list : list[i].groupID = id
    BY <1>4, <1>7 DEF Elements
  <2>2. k \in DOMAIN list /\ list[k].groupID = id
    BY <1>8, <2>1, EntryOfGroup
  <2> HIDE DEF k
  <2>3. list[k].nodeIDList = Listing(infos[id])
    BY <1>7, <2>2
  <2>4. IsFiniteSet(infos[id])
    BY <1>2, FiniteAssumption, FS_Subset
  <2>5. Elements(Listing(infos[id])) = infos[id]
    BY <2>4, ListingElements
  <2> QED BY <2>3, <2>5 DEF k
<1> HIDE DEF ids
<1>11. back = infos
  <2>1. back = [id \in DOMAIN infos |-> infos[id]]
    BY <1>9, <1>10
  <2>2. infos = [id \in DOMAIN infos |-> infos[id]]
    BY <1>2
  <2> QED BY <2>1, <2>2
<1>12. fromTarsGatewayInfo(toTarsGatewayInfo(gateway)) =
          <<[p2pInfo |-> g.p2pInfo, nodeIDInfo |-> back]>>
  BY <1>6 DEF fromTarsGatewayInfo, ids
<1> QED BY <1>1, <1>5, <1>11, <1>12

-----------------------------------------------------------------------------
(* Ledger configurations and errors *)

\* A weight fits the signed field, and comes back as it was.
LEMMA WeightRoundTrip ==
    /\ \A w \in Weights : ToSigned(w) \in -Half .. Half - 1 /\ ToUnsigned(ToSigned(w)) = w
    /\ \A n \in -Half .. Half - 1 : ToUnsigned(n) \in Weights
BY HalfAssumption DEF Weights, ToSigned, ToUnsigned

LEMMA NodeListToTars ==
    ASSUME NEW list \in ConsensusNodes
    PROVE  /\ toTarsConsensusNodeList(list) \in TarsConsensusNodes
           /\ toConsensusNodeList(toTarsConsensusNodeList(list)) = list
<1> DEFINE N == [nodeID : NodeIDs, weight : Weights]
           T == [nodeID : NodeIDs, weight : -Half .. Half - 1]
           out == toTarsConsensusNodeList(list)
<1>1. list \in Seq(N)
  BY DEF ConsensusNodes
<1>2. Len(list) \in Nat /\ \A i \in 1 .. Len(list) : list[i] \in N
  <2> HIDE DEF N
  <2> QED BY <1>1
<1>3. \A i \in 1 .. Len(list) :
         [nodeID |-> list[i].nodeID, weight |-> ToSigned(list[i].weight)] \in T
  BY <1>2, WeightRoundTrip
<1>4. out \in [1 .. Len(list) -> T]
  <2> HIDE DEF T
  <2> QED BY <1>3 DEF toTarsConsensusNodeList
<1>5. out \in Seq(T) /\ Len(out) = Len(list)
  <2> HIDE DEF T, out
  <2> QED BY <1>2, <1>4
<1>6. ASSUME NEW i \in 1 .. Len(list)
      PROVE  [nodeID |-> out[i].nodeID, weight |-> ToUnsigned(out[i].weight)] = list[i]
  <2>1. out[i] = [nodeID |-> list[i].nodeID, weight |-> ToSigned(list[i].weight)]
    BY DEF toTarsConsensusNodeList
  <2>2. list[i] \in N
    BY <1>2
  <2> QED BY <2>1, <2>2, WeightRoundTrip
<1>7. toConsensusNodeList(out) = [i \in 1 .. Len(list) |-> list[i]]
  <2> HIDE DEF out
  <2> QED BY <1>5, <1>6 DEF toConsensusNodeList
<1>8. list = [i \in 1 .. Len(list) |-> list[i]]
  <2> HIDE DEF N
  <2> QED BY <1>1
<1> QED BY <1>5, <1>7, <1>8 DEF TarsConsensusNodes

LEMMA NodeListFromTars ==
    ASSUME NEW list \in TarsConsensusNodes
    PROVE  toConsensusNodeList(list) \in ConsensusNodes
<1> DEFINE N == [nodeID : NodeIDs, weight : Weights]
           T == [nodeID : NodeIDs, weight : -Half .. Half - 1]
           out == toConsensusNodeList(list)
<1>1. Len(list) \in Nat /\ \A i \in 1 .. Len(list) : list[i] \in T
  <2>1. list \in Seq(T)
    BY DEF TarsConsensusNodes
  <2> HIDE DEF T
  <2> QED BY <2>1
<1>2. \A i \in 1 .. Len(list) :
         [nodeID |-> list[i].nodeID, weight |-> ToUnsigned(list[i].weight)] \in N
  BY <1>1, WeightRoundTrip
<1>3. out \in [1 .. Len(list) -> N]
  <2> HIDE DEF N
  <2> QED BY <1>2 DEF toConsensusNodeList
<1>4. out \in Seq(N)
  <2> HIDE DEF N, out
  <2> QED BY <1>1, <1>3
<1> QED BY <1>4 DEF ConsensusNodes

LEMMA LedgerRoundTrip ==
    ASSUME NEW ledger \in Ledgers
    PROVE  /\ toTarsLedgerConfig(ledger) \in TarsLedgers
           /\ toLedgerConfig(toTarsLedgerConfig(ledger)) = ledger
<1>1. ledger.consensusNodeList \in ConsensusNodes /\ ledger.observerNodeList \in ConsensusNodes
  BY DEF Ledgers
<1>2. <<ledger.hash>> \in Optional(Hashes) /\ <<ledger.hash>> # <<>> /\ <<ledger.hash>>[1] = ledger.hash
  BY OptionalIntro DEF Ledgers
<1>3. toTarsLedgerConfig(ledger) \in TarsLedgers
  BY <1>1, <1>2, NodeListToTars DEF toTarsLedgerConfig, TarsLedgers, Ledgers
<1>4. toLedgerConfig(toTarsLedgerConfig(ledger)) =
        [consensusNodeList |-> ledger.consensusNodeList,
         observerNodeList |-> ledger.observerNodeList,
         hash |-> ledger.hash, numbers |-> ledger.numbers]
  BY <1>1, <1>2, NodeListToTars DEF toTarsLedgerConfig, toLedgerConfig
<1> QED BY <1>3, <1>4 DEF Ledgers

LEMMA LedgerFromTars ==
    ASSUME NEW tars \in TarsLedgers
    PROVE  toLedgerConfig(tars) \in Ledgers
<1>1. tars.hash # <<>> => tars.hash[1] \in Hashes
  BY OptionalElement DEF TarsLedgers
<1> QED BY <1>1, NodeListFromTars, BlanksAssumption DEF toLedgerConfig, Ledgers, TarsLedgers

LEMMA ErrorRoundTrip ==
    ASSUME NEW error \in Optional(Errors)
    PROVE  /\ toTarsError(error) \in Errors
           /\ (error # <<>> => error[1].code # 0) => toBcosError(toTarsError(error)) = error
<1>1. CASE error = <<>>
  BY <1>1, BlanksAssumption DEF toTarsError, toBcosError, Errors
<1>2. CASE error # <<>>
  BY <1>2, OptionalElement DEF toTarsError, toBcosError
<1> QED BY <1>1, <1>2

LEMMA ErrorFromTars ==
    ASSUME NEW tars \in Errors
    PROVE  toBcosError(tars) \in Optional(Errors)
BY OptionalIntro DEF toBcosError, Optional

-----------------------------------------------------------------------------
(* Any information *)

\* What is announced is an information that can be sent.
LEMMA InfoToTars ==
    ASSUME NEW v \in Infos
    PROVE  ToTars(v) \in TarsInfos
<1>1. CASE v \in [kind : {"group"}, info : Optional(Groups)]
  BY <1>1, GroupToTars DEF ToTars, TarsInfos
<1>2. CASE v \in [kind : {"gateway"}, info : Optional(Gateways)]
  BY <1>2, GatewayToTars DEF ToTars, TarsInfos
<1>3. CASE v \in [kind : {"ledger"}, info : Ledgers]
  BY <1>3, LedgerRoundTrip DEF ToTars, TarsInfos
<1>4. CASE v \in [kind : {"error"}, info : Optional(Errors)]
  BY <1>4, ErrorRoundTrip DEF ToTars, TarsInfos
<1> QED BY <1>1, <1>2, <1>3, <1>4 DEF Infos

LEMMA InfoFromTars ==
    ASSUME NEW m \in TarsInfos
    PROVE  FromTars(m) \in Infos
<1>1. CASE m \in [kind : {"group"}, info : TarsGroups]
  BY <1>1, GroupToBcos DEF FromTars, Infos
<1>2. CASE m \in [kind : {"gateway"}, info : TarsGateways]
  BY <1>2, GatewayFromTars DEF FromTars, Infos
<1>3. CASE m \in [kind : {"ledger"}, info : TarsLedgers]
  BY <1>3, LedgerFromTars DEF FromTars, Infos
<1>4. CASE m \in [kind : {"error"}, info : Errors]
  BY <1>4, ErrorFromTars DEF FromTars, Infos
<1> QED BY <1>1, <1>2, <1>3, <1>4 DEF TarsInfos

\* The information the conversions keep.
Convertible(v) == Keyed(v) /\ Given(v) /\ Coded(v)

LEMMA InfoRoundTrip ==
    ASSUME NEW v \in Infos, Convertible(v)
    PROVE  FromTars(ToTars(v)) = v
<1>1. CASE v \in [kind : {"group"}, info : Optional(Groups)]
  <2>1. v = [kind |-> "group", info |-> v.info] /\ v.info \in Optional(Groups) /\ v.info # <<>>
    BY <1>1 DEF Convertible, Given
  <2>2. \A name \in DOMAIN v.info[1].nodeInfos :
           /\ v.info[1].nodeInfos[name] # <<>>
           /\ v.info[1].nodeInfos[name][1].nodeName = name
    BY <2>1 DEF Convertible, Given, Keyed
  <2>3. toBcosGroupInfo(toTarsGroupInfo(v.info)) = v.info
    BY <2>1, <2>2, GroupRoundTrip
  <2> QED BY <2>1, <2>3 DEF ToTars, FromTars
<1>2. CASE v \in [kind : {"gateway"}, info : Optional(Gateways)]
  <2>1. v = [kind |-> "gateway", info |-> v.info] /\ v.info \in Optional(Gateways) /\ v.info # <<>>
    BY <1>2 DEF Convertible, Given
  <2>2. fromTarsGatewayInfo(toTarsGatewayInfo(v.info)) = v.info
    BY <2>1, GatewayRoundTrip
  <2> QED BY <2>1, <2>2 DEF ToTars, FromTars
<1>3. CASE v \in [kind : {"ledger"}, info : Ledgers]
  BY <1>3, LedgerRoundTrip DEF ToTars, FromTars
<1>4. CASE v \in [kind : {"error"}, info : Optional(Errors)]
  BY <1>4, ErrorRoundTrip DEF ToTars, FromTars, Convertible, Coded
<1> QED BY <1>1, <1>2, <1>3, <1>4 DEF Infos

\* A list from elsewhere that names each group once is converted to its meaning.
LEMMA ForeignMeaning ==
    ASSUME NEW tars \in TarsGateways
    PROVE  LET m == [kind |-> "gateway", info |-> tars]
           IN /\ m \in TarsInfos
              /\ Meaning(tars) \in Infos /\ Convertible(Meaning(tars))
              /\ Grouped(tars) => FromTars(m) = Meaning(tars)
<1> DEFINE m == [kind |-> "gateway", info |-> tars]
           entries == Elements(tars.nodeIDInfo)
           Listed(id) == UNION {Elements(entry.nodeIDList) : entry \in {e \in entries : e.groupID = id}}
           ids == {entry.groupID : entry \in entries}
           said_ == [p2pInfo |-> tars.p2pInfo, nodeIDInfo |-> [id \in ids |-> Listed(id)]]
<1>1. m \in TarsInfos
  BY DEF TarsInfos
<1>2. entries \subseteq [groupID : GroupIDs, nodeIDList : Seq(NodeIDs)] /\ tars.p2pInfo \in Peers
  <2> DEFINE Entries == [groupID : GroupIDs, nodeIDList : Seq(NodeIDs)]
  <2>1. tars.nodeIDInfo \in Seq(Entries) /\ tars.p2pInfo \in Peers
    BY DEF TarsGateways
  <2> HIDE DEF Entries
  <2>2. \A i \in DOMAIN tars.nodeIDInfo : tars.nodeIDInfo[i] \in Entries
    BY <2>1
  <2> QED BY <2>1, <2>2 DEF Elements, Entries
<1> HIDE DEF entries
<1>3. \A entry \in entries : entry.groupID \in GroupIDs /\ Elements(entry.nodeIDList) \subseteq NodeIDs
  BY <1>2 DEF Elements
<1>4. ids \subseteq GroupIDs
  BY <1>3
<1>5. \A id \in ids : Listed(id) \subseteq NodeIDs
  BY <1>3
<1>6. said_ \in Gateways
  <2> HIDE DEF ids, Listed
  <2>1. [id \in ids |-> Listed(id)] \in [ids -> SUBSET NodeIDs]
    BY <1>5
  <2> QED BY <1>2, <1>4, <2>1 DEF Gateways
<1> HIDE DEF said_
<1>7. Meaning(tars) = [kind |-> "gateway", info |-> <<said_>>]
  BY DEF Meaning, entries, said_
<1>8. <<said_>> \in Optional(Gateways) /\ <<said_>> # <<>>
  BY <1>6, OptionalIntro
<1>9. Meaning(tars) \in Infos
  BY <1>7, <1>8 DEF Infos
<1>10. Convertible(Meaning(tars))
  BY <1>7, <1>8 DEF Convertible, Keyed, Given, Coded
<1>11. ASSUME Grouped(tars)
       PROVE  FromTars(m) = Meaning(tars)
  <2>1. <<said_>> = fromTarsGatewayInfo(tars)
    BY <1>11, ForeignGateway DEF said_, entries
  <2> QED BY <1>7, <2>1 DEF FromTars
<1> QED BY <1>1, <1>9, <1>10, <1>11

-----------------------------------------------------------------------------
(* The services *)

Parcels == [tars : TarsInfos, said : Infos]

LEMMA MadeSent ==
    ASSUME TypeOK, NEW s \in Services, held[s] # <<>>
    PROVE  /\ held[s][1] \in Infos /\ held[s] = <<held[s][1]>>
           /\ ToTars(held[s][1]) \in TarsInfos
<1>1. held[s] \in Optional(Infos)
  BY DEF TypeOK
<1> QED BY <1>1, OptionalElement, InfoToTars

LEMMA SentReceived ==
    ASSUME TypeOK, sent # <<>>
    PROVE  /\ sent[1] \in Parcels
           /\ FromTars(sent[1].tars) \in Infos
<1>1. sent \in Optional(Parcels)
  BY DEF TypeOK, Parcels
<1>2. sent[1] \in Parcels
  BY <1>1, OptionalElement
<1> QED BY <1>2, InfoFromTars DEF Parcels

LEMMA TypeStep == TypeOK /\ [Next]_vars /\ (\A s \in Services : held[s] # <<>> => said[s] # <<>>)
                    => TypeOK'
<1> SUFFICES ASSUME TypeOK, [Next]_vars, \A s \in Services : held[s] # <<>> => said[s] # <<>>
             PROVE  TypeOK'
  OBVIOUS
<1>1. ASSUME NEW s \in Services, NEW v \in Made, Make(s, v)
      PROVE  TypeOK'
  <2>1. <<v>> \in Optional(Infos)
    BY MadeAssumption, OptionalIntro
  <2> QED BY <1>1, <2>1 DEF Make, TypeOK
<1>2. ASSUME NEW s \in Services, Announce(s)
      PROVE  TypeOK'
  <2>1. held[s] # <<>>
    BY <1>2 DEF Announce
  <2>2. said[s] \in Optional(Infos) /\ said[s] # <<>>
    BY <2>1 DEF TypeOK
  <2>3. [tars |-> ToTars(held[s][1]), said |-> said[s][1]] \in Parcels
    BY <2>1, <2>2, MadeSent, OptionalElement DEF Parcels
  <2>4. sent' \in Optional(Parcels)
    BY <1>2, <2>3, OptionalIntro DEF Announce
  <2> QED BY <1>2, <2>4 DEF Announce, TypeOK, Parcels
<1>3. ASSUME NEW s \in Services, Receive(s)
      PROVE  TypeOK'
  <2>1. sent # <<>>
    BY <1>3 DEF Receive
  <2>2. <<FromTars(sent[1].tars)>> \in Optional(Infos) /\ <<sent[1].said>> \in Optional(Infos)
    BY <2>1, SentReceived, OptionalIntro DEF Parcels
  <2> QED BY <1>3, <2>2 DEF Receive, TypeOK
<1>4. ASSUME NEW tars \in Foreign, AnnounceForeign(tars)
      PROVE  TypeOK'
  <2>1. tars \in TarsGateways
    BY MadeAssumption
  <2>2. [tars |-> [kind |-> "gateway", info |-> tars], said |-> Meaning(tars)] \in Parcels
    BY <2>1, ForeignMeaning DEF Parcels
  <2>3. sent' \in Optional(Parcels)
    BY <1>4, <2>2, OptionalIntro DEF AnnounceForeign
  <2> QED BY <1>4, <2>3 DEF AnnounceForeign, TypeOK, Parcels
<1>5. CASE UNCHANGED vars
  BY <1>5 DEF vars, TypeOK
<1> QED BY <1>1, <1>2, <1>3, <1>4, <1>5 DEF Next

\* A service has an information exactly when one was meant.
LEMMA HeldIsSaidStep ==
    TypeOK /\ (\A s \in Services : held[s] # <<>> => said[s] # <<>>) /\ [Next]_vars
      => (\A s \in Services : held[s] # <<>> => said[s] # <<>>)'
<1> SUFFICES ASSUME TypeOK, \A s \in Services : held[s] # <<>> => said[s] # <<>>, [Next]_vars,
                    NEW t \in Services, held'[t] # <<>>
             PROVE  said'[t] # <<>>
  OBVIOUS
<1>1. ASSUME NEW s \in Services, NEW v \in Made, Make(s, v)
      PROVE  said'[t] # <<>>
  BY <1>1 DEF Make, TypeOK
<1>2. ASSUME NEW s \in Services, Announce(s)
      PROVE  said'[t] # <<>>
  BY <1>2 DEF Announce
<1>3. ASSUME NEW s \in Services, Receive(s)
      PROVE  said'[t] # <<>>
  BY <1>3 DEF Receive, TypeOK
<1>4. ASSUME NEW tars \in Foreign, AnnounceForeign(tars)
      PROVE  said'[t] # <<>>
  BY <1>4 DEF AnnounceForeign
<1>5. CASE UNCHANGED vars
  BY <1>5 DEF vars
<1> QED BY <1>1, <1>2, <1>3, <1>4, <1>5 DEF Next

\* Whatever callers do, what services have and send has its type: the conversions
\* are defined for everything, null pointers, short hashes and groups listed twice
\* included (Common.h, ErrorConverter.h).
THEOREM TypeCorrect == Spec => []TypeOK
<1> DEFINE Inv == TypeOK /\ \A s \in Services : held[s] # <<>> => said[s] # <<>>
<1>1. Init => Inv
  BY DEF Init, TypeOK, Optional
<1>2. Inv /\ [Next]_vars => Inv'
  BY TypeStep, HeldIsSaidStep
<1> QED BY <1>1, <1>2, PTL DEF Spec

(* Each kind of information needs rules of its own, a ledger none. *)

RulesFor(k) ==
    CASE k = "group" -> {"keyed", "given"}
      [] k = "gateway" -> {"given"}
      [] k = "error" -> {"coded"}
      [] k = "ledger" -> {}

RulesKept ==
    /\ \A v \in Made : RulesFor(v.kind) \subseteq CallerRules
    /\ Foreign # {} => "grouped" \in CallerRules

LEMMA MadeConvertible ==
    ASSUME RulesKept, NEW v \in Made, MayMake(v)
    PROVE  Convertible(v)
<1> USE DEF Convertible, Keyed, Given, Coded
<1>0. v.kind \in {"group", "gateway", "ledger", "error"} /\ RulesFor(v.kind) \subseteq CallerRules
  BY MadeAssumption DEF RulesKept, Infos
<1>1. CASE v.kind = "group"
  BY <1>0, <1>1 DEF RulesFor, MayMake
<1>2. CASE v.kind = "gateway"
  BY <1>0, <1>2 DEF RulesFor, MayMake
<1>3. CASE v.kind = "error"
  BY <1>0, <1>3 DEF RulesFor, MayMake
<1>4. CASE v.kind = "ledger"
  BY <1>4
<1> QED BY <1>0, <1>1, <1>2, <1>3, <1>4

\* The inductive invariant: what services have is meant and can be converted, and
\* what is under way comes to what is meant.
IInv ==
    /\ TypeOK
    /\ MeaningKept
    /\ \A s \in Services : held[s] # <<>> => Convertible(held[s][1])
    /\ sent # <<>> => /\ FromTars(sent[1].tars) = sent[1].said
                      /\ Convertible(sent[1].said)

LEMMA MeaningStep ==
    ASSUME RulesKept
    PROVE  IInv /\ [Next]_vars => IInv'
<1> SUFFICES ASSUME IInv, [Next]_vars
             PROVE  IInv'
  OBVIOUS
<1>0. TypeOK' /\ TypeOK
  BY TypeStep DEF IInv, MeaningKept
<1>1. ASSUME NEW s \in Services, NEW v \in Made, Make(s, v)
      PROVE  IInv'
  <2>1. Convertible(v)
    BY <1>1, MadeConvertible DEF Make
  <2>2. MeaningKept'
    BY <1>1 DEF Make, IInv, MeaningKept
  <2>3. \A t \in Services : held'[t] # <<>> => Convertible(held'[t][1])
    BY <1>1, <2>1 DEF Make, IInv, TypeOK
  <2> QED BY <1>0, <1>1, <2>2, <2>3 DEF Make, IInv
<1>2. ASSUME NEW s \in Services, Announce(s)
      PROVE  IInv'
  <2>1. held[s] # <<>> /\ held[s] = said[s] /\ Convertible(held[s][1])
    BY <1>2 DEF Announce, IInv, MeaningKept
  <2>2. FromTars(ToTars(held[s][1])) = held[s][1]
    BY <1>0, <2>1, MadeSent, InfoRoundTrip
  <2>3. sent'[1].tars = ToTars(held[s][1]) /\ sent'[1].said = held[s][1]
    BY <1>2, <2>1 DEF Announce
  <2>4. MeaningKept'
    BY <1>2 DEF Announce, IInv, MeaningKept
  <2>5. \A t \in Services : held'[t] # <<>> => Convertible(held'[t][1])
    BY <1>2 DEF Announce, IInv
  <2> QED BY <1>0, <2>1, <2>2, <2>3, <2>4, <2>5 DEF IInv
<1>3. ASSUME NEW s \in Services, Receive(s)
      PROVE  IInv'
  <2>1. FromTars(sent[1].tars) = sent[1].said /\ Convertible(sent[1].said)
    BY <1>3 DEF Receive, IInv
  <2>2. MeaningKept'
    BY <1>3, <2>1 DEF Receive, IInv, MeaningKept
  <2>3. \A t \in Services : held'[t] # <<>> => Convertible(held'[t][1])
    BY <1>3, <2>1 DEF Receive, IInv, TypeOK
  <2> QED BY <1>0, <1>3, <2>1, <2>2, <2>3 DEF Receive, IInv
<1>4. ASSUME NEW tars \in Foreign, AnnounceForeign(tars)
      PROVE  IInv'
  <2>1. tars \in TarsGateways /\ Grouped(tars)
    BY <1>4, MadeAssumption DEF AnnounceForeign, RulesKept
  <2>2. /\ Convertible(Meaning(tars))
        /\ FromTars([kind |-> "gateway", info |-> tars]) = Meaning(tars)
    BY <2>1, ForeignMeaning
  <2>3. /\ sent'[1].tars = [kind |-> "gateway", info |-> tars]
        /\ sent'[1].said = Meaning(tars)
    BY <1>4 DEF AnnounceForeign
  <2>4. MeaningKept'
    BY <1>4 DEF AnnounceForeign, IInv, MeaningKept
  <2>5. \A t \in Services : held'[t] # <<>> => Convertible(held'[t][1])
    BY <1>4 DEF AnnounceForeign, IInv
  <2> QED BY <1>0, <2>2, <2>3, <2>4, <2>5 DEF IInv
<1>5. CASE UNCHANGED vars
  BY <1>0, <1>5 DEF vars, IInv, MeaningKept
<1> QED BY <1>1, <1>2, <1>3, <1>4, <1>5 DEF Next

\* When callers keep the rules of the kinds of information they make, what a
\* service has is what the program it came from meant, for any number of services,
\* any order of sending and receiving, and any groups, gateways and errors; a
\* ledger's configuration needs no rule (Common.h, ErrorConverter.h).
THEOREM MeaningsKept ==
    ASSUME RulesKept
    PROVE  Spec => []MeaningKept
<1>1. Init => IInv
  BY DEF Init, IInv, TypeOK, MeaningKept, Optional
<1>2. IInv /\ [Next]_vars => IInv'
  BY MeaningStep
<1>3. IInv => MeaningKept
  BY DEF IInv
<1> QED BY <1>1, <1>2, <1>3, PTL DEF Spec
=============================================================================
