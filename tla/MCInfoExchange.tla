---------------------------- MODULE MCInfoExchange ----------------------------
(* An instance of InfoExchange for TLC: two services, and information of every *)
(* kind, with the cases the conversions distinguish: nodes under their own or  *)
(* another name, null pointers, groups listed twice, weights of both halves,   *)
(* errors without a code.                                                      *)
EXTENDS InfoExchange

Node(name) == [nodeName |-> name, data |-> "data"]

MCGroups ==
    [groupID : {"g1"}, genesis : {"genesis"},
     nodeInfos : UNION {[keys -> Optional({Node("n1"), Node("n2")})] : keys \in SUBSET Names}]

MCGateways ==
    [p2pInfo : {"peer"}, nodeIDInfo : UNION {[ids -> SUBSET NodeIDs] : ids \in SUBSET GroupIDs}]

MCLists == {<<>>} \cup {<<[nodeID |-> "i1", weight |-> w]>> : w \in {1, 2}}

MCLedgers == [consensusNodeList : MCLists, observerNodeList : MCLists,
              hash : {"hash"}, numbers : {"numbers"}]

MCErrors == [code : {0, 1}, message : {"failed"}]

MCMade ==
    [kind : {"group"}, info : Optional(MCGroups)]
    \cup [kind : {"gateway"}, info : Optional(MCGateways)]
    \cup [kind : {"ledger"}, info : MCLedgers]
    \cup [kind : {"error"}, info : Optional(MCErrors)]

\* Lists of two entries, of one group or of two.
MCForeign ==
    [p2pInfo : {"peer"},
     nodeIDInfo : {<<e, f>> : e, f \in [groupID : GroupIDs, nodeIDList : {<<>>, <<"i1">>, <<"i2", "i1">>}]}]

AllRules == Rules
=============================================================================
