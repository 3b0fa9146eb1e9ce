--------------------------- MODULE ClientOperations ---------------------------
(***************************************************************************)
(* The operations of the service clients (client/), each with the way it   *)
(* treats its call.  An operation's kind is all of it that ServiceCall     *)
(* needs; arguments and results are left out.                              *)
(*   check     calls checkConnection before it sends                       *)
(*   send      async:  the proxy's async_ method with a Callback object    *)
(*             oneway: the same with nullptr, no answer is looked at       *)
(*             sync:   the proxy's blocking method, its result ignored     *)
(*             none:   an empty or log-only body                           *)
(*             throws: "unimplemented interface!"                          *)
(*   nullSafe  the Callback tests m_callback before it calls it            *)
(*   needs     what the answer is converted with before m_callback is      *)
(*             called: nothing, a factory the Callback captured when it    *)
(*             was made, or a factory of the client behind a raw pointer   *)
(*   each      it is used for each element of a list, not at all on an     *)
(*             empty one                                                   *)
(***************************************************************************)

Kinds == [check : BOOLEAN, send : {"async", "oneway", "sync", "none", "throws"},
          nullSafe : BOOLEAN, needs : {"nothing", "captured", "self"}, each : BOOLEAN]

Plain == [check |-> FALSE, send |-> "async", nullSafe |-> FALSE, needs |-> "nothing",
          each |-> FALSE]

Checked(k) == [k EXCEPT !.check = TRUE]
NullSafe(k) == [k EXCEPT !.nullSafe = TRUE]
Sends(how, k) == [k EXCEPT !.send = how]
Needs(what, k) == [k EXCEPT !.needs = what]
NeedsForEach(what, k) == [k EXCEPT !.needs = what, !.each = TRUE]

-----------------------------------------------------------------------------
TxPoolSubmitAndVerify ==
    [asyncSubmit |-> Plain,
     asyncSealTxs |-> Needs("captured", Plain),
     asyncMarkTxs |-> Plain,
     asyncVerifyBlock |-> Plain]

TxPoolBlocksAndSync ==
    [asyncFillBlock |-> Plain,
     asyncNotifyBlockResult |-> Plain,
     asyncNotifyTxsSyncMessage |-> Plain,
     notifyConnectedNodes |-> Plain]

TxPoolMembership ==
    [notifyConsensusNodeList |-> Plain,
     notifyObserverNodeList |-> Plain,
     asyncGetPendingTransactionSize |-> Plain,
     asyncResetTxPool |-> Plain]

GatewaySend ==
    [asyncSendMessageByNodeID |-> Checked(Plain),
     asyncGetPeers |-> Checked(Plain),
     asyncSendMessageByNodeIDs |-> Checked(Sends("oneway", Plain)),
     asyncSendBroadcastMessage |-> Checked(Sends("oneway", Plain))]

GatewayGroups ==
    [asyncGetNodeIDs |-> Checked(NeedsForEach("captured", Plain)),
     asyncNotifyGroupInfo |-> Checked(Plain)]

GatewayTopics ==
    [asyncSendMessageByTopic |-> Checked(Plain),
     asyncSendBroadbastMessageByTopic |-> Checked(Sends("oneway", Plain)),
     asyncSubscribeTopic |-> Checked(Plain),
     asyncRemoveTopic |-> Checked(Plain)]

FrontReceive ==
    [asyncGetNodeIDs |-> NeedsForEach("self", Plain),
     onReceiveNodeIDs |-> NullSafe(Plain),
     onReceiveMessage |-> Checked(NullSafe(Plain))]

FrontSend ==
    [onReceiveBroadcastMessage |-> Checked(NullSafe(Plain)),
     asyncSendMessageByNodeID |-> NullSafe(Needs("self", Plain)),
     asyncSendResponse |-> Checked(Sends("sync", Plain)),
     asyncSendMessageByNodeIDs |-> Sends("oneway", Plain),
     asyncSendBroadcastMessage |-> Sends("oneway", Plain)]

Consensus ==
    [asyncSubmitProposal |-> Plain,
     asyncGetPBFTView |-> Plain,
     asyncCheckBlock |-> Plain,
     asyncNotifyNewBlock |-> Plain,
     asyncNotifyConsensusMessage |-> Plain,
     asyncNoteUnSealedTxsSize |-> Plain]

ConsensusStatus ==
    [notifyConnectedNodes |-> Plain,
     asyncGetSyncInfo |-> Plain,
     asyncGetConsensusStatus |-> Plain]

ConsensusUnimplemented ==
    [notifyHighestSyncingNumber |-> Sends("throws", Plain),
     asyncNotifySealProposal |-> Sends("throws", Plain),
     asyncNoteLatestBlockNumber |-> Sends("throws", Plain),
     asyncResetSealing |-> Sends("throws", Plain)]

BlockSync ==
    [asyncNotifyNewBlock |-> Sends("none", Plain),
     asyncNotifyCommittedIndex |-> Sends("none", Plain),
     asyncNotifyBlockSyncMessage |-> Plain]

Rpc ==
    [asyncNotifyBlockNumber |-> Checked(Plain),
     asyncNotifyGroupInfo |-> Checked(Plain),
     asyncNotifyAMOPMessage |-> Checked(Plain),
     asyncNotifySubscribeTopic |-> Checked(Plain)]

LedgerBlocks ==
    [asyncGetBlockDataByNumber |-> Needs("captured", Plain),
     asyncGetBlockNumber |-> Plain,
     asyncGetBlockHashByNumber |-> Plain,
     asyncGetBlockNumberByHash |-> Plain]

LedgerTransactions ==
    [asyncGetBatchTxsByHashList |-> Plain,
     asyncGetTransactionReceiptByHash |-> Plain]

LedgerConfiguration ==
    [asyncGetTotalTransactionCount |-> Plain,
     asyncGetSystemConfigByKey |-> Plain,
     asyncGetNodeListByType |-> NeedsForEach("captured", Plain)]

LedgerUnimplemented ==
    [asyncPrewriteBlock |-> Sends("none", Plain),
     asyncStoreTransactions |-> Sends("none", Plain),
     asyncGetNonceList |-> Sends("none", Plain)]

Scheduler == [call |-> Plain, getCode |-> Plain]

SchedulerUnimplemented ==
    [o \in {"executeBlock", "commitBlock", "status", "registerExecutor", "unregisterExecutor",
            "reset", "registerBlockNumberReceiver"} |-> Sends("none", Plain)]

-----------------------------------------------------------------------------
KindsOf(operations) == {operations[o] : o \in DOMAIN operations}

\* Every kind of call the clients make.
ClientKinds ==
    UNION {KindsOf(TxPoolSubmitAndVerify), KindsOf(TxPoolBlocksAndSync),
           KindsOf(TxPoolMembership), KindsOf(GatewaySend), KindsOf(GatewayGroups),
           KindsOf(GatewayTopics), KindsOf(FrontReceive), KindsOf(FrontSend),
           KindsOf(Consensus), KindsOf(ConsensusStatus), KindsOf(ConsensusUnimplemented),
           KindsOf(BlockSync), KindsOf(Rpc), KindsOf(LedgerBlocks),
           KindsOf(LedgerTransactions), KindsOf(LedgerConfiguration),
           KindsOf(LedgerUnimplemented), KindsOf(Scheduler), KindsOf(SchedulerUnimplemented)}
=============================================================================
