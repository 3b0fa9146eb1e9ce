----------------------------- MODULE InfoExchange -----------------------------
(***************************************************************************)
(* What the services tell each other about groups, gateways and the        *)
(* ledger, and the errors they pass on: asyncNotifyGroupInfo(),            *)
(* asyncGetPeers(), asyncNotifyNewBlock(), asyncNotifyTxsSyncMessage().    *)
(* A service converts what it has, sends it, and another converts it back; *)
(* that one may send it on.  A gateway's answer also comes from programs   *)
(* that make the tars structure themselves.                                *)
(*                                                                         *)
(* `said' is not in the code: it is what the program the information came  *)
(* from meant, and goes with the message.                                  *)
(***************************************************************************)
EXTENDS Conversions

CONSTANTS
    Services,     \* programs that have an information
    Made,         \* the information a program may have made itself
    Foreign,      \* gateway structures that come from elsewhere
    CallerRules   \* what callers keep to; a subset of Rules

(* "keyed":   a node is kept in its group under its own name.              *)
(* "given":   what is sent is not a null pointer, but for an error.        *)
(* "grouped": a list of groups from elsewhere names each group once.       *)
(* "coded":   an error has a code other than 0.                            *)
(* None is enforced by the code.                                           *)
Rules == {"keyed", "given", "grouped", "coded"}

\* Information is of one of four kinds.
Infos ==
    [kind : {"group"}, info : Optional(Groups)]
    \cup [kind : {"gateway"}, info : Optional(Gateways)]
    \cup [kind : {"ledger"}, info : Ledgers]
    \cup [kind : {"error"}, info : Optional(Errors)]

TarsInfos ==
    [kind : {"group"}, info : TarsGroups]
    \cup [kind : {"gateway"}, info : TarsGateways]
    \cup [kind : {"ledger"}, info : TarsLedgers]
    \cup [kind : {"error"}, info : Errors]

ASSUME MadeAssumption == (\A v \in Made : v \in Infos) /\ \A tars \in Foreign : tars \in TarsGateways
ASSUME FiniteAssumption == IsFiniteSet(Names) /\ IsFiniteSet(GroupIDs) /\ IsFiniteSet(NodeIDs)

VARIABLES
    held,  \* the information a service has; <<>>: none yet
    said,  \* what it was meant to be
    sent   \* the message under way, with what it was meant to be

vars == <<held, said, sent>>

TypeOK ==
    /\ held \in [Services -> Optional(Infos)]
    /\ said \in [Services -> Optional(Infos)]
    /\ sent \in Optional([tars : TarsInfos, said : Infos])

-----------------------------------------------------------------------------
ToTars(v) ==
    [kind |-> v.kind,
     info |-> CASE v.kind = "group" -> toTarsGroupInfo(v.info)
                [] v.kind = "gateway" -> toTarsGatewayInfo(v.info)
                [] v.kind = "ledger" -> toTarsLedgerConfig(v.info)
                [] v.kind = "error" -> toTarsError(v.info)]

FromTars(m) ==
    [kind |-> m.kind,
     info |-> CASE m.kind = "group" -> toBcosGroupInfo(m.info)
                [] m.kind = "gateway" -> fromTarsGatewayInfo(m.info)
                [] m.kind = "ledger" -> toLedgerConfig(m.info)
                [] m.kind = "error" -> toBcosError(m.info)]

\* What a list of groups from elsewhere says: of each group, every node listed.
Meaning(tars) ==
    LET entries == Elements(tars.nodeIDInfo)
    IN [kind |-> "gateway",
        info |-> <<[p2pInfo |-> tars.p2pInfo,
                    nodeIDInfo |-> [id \in {entry.groupID : entry \in entries} |->
                        UNION {Elements(entry.nodeIDList) :
                               entry \in {e \in entries : e.groupID = id}}]]>>]

Keyed(v) ==
    v.kind = "group" /\ v.info # <<>> =>
        LET infos == v.info[1].nodeInfos
        IN \A name \in DOMAIN infos : infos[name] # <<>> => infos[name][1].nodeName = name

Given(v) ==
    /\ v.kind \in {"group", "gateway"} => v.info # <<>>
    /\ v.kind = "group" /\ v.info # <<>> =>
          \A name \in DOMAIN v.info[1].nodeInfos : v.info[1].nodeInfos[name] # <<>>

Coded(v) == v.kind = "error" /\ v.info # <<>> => v.info[1].code # 0

Grouped(tars) ==
    \A i, j \in DOMAIN tars.nodeIDInfo :
        tars.nodeIDInfo[i].groupID = tars.nodeIDInfo[j].groupID => i = j

MayMake(v) ==
    /\ "keyed" \in CallerRules => Keyed(v)
    /\ "given" \in CallerRules => Given(v)
    /\ "coded" \in CallerRules => Coded(v)

-----------------------------------------------------------------------------
Init ==
    /\ held = [s \in Services |-> <<>>]
    /\ said = [s \in Services |-> <<>>]
    /\ sent = <<>>

\* The service reads its configuration, or something of it changed.
Make(s, v) ==
    /\ MayMake(v)
    /\ held' = [held EXCEPT ![s] = <<v>>]
    /\ said' = [said EXCEPT ![s] = <<v>>]
    /\ UNCHANGED sent

\* The service sends what it has, made or received.
Announce(s) ==
    /\ held[s] # <<>>
    /\ sent' = <<[tars |-> ToTars(held[s][1]), said |-> said[s][1]]>>
    /\ UNCHANGED <<held, said>>

\* A gateway's answer that was made elsewhere.
AnnounceForeign(tars) ==
    /\ "grouped" \in CallerRules => Grouped(tars)
    /\ sent' = <<[tars |-> [kind |-> "gateway", info |-> tars], said |-> Meaning(tars)]>>
    /\ UNCHANGED <<held, said>>

\* The message is not lost by it: a group is announced to many.
Receive(s) ==
    /\ sent # <<>>
    /\ held' = [held EXCEPT ![s] = <<FromTars(sent[1].tars)>>]
    /\ said' = [said EXCEPT ![s] = <<sent[1].said>>]
    /\ UNCHANGED sent

Next ==
    \/ \E s \in Services, v \in Made : Make(s, v)
    \/ \E s \in Services : Announce(s) \/ Receive(s)
    \/ \E tars \in Foreign : AnnounceForeign(tars)

Spec == Init /\ [][Next]_vars
-----------------------------------------------------------------------------
\* What a service has, however many others converted it and sent it on before, is
\* what the program that it came from meant: no node, no group and no error is
\* lost, added or changed on the way (the conversions of Common.h).
MeaningKept == held = said
=============================================================================
