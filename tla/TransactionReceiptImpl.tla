------------------------- MODULE TransactionReceiptImpl -------------------------
(***************************************************************************)
(* Receipts, protocol/TransactionReceiptImpl and its factory, with the two *)
(* places that store receipts of their own: the vector of a block, and     *)
(* protocol/TransactionSubmitResultImpl.                                   *)
(*                                                                         *)
(* A wrapper reaches a tars `bcostars::TransactionReceipt' through a       *)
(* getter: its own, one of a block, which the getter keeps alive, or the   *)
(* one inside a submit result, which it does not.  dataHash is filled      *)
(* lazily in the inner object; m_logEntries is filled lazily in the        *)
(* wrapper, and logEntries() hands out a span into it: a pointer and a     *)
(* length.  An empty m_logEntries is one that was not filled.              *)
(*                                                                         *)
(* An optional value is <<>> or <<v>>.                                     *)
(***************************************************************************)
EXTENDS Naturals, Sequences

CONSTANTS
    Wrappers,       \* TransactionReceiptImpl objects the program may hold at one time
    Results,        \* TransactionSubmitResultImpl objects
    MaxReceipts,    \* bound on the receipts of the block
    NoCell,         \* no receipt: the wrapper does not exist
    Gone,           \* a receipt whose memory was freed
    Logs,           \* lists of log entries
    Fields,         \* the other hashed fields, taken together
    DefaultFields,  \* ... of a default-constructed receipt
    CallerRules     \* what callers keep to; a subset of Rules

(* "freeze":   log entries are not set once the receipt was hashed.        *)
(* "fresh":    a receipt is replaced, or given log entries, only while no  *)
(*             wrapper that keeps its m_logEntries has them cached.        *)
(* "lifetime": a submit result is kept while a receipt it handed out is,   *)
(*             and a wrapper is kept, and given no log entries, while a    *)
(*             span it handed out is in use.                               *)
(* None is enforced by the code.                                           *)
Rules == {"freeze", "fresh", "lifetime"}

Slots == 1 .. MaxReceipts

ASSUME CellsAssumption ==
    /\ Wrappers \cap Results = {} /\ Slots \cap (Wrappers \cup Results) = {}
    /\ {NoCell, Gone} \cap (Wrappers \cup Results \cup Slots) = {} /\ NoCell # Gone
ASSUME BoundAssumption == MaxReceipts \in Nat
ASSUME DataAssumption == <<>> \in Logs /\ DefaultFields \in Fields

VARIABLES
    receipts,    \* the inner objects: of owning wrappers, of results, of the block
    at,          \* the inner object a wrapper's getter returns
    logEntries,  \* m_logEntries
    span,        \* what became of the span logEntries() returned
    size,        \* how many receipts the block has
    results,     \* the submit results there are
    wire         \* the last receipt encoded, alone, in a block or in a result

vars == <<receipts, at, logEntries, span, size, results, wire>>

Cells == Wrappers \cup Results \cup Slots

Optional(S) == {<<>>} \cup {<<v>> : v \in S}

Data == [logs : Logs, fields : Fields]

\* cryptoSuite->hash of the encoded data; injective.
Hash(data) == [hashOf |-> data]

Inners == [data : Data, dataHash : Optional({Hash(d) : d \in Data})]

Blank == [data |-> [logs |-> <<>>, fields |-> DefaultFields], dataHash |-> <<>>]

TypeOK ==
    /\ receipts \in [Cells -> Inners]
    /\ at \in [Wrappers -> Cells \cup {NoCell, Gone}]
    /\ logEntries \in [Wrappers -> Logs]
    /\ span \in [Wrappers -> {"none", "held", "dangling"}]
    /\ size \in 0 .. MaxReceipts
    /\ results \subseteq Results
    /\ wire \in Optional(Inners)

-----------------------------------------------------------------------------
Live(w) == at[w] \in Cells
Owner(w) == at[w] = w
Mutable(w) == at[w] \notin Slots  \* block->receipt() returns a const receipt
Inner(w) == receipts[at[w]]

Init ==
    /\ receipts = [c \in Cells |-> Blank]
    /\ at = [w \in Wrappers |-> NoCell]
    /\ logEntries = [w \in Wrappers |-> <<>>]
    /\ span = [w \in Wrappers |-> "none"]
    /\ size = 0
    /\ results = {}
    /\ wire = <<>>

\* Nobody but the wrappers in `clearing' has cached the logs of a receipt in `cs'.
Fresh(cs, clearing) == \A w \in Wrappers \ clearing : at[w] \in cs => logEntries[w] = <<>>

MayReplace(cs, clearing) == "fresh" \in CallerRules => Fresh(cs, clearing)
MaySet(c) == "freeze" \in CallerRules => receipts[c].dataHash = <<>>
MayDestroy(w) == "lifetime" \in CallerRules => span[w] # "held"
MayFree(r) == "lifetime" \in CallerRules => \A w \in Wrappers : at[w] # r

\* What the span that logEntries() returns is over.
LogEntries(w) == IF logEntries[w] = <<>> THEN Inner(w).data.logs ELSE logEntries[w]

\* The entries a span is over are destroyed.
Destroyed(s) == IF s = "held" THEN "dangling" ELSE s

-----------------------------------------------------------------------------
(* TransactionReceiptFactoryImpl, and the views of block and result *)

NewWrapper(w, c) ==
    /\ at[w] = NoCell
    /\ at' = [at EXCEPT ![w] = c]
    /\ UNCHANGED <<logEntries, span, size, results, wire>>

CreateReceipt(w, d) ==
    /\ NewWrapper(w, w)
    /\ receipts' = [receipts EXCEPT ![w] = [data |-> d, dataHash |-> <<>>]]

CreateFromBytes(w) ==
    /\ wire # <<>>
    /\ NewWrapper(w, w)
    /\ receipts' = [receipts EXCEPT ![w] = wire[1]]

ViewReceipt(w, i) == i <= size /\ NewWrapper(w, i) /\ UNCHANGED receipts

\* transactionReceipt(): the getter holds a plain pointer into the result.
TransactionReceipt(w, r) == r \in results /\ NewWrapper(w, r) /\ UNCHANGED receipts

Release(w) ==
    /\ at[w] # NoCell
    /\ MayDestroy(w)
    /\ at' = [at EXCEPT ![w] = NoCell]
    /\ receipts' = IF Owner(w) THEN [receipts EXCEPT ![w] = Blank] ELSE receipts
    /\ logEntries' = [logEntries EXCEPT ![w] = <<>>]
    /\ span' = [span EXCEPT ![w] = Destroyed(@)]
    /\ UNCHANGED <<size, results, wire>>

-----------------------------------------------------------------------------
(* TransactionReceiptImpl *)

\* Faulty: the encoded data is stored, not its hash.
ComputeHashRaw(w) ==
    /\ Live(w)
    /\ Inner(w).dataHash = <<>>
    /\ receipts' = [receipts EXCEPT ![at[w]].dataHash = <<Inner(w).data>>]
    /\ UNCHANGED <<at, logEntries, span, size, results, wire>>

\* hash() with an empty dataHash; with a full one it changes nothing.
ComputeHash(w) ==
    /\ Live(w)
    /\ Inner(w).dataHash = <<>>
    /\ receipts' = [receipts EXCEPT ![at[w]].dataHash = <<Hash(Inner(w).data)>>]
    /\ UNCHANGED <<at, logEntries, span, size, results, wire>>

\* Faulty: the entries are converted again at every call.
ReadLogEntriesAgain(w) ==
    /\ Live(w)
    /\ logEntries' = [logEntries EXCEPT ![w] = Inner(w).data.logs]
    /\ span' = [span EXCEPT ![w] = IF @ = "held" THEN "dangling" ELSE "held"]
    /\ UNCHANGED <<receipts, at, size, results, wire>>

\* logEntries(): a span of no entries is over nothing that could go away.
ReadLogEntries(w) ==
    /\ Live(w)
    /\ logEntries' = [logEntries EXCEPT ![w] = LogEntries(w)]
    /\ span' = [span EXCEPT ![w] = IF LogEntries(w) = <<>> THEN @ ELSE "held"]
    /\ UNCHANGED <<receipts, at, size, results, wire>>

EndRead(w) ==
    /\ span[w] # "none"
    /\ span' = [span EXCEPT ![w] = "none"]
    /\ UNCHANGED <<receipts, at, logEntries, size, results, wire>>

\* encode(bytes&) writes the inner object as it is: a dataHash only if hash() ran.
Encode(w) ==
    /\ Live(w)
    /\ wire' = <<Inner(w)>>
    /\ UNCHANGED <<receipts, at, logEntries, span, size, results>>

\* Faulty: the wrapper's own m_logEntries is left.
SetLogEntriesKeepsCache(w, logs) ==
    /\ Live(w) /\ Mutable(w)
    /\ MaySet(at[w]) /\ MayReplace({at[w]}, {w}) /\ MayDestroy(w)
    /\ receipts' = [receipts EXCEPT ![at[w]].data.logs = logs]
    /\ UNCHANGED <<at, logEntries, span, size, results, wire>>

SetLogEntries(w, logs) ==
    /\ Live(w) /\ Mutable(w)
    /\ MaySet(at[w]) /\ MayReplace({at[w]}, {w}) /\ MayDestroy(w)
    /\ logEntries' = [logEntries EXCEPT ![w] = <<>>]
    /\ receipts' = [receipts EXCEPT ![at[w]].data.logs = logs]
    /\ span' = [span EXCEPT ![w] = Destroyed(@)]
    /\ UNCHANGED <<at, size, results, wire>>

\* The receipts cs are overwritten with `inner'; no m_logEntries is cleared.
Overwrite(cs, inner) ==
    /\ MayReplace(cs, {})
    /\ receipts' = [c \in Cells |-> IF c \in cs THEN inner ELSE receipts[c]]
    /\ UNCHANGED <<at, logEntries, span, wire>>

Decode(w) ==
    /\ Live(w) /\ Mutable(w) /\ wire # <<>>
    /\ Overwrite({at[w]}, wire[1])
    /\ UNCHANGED <<size, results>>

\* setInner() with a copy of v's inner object.
SetInner(w, v) ==
    /\ Live(w) /\ Mutable(w) /\ Live(v)
    /\ Overwrite({at[w]}, Inner(v))
    /\ UNCHANGED <<size, results>>

-----------------------------------------------------------------------------
(* BlockImpl *)

AppendReceipt(w) ==
    /\ Live(w) /\ size < MaxReceipts
    /\ Overwrite({size + 1}, Inner(w))
    /\ size' = size + 1
    /\ UNCHANGED results

\* setReceipt() of a receipt that is there; BlockImpl has the others.
SetReceipt(w, i) ==
    /\ Live(w) /\ i <= size
    /\ Overwrite({i}, Inner(w))
    /\ UNCHANGED <<size, results>>

EncodeBlock(i) ==
    /\ i <= size
    /\ wire' = <<receipts[i]>>
    /\ UNCHANGED <<receipts, at, logEntries, span, size, results>>

\* decode() or setInner() of the whole block.
ReplaceBlock ==
    /\ wire # <<>> /\ size > 0
    /\ Overwrite(1 .. size, wire[1])
    /\ UNCHANGED <<size, results>>

-----------------------------------------------------------------------------
(* TransactionSubmitResultImpl *)

CreateResult(r) ==
    /\ r \notin results
    /\ Overwrite({r}, Blank)
    /\ results' = results \cup {r}
    /\ UNCHANGED size

\* The answer to asyncSubmit(), moved into a result that is handed to the callback.
ReceiveResult(r) ==
    /\ r \notin results /\ wire # <<>>
    /\ Overwrite({r}, wire[1])
    /\ results' = results \cup {r}
    /\ UNCHANGED size

\* Faulty: the hash the result came with is kept.
SetTransactionReceiptData(r, w) ==
    /\ r \in results /\ Live(w)
    /\ Overwrite({r}, [receipts[r] EXCEPT !.data = Inner(w).data])
    /\ UNCHANGED <<size, results>>

SetTransactionReceipt(r, w) ==
    /\ r \in results /\ Live(w)
    /\ Overwrite({r}, Inner(w))
    /\ UNCHANGED <<size, results>>

\* asyncNotifyBlockResult() sends copies.
NotifyBlockResult(r) ==
    /\ r \in results
    /\ wire' = <<receipts[r]>>
    /\ UNCHANGED <<receipts, at, logEntries, span, size, results>>

\* The last shared_ptr to the result goes away.
ReleaseResult(r) ==
    /\ r \in results
    /\ MayFree(r)
    /\ results' = results \ {r}
    /\ receipts' = [receipts EXCEPT ![r] = Blank]
    /\ at' = [w \in Wrappers |-> IF at[w] = r THEN Gone ELSE at[w]]
    /\ UNCHANGED <<logEntries, span, size, wire>>

-----------------------------------------------------------------------------
Creates(w) ==
    \/ \E d \in Data : CreateReceipt(w, d)
    \/ CreateFromBytes(w)
    \/ \E i \in Slots : ViewReceipt(w, i)
    \/ \E r \in Results : TransactionReceipt(w, r)

Reads(w) == ComputeHash(w) \/ ReadLogEntries(w) \/ EndRead(w) \/ Encode(w)

Writes(w) ==
    \/ \E logs \in Logs : SetLogEntries(w, logs)
    \/ Decode(w)
    \/ \E v \in Wrappers : SetInner(w, v)
    \/ AppendReceipt(w)
    \/ \E i \in Slots : SetReceipt(w, i)
    \/ \E r \in Results : SetTransactionReceipt(r, w)

BlockSteps == (\E i \in Slots : EncodeBlock(i)) \/ ReplaceBlock

ResultSteps(r) ==
    CreateResult(r) \/ ReceiveResult(r) \/ NotifyBlockResult(r) \/ ReleaseResult(r)

Next ==
    \/ \E w \in Wrappers : Creates(w) \/ Reads(w) \/ Writes(w) \/ Release(w)
    \/ BlockSteps
    \/ \E r \in Results : ResultSteps(r)

Spec == Init /\ [][Next]_vars
-----------------------------------------------------------------------------
\* hash() returns dataHash without a look at the data when there is one, and every
\* encoding sends it: in every receipt, of a wrapper, a block or a submit result,
\* and on the wire, a dataHash is the hash of the data it is stored with.
HashOfReceipt ==
    \A inner \in {receipts[c] : c \in Cells} \cup {wire[i] : i \in DOMAIN wire} :
        inner.dataHash \in {<<>>, <<Hash(inner.data)>>}

\* logEntries() returns the entries of the receipt as it is now, through whichever
\* wrapper, block or result it was changed and whichever wrapper is asked.
LogEntriesCurrent == \A w \in Wrappers : Live(w) => LogEntries(w) = Inner(w).data.logs

\* No caller is left with a span whose entries were destroyed, by the wrapper's end
\* or by a conversion that ran again, or with a receipt of a freed submit result.
NothingDangles == \A w \in Wrappers : span[w] # "dangling" /\ at[w] # Gone
=============================================================================
