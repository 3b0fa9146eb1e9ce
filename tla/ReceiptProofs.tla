----------------------------- MODULE ReceiptProofs -----------------------------
(* Proofs about TransactionReceiptImpl, for any wrappers, results, receipts of *)
(* the block and log entries.                                                  *)
EXTENDS TransactionReceiptImpl, TLAPS

-----------------------------------------------------------------------------
(* Lemmas about receipts. *)

LEMMA OptionalElement ==
    ASSUME NEW S, NEW o \in Optional(S), o # <<>>
    PROVE  o[1] \in S /\ o = <<o[1]>>
BY DEF Optional

LEMMA OptionalIntro ==
    ASSUME NEW S, NEW v \in S
    PROVE  <<v>> \in Optional(S) /\ <<v>> # <<>>
BY DEF Optional

LEMMA BlankType == Blank \in Inners
BY DataAssumption DEF Blank, Inners, Data, Optional

LEMMA NewType ==
    ASSUME NEW d \in Data
    PROVE  [data |-> d, dataHash |-> <<>>] \in Inners
BY DEF Inners, Optional

\* A live wrapper reaches a receipt.
LEMMA InnerType ==
    ASSUME TypeOK, NEW w \in Wrappers, Live(w)
    PROVE  at[w] \in Cells /\ Inner(w) = receipts[at[w]] /\ Inner(w) \in Inners
BY DEF TypeOK, Live, Inner

LEMMA SlotCells == \A i \in Slots : i \in Cells
BY DEF Cells

LEMMA SlotRange ==
    ASSUME TypeOK
    PROVE  /\ \A i \in Slots : i \in Nat
           /\ size < MaxReceipts => size + 1 \in Slots
           /\ 1 .. size \subseteq Slots
BY BoundAssumption DEF TypeOK, Slots

LEMMA SetHashType ==
    ASSUME NEW inner \in Inners
    PROVE  [inner EXCEPT !.dataHash = <<Hash(inner.data)>>] \in Inners
<1>1. inner.data \in Data
  BY DEF Inners
<1>2. <<Hash(inner.data)>> \in Optional({Hash(d) : d \in Data})
  BY <1>1 DEF Optional
<1> QED BY <1>2 DEF Inners

LEMMA SetLogsType ==
    ASSUME NEW inner \in Inners, NEW logs \in Logs
    PROVE  [inner EXCEPT !.data.logs = logs] \in Inners
BY DEF Inners, Data

LEMMA LogEntriesType ==
    ASSUME TypeOK, NEW w \in Wrappers, Live(w)
    PROVE  LogEntries(w) \in Logs
BY InnerType DEF LogEntries, TypeOK, Inners, Data

-----------------------------------------------------------------------------
(* What the operations do to the inner objects: they write one receipt, or     *)
(* overwrite a set of them with another one's value, or leave them alone.      *)

\* A receipt that came to be where another one was: blank, from the wire, or a
\* copy of one that is there.
Copied(inner) ==
    \/ inner = Blank
    \/ wire # <<>> /\ inner = wire[1]
    \/ \E c \in Cells : inner = receipts[c]

Overwrites == \E cs \in SUBSET Cells, inner \in Inners : Copied(inner) /\ Overwrite(cs, inner)

LEMMA CopiedType ==
    ASSUME TypeOK, NEW inner, Copied(inner)
    PROVE  inner \in Inners
BY BlankType, OptionalElement DEF Copied, TypeOK

LEMMA WriteOverwrites ==
    ASSUME TypeOK, NEW w \in Wrappers, Writes(w)
    PROVE  \/ \E logs \in Logs : SetLogEntries(w, logs)
           \/ Overwrites /\ size' \in 0 .. MaxReceipts /\ UNCHANGED results
<1>1. size \in 0 .. MaxReceipts
  BY DEF TypeOK
<1>2. ASSUME NEW v \in Wrappers, Live(v)
      PROVE  Copied(Inner(v)) /\ Inner(v) \in Inners
  BY <1>2, InnerType DEF Copied
<1>3. CASE Decode(w)
  <2>1. Copied(wire[1]) /\ wire[1] \in Inners /\ {at[w]} \in SUBSET Cells
    BY <1>3, CopiedType, InnerType DEF Decode, Copied
  <2> QED BY <1>1, <1>3, <2>1 DEF Decode, Overwrites
<1>4. ASSUME NEW v \in Wrappers, SetInner(w, v)
      PROVE  Overwrites /\ UNCHANGED <<size, results>>
  <2>1. {at[w]} \in SUBSET Cells
    BY <1>4, InnerType DEF SetInner
  <2> QED BY <1>2, <1>4, <2>1 DEF SetInner, Overwrites
<1>5. CASE AppendReceipt(w)
  <2>1. {size + 1} \in SUBSET Cells /\ size + 1 \in 0 .. MaxReceipts
    BY <1>1, <1>5, SlotRange, SlotCells, BoundAssumption DEF AppendReceipt
  <2> QED BY <1>2, <1>5, <2>1 DEF AppendReceipt, Overwrites
<1>6. ASSUME NEW i \in Slots, SetReceipt(w, i)
      PROVE  Overwrites /\ UNCHANGED <<size, results>>
  <2>1. {i} \in SUBSET Cells
    BY SlotCells
  <2> QED BY <1>2, <1>6, <2>1 DEF SetReceipt, Overwrites
<1>7. ASSUME NEW r \in Results, SetTransactionReceipt(r, w)
      PROVE  Overwrites /\ UNCHANGED <<size, results>>
  <2>1. {r} \in SUBSET Cells
    BY DEF Cells
  <2> QED BY <1>2, <1>7, <2>1 DEF SetTransactionReceipt, Overwrites
<1> QED BY <1>1, <1>3, <1>4, <1>5, <1>6, <1>7 DEF Writes

LEMMA BlockOverwrites ==
    ASSUME TypeOK, BlockSteps
    PROVE  \/ \E i \in Slots : EncodeBlock(i)
           \/ Overwrites /\ UNCHANGED <<size, results>>
<1>1. CASE ReplaceBlock
  <2>1. Copied(wire[1]) /\ wire[1] \in Inners
    BY <1>1, CopiedType DEF ReplaceBlock, Copied
  <2>2. 1 .. size \in SUBSET Cells
    BY SlotRange, SlotCells
  <2> QED BY <1>1, <2>1, <2>2 DEF ReplaceBlock, Overwrites
<1> QED BY <1>1 DEF BlockSteps

LEMMA ResultOverwrites ==
    ASSUME TypeOK, NEW r \in Results, ResultSteps(r)
    PROVE  \/ NotifyBlockResult(r) \/ ReleaseResult(r)
           \/ Overwrites /\ UNCHANGED size /\ results' \subseteq Results
<1>1. {r} \in SUBSET Cells
  BY DEF Cells
<1>2. CASE CreateResult(r)
  <2>1. Copied(Blank)
    BY DEF Copied
  <2> QED BY <1>1, <1>2, <2>1, BlankType DEF CreateResult, Overwrites, TypeOK
<1>3. CASE ReceiveResult(r)
  <2>1. Copied(wire[1]) /\ wire[1] \in Inners
    BY <1>3, CopiedType DEF ReceiveResult, Copied
  <2> QED BY <1>1, <1>3, <2>1 DEF ReceiveResult, Overwrites, TypeOK
<1> QED BY <1>2, <1>3 DEF ResultSteps

\* Making a wrapper places it, and writes at most its own receipt.
Makes(w) ==
    \E c \in {w} \cup Slots \cup Results :
        /\ NewWrapper(w, c)
        /\ \/ UNCHANGED receipts
           \/ \E inner \in Inners :
                 /\ inner.dataHash = <<>> \/ Copied(inner)
                 /\ c = w /\ receipts' = [receipts EXCEPT ![w] = inner]

LEMMA CreateMakes ==
    ASSUME TypeOK, NEW w \in Wrappers, Creates(w)
    PROVE  Makes(w)
<1>1. ASSUME NEW d \in Data, CreateReceipt(w, d)
      PROVE  Makes(w)
  <2>1. [data |-> d, dataHash |-> <<>>] \in Inners
    BY NewType
  <2> QED BY <1>1, <2>1 DEF CreateReceipt, Makes
<1>2. CASE CreateFromBytes(w)
  <2>1. Copied(wire[1]) /\ wire[1] \in Inners
    BY <1>2, CopiedType DEF CreateFromBytes, Copied
  <2> QED BY <1>2, <2>1 DEF CreateFromBytes, Makes
<1>3. ASSUME NEW i \in Slots, ViewReceipt(w, i)
      PROVE  Makes(w)
  BY <1>3 DEF ViewReceipt, Makes
<1>4. ASSUME NEW r \in Results, TransactionReceipt(w, r)
      PROVE  Makes(w)
  BY <1>4 DEF TransactionReceipt, Makes
<1> QED BY <1>1, <1>2, <1>3, <1>4 DEF Creates

-----------------------------------------------------------------------------
(* Type correctness. *)

LEMMA OverwriteType ==
    ASSUME TypeOK, Overwrites, size' \in 0 .. MaxReceipts, results' \subseteq Results
    PROVE  TypeOK'
BY DEF Overwrites, Overwrite, TypeOK

LEMMA MakeType ==
    ASSUME TypeOK, NEW w \in Wrappers, Makes(w)
    PROVE  TypeOK'
<1>1. PICK c \in {w} \cup Slots \cup Results :
         /\ NewWrapper(w, c)
         /\ \/ UNCHANGED receipts
            \/ \E inner \in Inners : receipts' = [receipts EXCEPT ![w] = inner]
  BY DEF Makes
<1>2. c \in Cells /\ w \in Cells
  BY DEF Cells
<1>3. receipts' \in [Cells -> Inners]
  BY <1>1, <1>2 DEF TypeOK
<1> QED BY <1>1, <1>2, <1>3 DEF NewWrapper, TypeOK

LEMMA ReadType ==
    ASSUME TypeOK, NEW w \in Wrappers, Reads(w)
    PROVE  TypeOK'
<1>1. CASE ComputeHash(w)
  <2>1. at[w] \in Cells /\ Inner(w) = receipts[at[w]] /\ Inner(w) \in Inners
    BY <1>1, InnerType DEF ComputeHash
  <2> DEFINE hashed == [Inner(w) EXCEPT !.dataHash = <<Hash(Inner(w).data)>>]
  <2>2. hashed \in Inners
    BY <2>1, SetHashType
  <2>3. receipts' = [receipts EXCEPT ![at[w]] = hashed]
    BY <1>1, <2>1 DEF ComputeHash
  <2> HIDE DEF hashed
  <2> QED BY <1>1, <2>1, <2>2, <2>3 DEF ComputeHash, TypeOK
<1>2. CASE ReadLogEntries(w)
  BY <1>2, LogEntriesType DEF ReadLogEntries, TypeOK
<1>3. CASE EndRead(w)
  BY <1>3 DEF EndRead, TypeOK
<1>4. CASE Encode(w)
  BY <1>4, InnerType, OptionalIntro DEF Encode, TypeOK
<1> QED BY <1>1, <1>2, <1>3, <1>4 DEF Reads

LEMMA SetType ==
    ASSUME TypeOK, NEW w \in Wrappers, NEW logs \in Logs, SetLogEntries(w, logs)
    PROVE  TypeOK'
<1>1. at[w] \in Cells /\ Inner(w) = receipts[at[w]] /\ Inner(w) \in Inners
  BY InnerType DEF SetLogEntries
<1> DEFINE inner == [Inner(w) EXCEPT !.data.logs = logs]
<1>2. inner \in Inners
  BY <1>1, SetLogsType
<1>3. receipts' = [receipts EXCEPT ![at[w]] = inner]
  BY <1>1 DEF SetLogEntries
<1> HIDE DEF inner
<1> QED BY <1>1, <1>2, <1>3, DataAssumption DEF SetLogEntries, Destroyed, TypeOK

LEMMA ReleaseType ==
    ASSUME TypeOK, NEW w \in Wrappers, Release(w)
    PROVE  TypeOK'
BY BlankType, DataAssumption DEF Release, Destroyed, TypeOK

LEMMA SendType ==
    ASSUME TypeOK, NEW c \in Cells, wire' = <<receipts[c]>>,
           UNCHANGED <<receipts, at, logEntries, span, size, results>>
    PROVE  TypeOK'
BY OptionalIntro DEF TypeOK

LEMMA ReleaseResultType ==
    ASSUME TypeOK, NEW r \in Results, ReleaseResult(r)
    PROVE  TypeOK'
BY BlankType DEF ReleaseResult, TypeOK

LEMMA NextType == TypeOK /\ [Next]_vars => TypeOK'
<1> SUFFICES ASSUME TypeOK, [Next]_vars
             PROVE  TypeOK'
  OBVIOUS
<1>1. CASE UNCHANGED vars
  BY <1>1 DEF vars, TypeOK
<1>2. ASSUME NEW w \in Wrappers, Creates(w) \/ Reads(w) \/ Release(w)
      PROVE  TypeOK'
  BY <1>2, CreateMakes, MakeType, ReadType, ReleaseType
<1>3. ASSUME NEW w \in Wrappers, Writes(w)
      PROVE  TypeOK'
  <2>1. CASE \E logs \in Logs : SetLogEntries(w, logs)
    BY <2>1, SetType
  <2>2. CASE Overwrites /\ size' \in 0 .. MaxReceipts /\ UNCHANGED results
    BY <2>2, OverwriteType DEF TypeOK
  <2> QED BY <1>3, <2>1, <2>2, WriteOverwrites
<1>4. CASE BlockSteps
  <2>1. ASSUME NEW i \in Slots, EncodeBlock(i)
        PROVE  TypeOK'
    BY <2>1, SendType, SlotCells DEF EncodeBlock
  <2>2. CASE Overwrites /\ UNCHANGED <<size, results>>
    BY <2>2, OverwriteType DEF TypeOK
  <2> QED BY <1>4, <2>1, <2>2, BlockOverwrites
<1>5. ASSUME NEW r \in Results, ResultSteps(r)
      PROVE  TypeOK'
  <2>1. CASE NotifyBlockResult(r)
    BY <2>1, SendType DEF NotifyBlockResult, Cells
  <2>2. CASE ReleaseResult(r)
    BY <2>2, ReleaseResultType
  <2>3. CASE Overwrites /\ UNCHANGED size /\ results' \subseteq Results
    BY <2>3, OverwriteType DEF TypeOK
  <2> QED BY <1>5, <2>1, <2>2, <2>3, ResultOverwrites
<1> QED BY <1>1, <1>2, <1>3, <1>4, <1>5 DEF Next

\* Every reachable state of the receipts, in wrappers, block and submit results, is
\* of the declared type, whatever the callers do.
THEOREM TypeCorrect == Spec => []TypeOK
<1>1. Init => TypeOK
  BY BlankType, DataAssumption, BoundAssumption DEF Init, TypeOK, Optional
<1> QED BY <1>1, NextType, PTL DEF Spec

-----------------------------------------------------------------------------
(* Callers that keep to "freeze": the hashes. *)

HashOk(inner) == inner.dataHash \in {<<>>, <<Hash(inner.data)>>}

ReceiptsHashed == \A c \in Cells : HashOk(receipts[c])
WireHashed == wire # <<>> => HashOk(wire[1])

HashInv == TypeOK /\ ReceiptsHashed /\ WireHashed

LEMMA BlankHashed == HashOk(Blank)
BY DEF HashOk, Blank

LEMMA CopiedHashed ==
    ASSUME HashInv, NEW inner, Copied(inner)
    PROVE  HashOk(inner)
BY BlankHashed DEF HashInv, ReceiptsHashed, WireHashed, Copied

LEMMA OverwriteHashed ==
    ASSUME HashInv, Overwrites
    PROVE  ReceiptsHashed' /\ WireHashed'
BY CopiedHashed DEF Overwrites, Overwrite, HashInv, ReceiptsHashed, WireHashed

\* Writing a receipt whose hash is right, or none, keeps every hash right.
LEMMA WriteHashed ==
    ASSUME HashInv, NEW c \in Cells, NEW inner, HashOk(inner),
           receipts' = [receipts EXCEPT ![c] = inner],
           UNCHANGED wire
    PROVE  ReceiptsHashed' /\ WireHashed'
BY DEF HashInv, TypeOK, ReceiptsHashed, WireHashed

LEMMA SendHashed ==
    ASSUME HashInv, NEW c \in Cells, wire' = <<receipts[c]>>, UNCHANGED receipts
    PROVE  ReceiptsHashed' /\ WireHashed'
BY DEF HashInv, ReceiptsHashed, WireHashed

LEMMA MakeHashed ==
    ASSUME HashInv, NEW w \in Wrappers, Makes(w)
    PROVE  ReceiptsHashed' /\ WireHashed'
<1>1. UNCHANGED wire
  BY DEF Makes, NewWrapper
<1>2. CASE UNCHANGED receipts
  BY <1>1, <1>2 DEF HashInv, ReceiptsHashed, WireHashed
<1>3. ASSUME NEW inner \in Inners, inner.dataHash = <<>> \/ Copied(inner),
             receipts' = [receipts EXCEPT ![w] = inner]
      PROVE  ReceiptsHashed' /\ WireHashed'
  <2>1. HashOk(inner)
    BY <1>3, CopiedHashed DEF HashOk
  <2>2. w \in Cells
    BY DEF Cells
  <2> QED BY <1>1, <1>3, <2>1, <2>2, WriteHashed
<1> QED BY <1>2, <1>3 DEF Makes

LEMMA ReadHashed ==
    ASSUME HashInv, NEW w \in Wrappers, Reads(w)
    PROVE  ReceiptsHashed' /\ WireHashed'
<1>1. CASE ComputeHash(w)
  <2>1. at[w] \in Cells /\ Inner(w) = receipts[at[w]] /\ Inner(w) \in Inners
    BY <1>1, InnerType DEF ComputeHash, HashInv
  <2> DEFINE hashed == [Inner(w) EXCEPT !.dataHash = <<Hash(Inner(w).data)>>]
  <2>2. receipts' = [receipts EXCEPT ![at[w]] = hashed]
    BY <1>1, <2>1 DEF ComputeHash
  <2>3. HashOk(hashed)
    BY <2>1 DEF HashOk, Inners
  <2> HIDE DEF hashed
  <2> QED BY <1>1, <2>1, <2>2, <2>3, WriteHashed DEF ComputeHash
<1>2. CASE Encode(w)
  BY <1>2, InnerType, SendHashed DEF Encode, HashInv
<1>3. CASE ReadLogEntries(w) \/ EndRead(w)
  BY <1>3 DEF ReadLogEntries, EndRead, HashInv, ReceiptsHashed, WireHashed
<1> QED BY <1>1, <1>2, <1>3 DEF Reads

LEMMA SetHashed ==
    ASSUME "freeze" \in CallerRules, HashInv, NEW w \in Wrappers, NEW logs \in Logs,
           SetLogEntries(w, logs)
    PROVE  ReceiptsHashed' /\ WireHashed'
<1>1. at[w] \in Cells /\ Inner(w) = receipts[at[w]] /\ Inner(w) \in Inners
  BY InnerType DEF SetLogEntries, HashInv
<1> DEFINE inner == [Inner(w) EXCEPT !.data.logs = logs]
<1>2. receipts' = [receipts EXCEPT ![at[w]] = inner]
  BY <1>1 DEF SetLogEntries
<1>3. inner.dataHash = <<>>
  BY <1>1 DEF SetLogEntries, MaySet, Inners
<1>4. HashOk(inner)
  BY <1>3 DEF HashOk
<1> HIDE DEF inner
<1> QED BY <1>1, <1>2, <1>4, WriteHashed DEF SetLogEntries

LEMMA NextHashed ==
    ASSUME "freeze" \in CallerRules, HashInv, [Next]_vars
    PROVE  HashInv'
<1>t. TypeOK /\ TypeOK'
  BY NextType DEF HashInv
<1> SUFFICES ReceiptsHashed' /\ WireHashed'
  BY <1>t DEF HashInv
<1>1. CASE UNCHANGED vars
  BY <1>1 DEF vars, HashInv, ReceiptsHashed, WireHashed
<1>2. ASSUME NEW w \in Wrappers, Creates(w) \/ Reads(w)
      PROVE  ReceiptsHashed' /\ WireHashed'
  BY <1>t, <1>2, CreateMakes, MakeHashed, ReadHashed
<1>3. ASSUME NEW w \in Wrappers, Writes(w)
      PROVE  ReceiptsHashed' /\ WireHashed'
  BY <1>t, <1>3, WriteOverwrites, OverwriteHashed, SetHashed
<1>4. ASSUME NEW w \in Wrappers, Release(w)
      PROVE  ReceiptsHashed' /\ WireHashed'
  BY <1>4, BlankHashed DEF Release, HashInv, TypeOK, ReceiptsHashed, WireHashed
<1>5. CASE BlockSteps
  BY <1>t, <1>5, BlockOverwrites, OverwriteHashed, SendHashed, SlotCells DEF EncodeBlock
<1>6. ASSUME NEW r \in Results, ResultSteps(r)
      PROVE  ReceiptsHashed' /\ WireHashed'
  <2>1. CASE NotifyBlockResult(r)
    BY <2>1, SendHashed DEF NotifyBlockResult, Cells
  <2>2. CASE ReleaseResult(r)
    BY <2>2, BlankHashed DEF ReleaseResult, HashInv, TypeOK, ReceiptsHashed, WireHashed
  <2> QED BY <1>t, <1>6, <2>1, <2>2, ResultOverwrites, OverwriteHashed
<1> QED BY <1>1, <1>2, <1>3, <1>4, <1>5, <1>6 DEF Next

\* With callers that set log entries only before they hash, every hash a receipt
\* gives (hash(), and dataHash in what is encoded) is of the data it stands with,
\* in wrappers, the block, submit results and on the wire.
THEOREM ReceiptHashesAreRight ==
    ASSUME "freeze" \in CallerRules
    PROVE  Spec => []HashOfReceipt
<1>1. Init => HashInv
  <2> SUFFICES ASSUME Init
               PROVE  HashInv
    OBVIOUS
  <2>1. TypeOK
    BY BlankType, DataAssumption, BoundAssumption DEF Init, TypeOK, Optional
  <2> QED BY <2>1, BlankHashed DEF Init, HashInv, ReceiptsHashed, WireHashed
<1>2. HashInv => HashOfReceipt
  <2> SUFFICES ASSUME HashInv, NEW i \in DOMAIN wire
               PROVE  HashOk(wire[i])
    BY DEF HashInv, ReceiptsHashed, HashOfReceipt, HashOk
  <2>1. wire # <<>>
    OBVIOUS
  <2>2. wire = <<wire[1]>>
    BY <2>1, OptionalElement DEF HashInv, TypeOK
  <2>3. i = 1
    BY <2>2
  <2> QED BY <2>1, <2>3 DEF HashInv, WireHashed
<1> QED BY <1>1, <1>2, NextHashed, PTL DEF Spec

-----------------------------------------------------------------------------
(* Callers that keep to "fresh": the log entries. *)

\* A wrapper that does not exist has nothing cached: the next one to take its
\* place starts empty.  Without this a view could bring an old cache back.
DeadIsEmpty == \A w \in Wrappers : at[w] = NoCell => logEntries[w] = <<>>

\* No wrapper's getter returns another wrapper's own receipt.
Placed == \A w \in Wrappers : at[w] \in {w, NoCell, Gone} \cup Slots \cup Results

LogsInv == TypeOK /\ LogEntriesCurrent /\ DeadIsEmpty /\ Placed

\* The caches and the receipts' log entries are as they were.
LEMMA SameLogs ==
    ASSUME LogsInv, UNCHANGED <<at, logEntries>>,
           \A c \in Cells : receipts'[c].data.logs = receipts[c].data.logs
    PROVE  LogEntriesCurrent' /\ DeadIsEmpty' /\ Placed'
<1>1. ASSUME NEW w \in Wrappers, Live(w)
      PROVE  LogEntries(w)' = LogEntries(w) /\ Inner(w)'.data.logs = Inner(w).data.logs
  BY <1>1 DEF Live, LogEntries, Inner
<1> QED BY <1>1 DEF LogsInv, LogEntriesCurrent, DeadIsEmpty, Placed, Live

LEMMA OverwriteLogs ==
    ASSUME "fresh" \in CallerRules, LogsInv, Overwrites
    PROVE  LogEntriesCurrent' /\ DeadIsEmpty' /\ Placed'
<1>1. PICK cs \in SUBSET Cells, inner \in Inners : Overwrite(cs, inner)
  BY DEF Overwrites
<1>2. UNCHANGED <<at, logEntries>>
  BY <1>1 DEF Overwrite
<1>3. ASSUME NEW w \in Wrappers, Live(w)
      PROVE  (LogEntries(w) = Inner(w).data.logs)'
  <2>1. CASE at[w] \in cs
    BY <1>1, <1>2, <2>1 DEF Overwrite, MayReplace, Fresh, LogEntries
  <2>2. CASE at[w] \notin cs
    <3>1. Inner(w)' = Inner(w)
      BY <1>1, <1>2, <1>3, <2>2 DEF Overwrite, Inner, Live
    <3> QED BY <1>2, <1>3, <3>1 DEF LogsInv, LogEntriesCurrent, LogEntries
  <2> QED BY <2>1, <2>2
<1> QED BY <1>2, <1>3 DEF LogsInv, LogEntriesCurrent, DeadIsEmpty, Placed, Live

LEMMA MakeLogs ==
    ASSUME LogsInv, NEW w \in Wrappers, Makes(w)
    PROVE  LogEntriesCurrent' /\ DeadIsEmpty' /\ Placed'
<1>1. PICK c \in {w} \cup Slots \cup Results :
         /\ NewWrapper(w, c)
         /\ \/ UNCHANGED receipts
            \/ \E inner \in Inners : receipts' = [receipts EXCEPT ![w] = inner]
  BY DEF Makes
<1>2. at[w] = NoCell /\ logEntries[w] = <<>> /\ UNCHANGED logEntries
      /\ at' = [at EXCEPT ![w] = c]
  BY <1>1 DEF NewWrapper, LogsInv, DeadIsEmpty
<1>3. DeadIsEmpty' /\ Placed'
  BY <1>2 DEF LogsInv, DeadIsEmpty, Placed, TypeOK
<1>4. ASSUME NEW v \in Wrappers, Live(v)'
      PROVE  (LogEntries(v) = Inner(v).data.logs)'
  <2>1. CASE v = w
    BY <1>2, <2>1 DEF LogEntries
  <2>2. CASE v # w
    <3>1. Live(v) /\ at'[v] = at[v] /\ at[v] \in Cells
      BY <1>2, <1>4, <2>2 DEF LogsInv, TypeOK, Live, Cells
    <3>2. at[v] # w
      BY <2>2, <3>1, CellsAssumption DEF LogsInv, Placed
    <3>3. receipts'[at[v]] = receipts[at[v]]
      BY <1>1, <3>1, <3>2 DEF LogsInv, TypeOK
    <3> QED BY <1>2, <3>1, <3>3 DEF LogsInv, LogEntriesCurrent, LogEntries, Inner
  <2> QED BY <2>1, <2>2
<1> QED BY <1>3, <1>4 DEF LogEntriesCurrent

LEMMA ReadLogs ==
    ASSUME LogsInv, NEW w \in Wrappers, Reads(w)
    PROVE  LogEntriesCurrent' /\ DeadIsEmpty' /\ Placed'
<1>1. CASE ComputeHash(w)
  <2>1. at[w] \in Cells /\ Inner(w) = receipts[at[w]] /\ Inner(w) \in Inners
    BY <1>1, InnerType DEF ComputeHash, LogsInv
  <2>2. \A c \in Cells : receipts'[c].data.logs = receipts[c].data.logs
    BY <1>1, <2>1 DEF ComputeHash, LogsInv, TypeOK, Inners
  <2> QED BY <1>1, <2>2, SameLogs DEF ComputeHash
<1>2. CASE ReadLogEntries(w)
  <2>1. LogEntries(w) = Inner(w).data.logs /\ Live(w)
    BY <1>2 DEF ReadLogEntries, LogsInv, LogEntriesCurrent
  <2>2. DeadIsEmpty' /\ Placed'
    BY <1>2, CellsAssumption DEF ReadLogEntries, LogsInv, DeadIsEmpty, Placed, Live, TypeOK, Cells
  <2>3. LogEntriesCurrent'
    BY <1>2, <2>1 DEF ReadLogEntries, LogsInv, LogEntriesCurrent, LogEntries, Inner, Live, TypeOK
  <2> QED BY <2>2, <2>3
<1>3. CASE EndRead(w) \/ Encode(w)
  BY <1>3, SameLogs DEF EndRead, Encode
<1> QED BY <1>1, <1>2, <1>3 DEF Reads

LEMMA SetLogs ==
    ASSUME "fresh" \in CallerRules, LogsInv, NEW w \in Wrappers, NEW logs \in Logs,
           SetLogEntries(w, logs)
    PROVE  LogEntriesCurrent' /\ DeadIsEmpty' /\ Placed'
<1>1. DeadIsEmpty' /\ Placed'
  BY DEF SetLogEntries, LogsInv, DeadIsEmpty, Placed, TypeOK
<1>2. ASSUME NEW v \in Wrappers, Live(v)
      PROVE  (LogEntries(v) = Inner(v).data.logs)'
  <2>1. CASE at[v] = at[w]
    <3>1. logEntries'[v] = <<>>
      BY <2>1 DEF SetLogEntries, MayReplace, Fresh, LogsInv, TypeOK
    <3> QED BY <3>1 DEF LogEntries
  <2>2. CASE at[v] # at[w]
    <3>1. Inner(v)' = Inner(v) /\ logEntries'[v] = logEntries[v]
      BY <1>2, <2>2 DEF SetLogEntries, Inner, LogsInv, TypeOK, Live
    <3> QED BY <1>2, <3>1 DEF LogsInv, LogEntriesCurrent, LogEntries
  <2> QED BY <2>1, <2>2
<1> QED BY <1>1, <1>2 DEF SetLogEntries, LogEntriesCurrent, Live

LEMMA ReleaseLogs ==
    ASSUME LogsInv, NEW w \in Wrappers, Release(w)
    PROVE  LogEntriesCurrent' /\ DeadIsEmpty' /\ Placed'
<1>1. DeadIsEmpty' /\ Placed'
  BY DEF Release, LogsInv, DeadIsEmpty, Placed, TypeOK
<1>2. ASSUME NEW v \in Wrappers, Live(v)'
      PROVE  (LogEntries(v) = Inner(v).data.logs)'
  <2>1. v # w /\ at'[v] = at[v] /\ logEntries'[v] = logEntries[v] /\ Live(v)
    BY <1>2, CellsAssumption DEF Release, Live, LogsInv, TypeOK, Cells
  <2>2. at[v] # w /\ at[v] \in Cells
    BY <2>1, CellsAssumption DEF LogsInv, Placed, Live
  <2>3. receipts'[at[v]] = receipts[at[v]]
    BY <2>2 DEF Release, LogsInv, TypeOK
  <2> QED BY <2>1, <2>3 DEF LogsInv, LogEntriesCurrent, LogEntries, Inner
<1> QED BY <1>1, <1>2 DEF LogEntriesCurrent

LEMMA ReleaseResultLogs ==
    ASSUME LogsInv, NEW r \in Results, ReleaseResult(r)
    PROVE  LogEntriesCurrent' /\ DeadIsEmpty' /\ Placed'
<1>1. DeadIsEmpty' /\ Placed'
  BY CellsAssumption DEF ReleaseResult, LogsInv, DeadIsEmpty, Placed, TypeOK
<1>2. ASSUME NEW v \in Wrappers, Live(v)'
      PROVE  (LogEntries(v) = Inner(v).data.logs)'
  <2>1. at[v] # r /\ at'[v] = at[v] /\ Live(v)
    BY <1>2, CellsAssumption DEF ReleaseResult, Live, LogsInv, TypeOK, Cells
  <2>2. receipts'[at[v]] = receipts[at[v]]
    BY <2>1 DEF ReleaseResult, LogsInv, TypeOK, Live
  <2> QED BY <2>1, <2>2 DEF ReleaseResult, LogsInv, LogEntriesCurrent, LogEntries, Inner
<1> QED BY <1>1, <1>2 DEF LogEntriesCurrent

LEMMA NextLogs ==
    ASSUME "fresh" \in CallerRules, LogsInv, [Next]_vars
    PROVE  LogsInv'
<1>t. TypeOK /\ TypeOK'
  BY NextType DEF LogsInv
<1> DEFINE Goal == LogEntriesCurrent' /\ DeadIsEmpty' /\ Placed'
<1> SUFFICES Goal
  BY <1>t DEF LogsInv
<1>1. CASE UNCHANGED vars
  BY <1>1, SameLogs DEF vars
<1>2. ASSUME NEW w \in Wrappers, Creates(w) \/ Reads(w) \/ Release(w)
      PROVE  Goal
  BY <1>t, <1>2, CreateMakes, MakeLogs, ReadLogs, ReleaseLogs
<1>3. ASSUME NEW w \in Wrappers, Writes(w)
      PROVE  Goal
  BY <1>t, <1>3, WriteOverwrites, OverwriteLogs, SetLogs
<1>4. CASE BlockSteps
  <2>1. ASSUME NEW i \in Slots, EncodeBlock(i)
        PROVE  Goal
    BY <2>1, SameLogs DEF EncodeBlock
  <2> QED BY <1>t, <1>4, <2>1, BlockOverwrites, OverwriteLogs
<1>5. ASSUME NEW r \in Results, ResultSteps(r)
      PROVE  Goal
  <2>1. CASE NotifyBlockResult(r)
    BY <2>1, SameLogs DEF NotifyBlockResult
  <2> QED BY <1>t, <1>5, <2>1, ResultOverwrites, OverwriteLogs, ReleaseResultLogs
<1> QED BY <1>1, <1>2, <1>3, <1>4, <1>5 DEF Next

\* With callers that replace a receipt only while its entries are cached by nobody
\* else, logEntries() returns the entries of the receipt as it is, whichever
\* wrapper is asked.
THEOREM ReceiptLogsAreRight ==
    ASSUME "fresh" \in CallerRules
    PROVE  Spec => []LogEntriesCurrent
<1>1. Init => LogsInv
  <2> SUFFICES ASSUME Init
               PROVE  LogsInv
    OBVIOUS
  <2>1. TypeOK
    BY BlankType, DataAssumption, BoundAssumption DEF Init, TypeOK, Optional
  <2> QED BY <2>1, CellsAssumption
          DEF Init, LogsInv, LogEntriesCurrent, DeadIsEmpty, Placed, Live, Cells
<1>2. LogsInv => LogEntriesCurrent
  BY DEF LogsInv
<1> QED BY <1>1, <1>2, NextLogs, PTL DEF Spec

-----------------------------------------------------------------------------
(* Callers that keep to "lifetime": spans and results. *)

LEMMA NextDangles ==
    ASSUME "lifetime" \in CallerRules, TypeOK, NothingDangles, [Next]_vars
    PROVE  NothingDangles'
<1>0. ASSUME UNCHANGED <<at, span>>
      PROVE  NothingDangles'
  BY <1>0 DEF NothingDangles
<1>a. ASSUME Overwrites
      PROVE  NothingDangles'
  BY <1>0, <1>a DEF Overwrites, Overwrite
<1>1. ASSUME NEW w \in Wrappers, Creates(w)
      PROVE  NothingDangles'
  <2>1. PICK c \in {w} \cup Slots \cup Results : NewWrapper(w, c)
    BY <1>1, CreateMakes DEF Makes
  <2> QED BY <2>1, CellsAssumption DEF NewWrapper, NothingDangles, TypeOK
<1>2. ASSUME NEW w \in Wrappers, Reads(w)
      PROVE  NothingDangles'
  BY <1>2 DEF Reads, ComputeHash, ReadLogEntries, EndRead, Encode, NothingDangles, TypeOK
<1>3. ASSUME NEW w \in Wrappers, NEW logs \in Logs, SetLogEntries(w, logs)
      PROVE  NothingDangles'
  BY <1>3 DEF SetLogEntries, MayDestroy, Destroyed, NothingDangles, TypeOK
<1>4. ASSUME NEW w \in Wrappers, Writes(w)
      PROVE  NothingDangles'
  BY <1>a, <1>3, <1>4, WriteOverwrites
<1>5. ASSUME NEW w \in Wrappers, Release(w)
      PROVE  NothingDangles'
  BY <1>5, CellsAssumption DEF Release, MayDestroy, Destroyed, NothingDangles, TypeOK
<1>6. CASE BlockSteps
  BY <1>0, <1>a, <1>6, BlockOverwrites DEF EncodeBlock
<1>7. ASSUME NEW r \in Results, ResultSteps(r)
      PROVE  NothingDangles'
  <2>1. CASE ReleaseResult(r)
    BY <2>1 DEF ReleaseResult, MayFree, NothingDangles, TypeOK
  <2> QED BY <1>0, <1>a, <1>7, <2>1, ResultOverwrites DEF NotifyBlockResult
<1>8. CASE UNCHANGED vars
  BY <1>0, <1>8 DEF vars
<1> QED BY <1>1, <1>2, <1>4, <1>5, <1>6, <1>7, <1>8 DEF Next

\* With callers that keep what they point into, a span stays whole through every
\* read of the receipt and every write by decode(), setInner(), block or result,
\* and no receipt of a submit result outlives it.
THEOREM LifetimePreventsDangling ==
    ASSUME "lifetime" \in CallerRules
    PROVE  Spec => []NothingDangles
<1>1. Init => TypeOK /\ NothingDangles
  BY BlankType, DataAssumption, BoundAssumption, CellsAssumption
     DEF Init, TypeOK, Optional, NothingDangles
<1>2. TypeOK /\ NothingDangles /\ [Next]_vars => TypeOK' /\ NothingDangles'
  BY NextType, NextDangles
<1> QED BY <1>1, <1>2, PTL DEF Spec
=============================================================================
