-------------------------- MODULE SharedObjectProofs --------------------------
(***************************************************************************)
(* Proofs about SharedObject, for any number of threads and wrappers.      *)
(***************************************************************************)
EXTENDS SharedObject, TLAPS

LEMMA TheOperations == kind \in Kinds => Operations \subseteq AllOperations
BY KindsAssumption DEF Operations, AllOperations, AllKinds

\* Every variable holds what it may, and only threads of the phase are busy.
THEOREM TypeCorrect == Spec => []TypeOK
<1>1. Init => TypeOK
  BY DEF Init, TypeOK, Steps, AllOperations, TransactionOperations
<1>2. TypeOK /\ [Next]_vars => TypeOK'
  <2> SUFFICES ASSUME TypeOK, [Next]_vars PROVE TypeOK'
    OBVIOUS
  <2> USE DEF TypeOK
  <2>1. CASE Replace
    BY <2>1 DEF Replace
  <2>2. CASE \E w \in Wrappers : NewWrapper(w)
    BY <2>2 DEF NewWrapper
  <2>3. CASE \E T \in SUBSET Threads, wrapperOf \in [Threads -> Wrappers] : Fork(T, wrapperOf)
    BY <2>3 DEF Fork, object
  <2>4. CASE Join
    BY <2>4 DEF Join, object
  <2>5. CASE \E t \in Threads : ThreadSteps(t)
    <3> SUFFICES ASSUME NEW t \in Threads, ThreadSteps(t) PROVE TypeOK'
      BY <2>5
    <3>1. ASSUME NEW operation \in Operations, Call(t, operation) PROVE TypeOK'
      <4>1. operation \in AllOperations
        BY <3>1, TheOperations
      <4>2. FirstStep(operation) \in Steps
        BY DEF FirstStep, Steps
      <4> QED BY <3>1, <4>1, <4>2 DEF Call, object
    <3>2. ASSUME t \in team, NEW step \in Steps, Goto(t, step)
          PROVE /\ pc' \in [Threads -> Steps]
                /\ team' = team /\ uses' = uses /\ op' = op /\ kind' = kind
                /\ \A u \in Threads \ team' : pc'[u] = "idle"
      BY <3>2 DEF Goto
    <3>3. \A step : At(t, step) /\ step # "idle" => t \in team
      BY DEF At
    <3>4. AfterCache(op[t]) \in Steps
      BY DEF AfterCache, Steps
    <3>5. CASE TestSender(t) \/ TestHash(t) \/ TestCache(t) \/ FillCache(t)
      BY <3>2, <3>3, <3>4, <3>5
      DEF TestSender, TestHash, TestCache, FillCache, object, Steps
    <3>6. CASE Digest(t) \/ StoreHash(t) \/ TestBuffer(t) \/ WriteTo(t)
      BY <3>2, <3>3, <3>6 DEF Digest, StoreHash, TestBuffer, WriteTo, object, Steps
    <3>7. CASE FillBuffer(t) \/ ReadHash(t) \/ ReadView(t) \/ StoreSender(t)
      BY <3>2, <3>3, <3>7 DEF FillBuffer, ReadHash, ReadView, StoreSender, object, Steps
    <3>8. CASE TestNonce(t) \/ StoreNonce(t) \/ ReadNonce(t)
      BY <3>2, <3>3, <3>8 DEF TestNonce, StoreNonce, ReadNonce, object, Steps
    <3> QED BY <3>1, <3>5, <3>6, <3>7, <3>8 DEF ThreadSteps
  <2>6. CASE UNCHANGED vars
    BY <2>6 DEF vars
  <2> QED BY <2>1, <2>2, <2>3, <2>4, <2>5, <2>6 DEF Next, Phases
<1> QED BY <1>1, <1>2, PTL DEF Spec

-----------------------------------------------------------------------------
\* The accesses of threads that share an object: none stores a hash, a sender or
\* an m_buffer.
SharedSteps == {"idle", "testSender", "testHash", "readHash", "testCache", "fillCache",
                "readCache", "testBuffer", "readBuffer", "write",
                "testNonce", "storeNonce", "readNonce"}
NonceSteps == {"testNonce", "storeNonce", "readNonce"}

\* Why a thread of several does not come to one that stores.
Quiet(t) ==
    /\ pc[t] \in SharedSteps
    /\ pc[t] = "testSender" => hasSender
    /\ pc[t] = "testHash" => hasHash
    /\ pc[t] \in {"testHash", "readHash"} => op[t] \in {"hash", "headerHash", "receiptHash"}
    /\ pc[t] = "write" => op[t] \in {"headerEncode", "receiptEncode"}
    /\ pc[t] \in {"testCache", "fillCache"} =>
          op[t] \in {"encodeHashFields", "parentInfo", "logEntries", "nonceList", "encode"}
    /\ pc[t] = "testBuffer" => op[t] = "encode"
    /\ pc[t] # "idle" /\ op[t] = "encode" => hasBuffer[uses[t]]

\* A wrapper that two threads use has its cache, and a thread that fills the cache
\* of one, or calls nonce(), is its only user.
Separate(t, u) ==
    uses[t] = uses[u] => hasCache[uses[t]] /\ pc[t] # "fillCache" /\ pc[t] \notin NonceSteps

SharedInv ==
    /\ TypeOK
    /\ Shared(team) =>
          /\ kind # "block" => hasHash
          /\ \A t \in team : Quiet(t)
          /\ \A t, u \in team : t # u => Separate(t, u)

\* What sharing an object of a kind asks for.
RulesFor(k) ==
    CASE k = "transaction" -> Rules
      [] k \in {"header", "receipt"} -> {"hashed", "filled"}
      [] k = "block" -> {"filled"}

RulesKept == \A k \in Kinds : RulesFor(k) \subseteq CallerRules

\* The rules a phase of threads comes under, and those of the operations that need more.
LEMMA KindRules ==
    ASSUME RulesKept, TypeOK
    PROVE  /\ "filled" \in CallerRules
           /\ kind # "block" => "hashed" \in CallerRules
           /\ \A operation \in Operations :
                 /\ operation = "encode" => "encoded" \in CallerRules
                 /\ operation = "verify" => "verified" \in CallerRules
                 /\ operation = "nonce" => "alone" \in CallerRules
<1>1. kind \in AllKinds /\ RulesFor(kind) \subseteq CallerRules
  BY KindsAssumption DEF TypeOK, RulesKept
<1>2. CASE kind = "transaction"
  BY <1>1, <1>2 DEF RulesFor, Rules
<1>3. CASE kind = "header"
  BY <1>1, <1>3 DEF RulesFor, Operations, HeaderOperations
<1>4. CASE kind = "receipt"
  BY <1>1, <1>4 DEF RulesFor, Operations, ReceiptOperations
<1>5. CASE kind = "block"
  BY <1>1, <1>5 DEF RulesFor, Operations, BlockOperations
<1> QED BY <1>1, <1>2, <1>3, <1>4, <1>5 DEF AllKinds

LEMMA SharedInvSteps ==
    ASSUME RulesKept, SharedInv, [Next]_vars, TypeOK'
    PROVE  SharedInv'
<1> SUFFICES ASSUME Shared(team)'
             PROVE /\ (kind # "block" => hasHash)'
                   /\ \A t \in team' : Quiet(t)'
                   /\ \A t, u \in team' : t # u => Separate(t, u)'
  BY DEF SharedInv
<1> USE DEF Quiet, Separate, SharedSteps, NonceSteps
<1>1. CASE Replace \/ (\E w \in Wrappers : NewWrapper(w)) \/ Join
  <2>1. team' = {}
    BY <1>1 DEF Replace, NewWrapper, Join
  <2> QED BY <2>1 DEF Shared
<1>2. ASSUME NEW T \in SUBSET Threads, NEW wrapperOf \in [Threads -> Wrappers],
             Fork(T, wrapperOf)
      PROVE /\ (kind # "block" => hasHash)'
            /\ \A t \in team' : Quiet(t)'
            /\ \A t, u \in team' : t # u => Separate(t, u)'
  <2>1. \A t \in Threads : pc[t] = "idle"
    BY <1>2 DEF Fork, SharedInv, TypeOK
  <2>2. Shared(T) /\ kind' = kind /\ team' = T /\ uses' = wrapperOf /\ pc' = pc /\ hasHash' = hasHash /\ hasCache' = hasCache
    BY <1>2 DEF Fork, object, Shared
  <2>3. (kind # "block" => hasHash) /\ \A t, u \in T : t # u /\ wrapperOf[t] = wrapperOf[u] => hasCache[wrapperOf[t]]
    BY <1>2, <2>2, KindRules DEF Fork, SharedInv
  <2> QED BY <2>1, <2>2, <2>3
<1>3. ASSUME NEW t \in Threads, ThreadSteps(t)
      PROVE /\ (kind # "block" => hasHash)'
            /\ \A u \in team' : Quiet(u)'
            /\ \A u, v \in team' : u # v => Separate(u, v)'
  <2>1. team' = team /\ uses' = uses /\ kind' = kind
    BY <1>3 DEF ThreadSteps, Call, TestSender, TestHash, TestCache, FillCache, Digest, StoreHash,
                TestBuffer, WriteTo, FillBuffer, ReadHash, ReadView, StoreSender, TestNonce, StoreNonce,
                ReadNonce, Goto
  <2>2. Shared(team)
    BY <2>1 DEF Shared
  <2>3. /\ kind # "block" => hasHash
        /\ \A u \in team : Quiet(u)
        /\ \A u, v \in team : u # v => Separate(u, v)
    BY <2>2 DEF SharedInv
  <2>4. t \in team
    BY <1>3 DEF SharedInv, TypeOK, ThreadSteps, Call, TestSender, TestHash, TestCache, FillCache,
                Digest, StoreHash, TestBuffer, WriteTo, FillBuffer, ReadHash, ReadView,
                StoreSender, TestNonce, StoreNonce, ReadNonce, At
  <2>5. \A u \in team : u \in Threads
    BY DEF SharedInv, TypeOK
  <2>6. pc \in [Threads -> Steps] /\ op \in [Threads -> AllOperations]
    BY DEF SharedInv, TypeOK
  <2>7. CASE \E operation \in Operations : Call(t, operation)
    <3> PICK operation \in Operations : Call(t, operation)
      BY <2>7
    <3>1. operation \in AllOperations
      BY TheOperations DEF SharedInv, TypeOK
    <3>2. /\ operation = "encode" => hasBuffer[uses[t]]
          /\ operation = "verify" => hasSender
      BY <2>2, KindRules DEF Call, SharedInv
    <3>3. /\ object' = object
          /\ \A u \in team : u # t => pc'[u] = pc[u] /\ op'[u] = op[u]
          /\ pc'[t] = FirstStep(operation) /\ op'[t] = operation
      BY <2>4, <2>5, <2>6 DEF Call
    <3>4. /\ hasHash' = hasHash /\ hasSender' = hasSender
          /\ hasCache' = hasCache /\ hasBuffer' = hasBuffer
      BY <3>3 DEF object
    <3>11. operation \in {"hash", "headerHash", "receiptHash"} => hasHash
      BY <2>3 DEF Operations, BlockOperations
    <3>5. Quiet(t)' /\ pc'[t] # "fillCache"
      BY <2>1, <3>1, <3>2, <3>3, <3>4, <3>11
      DEF FirstStep, AllOperations, TransactionOperations, HeaderOperations, ReceiptOperations,
          BlockOperations
    <3>9. operation = "nonce" => \A u \in team : u # t => uses[u] # uses[t]
      BY <2>2, KindRules DEF Call, SharedInv
    <3>10. pc'[t] \in NonceSteps => operation = "nonce"
      BY <3>3 DEF FirstStep
    <3>6. \A u \in team : Quiet(u)'
      BY <2>1, <2>3, <3>3, <3>4, <3>5
    <3>7. \A u, v \in team : u # v => Separate(u, v)'
      BY <2>1, <2>3, <3>3, <3>4, <3>5, <3>9, <3>10
    <3> QED BY <2>1, <2>3, <3>4, <3>6, <3>7
  <2>8. ASSUME NEW step, Goto(t, step)
        PROVE /\ pc'[t] = step /\ op' = op
              /\ \A u \in team : u # t => pc'[u] = pc[u]
    BY <2>4, <2>5, <2>6, <2>8 DEF Goto
  <2>9. CASE TestSender(t) \/ TestHash(t) \/ TestBuffer(t) \/ WriteTo(t) \/ ReadView(t) \/ ReadHash(t)
    <3>1. object' = object
      BY <2>9 DEF TestSender, TestHash, TestBuffer, WriteTo, ReadView, ReadHash
    <3>2. /\ hasHash' = hasHash /\ hasSender' = hasSender
          /\ hasCache' = hasCache /\ hasBuffer' = hasBuffer
      BY <3>1 DEF object
    <3>3. Quiet(t)
      BY <2>3, <2>4
    <3>4. PICK step \in {"idle", "readHash", "readBuffer"} :
             /\ Goto(t, step) /\ pc[t] # "idle"
             /\ step = "readHash" => op[t] \in {"hash", "headerHash", "receiptHash"}
      <4>1. CASE TestSender(t)
        BY <3>3, <4>1 DEF TestSender, At
      <4>2. CASE TestHash(t)
        BY <2>3, <3>3, <4>2 DEF TestHash, At
      <4>3. CASE TestBuffer(t)
        <5>1. pc[t] = "testBuffer"
          BY <4>3 DEF TestBuffer, At
        <5>2. hasBuffer[uses[t]]
          BY <3>3, <5>1
        <5> QED BY <3>3, <4>3, <5>1, <5>2 DEF TestBuffer
      <4>4. CASE WriteTo(t) \/ ReadView(t)
        BY <3>3, <4>4 DEF WriteTo, ReadView, At
      <4>5. CASE ReadHash(t)
        BY <3>3, <4>5 DEF ReadHash, At
      <4> QED BY <2>9, <4>1, <4>2, <4>3, <4>4, <4>5
    <3>5. /\ pc'[t] = step /\ op' = op
          /\ \A u \in team : u # t => pc'[u] = pc[u]
      BY <2>8, <3>4
    <3>6. Quiet(t)' /\ pc'[t] # "fillCache"
      BY <2>1, <3>2, <3>3, <3>4, <3>5
    <3> QED BY <2>1, <2>3, <3>2, <3>5, <3>6
  <2>10. CASE TestCache(t)
    <3>1. At(t, "testCache") /\ Goto(t, IF hasCache[uses[t]] THEN AfterCache(op[t]) ELSE "fillCache")
      BY <2>10 DEF TestCache
    <3>2. /\ hasHash' = hasHash /\ hasSender' = hasSender
          /\ hasCache' = hasCache /\ hasBuffer' = hasBuffer
      BY <2>10 DEF TestCache, object
    <3>3. Quiet(t) /\ pc[t] = "testCache"
      BY <2>3, <2>4, <3>1 DEF At
    <3>4. /\ pc'[t] = IF hasCache[uses[t]] THEN AfterCache(op[t]) ELSE "fillCache"
          /\ op' = op /\ \A u \in team : u # t => pc'[u] = pc[u]
      BY <2>8, <3>1
    <3>5. AfterCache(op[t]) = IF op[t] = "encode" THEN "testBuffer" ELSE "readCache"
      BY <3>3 DEF AfterCache
    <3>6. Quiet(t)'
      BY <2>1, <3>2, <3>3, <3>4, <3>5
    <3>7. \A u \in team : u # t => Separate(t, u)'
      BY <2>1, <2>3, <2>4, <3>2, <3>4, <3>5
    <3> QED BY <2>1, <2>3, <3>2, <3>4, <3>6, <3>7
  <2>11. CASE FillCache(t)
    <3>1. At(t, "fillCache") /\ Goto(t, AfterCache(op[t]))
      BY <2>11 DEF FillCache
    <3>2. /\ hasHash' = hasHash /\ hasSender' = hasSender /\ hasBuffer' = hasBuffer
          /\ hasCache' = [hasCache EXCEPT ![uses[t]] = TRUE]
      BY <2>11 DEF FillCache
    <3>3. Quiet(t) /\ pc[t] = "fillCache"
      BY <2>3, <2>4, <3>1 DEF At
    <3>4. /\ pc'[t] = AfterCache(op[t])
          /\ op' = op /\ \A u \in team : u # t => pc'[u] = pc[u]
      BY <2>8, <3>1
    <3>5. AfterCache(op[t]) = IF op[t] = "encode" THEN "testBuffer" ELSE "readCache"
      BY <3>3 DEF AfterCache
    <3>6. Quiet(t)'
      BY <2>1, <3>2, <3>3, <3>4, <3>5
    <3>7. \A w : hasCache[w] => hasCache'[w]
      BY <3>2 DEF SharedInv, TypeOK
    <3>8. \A u \in team : u # t => uses[u] # uses[t]
      BY <2>3, <2>4, <3>3
    <3> QED BY <2>1, <2>3, <3>2, <3>4, <3>5, <3>6, <3>7, <3>8
  <2>12. CASE Digest(t) \/ StoreHash(t) \/ FillBuffer(t) \/ StoreSender(t)
    BY <2>3, <2>4, <2>12 DEF Digest, StoreHash, FillBuffer, StoreSender, At
  <2>13. CASE TestNonce(t) \/ StoreNonce(t) \/ ReadNonce(t)
    <3>1. /\ hasHash' = hasHash /\ hasSender' = hasSender
          /\ hasCache' = hasCache /\ hasBuffer' = hasBuffer
      BY <2>13 DEF TestNonce, StoreNonce, ReadNonce, object
    <3>2. PICK step \in {"storeNonce", "readNonce", "idle"} :
             Goto(t, step) /\ pc[t] \in NonceSteps
      BY <2>13 DEF TestNonce, StoreNonce, ReadNonce, At
    <3>3. /\ pc'[t] = step /\ op' = op
          /\ \A u \in team : u # t => pc'[u] = pc[u]
      BY <2>8, <3>2
    <3>4. \A u \in team : u # t => uses[u] # uses[t]
      BY <2>3, <2>4, <3>2
    <3>5. Quiet(t) /\ Quiet(t)'
      BY <2>1, <2>3, <2>4, <3>1, <3>2, <3>3
    <3> QED BY <2>1, <2>3, <2>4, <3>1, <3>3, <3>4, <3>5
  <2> QED BY <1>3, <2>7, <2>9, <2>10, <2>11, <2>12, <2>13 DEF ThreadSteps
<1>4. CASE UNCHANGED vars
  BY <1>4 DEF vars, SharedInv, Shared
<1> QED BY <1>1, <1>2, <1>3, <1>4 DEF Next, Phases

LEMMA SharedInvNoRace == SharedInv => NoRace
<1> SUFFICES ASSUME SharedInv, NEW t \in Threads, NEW u \in Threads, t # u
             PROVE  Writes(t) \cap (Reads(u) \cup Writes(u)) = {}
  BY DEF NoRace
<1>1. CASE ~(t \in team /\ u \in team)
  <2>1. pc[t] = "idle" \/ pc[u] = "idle"
    BY <1>1 DEF SharedInv, TypeOK
  <2> QED BY <2>1 DEF Writes, Reads
<1>2. CASE t \in team /\ u \in team
  <2>1. /\ Quiet(t) /\ Quiet(u)
        /\ uses[t] = uses[u] => pc[t] # "fillCache" /\ pc[t] \notin NonceSteps
    BY <1>2 DEF SharedInv, Shared, Separate
  <2>2. CASE pc[t] # "fillCache" /\ pc[t] # "storeNonce"
    <3>1. Writes(t) = {}
      BY <2>1, <2>2 DEF Quiet, SharedSteps, Writes
    <3> QED BY <3>1
  <2>3. CASE pc[t] = "fillCache"
    <3>1. Writes(t) = {<<"cache", uses[t]>>}
      BY <2>3 DEF Writes, Own
    <3>2. <<"cache", uses[t]>> \notin Writes(u)
      BY <2>1, <2>3 DEF Quiet, SharedSteps, Writes, Own, Everyones
    <3>3. <<"cache", uses[t]>> \notin Reads(u)
      BY <2>1, <2>3 DEF Quiet, SharedSteps, Reads, Own, Everyones
    <3> QED BY <3>1, <3>2, <3>3
  <2>4. CASE pc[t] = "storeNonce"
    <3>1. Writes(t) = {<<"nonce", uses[t]>>} /\ uses[t] # uses[u]
      BY <2>1, <2>4 DEF Writes, Own, NonceSteps
    <3>2. <<"nonce", uses[t]>> \notin Writes(u)
      BY <2>1, <3>1 DEF Quiet, SharedSteps, Writes, Own, Everyones
    <3>3. <<"nonce", uses[t]>> \notin Reads(u)
      BY <2>1, <3>1 DEF Quiet, SharedSteps, Reads, Own, Everyones
    <3> QED BY <3>1, <3>2, <3>3
  <2> QED BY <2>2, <2>3, <2>4
<1> QED BY <1>1, <1>2

\* Threads that keep to the rules for what they share do not race on it, however
\* many they are and however they divide its wrappers among them: all of the rules
\* for transactions, "hashed" and "filled" for headers and receipts, "filled" alone
\* for blocks.
THEOREM RulesPreventRaces ==
    ASSUME RulesKept
    PROVE  Spec => []NoRace
<1>1. Init => SharedInv
  <2>1. Init => TypeOK
    BY DEF Init, TypeOK, Steps, AllOperations, TransactionOperations
  <2>2. Init => ~Shared(team)
    BY DEF Init, Shared
  <2> QED BY <2>1, <2>2 DEF SharedInv
<1>2. SharedInv /\ [Next]_vars /\ TypeOK' => SharedInv'
  BY SharedInvSteps
<1> QED BY <1>1, <1>2, TypeCorrect, SharedInvNoRace, PTL DEF Spec
=============================================================================
