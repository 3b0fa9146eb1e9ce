----------------------------- MODULE SharedObject -----------------------------
(***************************************************************************)
(* Threads that read one transaction, block header, receipt or block.  The *)
(* methods are const and write all the same: hash() and encode() fill the  *)
(* dataHash of the inner object, which every wrapper reaches, and the      *)
(* caches of the wrapper, without a lock (the x_mutex of a block is locked *)
(* by nothing); nonce() writes m_nonce on every call.  An operation is a   *)
(* sequence of accesses to these; two threads race when each is about to   *)
(* make one, to the same place, and one of the two writes.                 *)
(*                                                                         *)
(* The program runs in phases, as the test does: one thread builds, then   *)
(* several read in a tbb::parallel_for, then one goes on.  What is stored  *)
(* is of no interest here, only whether it is there; a header has parents, *)
(* a receipt has log entries and a block nonces.  A block has no wrapper   *)
(* but itself: its Wrappers are blocks, and only their caches matter.      *)
(***************************************************************************)

CONSTANTS
    Threads,
    Wrappers,    \* wrappers over the one inner object
    Kinds,       \* what the object may be; a subset of AllKinds
    CallerRules  \* what callers keep to; a subset of Rules

TransactionOperations == {"hash", "encodeHashFields", "encode", "verify", "nonce"}
HeaderOperations == {"headerHash", "headerEncode", "parentInfo"}
ReceiptOperations == {"receiptHash", "receiptEncode", "logEntries"}
BlockOperations == {"nonceList"}
AllKinds == {"transaction", "header", "receipt", "block"}
AllOperations ==
    TransactionOperations \cup HeaderOperations \cup ReceiptOperations \cup BlockOperations

(* "hashed":   the object, unless a block, is hashed before it is shared.  *)
(* "filled":   a wrapper that several threads use has its cache filled.    *)
(* "encoded":  threads that share the object call encode(false) only on a  *)
(*             wrapper that has its m_buffer.                              *)
(* "verified": threads that share the object call verify() only when the   *)
(*             sender is there.                                            *)
(* "alone":    threads that share the object call nonce() only on a        *)
(*             wrapper of their own.                                       *)
(* None of them is enforced by the code.                                   *)
Rules == {"hashed", "filled", "encoded", "verified", "alone"}

ASSUME KindsAssumption == Kinds \subseteq AllKinds

VARIABLES
    kind,       \* what the object is
    hasHash,    \* ~dataHash.empty()
    hasSender,  \* ~sender().empty()
    hasCache,   \* ~empty() of m_dataBuffer, m_parentInfo, m_logEntries or m_nonceList
    hasBuffer,  \* ~m_buffer.empty()
    team,       \* the threads of this phase
    uses,       \* the wrapper a thread has
    op,         \* the operation a thread is in
    pc          \* its next access

object == <<hasHash, hasSender, hasCache, hasBuffer>>
vars == <<kind, hasHash, hasSender, hasCache, hasBuffer, team, uses, op, pc>>

Steps == {"idle", "testSender", "testHash", "testCache", "fillCache", "readCache", "hashCache",
          "hashFields", "storeHash", "readHash", "testBuffer", "write", "fillBuffer",
          "readBuffer", "storeSender", "testNonce", "storeNonce", "readNonce"}

TypeOK ==
    /\ kind \in Kinds
    /\ hasHash \in BOOLEAN /\ hasSender \in BOOLEAN
    /\ hasCache \in [Wrappers -> BOOLEAN]
    /\ hasBuffer \in [Wrappers -> BOOLEAN]
    /\ team \subseteq Threads
    /\ uses \in [Threads -> Wrappers]
    /\ op \in [Threads -> AllOperations]
    /\ pc \in [Threads -> Steps]
    /\ \A t \in Threads \ team : pc[t] = "idle"

Init ==
    /\ kind \in Kinds
    /\ hasHash = FALSE /\ hasSender = FALSE
    /\ hasCache = [w \in Wrappers |-> FALSE]
    /\ hasBuffer = [w \in Wrappers |-> FALSE]
    /\ team = {}
    /\ uses \in [Threads -> Wrappers]
    /\ op \in [Threads -> {"hash"}]
    /\ pc = [t \in Threads |-> "idle"]

-----------------------------------------------------------------------------
(* Between the phases *)

\* decode(), setInner() or a new object: nothing, some or all of it is there.
Replace ==
    /\ team = {}
    /\ hasHash' \in BOOLEAN
    /\ hasSender' \in BOOLEAN
    /\ \E w \in Wrappers, received \in BOOLEAN :
          hasBuffer' = [hasBuffer EXCEPT ![w] = received]
    /\ UNCHANGED <<kind, hasCache, team, uses, op, pc>>

\* A wrapper of its own: block->transaction(i), block->blockHeader().
NewWrapper(w) ==
    /\ team = {}
    /\ hasCache' = [hasCache EXCEPT ![w] = FALSE]
    /\ hasBuffer' = [hasBuffer EXCEPT ![w] = FALSE]
    /\ UNCHANGED <<kind, hasHash, hasSender, team, uses, op, pc>>

Shared(T) == \E t, u \in T : t # u

\* A phase begins: each of its threads has a wrapper, its own or a common one.
Fork(T, wrapperOf) ==
    /\ team = {} /\ T # {}
    /\ Shared(T) =>
          /\ "hashed" \in CallerRules /\ kind # "block" => hasHash
          /\ "filled" \in CallerRules =>
                \A t, u \in T : t # u /\ wrapperOf[t] = wrapperOf[u] => hasCache[wrapperOf[t]]
    /\ team' = T
    /\ uses' = wrapperOf
    /\ UNCHANGED <<kind, object, op, pc>>

\* Faulty: the loop ends before all of its threads have.
JoinEarly ==
    /\ team # {}
    /\ \E t \in team : pc[t] = "idle"
    /\ team' = {}
    /\ UNCHANGED <<kind, object, uses, op, pc>>

Join ==
    /\ team # {}
    /\ \A t \in team : pc[t] = "idle"
    /\ team' = {}
    /\ UNCHANGED <<kind, object, uses, op, pc>>

-----------------------------------------------------------------------------
(* A thread in an operation *)

At(t, step) == pc[t] = step
Goto(t, step) == pc' = [pc EXCEPT ![t] = step] /\ UNCHANGED <<kind, team, uses, op>>

FirstStep(operation) ==
    CASE operation \in {"hash", "headerHash", "receiptHash"} -> "testHash"
      [] operation = "verify" -> "testSender"
      [] operation \in {"headerEncode", "receiptEncode"} -> "write"
      [] operation = "nonce" -> "testNonce"
      [] OTHER -> "testCache"

Call(t, operation) ==
    /\ t \in team
    /\ At(t, "idle")
    /\ Shared(team) =>
          /\ "encoded" \in CallerRules /\ operation = "encode" => hasBuffer[uses[t]]
          /\ "verified" \in CallerRules /\ operation = "verify" => hasSender
          /\ "alone" \in CallerRules /\ operation = "nonce" =>
                \A u \in team \ {t} : uses[u] # uses[t]
    /\ op' = [op EXCEPT ![t] = operation]
    /\ pc' = [pc EXCEPT ![t] = FirstStep(operation)]
    /\ UNCHANGED <<kind, object, team, uses>>

TestSender(t) ==
    /\ At(t, "testSender")
    /\ Goto(t, IF hasSender THEN "idle" ELSE "testHash")
    /\ UNCHANGED object

\* Faulty: the hash is computed again, whether it is there or not.
TestHashForgotten(t) ==
    /\ At(t, "testHash")
    /\ Goto(t, IF op[t] \in {"headerHash", "receiptHash"} THEN "hashFields" ELSE "testCache")
    /\ UNCHANGED object

\* hash(): if (dataHash.empty()); a header or a receipt hashes its data with no cache
\* between.
TestHash(t) ==
    /\ At(t, "testHash")
    /\ Goto(t, IF hasHash THEN "readHash"
               ELSE IF op[t] \in {"headerHash", "receiptHash"} THEN "hashFields" ELSE "testCache")
    /\ UNCHANGED object

\* After the cache is full: encode(true), parentInfo(), logEntries() and nonceList()
\* give it to the caller.
AfterCache(operation) ==
    CASE operation \in {"hash", "verify"} -> "hashCache"
      [] operation = "encode" -> "testBuffer"
      [] OTHER -> "readCache"

\* Faulty: the cache is filled again, whether it is there or not.
TestCacheForgotten(t) ==
    /\ At(t, "testCache")
    /\ Goto(t, "fillCache")
    /\ UNCHANGED object

TestCache(t) ==
    /\ At(t, "testCache")
    /\ Goto(t, IF hasCache[uses[t]] THEN AfterCache(op[t]) ELSE "fillCache")
    /\ UNCHANGED object

FillCache(t) ==
    /\ At(t, "fillCache")
    /\ hasCache' = [hasCache EXCEPT ![uses[t]] = TRUE]
    /\ Goto(t, AfterCache(op[t]))
    /\ UNCHANGED <<hasHash, hasSender, hasBuffer>>

\* cryptoSuite->hash(m_dataBuffer), or of the data, encoded for that.
Digest(t) ==
    /\ At(t, "hashCache") \/ At(t, "hashFields")
    /\ Goto(t, "storeHash")
    /\ UNCHANGED object

\* dataHash.assign; encode(false) then writes out the inner object.
StoreHash(t) ==
    /\ At(t, "storeHash")
    /\ hasHash' = TRUE
    /\ Goto(t, IF op[t] = "encode" THEN "write" ELSE "readHash")
    /\ UNCHANGED <<hasSender, hasCache, hasBuffer>>

\* encode(false): with an empty m_buffer the hash is stored again.
TestBuffer(t) ==
    /\ At(t, "testBuffer")
    /\ Goto(t, IF hasBuffer[uses[t]] THEN "readBuffer" ELSE "hashCache")
    /\ UNCHANGED object

\* writeTo reads all of the inner object; a header's or receipt's bytes go to the
\* caller.
WriteTo(t) ==
    /\ At(t, "write")
    /\ Goto(t, IF op[t] = "encode" THEN "fillBuffer" ELSE "idle")
    /\ UNCHANGED object

FillBuffer(t) ==
    /\ At(t, "fillBuffer")
    /\ hasBuffer' = [hasBuffer EXCEPT ![uses[t]] = TRUE]
    /\ Goto(t, "readBuffer")
    /\ UNCHANGED <<hasHash, hasSender, hasCache>>

\* hash() returns by value; verify() goes on with it and may throw.
ReadHash(t) ==
    /\ At(t, "readHash")
    /\ \/ op[t] = "verify" /\ Goto(t, "storeSender")
       \/ Goto(t, "idle")
    /\ UNCHANGED object

\* What encode(), parentInfo(), logEntries() and nonceList() return is a view or a
\* reference, which the caller reads.
ReadView(t) ==
    /\ At(t, "readCache") \/ At(t, "readBuffer")
    /\ Goto(t, "idle")
    /\ UNCHANGED object

\* forceSender
StoreSender(t) ==
    /\ At(t, "storeSender")
    /\ hasSender' = TRUE
    /\ Goto(t, "idle")
    /\ UNCHANGED <<hasHash, hasCache, hasBuffer>>

\* nonce() writes m_nonce when there is a nonce text, and then returns it.
TestNonce(t) ==
    /\ At(t, "testNonce")
    /\ Goto(t, "storeNonce") \/ Goto(t, "readNonce")
    /\ UNCHANGED object

StoreNonce(t) ==
    /\ At(t, "storeNonce")
    /\ Goto(t, "readNonce")
    /\ UNCHANGED object

ReadNonce(t) ==
    /\ At(t, "readNonce")
    /\ Goto(t, "idle")
    /\ UNCHANGED object

-----------------------------------------------------------------------------
\* What there is to call.
Operations ==
    CASE kind = "transaction" -> TransactionOperations
      [] kind = "header" -> HeaderOperations
      [] kind = "receipt" -> ReceiptOperations
      [] kind = "block" -> BlockOperations

ThreadSteps(t) ==
    \/ \E operation \in Operations : Call(t, operation)
    \/ TestSender(t) \/ TestHash(t) \/ TestCache(t) \/ FillCache(t) \/ Digest(t)
    \/ StoreHash(t) \/ TestBuffer(t) \/ WriteTo(t) \/ FillBuffer(t) \/ ReadHash(t)
    \/ ReadView(t) \/ StoreSender(t) \/ TestNonce(t) \/ StoreNonce(t) \/ ReadNonce(t)

Phases ==
    \/ Replace
    \/ \E w \in Wrappers : NewWrapper(w)
    \/ \E T \in SUBSET Threads, wrapperOf \in [Threads -> Wrappers] : Fork(T, wrapperOf)
    \/ Join

Next == Phases \/ \E t \in Threads : ThreadSteps(t)

Spec == Init /\ [][Next]_vars
-----------------------------------------------------------------------------
\* The places a thread reads and writes with its next access.
Own(t, place) == <<place, uses[t]>>
Everyones(place) == <<place, "inner">>

Reads(t) ==
    CASE pc[t] = "testSender" -> {Everyones("sender")}
      [] pc[t] \in {"testHash", "readHash"} -> {Everyones("dataHash")}
      [] pc[t] \in {"testCache", "readCache", "hashCache"} -> {Own(t, "cache")}
      [] pc[t] \in {"testBuffer", "readBuffer"} -> {Own(t, "buffer")}
      [] pc[t] = "write" -> {Everyones("dataHash"), Everyones("sender")}
      [] pc[t] = "readNonce" -> {Own(t, "nonce")}
      [] OTHER -> {}

Writes(t) ==
    CASE pc[t] = "storeHash" -> {Everyones("dataHash")}
      [] pc[t] = "storeSender" -> {Everyones("sender")}
      [] pc[t] = "fillCache" -> {Own(t, "cache")}
      [] pc[t] = "fillBuffer" -> {Own(t, "buffer")}
      [] pc[t] = "storeNonce" -> {Own(t, "nonce")}
      [] OTHER -> {}

\* Threads that keep to the rules do not race: no thread is about to write what
\* another is about to read or write.  The vectors are not atomic, so a reader of
\* one that is being assigned may see a hash in part or follow freed memory; nor is
\* the 256-bit number of m_nonce.
NoRace ==
    \A t, u \in Threads : t # u => Writes(t) \cap (Reads(u) \cup Writes(u)) = {}
=============================================================================
