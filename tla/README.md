# Specifications of bcos-tars-protocol

TLA+ specifications, TLC configurations and TLAPS proofs for
`bcos-tars-protocol`, the C++ library that gives FISCO BCOS 3.x its tars based
data objects (transactions, receipts, block headers, blocks) and the clients by
which its services call each other over tars RPC. Paths below are relative to
the root of the repository; `P/` stands for `bcos-tars-protocol/protocol/`, `C/`
for `bcos-tars-protocol/client/`.

## 1. The system and its parts

The library has no process, no storage and no scheduler of its own. It is
linked into the nodes' services. What is hard in it is hidden state: objects
that look like plain values keep caches, share their inner object with other
wrappers, and hand out pointers; calls that look like functions are spread over
the caller's thread, the tars runtime's threads and another process.

| Part | State | Operations | What makes it correct |
|---|---|---|---|
| Transaction (`P/TransactionImpl`, `P/TransactionFactoryImpl.h`) | inner tars object behind a getter (`dataHash`, `signature`, `sender`, `data`, attributes); `m_dataBuffer`, `m_buffer`, `m_nonce` of the wrapper | create (plain, signed, from bytes), hash, encode, takeEncoded, verify, nonce, setters, decode, setInner | a cached hash, encoding, sender, nonce or signature is about the object as it is, whoever reads it, however the bytes it came from ended |
| Block header (`P/BlockHeaderImpl`, factory) | inner object shared by the wrappers of one block (`dataHash`, data, signatures); `m_parentInfo` of the wrapper | create, hash, setters, clear, decode, encode, setInner | the same, for wrappers that share one header |
| Block (`P/BlockImpl`, factory) | shared inner block: header, transactions, receipts, metadata, nonce list; `m_nonceList` cache | views of its parts, append and set, decode, encode | views stay inside the vectors; the nonce cache is current |
| Receipt (`P/TransactionReceiptImpl`) | inner object with `dataHash`; `m_logEntries` cache | create, hash, log entries, encode, decode, setInner | both caches current; a span of log entries is not used after its wrapper |
| Submit result (`P/TransactionSubmitResultImpl.h`) | inner object; hands out a receipt that points into it | getters, setters | the receipt is not used after the result |
| Metadata (`P/TransactionMetaDataImpl.h`), execution result (`P/ExecutionResultImpl.h`) | inner object | getters, setters | nothing is cached or ordered |
| Service clients (`C/`) | proxy; key factory, block factory or crypto suite | about 60 operations: send a request, convert the answer, call the callback | a callback is told one thing, once, and only what is true; no call is forgotten; nothing is followed through a null or freed pointer |
| `checkConnection` (`Common.h:321-337`) | none; reads the proxy's endpoints | look, and tell the callback when there is none | told before anything is sent, or not at all |
| Error conversion (`ErrorConverter.h`) | none | code and message to `Error::Ptr` and back | no error exactly for code 0 |
| `BufferWriterByteVector` (`Common.h:46-108`) | buffer, length, capacity | write, reserve, hand out the buffer | bytes come out in the order they went in; nothing is written into bytes handed out before |
| Conversions (`Common.h:111-318`) | none | group, chain node, gateway and ledger structures, both ways | what is converted, sent and converted back means the same |
| Interface definitions (`tars/*.tars`) | none | input of the tars code generator | the code generated is not in the repository |

Interactions. A factory makes a wrapper over an inner object of its own. A block
makes wrappers over its own parts: `block->transaction(i)`,
`block->blockHeader()` and `block->receipt(i)` return a *new* wrapper each time,
with empty caches, whose getter returns the address of the slot inside the
block; `appendTransaction`, `setTransaction` and `setBlockHeader` copy the inner
object out of a wrapper. Bytes go from `encode`/`takeEncoded` of one object to
`decode` or a `create...(bytes)` of another, in another process. A client
operation builds a `Callback` object, hands it to the tars proxy, and the
runtime calls one of its two methods later on a thread of its own; some
`Callback` classes keep a copy of a factory pointer, some a raw pointer to the
client.

Hard behaviours: stale caches after a legal sequence of calls; two wrappers over one
inner object, one of which has cached; a hash that is trusted because it is there; bytes
that end early and are read all the same; signatures over a hash that was frozen early;
memory that is shared, swapped or freed behind a pointer; requests that time out and are
run all the same; late answers; connections that go between the look and the send;
clients destroyed, or given their factory, while an answer is under way; threads that
share an object whose `const` methods write. `PROJECT.json` lists them under `hazards`,
each at its line.

## 2. Modules

| Module | Models | Kind |
|---|---|---|
| `TransactionImpl` | transactions, their factory, a block's transaction slots, the wire | detailed |
| `TransactionValue` | what a transaction object promises: a value | abstract; refined by `TransactionImpl` |
| `TransactionProofs` | theorems about `TransactionImpl`, the refinement among them | proofs |
| `TransactionDecode` | transactions from bytes whose end is missing; `nonce()` | detailed |
| `TransactionReceiptImpl` | receipts of wrappers, of a block, of a submit result; the wire | detailed |
| `ReceiptProofs` | theorems about `TransactionReceiptImpl` | proofs |
| `BlockHeaderImpl` | headers, their factory, the header of a block, the wire | detailed |
| `BlockHeaderProofs` | theorems about `BlockHeaderImpl` | proofs |
| `BlockImpl` | a block's vectors, the views of their elements, the cached nonces | detailed |
| `BlockProofs` | theorems about `BlockImpl` | proofs |
| `SharedObject` | threads that read one transaction, header, receipt or block | detailed |
| `SharedObjectProofs` | theorems about `SharedObject` | proofs |
| `ClientOperations` | every operation of every client, by how it treats its call | data |
| `ServiceCall` | calls from the caller through the runtime to the service and back | detailed |
| `AsyncCall` | what a caller may rely on: at most one run, at most one report | abstract; refined by `ServiceCall` |
| `ServiceCallProofs` | theorems about `ServiceCall` | proofs |
| `OutputBuffer` | `BufferWriterByteVector` and the vector it is swapped with | detailed |
| `ByteLog` | what the encoder wants of a buffer: an append-only log | abstract; refined by `OutputBuffer` |
| `WireProofs` | theorems about `OutputBuffer` and `TransactionDecode` | proofs |
| `Conversions` | the conversions of `Common.h` and `ErrorConverter.h`, as operators | data |
| `InfoExchange` | services that convert, send, convert back and send on | detailed, over `Conversions` |
| `ConversionsProofs` | theorems about `Conversions` and `InfoExchange` | proofs |
| `MC...` | the instances TLC checks | |

Operators whose comment begins with "Faulty:" are not part of a specification:
no next-state relation uses them. They are the plausible mistakes by which each
property was tried: with the faulty operator in the place of the right one TLC
finds the property violated (`mutants` in `PROJECT.json`).

Bytes. A byte vector is `<<>>` when empty and `<<v>>` when it holds the encoding
of `v`, so that the code's `if (m_buffer.empty())` is an equality, and encoding
followed by decoding gives the value back. A hash is the record of what was
hashed: injective, and taken of whatever bytes are there, the empty vector
included.

### 2.1 Transactions

`cells` holds the inner objects: one per wrapper that owns its object, one per
slot of the block. `at[h]` is the object wrapper `h`'s getter returns. The two
byte caches are `dataBuffer[h]` and `buffer[h]`. One action stands for each
operation with everything it calls:

* `CreateSignedTransaction` is the factory's `createTransaction` with a key pair:
  fields, `sign(hash())`, so that `dataHash` and `m_dataBuffer` are filled, then
  the signature. `CreateChecked` is `createTransaction(bytes, true)`: decode,
  then the framework's `verify()`, which does nothing for an object that has a
  sender.
* `ComputeHash`, `EncodeHashFields`, `Encode`, `TakeEncoded` are `hash()`,
  `encode(true)`, `encode(false)`, `takeEncoded()` (`P/TransactionImpl.cpp:27-75`).
  `Encode` recomputes `dataHash` from `m_dataBuffer` whenever `m_buffer` is empty.
* `Decode` fills `m_buffer` and replaces the inner object; `m_dataBuffer` stays.
  `SetInner` replaces the inner object and leaves both caches.
* `AppendTransaction`, `SetTransaction`, `ViewTransaction` are the block's part.
  `ReplaceBlock` is the block's own `decode` and `setInner` (`P/BlockImpl.cpp:26-32`,
  `P/BlockImpl.h:105-106`): every slot at once becomes one of another block, under the
  views there are and the caches they have. What another block can hold is a copy of a
  transaction that there is or that came (`Copies`). Views that such a block leaves past
  its end are in `BlockImpl` (2.3).

Here bytes are whole or not there, and each operation is one step. Bytes of which the
end is missing, and `nonce()` with its `m_nonce`, are in `TransactionDecode` (2.6);
2.5 takes the readers apart.

**Rules of the callers.** The code enforces nothing about the order of calls, and
with every order allowed the caches do go stale; that they may is a fact about
the design and not a disagreement between code and documentation. The constant
`CallerRules` says which of these the callers keep:

| Rule | What it asks |
|---|---|
| `fresh` | `decode`, `setInner` and `setTransaction`, and `decode` and `setInner` of the block, write only to objects whose wrappers have cached nothing yet |
| `freeze` | no setter is called while the wrapper holds its full encoding |
| `signonce` | `setSignatureData` is called on an unsigned transaction |

Each property is proved under the weakest set of rules we know it to need (section 4);
without `fresh`, `HashOfData` and `HashFieldsCurrent` are violated, without `freeze`
`EncodingCurrent`, without `signonce` `SenderIsSigner`.

### 2.2 Block headers

`headers` holds one inner object per owning wrapper and the block's own;
`parentInfo[w]` is `m_parentInfo`. `setParentInfo` and `clear` empty the cache of
the wrapper they are called on, and of no other; every other way of replacing a
header leaves every cache. The hashed fields other than the parents are one
value `fields`, with one setter `SetField` for all their setters, and
`BlockImpl::setVersion` as `SetBlockVersion`, which goes round the wrappers.
`SetSignatureList` appends, as the code does.

Rules: `freeze`, the hashed fields are not set on a header that has a `dataHash`;
`fresh`, a header is not replaced, cleared or given parents while a wrapper that
keeps its `m_parentInfo` has one cached.

### 2.3 Blocks

`BlockImpl` is the rest of a block: how many transactions and metadata it has, its
receipts, the texts of its nonce list, and `nonceList`, which is `m_nonceList`, the
numbers read from them. A block begins as `createBlock()` makes it. `views` holds the
wrappers that `transaction(i)`, `receipt(i)` and `transactionMetaData(i)` return: each
keeps the block and an index and looks the element up at every use, so a block replaced
by a shorter one leaves them past the end. `outside` is set when a setter writes past
the end. What the elements hold is in 2.1, 2.2 and 2.7. `createBlock(bytes,
calculateHash, checkSig)` is `Replace` on a new block: the code ignores both flags.

* `ReadNonceList` fills the cache as far as the texts are numbers: `lexical_cast`
  throws at the first that is not, and leaves what it read.
* `SetReceipt` resizes to the number of transactions when the index is past the
  end, be that more or fewer than there are.
* `Replace` is `decode` and `setInner`; `m_nonceList` is left. A `readFrom` that
  throws half way leaves vectors of any length, as `Replace` may.

Rules: `fresh`, a block is not replaced when it has views or cached nonces;
`bounds`, transactions and receipts are read where there are any and set where
there are transactions; `numeric`, a block received has numbers for nonces.

### 2.4 Service calls

`ClientOperations` is a table of every operation of the seven clients, read off
the source: does it call `checkConnection`; does it send asynchronously, one way,
blocking, or not at all; does its `Callback` test `m_callback`; through which
pointer is the answer converted. `ServiceCall` runs calls of these kinds:

```
caller        Invoke -> CheckConnection -> Send | SendRefused
network       Serve (ok, error, exception) | Lose | LateAnswer
runtime       AnswerArrives | CallFails (timeout, exception, cannot send) | SyncReturns
client        ConnectionChanges, SetKeyFactory, DestroyClient
```

The connection may change between any two of these. `CallFails` may happen before, while
or after the service runs the request. `AnswerArrives` follows the pointers the
`Callback` holds, and sets `crashed` when one is null or freed. `SendRefused` is the proxy's
method throwing where it is called, since it cannot take the request: no operation
catches that, so the exception reaches the caller, who knows that nothing was sent, and
the callback is told nothing.

Rules: `callback`, a callback is passed wherever it is not tested; `factory`, an
operation that needs a factory of the client is called when it is set;
`lifetime`, the client outlives the calls that point back to it.

External, modelled as `src` uses it: the tars runtime removes a request from its
table when it dispatches the answer or the exception, drops an answer it finds
no request for, and catches what a dispatch throws; a method of a proxy sends a request or
throws, and not both; the service answers with a return code or throws.

### 2.5 Threads that share an object

The readers of transactions, headers, receipts and blocks are `const` and write:
`dataHash` of the inner object, which all of its wrappers reach, and the caches of the
wrapper. `SharedObject` takes them apart into single reads and writes of the vectors
they touch; what is stored is left out, only whether it is there decides where a thread
goes next. Two threads *race* when each is about to access one place and one of the two
writes: the vectors are not atomic, and from then on C++ promises nothing, so the model
has no need to say what a racing read returns.

The program runs in phases, as `test/ProtocolTest.cpp:219-236` does: one thread
builds, several read in a `tbb::parallel_for`, one goes on. `Fork` starts a phase
with any set of threads, each with a wrapper of its own or a common one; `Join` ends
it when all of its threads are done; `Replace` and `NewWrapper` are what happens
between phases. A phase of one thread has no rule to keep.

Rules for a phase of several threads: `hashed`, the object is hashed before; `filled`, a
wrapper that several use has its cache filled (`m_dataBuffer`, `m_parentInfo`,
`m_logEntries`, `m_nonceList`); `encoded`, `encode(false)` is called on wrappers that
have their `m_buffer`, since otherwise it assigns `dataHash` again, hashed or not;
`verified`, `verify` is called when the sender is there; `alone`, `nonce` is called on a
wrapper no other thread uses, since it assigns `m_nonce` at every call. Headers and
receipts need the first two only, and the first is what the test does before its loop.
Without any one of them `NoRace` is violated. A block needs `filled` only, for its
`m_nonceList`: its `x_mutex` is locked by nothing.

### 2.6 Bytes that end early

Every field of a `Transaction` is optional in `tars/Transaction.tars`, so that bytes
which end between two fields are read without an error, as an object that lacks the
later ones; bytes that end inside a field make `readFrom` throw. `TransactionDecode`
has one object and an encoding cut off at any place: `upto` fields came, and `torn` says
that a part of the next did. What may be in a torn field is `Leftovers`. `decode()` fills
`m_buffer` before it reads, and leaves `m_dataBuffer` and `m_nonce`; `createTransaction`
lets the object go when `decode()` throws, and checks what `verify()` checks. The names of
this module (`DecodeSpec`, `DecodeTypeOK`, `DecoderRules`) are its own so that `WireProofs`
can extend it beside `OutputBuffer`.

Rules: `discard`, an object whose `decode()` threw is not used; `fresh`, `decode()` is
called on an object with nothing cached. Without `discard`, `BufferIsObject` is violated:
the object hands out bytes it could not be read from. Without `fresh`, `NonceCurrent`
is: an object without a nonce has the nonce of the one before. `CheckedIsWhole` needs no
rule; it rests on the order of the tags, by which the sender is the last field and
comes only when the signature came.

### 2.7 Receipts and submit results

`receipts` holds the inner objects: of wrappers that own one, of submit results, of the
block. `logEntries[w]` is `m_logEntries`; an empty one counts as not filled, as in the
code. `span[w]` says what became of the span that `logEntries()` returned: held by the
caller, done with, or dangling, when `m_logEntries` was cleared or destroyed under it.
`Overwrite` is what `decode`, `setInner`, the block's setters and a result's setter have in
common: an inner object is replaced and no `m_logEntries` is cleared. A receipt of a
submit result has a plain pointer into it (`ReleaseResult` leaves the wrapper `Gone`); one of
a block keeps the block alive, and is const.

Rules: `freeze`, log entries are not set on a hashed receipt (`HashOfReceipt`); `fresh`, a
receipt is not replaced while a wrapper that keeps its `m_logEntries` has them cached
(`LogEntriesCurrent`); `lifetime`, a result outlives its receipts and a wrapper its spans
(`NothingDangles`). Each property is violated without its rule.

### 2.8 The output buffer

A vector is its memory `store` and the `size` of it that is the vector's. The writer has one,
and `buf` says whose memory `_buf` points to: nothing, its own vector's, the one it was
swapped with, or freed memory. The stream reserves twice what it needs, by `resize`,
and writes through `_buf`; `getByteBuffer()` cuts the vector to `_len`, after which the
memory beyond is the vector's no more, though `_buf_len` still counts it. `Look` is
`getByteBuffer()` read and copied, `Take` is `getByteBuffer().swap(bytes)`, `Swap` is
`swap(bytes)`, which resets the writer and which may go on.

Rule `once`: a writer is not written after `getByteBuffer()`, and not touched after its
vector was swapped away. Every use in `src` keeps to it. Without it both properties are
violated: writes go into the caller's bytes, or come out as zeros.

### 2.9 Conversions

The two sides of a conversion differ in shape: a map from names to nodes becomes a list
without the names, a map from groups to sets of IDs a list of groups with lists,
unsigned weights signed ones, a null pointer a structure of defaults, a hash a vector of
bytes that may be too short, and an error with code 0 none. `Conversions` has each of these
and takes the fields that are copied as they are together. The casts of `serviceInfo`, to
`int` and back, are among those.

`InfoExchange` is what the property is about: services that have an information, convert it,
send it, convert it back and send it on (`asyncNotifyGroupInfo`, `asyncGetPeers`,
`asyncNotifyNewBlock`, `asyncNotifyTxsSyncMessage`). `said` goes with the message and is what its
maker meant; a gateway structure may also come from a program that made it itself, and
then means, of every group, all the nodes it lists.

Rules: `keyed`, a node is kept in its group under its own name; `given`, no null pointer is
sent, but for an error; `grouped`, a list from elsewhere names each group once; `coded`, an
error has a code other than 0. Without any one of them `MeaningKept` is violated.
`toTarsLedgerConfig` does not test its pointer; a null one is not sent in the model.

## 3. What TLC checks

| Run | Configuration | Properties | What it shows |
|---|---|---|---|
| `transaction_fresh` | `TransactionFresh.cfg`, rules `fresh`, `signonce` | `TypeOK`, `HashOfData`, `HashFieldsCurrent`, `SignatureOverData`, `SenderIsSigner` | a hash found, in a cell or on the wire, is the hash of the data beside it; signatures are over that hash; a sender nobody will recover again is the signer |
| `transaction_refines` | `TransactionRefines.cfg`, all rules | `EncodingCurrent`, `CachesInvisible` | bytes kept are the object's bytes, and an object behaves as a value: `TransactionImpl` implements `TransactionValue` |
| `transaction_decode` | `TransactionDecode.cfg`, both rules | `DecodeTypeOK`, `BufferIsObject`, `NonceCurrent`, `CheckedIsWhole` | bytes kept are of the object, the nonce read is the object's, and of a genuine transaction that was cut short no part passes the factory's check |
| `receipt` | `Receipt.cfg`, all rules | `TypeOK`, `HashOfReceipt`, `LogEntriesCurrent`, `NothingDangles` | hashes and log entries read are the receipt's, and nothing is read after its end |
| `header_caches` | `BlockHeaderSafe.cfg`, both rules | `TypeOK`, `HashOfHeader`, `ParentInfoCurrent` | the hash and the parents read through any wrapper are the header's |
| `header_signatures` | `BlockHeaderSignatures.cfg` | `SignatureListIsSet` (violated) | see section 5 |
| `block` | `Block.cfg`, all rules | `TypeOK`, `NoncesCurrent`, `InBounds`, `ReceiptsKept` | nonces read are the block's, nothing outside of a vector is touched, setting one receipt loses no other |
| `shared_object` | `SharedObject.cfg`, all rules | `TypeOK`, `NoRace` | no two threads race in what they call on one transaction, header, receipt or block |
| `calls_at_most_once` | `ServiceCallOnce.cfg`, no rule | `TypeOK`, `AtMostOnce` | `ServiceCall` implements `AsyncCall`, whatever callers do |
| `calls_end` | `ServiceCallLive.cfg`, fairness, all rules | `NoFault`, `EveryCallEnds` | no null or freed pointer is followed, no exception leaves an operation or a `Callback` unplanned; every operation returns or throws, and every callback of an asynchronous one that returns is called |
| `output_buffer` | `OutputBuffer.cfg`, rule `once` | `TypeOK`, `WritesInOwnMemory`, `HandsOutWhatWasWritten` | `OutputBuffer` implements `ByteLog`, and never writes into memory that is not the writer's |
| `info_exchange` | `InfoExchange.cfg`, all rules | `TypeOK`, `MeaningKept` | what a service has after any number of conversions is what was meant |

**Bounds.** Two wrappers: every hazard of the objects is between two wrappers over one
inner object, or between a wrapper and what it cached before, and a third wrapper adds a
copy of a situation that two already reach. One block slot, with both wrappers able to
view it, for the same reason. Two payloads (two attribute values, two parents), enough
to tell current from stale. `MaxTxs` caps the block, `MaxSignatures` a signature list.
`transaction_refines` has two attributes as well, which no hash covers, and
`transaction_fresh` two keys, so that a sender can be the wrong one. A block has up to
two of everything: enough for a vector shorter, as long and longer than another, and for
a nonce that fails after one that does not. Three threads over two wrappers, so that two
share one and a third is beside them. Two calls through one client, each of any kind in
the table: calls meet only in the client's connection, factory and lifetime, which two
calls exercise. Encodings are cut at every place, of transactions with two values of
each field and two signers but one nonce, which is enough to tell an object's own nonce
from none; there is one object, since nothing is shared. Receipts have two wrappers, one
block slot and one submit result, and two log entries beside none. The buffer's
reservation starts at 3 bytes instead of 128, with chunks of 1 and 2 and at most 4: a
write then fits, fills or exceeds what is there, and a vector is swapped for one of
more, as much or less memory. Weights go to 3 instead of 2^64 - 1, so that both halves
occur; groups have up to two nodes under their own, another's or no name, null ones too;
lists from elsewhere have two entries, of one group or of two; two services, since a
conversion only depends on the message. Wrappers, threads and calls are symmetric and
TLC uses it, but not for the liveness run.

**Deadlock** is checked in every run: none can stop, since objects can always be
made, replaced or released, threads of a phase can go on or end it, and the connection
can always change.

**Fairness** (`calls_end` only). A thread inside an operation goes on (weak
fairness of `CheckConnection`, and of `Send` or `SendRefused`), and each wait is ended by the
runtime, by an answer or by its timer (weak fairness of `RuntimeSteps`; requests
have timeouts, the default one of the runtime or the one set by
`tars_set_timeout`). Nothing is assumed of the service, the network or the
connection: they may do nothing, for ever.

## 4. What is proved

For every value of the constants that satisfies the assumptions of the modules,
and therefore for any number of wrappers, slots, keys, calls:

| Theorem | Statement |
|---|---|
| `TransactionProofs!TypeCorrect` | `Spec => []TypeOK` |
| `TransactionProofs!HashesAreRight` | with `fresh`, `Spec => [](HashOfData /\ HashFieldsCurrent /\ SignatureOverData)` |
| `TransactionProofs!HashFieldsAreCurrent`, `!SignaturesAreOverData` | the second and third part alone |
| `TransactionProofs!SendersSigned` | with `signonce`, `Spec => []SenderIsSigner` |
| `TransactionProofs!EncodingsAreRight` | with `fresh` and `freeze`, `Spec => []EncodingCurrent` |
| `TransactionProofs!CachesAreInvisible` | with `fresh` and `freeze`, `Spec => CachesInvisible`: `TransactionImpl` implements `TransactionValue` |
| `ReceiptProofs!TypeCorrect` | `Spec => []TypeOK` |
| `ReceiptProofs!ReceiptHashesAreRight` | with `freeze`, `Spec => []HashOfReceipt` |
| `ReceiptProofs!ReceiptLogsAreRight` | with `fresh`, `Spec => []LogEntriesCurrent` |
| `ReceiptProofs!LifetimePreventsDangling` | with `lifetime`, `Spec => []NothingDangles` |
| `WireProofs!TypeCorrect` | `Spec => []TypeOK` |
| `WireProofs!OnceWritesInOwnMemory` | with `once`, `Spec => []WritesInOwnMemory` |
| `WireProofs!OnceImplementsLog` | with `once`, `Spec => HandsOutWhatWasWritten` |
| `WireProofs!DecodedTypeCorrect` | `DecodeSpec => []DecodeTypeOK` |
| `WireProofs!CheckedTransactionsAreWhole` | with no rule, `DecodeSpec => []CheckedIsWhole`, of genuine bytes that were cut short |
| `WireProofs!DiscardKeepsBufferOfObject` | with `discard`, `DecodeSpec => []BufferIsObject` |
| `WireProofs!FreshKeepsNonceCurrent` | with `fresh`, `DecodeSpec => []NonceCurrent` |
| `ConversionsProofs!TypeCorrect` | `Spec => []TypeOK` |
| `ConversionsProofs!MeaningsKept` | with the rules of the kinds of information that are made (`RulesKept`), `Spec => []MeaningKept` |
| `BlockHeaderProofs!TypeCorrect` | `Spec => []TypeOK` |
| `BlockHeaderProofs!HeaderHashesAreRight` | with `freeze`, `Spec => []HashOfHeader` |
| `BlockHeaderProofs!ParentsAreCurrent` | with `fresh`, `Spec => []ParentInfoCurrent` |
| `BlockProofs!TypeCorrect` | `Spec => []TypeOK` |
| `BlockProofs!NoncesAreCurrent` | with `fresh` and `numeric`, `Spec => []NoncesCurrent` |
| `BlockProofs!IndexesAreInBounds` | with `fresh` and `bounds`, `Spec => []InBounds` |
| `BlockProofs!SettingKeepsReceipts` | with `bounds`, `Spec => ReceiptsKept` |
| `SharedObjectProofs!TypeCorrect` | `Spec => []TypeOK` |
| `SharedObjectProofs!RulesPreventRaces` | with the rules of the kinds of object that are shared (`RulesKept`), `Spec => []NoRace` |
| `ServiceCallProofs!TypeCorrect` | `Spec => []TypeOK` |
| `ServiceCallProofs!ClientsRefineAsyncCall` | `Spec => AtMostOnce` |
| `ServiceCallProofs!RulesPreventFaults` | with the rules of the operations that are called (`RulesKept`), `Spec => []NoFault` |
| `ServiceCallProofs!ReportsAreTrue` | `Spec => []ReportTrue`: "ok" and "error" given to a callback are what the service did, and a call reported as not sent, or refused, has not run and has no request left that could |
| `ServiceCallProofs!CallbackAloneSuffices` | with `callback`, for operations among `PlainKinds`, `Spec => []NoFault` |
| `ServiceCallProofs!OnlyFrontNeedsLifetime` | with `callback` and `factory`, for operations of all clients but the front service's, `Spec => []NoFault` |

Arguments.

* *Transactions.* The three properties need each other. `Encode` stores the hash
  of `m_dataBuffer`, so `HashOfData` needs the cache to be current; the cache of a
  view is current only while nobody overwrites the slot, which is `fresh`; a
  signature is over `hash()`, which returns `dataHash`. `HashInv` is their
  conjunction with the types, what dead wrappers look like, and which cells a
  wrapper can reach; it also says of the buffers what `wire` will be when they are
  sent.
* *Senders and encodings.* A sender is stored by `verify()` only, for the signer of
  what the object holds; `signonce` keeps the signature, so `SenderInv` needs no more
  than that objects and encodings keep the two together, whatever becomes of the
  caches. `EncodingCurrent` is inductive together with `HashInv`: `Encode` writes out
  an object whose hash it has just stored, and `HashInv` says the hash was the same.
* *Transactions as values.* The refinement maps a cell in use to the value of its inner
  object, a signature to the data whose hash it is over, and a cell not in use to
  nothing. A step on one cell changes one value (`OneValue`), a step that changes only
  caches or stores the hash the object has none (`SameValues`). `HashInv` says that the
  hash stored or signed is the data's, and `EncodingCurrent` that what is sent from
  `m_buffer` is the object.
* *Receipts.* `HashOfReceipt` is inductive with `TypeOK`: every way a receipt gets its data
  gives it the hash beside them, but `setLogEntries`. `LogEntriesCurrent` needs that a
  wrapper that does not exist, or whose result is gone, caches nothing a new one would
  inherit. `NothingDangles` is inductive as it is.
* *The buffer.* `Inv` says that before its bytes are taken `_buf` is the writer's own memory,
  as long as `_buf_len`, that `_len` is within it, and that the vector's own size covers
  what was written whenever it may be grown again: `resize` sets to zero what the vector
  does not know of, and no more.
* *Conversions.* `RulesKept` asks `keyed` and `given` of those who make groups, `given` of
  those who make gateways, `coded` of those who make errors, `grouped` where lists come
  from elsewhere, and nothing of those who make ledgers. The invariant says that what a
  service has is what was meant and that a message, converted back, is what was meant. It rests on one lemma for each kind,
  that converting there and back is the identity under the rules (`GroupRoundTrip`,
  `GatewayRoundTrip`, `LedgerRoundTrip`, `ErrorRoundTrip`), and `ForeignGateway` for lists
  made elsewhere. What comes back keeps to the rules, so it may be sent on.
* *Bytes that come in.* Bytes are the encoding of a transaction that somebody signed, whole
  or cut anywhere (`Genuine`), which every action keeps; bytes that somebody made up, with a
  sender beside another's signature, are not in the model. The signature's tag comes after the data and the hash, and the
  sender's is the last (`FieldOrder`): where there is a sender everything came, where there
  is a signature everything it is over did, and what `verify()` recovers is the signer. So
  `CheckedIsWhole` needs no rule. `BufferIsObject` is inductive with the types under
  `discard`, and `NonceCurrent` by itself under `fresh`.
* *Headers.* Two invariants. `HashInv` is about the inner objects and the encodings only:
  whichever way a header gets its data, the hash comes with them or is cleared, but for
  a setter, which `freeze` keeps from a hashed header; no wrapper's cache matters.
  `ParentsInv` is about the wrappers: under `fresh` it adds that a dead wrapper has an
  empty cache (a new one would inherit it) and that a wrapper reaches its own header or
  the block's (another wrapper's header cannot vanish under it).
* *Blocks.* `NoncesInv` adds to `NoncesCurrent` that every nonce the block has can be
  read: set ones can, received ones by `numeric`. Without it a second `nonceList()`
  would return half a list. `InBounds` is inductive with the types: vectors shrink in
  `Replace` only, when `fresh` leaves no views; `SetReceipt` below the number of
  transactions, which is `bounds`, only grows one.
* *Threads.* `RulesKept` asks for the five rules where transactions are shared, for `hashed`
  and `filled` where headers or receipts are, for `filled` where blocks are. `SharedInv`
  says of a phase of several threads that the object is hashed, unless it is a block,
  that no thread is at a write everyone can see, and that threads at the caches of one
  wrapper only read them. `Fork` establishes it from `hashed` and `filled`, `Call` keeps
  it from `encoded`, `verified` and `alone`; in a phase of one there is nobody to race with.
* *Calls.* `OnceInv` says what each `pc` allows: nothing was told before the end;
  at the end at most one report; a request or an answer exists only for a call
  that was sent; an answer under way is what the service said. The refinement
  maps `Serve` to `Serve`, the three actions that tell a callback and `SendRefused`, which
  tells the caller itself, to `Tell`, and
  everything else to a stutter. `FaultInv` carries the rules forward: a waiting
  call has the callback and the captured factory it will need, and the client it
  points to is alive. `RulesKept` asks each rule of the operations that need it only:
  `callback` where the `Callback` does not test it, `factory` where an answer is converted
  through one, `lifetime` where that one is the client's. Read off the tables of
  `ClientOperations`, most operations need `callback` only, and only the front service's
  need `lifetime`. `ReportsAreTrue` puts the two together for the clients: an
  implementation of `AsyncCall` tells the truth and keeps it true (`ToldStaysTrue`), by
  `ClientsRefineAsyncCall` the clients are one, and by `OnceInv` nothing is under way for a
  call that was not sent.

Model-checked only: `EveryCallEnds`, since liveness is out of the prover's reach. It says of
`asyncSendResponse`, which blocks (`C/FrontServiceClient.h:254`), that it ends; that its
callback learns nothing but a missing connection is what the code does, and which thread
it holds until then is its caller's choice and not modelled. Every
other property of a passing run is the conclusion of a theorem. `SignatureListIsSet` is
violated (section 5).

## 5. A disagreement found

`BlockHeaderImpl::setSignatureList` appends to the list in the header
(`P/BlockHeaderImpl.cpp:143-149`) where `setSealerList` and `setParentInfo` clear
first, and `test/ProtocolTest.cpp:219-220` expects the list to be what was set.
A header that has signatures, set or decoded, and is given a list, has both. Run
`header_signatures` sets one twice.

## 6. Assumptions on code outside the repository

* The code the tars generator makes: `readFrom` resets the object before it reads,
  so a decoded object has nothing of the old one. If it left optional containers
  that the bytes do not have, the old `sender` would survive a `decode`; the
  operator `DecodeMerging` shows what that would break.
* `tars::TarsInputStream` throws on a field that is cut off and not on one that is missing;
  the generated `readFrom` reads the fields in the order of their tags, and the stream writes
  no optional field that is empty.
* `TarsReserveBuf` asks for twice the length it needs and for 128 bytes at least;
  `std::vector::resize` keeps the elements below the old size and sets the others to
  zero; swapping two vectors leaves pointers into their memory valid.
* `bcos::group::GroupInfo::appendNodeInfo` keeps one node of each name.
* The framework's `Transaction::verify()`: returns at once for an object with a
  sender, else recovers the signer from `hash()` and the signature, and stores it.
* The hash is injective; recovery succeeds only for the hash that was signed.
* The tars runtime, as in 2.4.

## 7. Plan

Done, in this order: transactions (2.1), service calls (2.4), block headers (2.2), blocks
(2.3), threads over one object (2.5), receipts and submit results (2.7), the output buffer
(2.8), conversions (2.9), bytes that end early (2.6), and the proof that transactions are
values. The first two came first because what is wrong in them reaches the chain or
loses an answer.

Every safety and action property is proved (section 4), each under the rules it needs. What
may follow: a value that receipts and headers implement, as transactions do
`TransactionValue`, which their hash and cache invariants already give in parts.

## 8. Not modelled

* `TransactionMetaDataImpl`: setters and getters of four fields. Nothing is cached or
  computed; the views of a block's metadata are in `BlockImpl`. `takeInner()`, which would
  empty a block's element through a view of it, is called by nothing.
* `ExecutionResultImpl`: three getters over a pointer that no constructor and no method sets.
* The plain fields of a submit result, and `setBlockType`.
* `swap` of two `BufferWriterByteVector`, which nothing calls.
* What `NodeIPEndpoint` of the framework does to the port of a gateway.
* Bytes that nobody's `encode` wrote: 2.1 and 2.6 are about encodings that were made, whole
  or cut short.
* Arguments and results of the service calls, logging, and the wire format of tars beyond
  2.6. The code generated from `tars/*.tars` is not in the repository, and neither are the
  services at the other end.
