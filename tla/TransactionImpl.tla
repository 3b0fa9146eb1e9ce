--------------------------- MODULE TransactionImpl ---------------------------
(***************************************************************************)
(* The transaction object of protocol/TransactionImpl: a wrapper (handle)  *)
(* that reaches a tars `bcostars::Transaction' through a getter and keeps  *)
(* two lazily filled byte caches beside it, m_dataBuffer (the hashed       *)
(* fields) and m_buffer (everything).  Several wrappers may reach one      *)
(* inner object: block->transaction(i) returns a fresh wrapper over slot i *)
(* of the block, with empty caches of its own.                             *)
(*                                                                         *)
(* A byte vector is <<>> when it is empty and <<v>> when it holds the      *)
(* encoding of v, so "empty()" in the code is "= <<>>" here.               *)
(***************************************************************************)
EXTENDS Naturals, Sequences

CONSTANTS
    Handles,         \* wrappers the program may hold at one time
    Payloads,        \* values of the hashed fields, TransactionData
    DefaultPayload,  \* the TransactionData of a default-constructed Transaction
    Attributes,      \* importTime, attribute and source, taken together
    DefaultAttribute,
    Keys,            \* signing keys; a sender is the address of a key
    MaxTxs,          \* bound on block.transactions
    CallerRules      \* what callers keep to; a subset of Rules

(* "fresh": decode, setInner and block->setTransaction, and the block's    *)
(*          own decode and setInner, write only to inner objects whose     *)
(*          wrappers have cached nothing yet.                              *)
(* "freeze": the setters are not called while the wrapper holds its full   *)
(*          encoding.                                                      *)
(* "signonce": setSignatureData is called on an unsigned transaction only. *)
(* None of them is enforced by the code.                                   *)
Rules == {"fresh", "freeze", "signonce"}

ASSUME HandlesAssumption == Handles \cap Nat = {}
ASSUME DefaultsAssumption == DefaultPayload \in Payloads /\ DefaultAttribute \in Attributes
ASSUME MaxTxsAssumption == MaxTxs \in Nat

VARIABLES
    cells,       \* the inner objects: one per owning wrapper, one per block slot
    size,        \* block.transactions.size()
    at,          \* the inner object a wrapper's getter returns; NoCell: no wrapper
    dataBuffer,  \* m_dataBuffer
    buffer,      \* m_buffer
    wire         \* the last full encoding handed to the network

vars == <<cells, size, at, dataBuffer, buffer, wire>>

NoCell == 0
Slots == 1 .. MaxTxs
Cells == Handles \cup Slots

Bytes(S) == {<<>>} \cup {<<v>> : v \in S}

\* cryptoSuite->hash: injective, and hashes whatever bytes it is given.
Hash(b) == [hashOf |-> b]
Hashes == [hashOf : Bytes(Payloads)]

\* signatureImpl()->sign(key, hash).
Signatures == [key : Keys, over : Hashes]

Inners == [data : Payloads, dataHash : Bytes(Hashes), signature : Bytes(Signatures),
           sender : Bytes(Keys), attribute : Attributes]

Blank == [data |-> DefaultPayload, dataHash |-> <<>>, signature |-> <<>>,
          sender |-> <<>>, attribute |-> DefaultAttribute]

TypeOK ==
    /\ cells \in [Cells -> Inners]
    /\ size \in 0 .. MaxTxs
    /\ at \in [Handles -> Cells \cup {NoCell}]
    /\ dataBuffer \in [Handles -> Bytes(Payloads)]
    /\ buffer \in [Handles -> Bytes(Inners)]
    /\ wire \in Bytes(Inners)

-----------------------------------------------------------------------------
Live(h) == at[h] # NoCell
Owner(h) == at[h] = h
Inner(h) == cells[at[h]]

Init ==
    /\ cells = [c \in Cells |-> Blank]
    /\ size = 0
    /\ at = [h \in Handles |-> NoCell]
    /\ dataBuffer = [h \in Handles |-> <<>>]
    /\ buffer = [h \in Handles |-> <<>>]
    /\ wire = <<>>

\* The wrappers over inner object c have cached nothing.
Fresh(c) == \A h \in Handles : at[h] = c => dataBuffer[h] = <<>> /\ buffer[h] = <<>>

MayOverwrite(c) == "fresh" \in CallerRules => Fresh(c)
MaySet(h) == Owner(h) /\ ("freeze" \in CallerRules => buffer[h] = <<>>)

\* m_dataBuffer once encode() has passed its first `if'.
DataBytes(h) == IF dataBuffer[h] = <<>> THEN <<Inner(h).data>> ELSE dataBuffer[h]

\* What hash() returns.
HashValue(h) == IF Inner(h).dataHash = <<>> THEN Hash(DataBytes(h)) ELSE Inner(h).dataHash[1]

\* recover(hash, signature) finds the signer when the signature is over that
\* hash; on anything else verify() throws.
Recovers(signature, hash) == signature # <<>> /\ signature[1].over = hash

\* A new owning wrapper h over `inner', with the given caches.
NewObject(h, inner, dataBytes, bytes) ==
    /\ ~Live(h)
    /\ at' = [at EXCEPT ![h] = h]
    /\ cells' = [cells EXCEPT ![h] = inner]
    /\ dataBuffer' = [dataBuffer EXCEPT ![h] = dataBytes]
    /\ buffer' = [buffer EXCEPT ![h] = bytes]
    /\ UNCHANGED <<size, wire>>

-----------------------------------------------------------------------------
(* TransactionFactoryImpl *)

CreateTransaction(h, d, a) ==
    NewObject(h, [Blank EXCEPT !.data = d, !.attribute = a], <<>>, <<>>)

\* Faulty: hash() before the fields are filled in.
CreateSignedHashedEarly(h, d, a, k) ==
    LET hash == Hash(<<DefaultPayload>>) IN
    NewObject(h, [Blank EXCEPT !.data = d, !.attribute = a, !.dataHash = <<hash>>,
                               !.signature = <<[key |-> k, over |-> hash]>>],
              <<DefaultPayload>>, <<>>)

\* Faulty: the signature is over m_dataBuffer's hash before encode() fills it.
CreateSignedUnhashed(h, d, a, k) ==
    NewObject(h, [Blank EXCEPT !.data = d, !.attribute = a, !.dataHash = <<Hash(<<d>>)>>,
                               !.signature = <<[key |-> k, over |-> Hash(<<>>)]>>],
              <<d>>, <<>>)

\* Faulty: encode(false) where hash() is meant, before the signature is there.
CreateSignedEncodedEarly(h, d, a, k) ==
    LET hash == Hash(<<d>>)
        unsigned == [Blank EXCEPT !.data = d, !.attribute = a, !.dataHash = <<hash>>]
    IN NewObject(h, [unsigned EXCEPT !.signature = <<[key |-> k, over |-> hash]>>],
                 <<d>>, <<unsigned>>)

\* hash() runs first and fills dataHash and m_dataBuffer; the signature is last.
CreateSignedTransaction(h, d, a, k) ==
    LET hash == Hash(<<d>>) IN
    NewObject(h, [Blank EXCEPT !.data = d, !.attribute = a, !.dataHash = <<hash>>,
                               !.signature = <<[key |-> k, over |-> hash]>>],
              <<d>>, <<>>)

\* createTransaction(bytes, false): m_buffer keeps the bytes received.
CreateUnchecked(h) ==
    /\ wire # <<>>
    /\ NewObject(h, wire[1], <<>>, wire)

\* createTransaction(bytes, true): decode, then verify(), which is a no-op when
\* the sender came with the bytes.  When it throws, the object is gone.
CreateChecked(h) ==
    /\ wire # <<>>
    /\ LET in == wire[1]
           computed == in.dataHash = <<>>
           hash == IF computed THEN Hash(<<in.data>>) ELSE in.dataHash[1]
       IN \/ /\ in.sender # <<>>
             /\ NewObject(h, in, <<>>, wire)
          \/ /\ in.sender = <<>>
             /\ Recovers(in.signature, hash)
             /\ NewObject(h, [in EXCEPT !.dataHash = <<hash>>,
                                        !.sender = <<in.signature[1].key>>],
                          IF computed THEN <<in.data>> ELSE <<>>, wire)

\* The last shared_ptr to the wrapper goes away; a block slot outlives its views.
Release(h) ==
    /\ Live(h)
    /\ at' = [at EXCEPT ![h] = NoCell]
    /\ cells' = IF Owner(h) THEN [cells EXCEPT ![h] = Blank] ELSE cells
    /\ dataBuffer' = [dataBuffer EXCEPT ![h] = <<>>]
    /\ buffer' = [buffer EXCEPT ![h] = <<>>]
    /\ UNCHANGED <<size, wire>>

-----------------------------------------------------------------------------
(* TransactionImpl *)

\* Faulty: the encoded fields are stored, not their hash.
ComputeHashRaw(h) ==
    /\ Live(h)
    /\ Inner(h).dataHash = <<>>
    /\ dataBuffer' = [dataBuffer EXCEPT ![h] = DataBytes(h)]
    /\ cells' = [cells EXCEPT ![at[h]].dataHash = DataBytes(h)]
    /\ UNCHANGED <<size, at, buffer, wire>>

\* hash() with an empty dataHash; with a full one it changes nothing.
ComputeHash(h) ==
    /\ Live(h)
    /\ Inner(h).dataHash = <<>>
    /\ dataBuffer' = [dataBuffer EXCEPT ![h] = DataBytes(h)]
    /\ cells' = [cells EXCEPT ![at[h]].dataHash = <<Hash(DataBytes(h))>>]
    /\ UNCHANGED <<size, at, buffer, wire>>

\* encode(true)
EncodeHashFields(h) ==
    /\ Live(h)
    /\ dataBuffer' = [dataBuffer EXCEPT ![h] = DataBytes(h)]
    /\ UNCHANGED <<cells, size, at, buffer, wire>>

\* Faulty: m_dataBuffer is hashed before it is filled.
EncodeHashedEarly(h) ==
    /\ Live(h)
    /\ dataBuffer' = [dataBuffer EXCEPT ![h] = DataBytes(h)]
    /\ buffer[h] = <<>>
    /\ LET hashed == [Inner(h) EXCEPT !.dataHash = <<Hash(dataBuffer[h])>>]
       IN /\ cells' = [cells EXCEPT ![at[h]] = hashed]
          /\ buffer' = [buffer EXCEPT ![h] = <<hashed>>]
          /\ wire' = <<hashed>>
    /\ UNCHANGED <<size, at>>

\* encode(false), the bytes going to the network.  The hash is recomputed from
\* m_dataBuffer whenever m_buffer has to be filled, also over an older dataHash.
Encode(h) ==
    /\ Live(h)
    /\ dataBuffer' = [dataBuffer EXCEPT ![h] = DataBytes(h)]
    /\ \/ /\ buffer[h] = <<>>
          /\ LET hashed == [Inner(h) EXCEPT !.dataHash = <<Hash(DataBytes(h))>>]
             IN /\ cells' = [cells EXCEPT ![at[h]] = hashed]
                /\ buffer' = [buffer EXCEPT ![h] = <<hashed>>]
                /\ wire' = <<hashed>>
       \/ /\ buffer[h] # <<>>
          /\ wire' = buffer[h]
          /\ UNCHANGED <<cells, buffer>>
    /\ UNCHANGED <<size, at>>

\* takeEncoded() moves m_buffer out, full or empty.  It is not const: a block's
\* views, which are handed out as ConstPtr, cannot call it.
TakeEncoded(h) ==
    /\ Owner(h)
    /\ wire' = buffer[h]
    /\ buffer' = [buffer EXCEPT ![h] = <<>>]
    /\ UNCHANGED <<cells, size, at, dataBuffer>>

\* verify() of the framework: nothing to do with a sender already there;
\* otherwise hash(), recover, forceSender.
Verify(h) ==
    /\ Live(h)
    /\ Inner(h).sender = <<>>
    /\ Recovers(Inner(h).signature, HashValue(h))
    /\ cells' = [cells EXCEPT ![at[h]].dataHash = <<HashValue(h)>>,
                              ![at[h]].sender = <<Inner(h).signature[1].key>>]
    /\ dataBuffer' = IF Inner(h).dataHash = <<>>
                     THEN [dataBuffer EXCEPT ![h] = DataBytes(h)] ELSE dataBuffer
    /\ UNCHANGED <<size, at, buffer, wire>>

\* setSignatureData(sign(k, hash())) by the owner, who hashed the object before.
SetSignatureData(h, k) ==
    /\ MaySet(h)
    /\ "signonce" \in CallerRules => Inner(h).signature = <<>>
    /\ Inner(h).dataHash # <<>>
    /\ cells' = [cells EXCEPT ![h].signature = <<[key |-> k, over |-> HashValue(h)]>>]
    /\ UNCHANGED <<size, at, dataBuffer, buffer, wire>>

\* setImportTime, setAttribute, setSource
SetAttribute(h, a) ==
    /\ MaySet(h)
    /\ cells' = [cells EXCEPT ![h].attribute = a]
    /\ UNCHANGED <<size, at, dataBuffer, buffer, wire>>

\* Faulty: readFrom leaves the sender of the old object when the bytes have none.
DecodeMerging(h) ==
    /\ Owner(h) /\ wire # <<>>
    /\ MayOverwrite(h)
    /\ cells' = [cells EXCEPT ![h] = [wire[1] EXCEPT !.sender = IF @ = <<>> THEN cells[h].sender ELSE @]]
    /\ buffer' = [buffer EXCEPT ![h] = wire]
    /\ UNCHANGED <<size, at, dataBuffer, wire>>

\* decode() on an object already in use: m_buffer and the inner object are
\* replaced, m_dataBuffer is left.
Decode(h) ==
    /\ Owner(h) /\ wire # <<>>
    /\ MayOverwrite(h)
    /\ cells' = [cells EXCEPT ![h] = wire[1]]
    /\ buffer' = [buffer EXCEPT ![h] = wire]
    /\ UNCHANGED <<size, at, dataBuffer, wire>>

\* Faulty: g's inner object is moved from, not copied.
SetInnerMoves(h, g) ==
    /\ Owner(h) /\ Live(g)
    /\ MayOverwrite(h)
    /\ cells' = [cells EXCEPT ![at[g]] = Blank, ![h] = Inner(g)]
    /\ UNCHANGED <<size, at, dataBuffer, buffer, wire>>

\* setInner() with a copy of g's inner object: both caches are left.
SetInner(h, g) ==
    /\ Owner(h) /\ Live(g)
    /\ MayOverwrite(h)
    /\ cells' = [cells EXCEPT ![h] = Inner(g)]
    /\ UNCHANGED <<size, at, dataBuffer, buffer, wire>>

-----------------------------------------------------------------------------
(* The transactions of a block, BlockImpl *)

AppendTransaction(h) ==
    /\ Live(h)
    /\ size < MaxTxs
    /\ size' = size + 1
    /\ cells' = [cells EXCEPT ![size + 1] = Inner(h)]
    /\ UNCHANGED <<at, dataBuffer, buffer, wire>>

\* setTransaction(i, tx) does not check i; callers stay below size().
SetTransaction(i, h) ==
    /\ Live(h)
    /\ i <= size
    /\ MayOverwrite(i)
    /\ cells' = [cells EXCEPT ![i] = Inner(h)]
    /\ UNCHANGED <<size, at, dataBuffer, buffer, wire>>

\* h = block->transaction(i)
ViewTransaction(h, i) ==
    /\ ~Live(h)
    /\ i <= size
    /\ at' = [at EXCEPT ![h] = i]
    /\ UNCHANGED <<cells, size, dataBuffer, buffer, wire>>

\* What another block can hold: copies of the transactions there are or came.
Copies ==
    {Inner(g) : g \in {h \in Handles : Live(h)}}
    \cup {cells[i] : i \in 1 .. size} \cup {wire[i] : i \in DOMAIN wire}

\* decode() of another block's encoding, or setInner() with it: the vector is
\* replaced and the views that remain are over the new transactions, with the
\* caches they have.  BlockImpl has the views that are left past the end.
ReplaceBlock(list) ==
    /\ \A i \in Slots : MayOverwrite(i)
    /\ \A h \in Handles : at[h] \in Slots => at[h] <= Len(list)
    /\ size' = Len(list)
    /\ cells' = [c \in Cells |-> IF c \notin Slots THEN cells[c]
                                 ELSE IF c <= Len(list) THEN list[c] ELSE Blank]
    /\ UNCHANGED <<at, dataBuffer, buffer, wire>>

-----------------------------------------------------------------------------
Creates(h) ==
    \/ \E d \in Payloads, a \in Attributes : CreateTransaction(h, d, a)
    \/ \E d \in Payloads, a \in Attributes, k \in Keys : CreateSignedTransaction(h, d, a, k)
    \/ CreateUnchecked(h)
    \/ CreateChecked(h)
    \/ \E i \in Slots : ViewTransaction(h, i)

Reads(h) == ComputeHash(h) \/ EncodeHashFields(h) \/ Encode(h) \/ TakeEncoded(h) \/ Verify(h)

Writes(h) ==
    \/ \E k \in Keys : SetSignatureData(h, k)
    \/ \E a \in Attributes : SetAttribute(h, a)
    \/ Decode(h)
    \/ \E g \in Handles : SetInner(h, g)
    \/ AppendTransaction(h)
    \/ \E i \in Slots : SetTransaction(i, h)

BlockSteps == \E n \in 0 .. MaxTxs : \E list \in [1 .. n -> Copies] : ReplaceBlock(list)

Next == (\E h \in Handles : Creates(h) \/ Reads(h) \/ Writes(h) \/ Release(h)) \/ BlockSteps

Spec == Init /\ [][Next]_vars
-----------------------------------------------------------------------------
\* What an encoding is about: everything but the derived dataHash and sender.
Content(inner) == [data |-> inner.data, signature |-> inner.signature,
                   attribute |-> inner.attribute]

\* A cached dataHash, which hash() returns without looking at the data and which
\* travels in the encoding, is the hash of the data beside it: in every object,
\* in every block slot, and in the bytes on the wire that a receiver will trust.
HashOfData ==
    /\ \A c \in Cells : cells[c].dataHash \in {<<>>, <<Hash(<<cells[c].data>>)>>}
    /\ wire # <<>> => wire[1].dataHash = <<Hash(<<wire[1].data>>)>>

\* encode(true) returns the hashed fields of the object as it is now.
HashFieldsCurrent == \A h \in Handles : Live(h) => DataBytes(h) = <<Inner(h).data>>

\* encode(false) returns the object as it is now: what a receiver decodes from
\* m_buffer has the data, the signature and the attributes of the object.
EncodingCurrent ==
    \A h \in Handles : Live(h) /\ buffer[h] # <<>> => Content(buffer[h][1]) = Content(Inner(h))

\* Every signature stored or sent is over the hash of the data it is stored or
\* sent with, so the receiver's verify() accepts it.
SignatureOverData ==
    \A inner \in {cells[c] : c \in Cells} \cup {wire[i] : i \in DOMAIN wire} :
        inner.signature # <<>> => inner.signature[1].over = Hash(<<inner.data>>)

\* A sender that is set is the signer.  verify() skips recovery for an object
\* that has a sender, so nobody looks again.
SenderIsSigner ==
    \A inner \in {cells[c] : c \in Cells} \cup {wire[i] : i \in DOMAIN wire} :
        inner.sender # <<>> =>
            /\ inner.signature # <<>>
            /\ inner.sender[1] = inner.signature[1].key

-----------------------------------------------------------------------------
(* Refinement: forget the caches, the derived fields and the hash inside a *)
(* signature, and what is left is TransactionValue.                        *)

ValueOfInner(inner) ==
    [data |-> inner.data, attribute |-> inner.attribute,
     signature |-> IF inner.signature = <<>> THEN <<>>
                   ELSE <<[key |-> inner.signature[1].key,
                           of |-> inner.signature[1].over.hashOf[1]]>>]

InUse(c) == IF c \in Handles THEN Live(c) /\ Owner(c) ELSE c <= size

Value == INSTANCE TransactionValue WITH
    value <- [c \in Cells |-> IF InUse(c) THEN <<ValueOfInner(cells[c])>> ELSE <<>>],
    sent <- IF wire = <<>> THEN <<>> ELSE <<ValueOfInner(wire[1])>>

\* Callers that keep to the rules cannot tell that anything is cached.
CachesInvisible == Value!Spec
=============================================================================
