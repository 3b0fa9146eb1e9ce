--------------------------- MODULE TransactionProofs ---------------------------
(* Proofs about TransactionImpl, for any set of wrappers, payloads and keys. *)
EXTENDS TransactionImpl, TLAPS

-----------------------------------------------------------------------------
(* Lemmas about byte vectors and the functions on a wrapper. *)

\* A byte vector is empty or holds one element of the set.
LEMMA BytesElement ==
    ASSUME NEW S, NEW b \in Bytes(S), b # <<>>
    PROVE  /\ b[1] \in S
           /\ b = <<b[1]>>
BY DEF Bytes

LEMMA BytesIntro ==
    ASSUME NEW S, NEW v \in S
    PROVE  /\ <<v>> \in Bytes(S)
           /\ <<>> \in Bytes(S)
           /\ <<v>> # <<>>
           /\ <<v>>[1] = v
BY DEF Bytes

\* A hash is a hash whatever bytes it is taken of.
LEMMA HashType ==
    ASSUME NEW b \in Bytes(Payloads)
    PROVE  Hash(b) \in Hashes
BY DEF Hash, Hashes

LEMMA BlankType == Blank \in Inners
BY DefaultsAssumption DEF Blank, Inners, Bytes

\* A live wrapper reaches an inner object.
LEMMA InnerType ==
    ASSUME TypeOK, NEW h \in Handles, Live(h)
    PROVE  at[h] \in Cells /\ Inner(h) \in Inners
BY DEF TypeOK, Live, Inner

LEMMA DataBytesType ==
    ASSUME TypeOK, NEW h \in Handles, Live(h)
    PROVE  DataBytes(h) \in Bytes(Payloads)
<1>1. Inner(h).data \in Payloads
  BY InnerType DEF Inners
<1>2. <<Inner(h).data>> \in Bytes(Payloads)
  BY <1>1, BytesIntro
<1>3. dataBuffer[h] \in Bytes(Payloads)
  BY DEF TypeOK
<1> QED BY <1>2, <1>3 DEF DataBytes

LEMMA HashValueType ==
    ASSUME TypeOK, NEW h \in Handles, Live(h)
    PROVE  HashValue(h) \in Hashes
<1>1. CASE Inner(h).dataHash = <<>>
  BY <1>1, DataBytesType, HashType DEF HashValue
<1>2. CASE Inner(h).dataHash # <<>>
  <2>1. Inner(h).dataHash \in Bytes(Hashes)
    BY InnerType DEF Inners
  <2>2. Inner(h).dataHash[1] \in Hashes
    BY <1>2, <2>1, BytesElement
  <2> QED BY <1>2, <2>2 DEF HashValue
<1> QED BY <1>1, <1>2

-----------------------------------------------------------------------------
(* Type correctness. *)

LEMMA OwnerLive ==
    ASSUME NEW h \in Handles, Owner(h)
    PROVE  Live(h)
BY HandlesAssumption DEF Owner, Live, NoCell

LEMMA NewObjectType ==
    ASSUME TypeOK, NEW h \in Handles, NEW inner \in Inners,
           NEW db \in Bytes(Payloads), NEW b \in Bytes(Inners),
           NewObject(h, inner, db, b)
    PROVE  TypeOK'
BY DEF TypeOK, NewObject, Cells

LEMMA CreateType ==
    ASSUME TypeOK, NEW h \in Handles, Creates(h)
    PROVE  TypeOK'
<1> USE BlankType
<1>1. ASSUME NEW d \in Payloads, NEW a \in Attributes, CreateTransaction(h, d, a)
      PROVE  TypeOK'
  <2>1. [Blank EXCEPT !.data = d, !.attribute = a] \in Inners
    BY DEF Inners
  <2>2. <<>> \in Bytes(Payloads) /\ <<>> \in Bytes(Inners)
    BY DEF Bytes
  <2> QED BY <1>1, <2>1, <2>2, NewObjectType DEF CreateTransaction
<1>2. ASSUME NEW d \in Payloads, NEW a \in Attributes, NEW k \in Keys,
             CreateSignedTransaction(h, d, a, k)
      PROVE  TypeOK'
  <2> DEFINE hash == Hash(<<d>>)
             signature == [key |-> k, over |-> hash]
             inner == [Blank EXCEPT !.data = d, !.attribute = a, !.dataHash = <<hash>>,
                                    !.signature = <<signature>>]
  <2>1. <<d>> \in Bytes(Payloads) /\ <<>> \in Bytes(Inners)
    BY BytesIntro DEF Bytes
  <2>2. hash \in Hashes
    BY <2>1, HashType
  <2>3. signature \in Signatures
    BY <2>2 DEF Signatures
  <2>4. <<hash>> \in Bytes(Hashes) /\ <<signature>> \in Bytes(Signatures)
    BY <2>2, <2>3, BytesIntro
  <2>5. inner \in Inners
    BY <2>4 DEF Inners
  <2> QED BY <1>2, <2>1, <2>5, NewObjectType DEF CreateSignedTransaction
<1>3. ASSUME CreateUnchecked(h)
      PROVE  TypeOK'
  <2>1. wire[1] \in Inners
    BY <1>3, BytesElement DEF CreateUnchecked, TypeOK
  <2> QED BY <1>3, <2>1, NewObjectType DEF CreateUnchecked, TypeOK, Bytes
<1>4. ASSUME CreateChecked(h)
      PROVE  TypeOK'
  <2> DEFINE in == wire[1]
             computed == in.dataHash = <<>>
             hash == IF computed THEN Hash(<<in.data>>) ELSE in.dataHash[1]
             verified == [in EXCEPT !.dataHash = <<hash>>, !.sender = <<in.signature[1].key>>]
  <2>1. in \in Inners /\ wire \in Bytes(Inners)
    BY <1>4, BytesElement DEF CreateChecked, TypeOK
  <2>2. <<in.data>> \in Bytes(Payloads) /\ <<>> \in Bytes(Payloads)
    BY <2>1 DEF Bytes, Inners
  <2>3. hash \in Hashes
    BY <2>1, <2>2, HashType, BytesElement DEF Inners
  <2>4. CASE in.sender # <<>> /\ NewObject(h, in, <<>>, wire)
    BY <2>1, <2>2, <2>4, NewObjectType
  <2>5. CASE /\ Recovers(in.signature, hash)
             /\ NewObject(h, verified, IF computed THEN <<in.data>> ELSE <<>>, wire)
    <3>1. in.signature[1] \in Signatures
      BY <2>1, <2>5, BytesElement DEF Recovers, Inners
    <3>2. <<in.signature[1].key>> \in Bytes(Keys)
      BY <3>1, BytesIntro DEF Signatures
    <3>3. verified \in Inners
      BY <2>1, <2>3, <3>2, BytesIntro DEF Inners
    <3> QED BY <2>1, <2>2, <2>5, <3>3, NewObjectType
  <2> QED BY <1>4, <2>4, <2>5 DEF CreateChecked
<1>5. ASSUME NEW i \in Slots, ViewTransaction(h, i)
      PROVE  TypeOK'
  BY <1>5 DEF ViewTransaction, TypeOK, Cells
<1> QED BY <1>1, <1>2, <1>3, <1>4, <1>5 DEF Creates

LEMMA ReadType ==
    ASSUME TypeOK, NEW h \in Handles, Reads(h)
    PROVE  TypeOK'
<1>live. Live(h)
  BY OwnerLive DEF Reads, ComputeHash, EncodeHashFields, Encode, TakeEncoded, Verify
<1>in. at[h] \in Cells /\ Inner(h) \in Inners /\ cells[at[h]] = Inner(h)
  BY <1>live, InnerType DEF Inner
<1>db. DataBytes(h) \in Bytes(Payloads)
  BY <1>live, DataBytesType
<1>hd. <<Hash(DataBytes(h))>> \in Bytes(Hashes)
  BY <1>db, HashType, BytesIntro
<1>1. CASE ComputeHash(h)
  <2>1. [Inner(h) EXCEPT !.dataHash = <<Hash(DataBytes(h))>>] \in Inners
    BY <1>in, <1>hd DEF Inners
  <2>2. cells' = [cells EXCEPT ![at[h]] = [Inner(h) EXCEPT !.dataHash = <<Hash(DataBytes(h))>>]]
    BY <1>1 DEF ComputeHash, Inner
  <2> QED BY <1>1, <1>in, <1>db, <2>1, <2>2 DEF ComputeHash, TypeOK
<1>2. CASE EncodeHashFields(h)
  BY <1>2, <1>db DEF EncodeHashFields, TypeOK
<1>3. CASE Encode(h)
  <2> DEFINE hashed == [Inner(h) EXCEPT !.dataHash = <<Hash(DataBytes(h))>>]
  <2>1. hashed \in Inners
    BY <1>in, <1>hd DEF Inners
  <2>2. <<hashed>> \in Bytes(Inners)
    BY <2>1, BytesIntro
  <2>3. CASE /\ cells' = [cells EXCEPT ![at[h]] = hashed]
             /\ buffer' = [buffer EXCEPT ![h] = <<hashed>>]
             /\ wire' = <<hashed>>
    BY <1>3, <1>in, <1>db, <2>1, <2>2, <2>3 DEF Encode, TypeOK
  <2>4. CASE wire' = buffer[h] /\ UNCHANGED <<cells, buffer>>
    BY <1>3, <1>db, <2>4 DEF Encode, TypeOK
  <2> QED BY <1>3, <2>3, <2>4 DEF Encode
<1>4. CASE TakeEncoded(h)
  BY <1>4 DEF TakeEncoded, TypeOK, Bytes
<1>5. CASE Verify(h)
  <2> DEFINE verified == [Inner(h) EXCEPT !.dataHash = <<HashValue(h)>>,
                                          !.sender = <<Inner(h).signature[1].key>>]
  <2>1. Inner(h).signature[1] \in Signatures
    BY <1>5, <1>in, BytesElement DEF Verify, Recovers, Inners
  <2>2. <<Inner(h).signature[1].key>> \in Bytes(Keys)
    BY <2>1, BytesIntro DEF Signatures
  <2>3. <<HashValue(h)>> \in Bytes(Hashes)
    BY <1>live, HashValueType, BytesIntro
  <2>4. verified \in Inners
    BY <1>in, <2>2, <2>3 DEF Inners
  <2>5. cells' = [cells EXCEPT ![at[h]] = verified]
    BY <1>5, <1>in DEF Verify, Inner, TypeOK
  <2>6. dataBuffer' \in [Handles -> Bytes(Payloads)]
    BY <1>5, <1>db DEF Verify, TypeOK
  <2> QED BY <1>5, <1>in, <2>4, <2>5, <2>6 DEF Verify, TypeOK
<1> QED BY <1>1, <1>2, <1>3, <1>4, <1>5 DEF Reads

LEMMA WriteType ==
    ASSUME TypeOK, NEW h \in Handles, Writes(h)
    PROVE  TypeOK'
<1>1. ASSUME NEW k \in Keys, SetSignatureData(h, k)
      PROVE  TypeOK'
  <2> DEFINE signature == [key |-> k, over |-> HashValue(h)]
  <2>1. Live(h) /\ h \in Cells /\ cells[h] \in Inners
    BY <1>1, OwnerLive DEF SetSignatureData, MaySet, Cells, TypeOK
  <2>2. <<signature>> \in Bytes(Signatures)
    BY <2>1, HashValueType, BytesIntro DEF Signatures
  <2>3. [cells[h] EXCEPT !.signature = <<signature>>] \in Inners
    BY <2>1, <2>2 DEF Inners
  <2> QED BY <1>1, <2>1, <2>3 DEF SetSignatureData, TypeOK
<1>2. ASSUME NEW a \in Attributes, SetAttribute(h, a)
      PROVE  TypeOK'
  <2>1. h \in Cells /\ [cells[h] EXCEPT !.attribute = a] \in Inners
    BY <1>2 DEF TypeOK, Inners, Cells
  <2> QED BY <1>2, <2>1 DEF SetAttribute, TypeOK
<1>3. CASE Decode(h)
  <2>1. wire[1] \in Inners
    BY <1>3, BytesElement DEF Decode, TypeOK
  <2> QED BY <1>3, <2>1 DEF Decode, TypeOK
<1>4. ASSUME NEW g \in Handles, SetInner(h, g)
      PROVE  TypeOK'
  BY <1>4, InnerType DEF SetInner, TypeOK
<1>5. CASE AppendTransaction(h)
  <2>1. Inner(h) \in Inners /\ size + 1 \in 0 .. MaxTxs
    BY <1>5, InnerType, MaxTxsAssumption DEF AppendTransaction, TypeOK
  <2> QED BY <1>5, <2>1 DEF AppendTransaction, TypeOK
<1>6. ASSUME NEW i \in Slots, SetTransaction(i, h)
      PROVE  TypeOK'
  BY <1>6, InnerType DEF SetTransaction, TypeOK
<1> QED BY <1>1, <1>2, <1>3, <1>4, <1>5, <1>6 DEF Writes

\* What another block can hold is in an object, a slot or the bytes that came.
LEMMA CopyOf ==
    ASSUME TypeOK, NEW x \in Copies
    PROVE  (\E c \in Cells : x = cells[c]) \/ (wire # <<>> /\ x = wire[1])
<1>1. CASE x \in {Inner(g) : g \in {h \in Handles : Live(h)}}
  BY <1>1, InnerType DEF Inner
<1>2. CASE x \in {cells[i] : i \in 1 .. size}
  BY <1>2, MaxTxsAssumption DEF TypeOK, Cells, Slots
<1>3. CASE x \in {wire[i] : i \in DOMAIN wire}
  BY <1>3 DEF TypeOK, Bytes
<1> QED BY <1>1, <1>2, <1>3 DEF Copies

\* Replacing the block puts copies below the new size and defaults beyond it.
LEMMA BlockCells ==
    ASSUME NEW n \in 0 .. MaxTxs, NEW list \in [1 .. n -> Copies], ReplaceBlock(list)
    PROVE  /\ size' = n /\ UNCHANGED <<at, dataBuffer, buffer, wire>>
           /\ cells' = [c \in Cells |-> cells'[c]]
           /\ \A c \in Cells : c \notin Slots => cells'[c] = cells[c]
           /\ \A i \in Slots : i <= n => cells'[i] \in Copies
           /\ \A i \in Slots : ~(i <= n) => cells'[i] = Blank
           /\ \A i \in Slots : MayOverwrite(i)
           /\ \A h \in Handles : at[h] \in Slots => at[h] <= n
<1>1. Len(list) = n
  OBVIOUS
<1>2. \A i \in Slots : i <= n => list[i] \in Copies
  BY MaxTxsAssumption DEF Slots
<1>3. cells' = [c \in Cells |-> IF c \notin Slots THEN cells[c]
                               ELSE IF c <= n THEN list[c] ELSE Blank]
  BY <1>1 DEF ReplaceBlock
<1>4. \A c \in Slots : c \in Cells
  BY DEF Cells
<1> QED BY <1>1, <1>2, <1>3, <1>4 DEF ReplaceBlock

LEMMA BlockType ==
    ASSUME TypeOK, NEW n \in 0 .. MaxTxs, NEW list \in [1 .. n -> Copies], ReplaceBlock(list)
    PROVE  TypeOK'
<1>1. \A x \in Copies : x \in Inners
  BY CopyOf, BytesElement DEF TypeOK
<1>2. \A c \in Cells : cells'[c] \in Inners
  BY <1>1, BlockCells, BlankType DEF TypeOK
<1> QED BY <1>2, BlockCells DEF TypeOK

\* Every variable keeps the type the code gives it, whatever callers do.
THEOREM TypeCorrect == Spec => []TypeOK
<1>1. Init => TypeOK
  BY BlankType, MaxTxsAssumption DEF Init, TypeOK, Bytes, Cells
<1>2. TypeOK /\ [Next]_vars => TypeOK'
  <2> SUFFICES ASSUME TypeOK, [Next]_vars
               PROVE  TypeOK'
    OBVIOUS
  <2>1. ASSUME NEW h \in Handles, Creates(h)
        PROVE  TypeOK'
    BY <2>1, CreateType
  <2>2. ASSUME NEW h \in Handles, Reads(h)
        PROVE  TypeOK'
    BY <2>2, ReadType
  <2>3. ASSUME NEW h \in Handles, Writes(h)
        PROVE  TypeOK'
    BY <2>3, WriteType
  <2>4. ASSUME NEW h \in Handles, Release(h)
        PROVE  TypeOK'
    BY <2>4, BlankType DEF Release, TypeOK, Bytes
  <2>5. CASE BlockSteps
    BY <2>5, BlockType DEF BlockSteps
  <2>6. CASE UNCHANGED vars
    BY <2>6 DEF vars, TypeOK
  <2> QED BY <2>1, <2>2, <2>3, <2>4, <2>5, <2>6 DEF Next
<1> QED BY <1>1, <1>2, PTL DEF Spec

-----------------------------------------------------------------------------
(* The hash, the hashed fields and the signature.  The inductive invariant  *)
(* says of every place an inner object can be - cells, m_buffer, the wire - *)
(* what the properties say of cells and wire only, and adds that a wrapper  *)
(* that is gone has no caches and that a view stays inside the block.       *)

Good(inner) ==
    /\ inner.dataHash \in {<<>>, <<Hash(<<inner.data>>)>>}
    /\ inner.signature # <<>> => inner.signature[1].over = Hash(<<inner.data>>)

Sealed(inner) == Good(inner) /\ inner.dataHash # <<>>

CellsGood == \A c \in Cells : Good(cells[c])
BytesGood ==
    /\ \A h \in Handles : buffer[h] # <<>> => Sealed(buffer[h][1])
    /\ wire # <<>> => Sealed(wire[1])
CacheGood == \A h \in Handles : Live(h) => dataBuffer[h] \in {<<>>, <<Inner(h).data>>}
Placed ==
    \A h \in Handles :
        /\ at[h] \in {NoCell, h} \cup 1 .. size
        /\ ~Live(h) => dataBuffer[h] = <<>> /\ buffer[h] = <<>>

HashInv == TypeOK /\ CellsGood /\ BytesGood /\ CacheGood /\ Placed

\* With coherent caches, the bytes hashed are those of the data.
LEMMA HashValueGood ==
    ASSUME HashInv, NEW h \in Handles, Live(h)
    PROVE  /\ DataBytes(h) = <<Inner(h).data>>
           /\ HashValue(h) = Hash(<<Inner(h).data>>)
           /\ Good(Inner(h))
           /\ at[h] \in Cells
<1>1. Good(Inner(h)) /\ at[h] \in Cells
  BY InnerType DEF HashInv, CellsGood, Inner
<1>2. DataBytes(h) = <<Inner(h).data>>
  BY DEF HashInv, CacheGood, DataBytes
<1>3. HashValue(h) = Hash(<<Inner(h).data>>)
  BY <1>1, <1>2 DEF HashValue, Good
<1> QED BY <1>1, <1>2, <1>3

\* A new object starts with good contents and caches.
LEMMA NewObjectGood ==
    ASSUME HashInv, TypeOK', NEW h \in Handles, NEW inner, NEW db, NEW b,
           NewObject(h, inner, db, b),
           Good(inner), db \in {<<>>, <<inner.data>>},
           b # <<>> => Sealed(b[1])
    PROVE  HashInv'
<1> USE DEF HashInv, NewObject
<1>1. h \in Cells /\ h # NoCell /\ \A g \in Handles : at[g] # h
  BY HandlesAssumption DEF Cells, NoCell, Live, Placed, TypeOK
<1>2. CellsGood'
  BY <1>1 DEF CellsGood, Good, TypeOK
<1>3. BytesGood'
  BY DEF BytesGood, Sealed, Good, TypeOK
<1>4. CacheGood'
  BY <1>1 DEF CacheGood, Live, Inner, TypeOK
<1>5. Placed'
  BY <1>1 DEF Placed, Live, TypeOK
<1> QED BY <1>2, <1>3, <1>4, <1>5

LEMMA CreateGood ==
    ASSUME HashInv, TypeOK', NEW h \in Handles, Creates(h)
    PROVE  HashInv'
<1>1. ASSUME NEW d \in Payloads, NEW a \in Attributes, CreateTransaction(h, d, a)
      PROVE  HashInv'
  <2>1. Good([Blank EXCEPT !.data = d, !.attribute = a])
    BY DEF Good, Blank
  <2> QED BY <1>1, <2>1, NewObjectGood DEF CreateTransaction
<1>2. ASSUME NEW d \in Payloads, NEW a \in Attributes, NEW k \in Keys,
             CreateSignedTransaction(h, d, a, k)
      PROVE  HashInv'
  <2> DEFINE hash == Hash(<<d>>)
             inner == [Blank EXCEPT !.data = d, !.attribute = a, !.dataHash = <<hash>>,
                                    !.signature = <<[key |-> k, over |-> hash]>>]
  <2>1. Good(inner) /\ inner.data = d
    BY DEF Good, Blank
  <2> QED BY <1>2, <2>1, NewObjectGood DEF CreateSignedTransaction
<1>3. CASE CreateUnchecked(h)
  BY <1>3, NewObjectGood DEF CreateUnchecked, HashInv, BytesGood, Sealed
<1>4. CASE CreateChecked(h)
  <2> DEFINE in == wire[1]
             hash == in.dataHash[1]
             verified == [in EXCEPT !.dataHash = <<hash>>, !.sender = <<in.signature[1].key>>]
  <2>1. in \in Inners /\ Sealed(in) /\ in.dataHash # <<>>
    BY <1>4, BytesElement DEF CreateChecked, HashInv, BytesGood, Sealed, TypeOK
  <2>2. Good(verified)
    BY <2>1 DEF Sealed, Good, Inners
  <2>3. NewObject(h, in, <<>>, wire) \/ NewObject(h, verified, <<>>, wire)
    BY <1>4, <2>1 DEF CreateChecked
  <2>4. wire # <<>> => Sealed(wire[1])
    BY <2>1
  <2> QED BY <2>1, <2>2, <2>3, <2>4, NewObjectGood DEF Sealed
<1>5. ASSUME NEW i \in Slots, ViewTransaction(h, i)
      PROVE  HashInv'
  <2> USE <1>5 DEF HashInv, ViewTransaction
  <2>1. dataBuffer[h] = <<>> /\ i \in 1 .. size
    BY DEF Placed, Slots, TypeOK
  <2>2. CacheGood' /\ Placed'
    BY <2>1 DEF CacheGood, Placed, Live, Inner, TypeOK, NoCell
  <2> QED BY <2>2 DEF CellsGood, BytesGood, Sealed, Good
<1> QED BY <1>1, <1>2, <1>3, <1>4, <1>5 DEF Creates

\* Reading computes what is cached from the data, and leaves the data alone.
LEMMA ReadGood ==
    ASSUME HashInv, TypeOK', NEW h \in Handles, Reads(h)
    PROVE  HashInv'
<1> USE DEF HashInv
<1>live. Live(h)
  BY OwnerLive DEF Reads, ComputeHash, EncodeHashFields, Encode, TakeEncoded, Verify
<1>val. /\ DataBytes(h) = <<Inner(h).data>>
        /\ HashValue(h) = Hash(<<Inner(h).data>>)
        /\ Good(Inner(h))
        /\ at[h] \in Cells
        /\ Inner(h) \in Inners
        /\ Inner(h) = cells[at[h]]
  BY <1>live, HashValueGood, InnerType DEF Inner
<1> DEFINE hashed == [Inner(h) EXCEPT !.dataHash = <<Hash(DataBytes(h))>>]
<1>hashed. Sealed(hashed) /\ hashed.data = Inner(h).data
  BY <1>val DEF Sealed, Good, Inners
<1>1. CASE ComputeHash(h)
  <2>1. cells' = [cells EXCEPT ![at[h]] = hashed]
    BY <1>1, <1>val DEF ComputeHash
  <2>2. CellsGood'
    BY <1>hashed, <1>val, <2>1 DEF CellsGood, Sealed, Good, TypeOK
  <2>3. BytesGood' /\ Placed'
    BY <1>1, <1>live DEF ComputeHash, BytesGood, Sealed, Good, Placed, Live, TypeOK
  <2>4. CacheGood'
    BY <1>1, <1>val, <1>hashed, <2>1 DEF ComputeHash, CacheGood, Live, Inner, TypeOK
  <2> QED BY <2>2, <2>3, <2>4
<1>2. CASE EncodeHashFields(h)
  <2>1. CacheGood'
    BY <1>2, <1>val DEF EncodeHashFields, CacheGood, Live, Inner, TypeOK
  <2> QED BY <1>2, <1>live, <2>1
          DEF EncodeHashFields, CellsGood, BytesGood, Sealed, Good, Placed, Live, TypeOK
<1>3. CASE Encode(h)
  <2>1. CASE /\ cells' = [cells EXCEPT ![at[h]] = hashed]
             /\ buffer' = [buffer EXCEPT ![h] = <<hashed>>]
             /\ wire' = <<hashed>>
    <3>1. CellsGood'
      BY <1>hashed, <1>val, <2>1 DEF CellsGood, Sealed, Good, TypeOK
    <3>2. BytesGood'
      BY <1>hashed, <2>1 DEF BytesGood, Sealed, Good, TypeOK
    <3>3. CacheGood'
      BY <1>3, <1>val, <1>hashed, <2>1 DEF Encode, CacheGood, Live, Inner, TypeOK
    <3>4. Placed'
      BY <1>3, <1>live, <2>1 DEF Encode, Placed, Live, TypeOK
    <3> QED BY <3>1, <3>2, <3>3, <3>4
  <2>2. CASE buffer[h] # <<>> /\ wire' = buffer[h] /\ UNCHANGED <<cells, buffer>>
    <3>1. CellsGood' /\ BytesGood'
      BY <1>3, <2>2 DEF Encode, CellsGood, BytesGood, Sealed, Good, TypeOK
    <3>2. CacheGood'
      BY <1>3, <1>val, <2>2 DEF Encode, CacheGood, Live, Inner, TypeOK
    <3>3. Placed'
      BY <1>3, <1>live, <2>2 DEF Encode, Placed, Live, TypeOK
    <3> QED BY <3>1, <3>2, <3>3
  <2> QED BY <1>3, <2>1, <2>2 DEF Encode
<1>4. CASE TakeEncoded(h)
  <2>1. BytesGood'
    BY <1>4 DEF TakeEncoded, BytesGood, Sealed, Good, TypeOK
  <2> QED BY <1>4, <2>1 DEF TakeEncoded, CellsGood, Good, CacheGood, Placed, Live, Inner, TypeOK
<1>5. CASE Verify(h)
  <2> DEFINE verified == [Inner(h) EXCEPT !.dataHash = <<HashValue(h)>>,
                                          !.sender = <<Inner(h).signature[1].key>>]
  <2>1. cells' = [cells EXCEPT ![at[h]] = verified]
    BY <1>5, <1>val DEF Verify, TypeOK
  <2>2. Good(verified) /\ verified.data = Inner(h).data
    BY <1>val DEF Good, Inners
  <2>3. CellsGood'
    BY <1>val, <2>1, <2>2 DEF CellsGood, Good, TypeOK
  <2>4. BytesGood'
    BY <1>5 DEF Verify, BytesGood, Sealed, Good
  <2>5. CacheGood'
    BY <1>5, <1>val, <2>1, <2>2 DEF Verify, CacheGood, Live, Inner, TypeOK
  <2>6. Placed'
    BY <1>5, <1>live DEF Verify, Placed, Live, TypeOK
  <2> QED BY <2>3, <2>4, <2>5, <2>6
<1> QED BY <1>1, <1>2, <1>3, <1>4, <1>5 DEF Reads

\* Writing a good inner object into a cell with no caches over it, or one with
\* the same data, leaves every cache right.
LEMMA OverwriteGood ==
    ASSUME HashInv, TypeOK', NEW c \in Cells, NEW v, Good(v),
           v.data = cells[c].data
             \/ (\A g \in Handles : at[g] = c => dataBuffer[g] = <<>>),
           cells' = [cells EXCEPT ![c] = v],
           UNCHANGED <<at, dataBuffer>>, BytesGood', Placed'
    PROVE  HashInv'
<1>1. CellsGood'
  BY DEF HashInv, CellsGood, Good, TypeOK
<1>2. CacheGood'
  BY DEF HashInv, CacheGood, Live, Inner, TypeOK
<1> QED BY <1>1, <1>2 DEF HashInv

LEMMA WriteGood ==
    ASSUME HashInv, TypeOK', NEW h \in Handles, Writes(h), "fresh" \in CallerRules
    PROVE  HashInv'
<1> USE DEF HashInv
<1>h. h \in Cells
  BY DEF Cells
<1>1. ASSUME NEW k \in Keys, SetSignatureData(h, k)
      PROVE  HashInv'
  <2> DEFINE signed == [cells[h] EXCEPT !.signature = <<[key |-> k, over |-> HashValue(h)]>>]
  <2>1. Inner(h) = cells[h] /\ Live(h)
    BY <1>1, OwnerLive DEF SetSignatureData, MaySet, Owner, Inner
  <2>2. Good(signed) /\ signed.data = cells[h].data
    BY <2>1, <1>h, HashValueGood DEF Good, TypeOK, Inners
  <2> QED BY <1>1, <1>h, <2>2, OverwriteGood
          DEF SetSignatureData, BytesGood, Sealed, Good, Placed, Live
<1>2. ASSUME NEW a \in Attributes, SetAttribute(h, a)
      PROVE  HashInv'
  <2> DEFINE v == [cells[h] EXCEPT !.attribute = a]
  <2>1. Good(v) /\ v.data = cells[h].data
    BY <1>h DEF Good, CellsGood, TypeOK, Inners
  <2> QED BY <1>2, <1>h, <2>1, OverwriteGood
          DEF SetAttribute, BytesGood, Sealed, Good, Placed, Live
<1>3. CASE Decode(h)
  <2>1. Sealed(wire[1])
    BY <1>3 DEF Decode, BytesGood
  <2>2. BytesGood' /\ Placed'
    BY <1>3, <2>1, OwnerLive DEF Decode, BytesGood, Sealed, Good, Placed, Live, TypeOK
  <2>3. \A g \in Handles : at[g] = h => dataBuffer[g] = <<>>
    BY <1>3 DEF Decode, MayOverwrite, Fresh
  <2> QED BY <1>3, <1>h, <2>1, <2>2, <2>3, OverwriteGood DEF Decode, Sealed
<1>4. ASSUME NEW g \in Handles, SetInner(h, g)
      PROVE  HashInv'
  <2>1. Good(Inner(g))
    BY <1>4, HashValueGood DEF SetInner
  <2>2. \A x \in Handles : at[x] = h => dataBuffer[x] = <<>>
    BY <1>4 DEF SetInner, MayOverwrite, Fresh
  <2> QED BY <1>4, <1>h, <2>1, <2>2, OverwriteGood
          DEF SetInner, BytesGood, Sealed, Good, Placed, Live
<1>5. CASE AppendTransaction(h)
  <2>1. size \in 0 .. MaxTxs /\ size < MaxTxs
    BY <1>5 DEF AppendTransaction, TypeOK
  <2>2. Good(Inner(h))
    BY <1>5, HashValueGood DEF AppendTransaction
  <2>3. size + 1 \in Cells
    BY <2>1, MaxTxsAssumption DEF Cells, Slots
  <2>4. \A g \in Handles : at[g] # size + 1
    BY <2>1, HandlesAssumption, MaxTxsAssumption DEF Placed, NoCell
  <2>5. Placed'
    BY <1>5, <2>1 DEF AppendTransaction, Placed, Live, TypeOK
  <2> QED BY <1>5, <2>2, <2>3, <2>4, <2>5, OverwriteGood
          DEF AppendTransaction, BytesGood, Sealed, Good
<1>6. ASSUME NEW i \in Slots, SetTransaction(i, h)
      PROVE  HashInv'
  <2>1. Good(Inner(h)) /\ i \in Cells
    BY <1>6, HashValueGood DEF SetTransaction, Cells
  <2>2. \A g \in Handles : at[g] = i => dataBuffer[g] = <<>>
    BY <1>6 DEF SetTransaction, MayOverwrite, Fresh
  <2> QED BY <1>6, <2>1, <2>2, OverwriteGood
          DEF SetTransaction, BytesGood, Sealed, Good, Placed, Live
<1> QED BY <1>1, <1>2, <1>3, <1>4, <1>5, <1>6 DEF Writes

LEMMA ReleaseGood ==
    ASSUME HashInv, TypeOK', NEW h \in Handles, Release(h)
    PROVE  HashInv'
<1> USE DEF HashInv, Release
<1>1. Good(Blank) /\ h \in Cells
  BY DEF Good, Blank, Cells
<1>2. CellsGood'
  BY <1>1 DEF CellsGood, Good, TypeOK
<1>3. BytesGood'
  BY DEF BytesGood, Sealed, Good, TypeOK
<1>4. CacheGood'
  <2> SUFFICES ASSUME NEW g \in Handles, Live(g)'
               PROVE  dataBuffer'[g] \in {<<>>, <<cells'[at'[g]].data>>}
    BY DEF CacheGood, Inner
  <2>1. g # h /\ at'[g] = at[g] /\ Live(g) /\ dataBuffer'[g] = dataBuffer[g]
    BY DEF Live, TypeOK
  <2>2. at[g] # h
    BY <2>1, HandlesAssumption DEF Placed, TypeOK, Live
  <2>3. cells'[at[g]] = cells[at[g]]
    BY <2>2, <1>1 DEF TypeOK
  <2> QED BY <2>1, <2>3 DEF CacheGood, Inner
<1>5. Placed'
  BY DEF Placed, Live, TypeOK
<1> QED BY <1>2, <1>3, <1>4, <1>5

\* Under the rule no wrapper has cached anything of the transactions replaced.
LEMMA BlockGood ==
    ASSUME HashInv, TypeOK', NEW n \in 0 .. MaxTxs, NEW list \in [1 .. n -> Copies],
           ReplaceBlock(list), "fresh" \in CallerRules
    PROVE  HashInv'
<1> USE DEF HashInv
<1>1. \A x \in Copies : Good(x)
  BY CopyOf DEF CellsGood, BytesGood, Sealed
<1>2. Good(Blank)
  BY DEF Good, Blank
<1>3. \A c \in Cells : Good(cells'[c])
  BY <1>1, <1>2, BlockCells DEF CellsGood
<1>4. CellsGood'
  BY <1>3 DEF CellsGood, Good
<1>5. BytesGood'
  BY BlockCells DEF BytesGood, Sealed, Good
<1>6. CacheGood'
  <2> SUFFICES ASSUME NEW h \in Handles, Live(h)
               PROVE  dataBuffer[h] \in {<<>>, <<cells'[at[h]].data>>}
    BY BlockCells DEF CacheGood, Live, Inner
  <2>1. CASE at[h] \in Slots
    BY <2>1, BlockCells DEF MayOverwrite, Fresh
  <2>2. CASE at[h] \notin Slots
    BY <2>2, BlockCells, InnerType DEF CacheGood, Inner
  <2> QED BY <2>1, <2>2
<1>7. Placed'
  <2> SUFFICES ASSUME NEW h \in Handles
               PROVE  /\ at[h] \in {NoCell, h} \cup 1 .. n
                      /\ ~Live(h) => dataBuffer[h] = <<>> /\ buffer[h] = <<>>
    BY BlockCells DEF Placed, Live
  <2>1. at[h] \in 1 .. size => at[h] \in Slots /\ at[h] \in Nat
    BY MaxTxsAssumption DEF TypeOK, Slots
  <2>2. at[h] \in Slots => at[h] <= n
    BY BlockCells
  <2>3. at[h] \in 1 .. size => at[h] \in 1 .. n
    BY <2>1, <2>2
  <2> QED BY <2>3 DEF Placed
<1> QED BY <1>4, <1>5, <1>6, <1>7

LEMMA HashInductive == "fresh" \in CallerRules => (Spec => []HashInv)
<1> SUFFICES ASSUME "fresh" \in CallerRules
             PROVE  Spec => []HashInv
  OBVIOUS
<1>1. Init /\ TypeOK => HashInv
  BY DEF Init, HashInv, CellsGood, BytesGood, CacheGood, Placed, Live, Good, Blank
<1>2. HashInv /\ TypeOK' /\ [Next]_vars => HashInv'
  <2> SUFFICES ASSUME HashInv, TypeOK', [Next]_vars
               PROVE  HashInv'
    OBVIOUS
  <2>1. CASE UNCHANGED vars
    BY <2>1 DEF vars, HashInv, CellsGood, BytesGood, CacheGood, Placed, Live, Inner, Good, Sealed
  <2>2. CASE Next
    BY <2>2, CreateGood, ReadGood, WriteGood, ReleaseGood, BlockGood DEF Next, BlockSteps
  <2> QED BY <2>1, <2>2
<1> QED BY <1>1, <1>2, TypeCorrect, PTL DEF Spec

\* When objects are not refilled under their caches, the hash an object reports,
\* stores and sends is the hash of its data, encode(true) returns the data, and
\* every signature is over the data it sits with: HashOfData, HashFieldsCurrent
\* and SignatureOverData hold for any number of wrappers, keys and block slots,
\* without any rule about setters.
THEOREM HashesAreRight ==
    "fresh" \in CallerRules => (Spec => [](HashOfData /\ HashFieldsCurrent /\ SignatureOverData))
<1>1. HashInv => HashOfData
  BY DEF HashInv, HashOfData, CellsGood, BytesGood, Sealed, Good
<1>2. HashInv => HashFieldsCurrent
  BY HashValueGood DEF HashFieldsCurrent
<1>3. HashInv => SignatureOverData
  <2> SUFFICES ASSUME HashInv,
                      NEW inner \in {cells[c] : c \in Cells} \cup {wire[i] : i \in DOMAIN wire}
               PROVE  Good(inner)
    BY DEF SignatureOverData, Good
  <2>1. CASE inner \in {cells[c] : c \in Cells}
    BY <2>1 DEF HashInv, CellsGood
  <2>2. CASE inner \in {wire[i] : i \in DOMAIN wire}
    <3>1. wire # <<>> => DOMAIN wire = {1}
      BY BytesElement DEF HashInv, TypeOK, Bytes
    <3> QED BY <2>2, <3>1 DEF HashInv, BytesGood, Sealed
  <2> QED BY <2>1, <2>2
<1> QED BY <1>1, <1>2, <1>3, HashInductive, PTL

\* The same of the hash fields alone: encode(true) returns them as they are.
THEOREM HashFieldsAreCurrent ==
    "fresh" \in CallerRules => (Spec => []HashFieldsCurrent)
BY HashesAreRight, PTL

\* The same of the signatures alone: a receiver's verify() accepts each of them.
THEOREM SignaturesAreOverData ==
    "fresh" \in CallerRules => (Spec => []SignatureOverData)
BY HashesAreRight, PTL

-----------------------------------------------------------------------------
(* The sender and the full encoding. *)

\* The cell a step of h writes: what it was, but for derived fields; or a whole
\* new value.
LEMMA OwnCell ==
    ASSUME TypeOK, NEW h \in Handles, Owner(h)
    PROVE  h \in Cells /\ at[h] = h /\ Live(h) /\ Inner(h) = cells[h]
BY OwnerLive DEF Owner, Inner, Cells

-----------------------------------------------------------------------------
(* The sender.  It is the signer wherever an inner object can be.           *)

Signer(inner) ==
    inner.sender # <<>> => /\ inner.signature # <<>>
                           /\ inner.sender[1] = inner.signature[1].key

SenderInv ==
    /\ TypeOK
    /\ \A c \in Cells : Signer(cells[c])
    /\ \A h \in Handles : buffer[h] # <<>> => Signer(buffer[h][1])
    /\ wire # <<>> => Signer(wire[1])

LEMMA CreateSigner ==
    ASSUME SenderInv, TypeOK', NEW h \in Handles, Creates(h)
    PROVE  SenderInv'
<1> USE DEF SenderInv
<1>0. ASSUME NEW inner, NEW db, NEW b, NewObject(h, inner, db, b), Signer(inner),
             b # <<>> => Signer(b[1])
      PROVE  SenderInv'
  BY <1>0 DEF NewObject, Signer, TypeOK
<1>1. ASSUME NEW d \in Payloads, NEW a \in Attributes, CreateTransaction(h, d, a)
      PROVE  SenderInv'
  <2>1. Signer([Blank EXCEPT !.data = d, !.attribute = a])
    BY DEF Signer, Blank
  <2> QED BY <1>0, <1>1, <2>1 DEF CreateTransaction
<1>2. ASSUME NEW d \in Payloads, NEW a \in Attributes, NEW k \in Keys,
             CreateSignedTransaction(h, d, a, k)
      PROVE  SenderInv'
  <2> DEFINE hash == Hash(<<d>>)
             inner == [Blank EXCEPT !.data = d, !.attribute = a, !.dataHash = <<hash>>,
                                    !.signature = <<[key |-> k, over |-> hash]>>]
  <2>1. Signer(inner)
    BY DEF Signer, Blank
  <2> QED BY <1>0, <1>2, <2>1 DEF CreateSignedTransaction
<1>3. CASE CreateUnchecked(h)
  BY <1>0, <1>3 DEF CreateUnchecked
<1>4. CASE CreateChecked(h)
  <2> DEFINE in == wire[1]
             computed == in.dataHash = <<>>
             hash == IF computed THEN Hash(<<in.data>>) ELSE in.dataHash[1]
             verified == [in EXCEPT !.dataHash = <<hash>>, !.sender = <<in.signature[1].key>>]
             db == IF computed THEN <<in.data>> ELSE <<>>
  <2>1. in \in Inners /\ Signer(in)
    BY <1>4, BytesElement DEF CreateChecked, TypeOK
  <2>2. ASSUME in.signature # <<>> PROVE Signer(verified)
    BY <2>1, <2>2 DEF Signer, Inners
  <2>3. \/ NewObject(h, in, <<>>, wire)
        \/ in.signature # <<>> /\ NewObject(h, verified, db, wire)
    BY <1>4 DEF CreateChecked, Recovers
  <2> HIDE DEF db, verified, hash, computed
  <2> QED BY <1>0, <2>1, <2>2, <2>3
<1>5. ASSUME NEW i \in Slots, ViewTransaction(h, i)
      PROVE  SenderInv'
  BY <1>5 DEF ViewTransaction, Signer
<1> QED BY <1>1, <1>2, <1>3, <1>4, <1>5 DEF Creates

LEMMA ReadSigner ==
    ASSUME SenderInv, TypeOK', NEW h \in Handles, Reads(h)
    PROVE  SenderInv'
<1> USE DEF SenderInv
<1>live. Live(h)
  BY OwnerLive DEF Reads, ComputeHash, EncodeHashFields, Encode, TakeEncoded, Verify
<1>in. at[h] \in Cells /\ Inner(h) \in Inners /\ Inner(h) = cells[at[h]] /\ Signer(Inner(h))
  BY <1>live, InnerType DEF Inner
<1> DEFINE hashed == [Inner(h) EXCEPT !.dataHash = <<Hash(DataBytes(h))>>]
<1>1. Signer(hashed)
  BY <1>in DEF Signer, Inners
<1>2. ASSUME NEW v, Signer(v), cells' = [cells EXCEPT ![at[h]] = v]
      PROVE  \A c \in Cells : Signer(cells'[c])
  BY <1>2 DEF TypeOK
<1>3. CASE ComputeHash(h)
  <2>1. cells' = [cells EXCEPT ![at[h]] = hashed]
    BY <1>3, <1>in DEF ComputeHash
  <2> HIDE DEF hashed
  <2> QED BY <1>1, <1>2, <1>3, <2>1 DEF ComputeHash, Signer
<1>4. CASE EncodeHashFields(h)
  BY <1>4 DEF EncodeHashFields, Signer
<1>5. CASE Encode(h)
  <2>1. CASE /\ cells' = [cells EXCEPT ![at[h]] = hashed]
             /\ buffer' = [buffer EXCEPT ![h] = <<hashed>>]
             /\ wire' = <<hashed>>
    <3> HIDE DEF hashed
    <3> QED BY <1>1, <1>2, <2>1 DEF TypeOK
  <2>2. CASE wire' = buffer[h] /\ UNCHANGED <<cells, buffer>>
    BY <2>2 DEF Signer
  <2> QED BY <1>5, <2>1, <2>2 DEF Encode
<1>6. CASE TakeEncoded(h)
  BY <1>6 DEF TakeEncoded, Signer, TypeOK
<1>7. CASE Verify(h)
  <2> DEFINE verified == [Inner(h) EXCEPT !.dataHash = <<HashValue(h)>>,
                                          !.sender = <<Inner(h).signature[1].key>>]
  <2>1. cells' = [cells EXCEPT ![at[h]] = verified]
    BY <1>7, <1>in DEF Verify, TypeOK
  <2>2. Signer(verified)
    BY <1>7, <1>in DEF Verify, Recovers, Signer, Inners
  <2> HIDE DEF verified
  <2> QED BY <1>2, <1>7, <2>1, <2>2 DEF Verify, Signer
<1> QED BY <1>3, <1>4, <1>5, <1>6, <1>7 DEF Reads

LEMMA WriteSigner ==
    ASSUME SenderInv, TypeOK', NEW h \in Handles, Writes(h), "signonce" \in CallerRules
    PROVE  SenderInv'
<1> USE DEF SenderInv
<1>0. ASSUME NEW c \in Cells, NEW v, Signer(v), cells' = [cells EXCEPT ![c] = v],
             UNCHANGED <<buffer, wire>>
      PROVE  SenderInv'
  BY <1>0 DEF TypeOK, Signer
<1>1. ASSUME NEW k \in Keys, SetSignatureData(h, k)
      PROVE  SenderInv'
  <2> DEFINE v == [cells[h] EXCEPT !.signature = <<[key |-> k, over |-> HashValue(h)]>>]
  <2>1. h \in Cells /\ cells[h].signature = <<>>
    BY <1>1, OwnCell DEF SetSignatureData, MaySet
  <2>2. cells[h].sender = <<>>
    BY <2>1 DEF Signer
  <2>3. Signer(v)
    BY <2>1, <2>2 DEF Signer, TypeOK, Inners
  <2> QED BY <1>0, <1>1, <2>1, <2>3 DEF SetSignatureData
<1>2. ASSUME NEW a \in Attributes, SetAttribute(h, a)
      PROVE  SenderInv'
  <2> DEFINE v == [cells[h] EXCEPT !.attribute = a]
  <2>1. h \in Cells
    BY DEF Cells
  <2>2. Signer(v)
    BY <2>1 DEF Signer, TypeOK, Inners
  <2> QED BY <1>0, <1>2, <2>1, <2>2 DEF SetAttribute
<1>3. CASE Decode(h)
  BY <1>3 DEF Decode, TypeOK, Signer
<1>4. ASSUME NEW g \in Handles, SetInner(h, g)
      PROVE  SenderInv'
  <2>1. h \in Cells /\ Signer(Inner(g))
    BY <1>4, InnerType DEF SetInner, Inner, Cells
  <2> QED BY <1>0, <1>4, <2>1 DEF SetInner
<1>5. CASE AppendTransaction(h)
  <2>1. size + 1 \in Cells /\ Signer(Inner(h))
    BY <1>5, InnerType, MaxTxsAssumption DEF AppendTransaction, Inner, Cells, Slots, TypeOK
  <2> QED BY <1>0, <1>5, <2>1 DEF AppendTransaction
<1>6. ASSUME NEW i \in Slots, SetTransaction(i, h)
      PROVE  SenderInv'
  <2>1. i \in Cells /\ Signer(Inner(h))
    BY <1>6, InnerType DEF SetTransaction, Inner, Cells
  <2> QED BY <1>0, <1>6, <2>1 DEF SetTransaction
<1> QED BY <1>1, <1>2, <1>3, <1>4, <1>5, <1>6 DEF Writes

LEMMA BlockSigner ==
    ASSUME SenderInv, TypeOK', NEW n \in 0 .. MaxTxs, NEW list \in [1 .. n -> Copies],
           ReplaceBlock(list)
    PROVE  SenderInv'
<1> USE DEF SenderInv
<1>1. \A x \in Copies : Signer(x)
  BY CopyOf
<1>2. Signer(Blank)
  BY DEF Signer, Blank
<1>3. \A c \in Cells : Signer(cells'[c])
  BY <1>1, <1>2, BlockCells
<1> QED BY <1>3, BlockCells DEF Signer

\* As long as a signed transaction is not signed again, a sender is the signer
\* wherever there is one, whatever else callers do with caches and setters.
THEOREM SendersSigned == "signonce" \in CallerRules => (Spec => []SenderIsSigner)
<1> SUFFICES ASSUME "signonce" \in CallerRules
             PROVE  Spec => []SenderIsSigner
  OBVIOUS
<1>1. Init /\ TypeOK => SenderInv
  BY DEF Init, SenderInv, Signer, Blank
<1>2. SenderInv /\ TypeOK' /\ [Next]_vars => SenderInv'
  <2> SUFFICES ASSUME SenderInv, TypeOK', [Next]_vars
               PROVE  SenderInv'
    OBVIOUS
  <2>1. CASE UNCHANGED vars
    BY <2>1 DEF vars, SenderInv, Signer
  <2>2. ASSUME NEW h \in Handles, Release(h)
        PROVE  SenderInv'
    <3>1. Signer(Blank)
      BY DEF Signer, Blank
    <3> QED BY <2>2, <3>1 DEF Release, SenderInv, TypeOK
  <2> QED BY <2>1, <2>2, CreateSigner, ReadSigner, WriteSigner, BlockSigner DEF Next, BlockSteps
<1>3. SenderInv => SenderIsSigner
  <2> SUFFICES ASSUME SenderInv,
                      NEW inner \in {cells[c] : c \in Cells} \cup {wire[i] : i \in DOMAIN wire}
               PROVE  Signer(inner)
    BY DEF SenderIsSigner, Signer
  <2>1. CASE inner \in {cells[c] : c \in Cells}
    BY <2>1 DEF SenderInv
  <2>2. CASE inner \in {wire[i] : i \in DOMAIN wire}
    <3>1. wire # <<>> => DOMAIN wire = {1}
      BY BytesElement DEF SenderInv, TypeOK, Bytes
    <3> QED BY <2>2, <3>1 DEF SenderInv
  <2> QED BY <2>1, <2>2
<1> QED BY <1>1, <1>2, <1>3, TypeCorrect, PTL DEF Spec

-----------------------------------------------------------------------------
(* The full encoding.  A write to cell c leaves the encodings right if it   *)
(* changes nothing they are about, or if no wrapper over c has one.         *)

LEMMA WriteKeepsEncodings ==
    ASSUME HashInv, EncodingCurrent, NEW c \in Cells, NEW v,
           cells' = [cells EXCEPT ![c] = v], UNCHANGED <<at, buffer>>,
           Content(v) = Content(cells[c])
             \/ (\A g \in Handles : at[g] = c => buffer[g] = <<>>)
    PROVE  EncodingCurrent'
<1> SUFFICES ASSUME NEW g \in Handles, Live(g), buffer[g] # <<>>
             PROVE  Content(buffer[g][1]) = Content(cells'[at[g]])
  BY DEF EncodingCurrent, Live, Inner, Content
<1>1. Content(buffer[g][1]) = Content(cells[at[g]]) /\ at[g] \in Cells
  BY InnerType DEF EncodingCurrent, Inner, HashInv
<1>2. cells'[at[g]] = IF at[g] = c THEN v ELSE cells[at[g]]
  BY <1>1 DEF HashInv, TypeOK
<1> QED BY <1>1, <1>2

LEMMA CreateEncodes ==
    ASSUME HashInv, EncodingCurrent, NEW h \in Handles, Creates(h)
    PROVE  EncodingCurrent'
<1>0. ASSUME NEW inner, NEW db, NEW b, NewObject(h, inner, db, b),
             b # <<>> => Content(b[1]) = Content(inner)
      PROVE  EncodingCurrent'
  <2>1. h \in Cells /\ h # NoCell /\ \A g \in Handles : at[g] # h
    BY <1>0, HandlesAssumption DEF NewObject, HashInv, Cells, NoCell, Live, Placed, TypeOK
  <2>2. /\ at' = [at EXCEPT ![h] = h] /\ cells' = [cells EXCEPT ![h] = inner]
        /\ buffer' = [buffer EXCEPT ![h] = b]
    BY <1>0 DEF NewObject
  <2>3. Content(buffer'[h][1]) = Content(cells'[at'[h]]) \/ buffer'[h] = <<>>
    BY <1>0, <2>1, <2>2 DEF HashInv, TypeOK
  <2>4. ASSUME NEW g \in Handles, g # h, Live(g), buffer[g] # <<>>
        PROVE  Content(buffer'[g][1]) = Content(cells'[at'[g]])
    <3>1. Content(buffer[g][1]) = Content(cells[at[g]])
      BY <2>4 DEF EncodingCurrent, Inner
    <3>2. buffer'[g] = buffer[g] /\ at'[g] = at[g] /\ cells'[at[g]] = cells[at[g]]
      BY <2>1, <2>2, <2>4 DEF HashInv, TypeOK, Live
    <3> QED BY <3>1, <3>2
  <2>5. \A g \in Handles : g # h => at'[g] = at[g] /\ buffer'[g] = buffer[g]
    BY <2>2 DEF HashInv, TypeOK
  <2> QED BY <2>3, <2>4, <2>5 DEF EncodingCurrent, Inner, Live, Content
<1>1. CASE (\E d \in Payloads, a \in Attributes : CreateTransaction(h, d, a))
           \/ (\E d \in Payloads, a \in Attributes, k \in Keys : CreateSignedTransaction(h, d, a, k))
  BY <1>0, <1>1 DEF CreateTransaction, CreateSignedTransaction
<1>2. CASE CreateUnchecked(h)
  BY <1>0, <1>2 DEF CreateUnchecked
<1>3. CASE CreateChecked(h)
  <2> DEFINE in == wire[1]
             computed == in.dataHash = <<>>
             hash == IF computed THEN Hash(<<in.data>>) ELSE in.dataHash[1]
             verified == [in EXCEPT !.dataHash = <<hash>>, !.sender = <<in.signature[1].key>>]
             db == IF computed THEN <<in.data>> ELSE <<>>
  <2>1. in \in Inners
    BY <1>3, BytesElement DEF CreateChecked, HashInv, TypeOK
  <2>2. Content(verified) = Content(in)
    BY <2>1 DEF Content, Inners
  <2>3. NewObject(h, in, <<>>, wire) \/ NewObject(h, verified, db, wire)
    BY <1>3 DEF CreateChecked
  <2> HIDE DEF verified, db, hash, computed
  <2> QED BY <1>0, <2>2, <2>3
<1>4. ASSUME NEW i \in Slots, ViewTransaction(h, i)
      PROVE  EncodingCurrent'
  BY <1>4 DEF ViewTransaction, EncodingCurrent, HashInv, Placed, TypeOK, Live, Inner, Content
<1> QED BY <1>1, <1>2, <1>3, <1>4 DEF Creates

LEMMA ReadEncodes ==
    ASSUME HashInv, EncodingCurrent, NEW h \in Handles, Reads(h)
    PROVE  EncodingCurrent'
<1>live. Live(h)
  BY OwnerLive DEF Reads, ComputeHash, EncodeHashFields, Encode, TakeEncoded, Verify
<1>in. at[h] \in Cells /\ Inner(h) \in Inners /\ Inner(h) = cells[at[h]]
  BY <1>live, InnerType DEF Inner, HashInv
<1> DEFINE hashed == [Inner(h) EXCEPT !.dataHash = <<Hash(DataBytes(h))>>]
<1>1. Content(hashed) = Content(cells[at[h]])
  BY <1>in DEF Content, Inners
<1>2. CASE ComputeHash(h)
  <2>1. cells' = [cells EXCEPT ![at[h]] = hashed] /\ UNCHANGED <<at, buffer>>
    BY <1>2, <1>in DEF ComputeHash
  <2> HIDE DEF hashed
  <2> QED BY <1>1, <1>in, <2>1, WriteKeepsEncodings
<1>3. CASE EncodeHashFields(h)
  BY <1>3 DEF EncodeHashFields, EncodingCurrent, Live, Inner, Content
<1>4. CASE Encode(h)
  <2>1. CASE /\ cells' = [cells EXCEPT ![at[h]] = hashed]
             /\ buffer' = [buffer EXCEPT ![h] = <<hashed>>]
    <3> HIDE DEF hashed
    <3> SUFFICES ASSUME NEW g \in Handles, Live(g), buffer'[g] # <<>>
                 PROVE  Content(buffer'[g][1]) = Content(cells'[at[g]])
      BY <1>4 DEF Encode, EncodingCurrent, Live, Inner, Content
    <3>1. at[g] \in Cells
      BY InnerType DEF HashInv
    <3>2. cells'[at[g]] = IF at[g] = at[h] THEN hashed ELSE cells[at[g]]
      BY <2>1, <3>1 DEF HashInv, TypeOK
    <3>3. CASE g = h
      BY <2>1, <3>2, <3>3 DEF HashInv, TypeOK
    <3>4. CASE g # h
      <4>1. buffer'[g] = buffer[g]
        BY <2>1, <3>4 DEF HashInv, TypeOK
      <4>2. Content(buffer[g][1]) = Content(cells[at[g]])
        BY <4>1 DEF EncodingCurrent, Inner
      <4> QED BY <1>1, <3>2, <4>1, <4>2
    <3> QED BY <3>3, <3>4
  <2>2. CASE UNCHANGED <<cells, buffer>>
    BY <1>4, <2>2 DEF Encode, EncodingCurrent, Live, Inner, Content
  <2> QED BY <1>4, <2>1, <2>2 DEF Encode
<1>5. CASE TakeEncoded(h)
  BY <1>5 DEF TakeEncoded, EncodingCurrent, Live, Inner, Content, HashInv, TypeOK
<1>6. CASE Verify(h)
  <2> DEFINE verified == [Inner(h) EXCEPT !.dataHash = <<HashValue(h)>>,
                                          !.sender = <<Inner(h).signature[1].key>>]
  <2>1. cells' = [cells EXCEPT ![at[h]] = verified] /\ UNCHANGED <<at, buffer>>
    BY <1>6, <1>in DEF Verify, HashInv, TypeOK
  <2>2. Content(verified) = Content(cells[at[h]])
    BY <1>in DEF Content, Inners
  <2> HIDE DEF verified
  <2> QED BY <1>in, <2>1, <2>2, WriteKeepsEncodings
<1> QED BY <1>2, <1>3, <1>4, <1>5, <1>6 DEF Reads

LEMMA WriteEncodes ==
    ASSUME HashInv, EncodingCurrent, NEW h \in Handles, Writes(h),
           {"fresh", "freeze"} \subseteq CallerRules
    PROVE  EncodingCurrent'
<1>fresh. \A c : MayOverwrite(c) => \A g \in Handles : at[g] = c => buffer[g] = <<>>
  BY DEF MayOverwrite, Fresh
\* Nobody else reaches the object of an owner.
<1>set. MaySet(h) => h \in Cells /\ \A g \in Handles : at[g] = h => buffer[g] = <<>>
  <2> SUFFICES ASSUME MaySet(h), NEW g \in Handles, at[g] = h PROVE g = h
    BY DEF MaySet, Cells
  <2> QED BY HandlesAssumption DEF HashInv, Placed, TypeOK, NoCell
<1>1. CASE \E k \in Keys : SetSignatureData(h, k)
  <2> PICK k \in Keys : SetSignatureData(h, k)
    BY <1>1
  <2> DEFINE v == [cells[h] EXCEPT !.signature = <<[key |-> k, over |-> HashValue(h)]>>]
  <2>1. cells' = [cells EXCEPT ![h] = v] /\ UNCHANGED <<at, buffer>> /\ MaySet(h)
    BY DEF SetSignatureData
  <2> HIDE DEF v
  <2> QED BY <1>set, <2>1, WriteKeepsEncodings
<1>2. CASE \E a \in Attributes : SetAttribute(h, a)
  <2> PICK a \in Attributes : SetAttribute(h, a)
    BY <1>2
  <2> DEFINE v == [cells[h] EXCEPT !.attribute = a]
  <2>1. cells' = [cells EXCEPT ![h] = v] /\ UNCHANGED <<at, buffer>> /\ MaySet(h)
    BY DEF SetAttribute
  <2> HIDE DEF v
  <2> QED BY <1>set, <2>1, WriteKeepsEncodings
<1>3. CASE Decode(h)
  <2>1. \A g \in Handles : at[g] = h => g = h
    BY HandlesAssumption DEF HashInv, Placed, TypeOK, NoCell
  <2>2. Owner(h) /\ h \in Cells
    BY <1>3 DEF Decode, Cells
  <2> SUFFICES ASSUME NEW g \in Handles, Live(g), buffer'[g] # <<>>
               PROVE  Content(buffer'[g][1]) = Content(cells'[at[g]])
    BY <1>3 DEF Decode, EncodingCurrent, Live, Inner, Content
  <2>3. CASE g = h
    BY <1>3, <2>2, <2>3 DEF Decode, Owner, HashInv, TypeOK
  <2>4. CASE g # h
    <3>1. buffer'[g] = buffer[g] /\ cells'[at[g]] = cells[at[g]]
      BY <1>3, <2>1, <2>4 DEF Decode, HashInv, TypeOK
    <3> QED BY <3>1 DEF EncodingCurrent, Inner
  <2> QED BY <2>3, <2>4
<1>4. CASE \E g \in Handles : SetInner(h, g)
  BY <1>4, <1>fresh, WriteKeepsEncodings DEF SetInner, Cells
<1>5. CASE AppendTransaction(h)
  <2>1. size \in 0 .. MaxTxs /\ size < MaxTxs
    BY <1>5 DEF AppendTransaction, HashInv, TypeOK
  <2>2. size + 1 \in Cells
    BY <2>1, MaxTxsAssumption DEF Cells, Slots
  <2>3. \A g \in Handles : at[g] # size + 1
    BY <2>1, HandlesAssumption, MaxTxsAssumption DEF HashInv, Placed, NoCell
  <2> QED BY <1>5, <2>2, <2>3, WriteKeepsEncodings DEF AppendTransaction
<1>6. CASE \E i \in Slots : SetTransaction(i, h)
  BY <1>6, <1>fresh, WriteKeepsEncodings DEF SetTransaction, Cells
<1> QED BY <1>1, <1>2, <1>3, <1>4, <1>5, <1>6 DEF Writes

LEMMA ReleaseEncodes ==
    ASSUME HashInv, EncodingCurrent, NEW h \in Handles, Release(h)
    PROVE  EncodingCurrent'
<1> SUFFICES ASSUME NEW g \in Handles, at'[g] # NoCell, buffer'[g] # <<>>
             PROVE  Content(buffer'[g][1]) = Content(cells'[at'[g]])
  BY DEF EncodingCurrent, Live, Inner, Content
<1>1. g # h /\ at'[g] = at[g] /\ buffer'[g] = buffer[g] /\ Live(g)
  BY DEF Release, Live, HashInv, TypeOK
<1>2. at[g] # h
  BY <1>1, HandlesAssumption DEF HashInv, Placed, TypeOK, Live
<1>3. cells'[at[g]] = cells[at[g]]
  BY <1>2 DEF Release, HashInv, TypeOK
<1> QED BY <1>1, <1>3 DEF EncodingCurrent, Inner

LEMMA BlockEncodes ==
    ASSUME HashInv, EncodingCurrent, NEW n \in 0 .. MaxTxs, NEW list \in [1 .. n -> Copies],
           ReplaceBlock(list), "fresh" \in CallerRules
    PROVE  EncodingCurrent'
<1> SUFFICES ASSUME NEW h \in Handles, Live(h), buffer[h] # <<>>
             PROVE  Content(buffer[h][1]) = Content(cells'[at[h]])
  BY BlockCells DEF EncodingCurrent, Live, Inner, Content
<1>1. at[h] \in Cells /\ at[h] \notin Slots
  BY InnerType, BlockCells DEF MayOverwrite, Fresh, HashInv
<1>2. cells'[at[h]] = cells[at[h]]
  BY <1>1, BlockCells
<1> QED BY <1>2 DEF EncodingCurrent, Inner

\* When objects are not refilled under their caches, and setters are not called on
\* a wrapper that holds its encoding, the bytes that encode(false) hands out are
\* those of the object as it is, through whichever wrapper.
THEOREM EncodingsAreRight ==
    {"fresh", "freeze"} \subseteq CallerRules => (Spec => []EncodingCurrent)
<1> SUFFICES ASSUME {"fresh", "freeze"} \subseteq CallerRules
             PROVE  Spec => []EncodingCurrent
  OBVIOUS
<1>1. Init => EncodingCurrent
  BY DEF Init, EncodingCurrent, Live
<1>2. HashInv /\ EncodingCurrent /\ [Next]_vars => EncodingCurrent'
  <2> SUFFICES ASSUME HashInv, EncodingCurrent, [Next]_vars
               PROVE  EncodingCurrent'
    OBVIOUS
  <2>1. CASE UNCHANGED vars
    BY <2>1 DEF vars, EncodingCurrent, Live, Inner, Content
  <2> QED BY <2>1, CreateEncodes, ReadEncodes, WriteEncodes, ReleaseEncodes, BlockEncodes
          DEF Next, BlockSteps
<1>3. Spec => []HashInv
  BY HashInductive
<1> QED BY <1>1, <1>2, <1>3, PTL DEF Spec

-----------------------------------------------------------------------------
(* The refinement: what is left of the objects when the caches are          *)
(* forgotten, and how each operation changes it.                            *)

ValueOfCell(c) == IF InUse(c) THEN <<ValueOfInner(cells[c])>> ELSE <<>>
Values == [c \in Cells |-> ValueOfCell(c)]
Sent == IF wire = <<>> THEN <<>> ELSE <<ValueOfInner(wire[1])>>

\* What is forgotten makes no difference.
LEMMA ValueOfContent ==
    ASSUME NEW inner, NEW other, Content(inner) = Content(other)
    PROVE  ValueOfInner(inner) = ValueOfInner(other)
BY DEF Content, ValueOfInner

\* A signature over the right hash is one over the data.
LEMMA ValueOfGood ==
    ASSUME NEW inner \in Inners, Good(inner)
    PROVE  /\ ValueOfInner(inner) \in Value!Values
           /\ ValueOfInner(inner).signature # <<>> =>
                ValueOfInner(inner).signature[1].of = ValueOfInner(inner).data
<1>1. CASE inner.signature = <<>>
  BY <1>1 DEF ValueOfInner, Value!Values, Inners
<1>2. CASE inner.signature # <<>>
  <2>1. inner.signature[1] \in Signatures
    BY <1>2, BytesElement DEF Inners
  <2>2. inner.signature[1].over.hashOf[1] = inner.data
    BY <1>2 DEF Good, Hash
  <2>3. ValueOfInner(inner) =
          [data |-> inner.data, attribute |-> inner.attribute,
           signature |-> <<[key |-> inner.signature[1].key, of |-> inner.data]>>]
    BY <1>2, <2>2 DEF ValueOfInner
  <2>4. inner.signature[1].key \in Keys /\ inner.data \in Payloads /\ inner.attribute \in Attributes
    BY <2>1 DEF Signatures, Inners
  <2> QED BY <2>3, <2>4 DEF Value!Values
<1> QED BY <1>1, <1>2

\* A wrapper that is alive reaches an inner object that is there.
LEMMA LiveInUse ==
    ASSUME HashInv, NEW h \in Handles, Live(h)
    PROVE  /\ at[h] \in Cells /\ InUse(at[h])
           /\ Values[at[h]] = <<ValueOfInner(Inner(h))>>
<1>1. at[h] = h \/ at[h] \in 1 .. size
  BY DEF HashInv, Placed, Live
<1>2. at[h] \in Cells
  BY InnerType DEF HashInv
<1>3. InUse(at[h])
  <2>1. CASE at[h] = h
    BY <2>1 DEF InUse, Owner
  <2>2. CASE at[h] \in 1 .. size
    BY <2>2, HandlesAssumption DEF InUse, HashInv, TypeOK
  <2> QED BY <1>1, <2>1, <2>2
<1> QED BY <1>2, <1>3 DEF Values, ValueOfCell, Inner

\* A step that leaves the places and the contents leaves the values.
LEMMA SameValues ==
    ASSUME \A c \in Cells : InUse(c)' = InUse(c),
           \A c \in Cells : InUse(c) => ValueOfInner(cells'[c]) = ValueOfInner(cells[c])
    PROVE  Values' = Values
<1>1. \A c \in Cells : ValueOfCell(c)' = ValueOfCell(c)
  BY DEF ValueOfCell
<1> QED BY <1>1 DEF Values

\* A step on one cell changes the value of that one.
LEMMA OneValue ==
    ASSUME NEW k \in Cells, NEW v, ValueOfCell(k)' = v,
           \A c \in Cells \ {k} : InUse(c)' = InUse(c),
           \A c \in Cells \ {k} : InUse(c) => ValueOfInner(cells'[c]) = ValueOfInner(cells[c])
    PROVE  Values' = [Values EXCEPT ![k] = v]
<1>1. \A c \in Cells \ {k} : ValueOfCell(c)' = ValueOfCell(c)
  BY DEF ValueOfCell
<1>2. Values' = [c \in Cells |-> ValueOfCell(c)']
  BY DEF Values
<1>3. [Values EXCEPT ![k] = v] = [c \in Cells |-> IF c = k THEN v ELSE ValueOfCell(c)]
  BY DEF Values
<1> QED BY <1>1, <1>2, <1>3

\* Creating an object, from fields or from bytes, makes a transaction.
LEMMA NewObjectMakes ==
    ASSUME HashInv, NEW h \in Handles, NEW inner \in Inners, NEW db, NEW b, Good(inner),
           NewObject(h, inner, db, b)
    PROVE  Value!Make(h)
<1> DEFINE v == <<ValueOfInner(inner)>>
<1>1. ~Live(h) /\ at' = [at EXCEPT ![h] = h] /\ UNCHANGED <<size, wire>>
      /\ cells' = [cells EXCEPT ![h] = inner]
  BY DEF NewObject
<1>2. h \in Cells /\ h # NoCell
  BY HandlesAssumption DEF Cells, NoCell
<1>3. at'[h] = h /\ cells'[h] = inner /\ \A c \in Cells \ {h} : cells'[c] = cells[c]
  BY <1>1, <1>2 DEF HashInv, TypeOK
<1>4. \A c \in Cells \ {h} : InUse(c)' = InUse(c)
  BY <1>1 DEF InUse, Live, Owner, HashInv, TypeOK
<1>5. ValueOfCell(h)' = v
  BY <1>2, <1>3 DEF ValueOfCell, InUse, Live, Owner
<1>6. Values' = [Values EXCEPT ![h] = v]
  BY <1>2, <1>3, <1>4, <1>5, OneValue
<1>7. /\ v \in {<<u>> : u \in Value!Values} /\ v # <<>>
      /\ v[1].signature # <<>> => v[1].signature[1].of = v[1].data
  BY ValueOfGood
<1>8. Sent' = Sent
  BY <1>1 DEF Sent
<1> HIDE DEF v
<1> QED BY <1>1, <1>6, <1>7, <1>8
        DEF Value!Make, Value!Live, Value!NoCell, Value!Absent, Live, NoCell, Values, ValueOfCell, Sent

LEMMA CreateRefines ==
    ASSUME HashInv, NEW h \in Handles, Creates(h)
    PROVE  Value!Make(h) \/ Value!View(h)
<1>1. ASSUME NEW d \in Payloads, NEW a \in Attributes, CreateTransaction(h, d, a)
      PROVE  Value!Make(h)
  <2> DEFINE inner == [Blank EXCEPT !.data = d, !.attribute = a]
  <2>1. inner \in Inners /\ Good(inner)
    BY BlankType DEF Good, Blank, Inners
  <2> HIDE DEF inner
  <2>2. NewObject(h, inner, <<>>, <<>>)
    BY <1>1 DEF CreateTransaction, inner
  <2> QED BY <2>1, <2>2, NewObjectMakes
<1>2. ASSUME NEW d \in Payloads, NEW a \in Attributes, NEW k \in Keys,
             CreateSignedTransaction(h, d, a, k)
      PROVE  Value!Make(h)
  <2> DEFINE hash == Hash(<<d>>)
             inner == [Blank EXCEPT !.data = d, !.attribute = a, !.dataHash = <<hash>>,
                                    !.signature = <<[key |-> k, over |-> hash]>>]
  <2>1. hash \in Hashes
    BY HashType, BytesIntro
  <2>2. [key |-> k, over |-> hash] \in Signatures
    BY <2>1 DEF Signatures
  <2>3. <<hash>> \in Bytes(Hashes) /\ <<[key |-> k, over |-> hash]>> \in Bytes(Signatures)
    BY <2>1, <2>2, BytesIntro
  <2>4. inner \in Inners
    BY <2>3, BlankType DEF Inners, Blank
  <2>5. Good(inner)
    BY DEF Good, Blank
  <2>6. NewObject(h, inner, <<d>>, <<>>)
    BY <1>2 DEF CreateSignedTransaction
  <2> HIDE DEF inner
  <2> QED BY <2>4, <2>5, <2>6, NewObjectMakes
<1>3. CASE CreateUnchecked(h)
  <2>1. wire[1] \in Inners /\ Good(wire[1])
    BY <1>3, BytesElement DEF CreateUnchecked, HashInv, TypeOK, BytesGood, Sealed
  <2> QED BY <1>3, <2>1, NewObjectMakes DEF CreateUnchecked
<1>4. CASE CreateChecked(h)
  <2> DEFINE in == wire[1]
             verified == [in EXCEPT !.dataHash = <<in.dataHash[1]>>,
                                    !.sender = <<in.signature[1].key>>]
  <2>1. in \in Inners /\ Sealed(in)
    BY <1>4, BytesElement DEF CreateChecked, HashInv, TypeOK, BytesGood
  <2>2. \/ NewObject(h, in, <<>>, wire)
        \/ in.signature # <<>> /\ NewObject(h, verified, <<>>, wire)
    BY <1>4, <2>1 DEF CreateChecked, Sealed, Recovers
  <2>3. ASSUME in.signature # <<>>
        PROVE  verified \in Inners /\ Good(verified)
    <3>1. in.signature[1] \in Signatures /\ in.dataHash[1] \in Hashes
      BY <2>1, <2>3, BytesElement DEF Inners, Sealed
    <3>2. <<in.dataHash[1]>> \in Bytes(Hashes) /\ <<in.signature[1].key>> \in Bytes(Keys)
      BY <3>1, BytesIntro DEF Signatures
    <3>3. verified \in Inners
      BY <2>1, <3>2 DEF Inners
    <3> QED BY <2>1, <3>3 DEF Sealed, Good, Inners
  <2> HIDE DEF in, verified
  <2> QED BY <2>1, <2>2, <2>3, NewObjectMakes DEF Sealed
<1>5. ASSUME NEW i \in Slots, ViewTransaction(h, i)
      PROVE  Value!View(h)
  <2>1. ~Live(h) /\ i \in 1 .. size /\ at' = [at EXCEPT ![h] = i]
        /\ UNCHANGED <<cells, size, wire>>
    BY <1>5 DEF ViewTransaction, Slots, HashInv, TypeOK
  <2>2. i # h /\ i # NoCell
    BY <2>1, HandlesAssumption DEF NoCell, HashInv, TypeOK
  <2>3. \A c \in Cells : InUse(c)' = InUse(c)
    BY <2>1, <2>2 DEF InUse, Live, Owner, HashInv, TypeOK
  <2>4. Values' = Values /\ Sent' = Sent
    BY <2>1, <2>3, SameValues DEF Sent
  <2> QED BY <2>1, <2>4
          DEF Value!View, Value!Live, Value!NoCell, Live, NoCell, Values, ValueOfCell, Sent
<1> QED BY <1>1, <1>2, <1>3, <1>4, <1>5 DEF Creates

\* Reading through any wrapper leaves the values; sending sends the one it reaches.
LEMMA ReadRefines ==
    ASSUME HashInv, EncodingCurrent, NEW h \in Handles, Reads(h)
    PROVE  Value!Send(h) \/ UNCHANGED <<Values, size, at, Sent>>
<1>live. Live(h) /\ at[h] \in Cells /\ Values[at[h]] = <<ValueOfInner(Inner(h))>>
  BY OwnerLive, LiveInUse DEF Reads, ComputeHash, EncodeHashFields, Encode, TakeEncoded, Verify
<1>send. ASSUME Values' = Values, at' = at, size' = size,
                Sent' \in {<<ValueOfInner(Inner(h))>>, <<>>}
         PROVE  Value!Send(h)
  BY <1>send, <1>live DEF Value!Send, Value!Live, Value!NoCell, Value!ValueOf, Value!Absent,
                          Live, NoCell, Values, ValueOfCell, Sent
<1>same. ASSUME at' = at, size' = size,
                \A c \in Cells : Content(cells'[c]) = Content(cells[c])
         PROVE  Values' = Values
  BY <1>same, SameValues, ValueOfContent DEF InUse, Live, Owner
<1>1. CASE ComputeHash(h) \/ EncodeHashFields(h) \/ Verify(h)
  <2>1. at' = at /\ size' = size /\ wire' = wire
    BY <1>1 DEF ComputeHash, EncodeHashFields, Verify
  <2>2. \A c \in Cells : Content(cells'[c]) = Content(cells[c])
    BY <1>1 DEF ComputeHash, EncodeHashFields, Verify, Content, HashInv, TypeOK, Inners
  <2> QED BY <1>same, <2>1, <2>2 DEF Sent
<1>2. CASE Encode(h)
  <2> DEFINE hashed == [Inner(h) EXCEPT !.dataHash = <<Hash(DataBytes(h))>>]
  <2>1. at' = at /\ size' = size
    BY <1>2 DEF Encode
  <2>2. Inner(h) \in Inners
    BY <1>live, InnerType DEF HashInv
  <2>3. Content(hashed) = Content(Inner(h))
    BY <2>2 DEF Content, Inners
  <2>4. \A c \in Cells : Content(cells'[c]) = Content(cells[c])
    <3>1. cells' = [cells EXCEPT ![at[h]] = hashed] \/ cells' = cells
      BY <1>2 DEF Encode
    <3> HIDE DEF hashed
    <3> QED BY <1>live, <2>3, <3>1 DEF HashInv, TypeOK, Inner
  <2>5. wire' # <<>> /\ Content(wire'[1]) = Content(Inner(h))
    <3>1. CASE buffer[h] = <<>>
      BY <1>2, <2>3, <3>1 DEF Encode
    <3>2. CASE buffer[h] # <<>>
      BY <1>2, <1>live, <3>2 DEF Encode, EncodingCurrent
    <3> QED BY <3>1, <3>2
  <2>6. Sent' = <<ValueOfInner(Inner(h))>>
    BY <2>5, ValueOfContent DEF Sent
  <2> QED BY <1>send, <1>same, <2>1, <2>4, <2>6
<1>3. CASE TakeEncoded(h)
  <2>1. at' = at /\ size' = size /\ cells' = cells /\ wire' = buffer[h]
    BY <1>3 DEF TakeEncoded
  <2>2. Sent' \in {<<ValueOfInner(Inner(h))>>, <<>>}
    BY <1>live, <2>1, ValueOfContent DEF Sent, EncodingCurrent
  <2> QED BY <1>send, <1>same, <2>1, <2>2
<1> QED BY <1>1, <1>2, <1>3 DEF Reads

\* Setting a field of an object its owner holds signs or annotates its value;
\* overwriting a cell replaces its value by another's.
LEMMA WriteRefines ==
    ASSUME HashInv, TypeOK', NEW h \in Handles, Writes(h)
    PROVE  \/ Value!Sign(h) \/ Value!Annotate(h) \/ Value!AddToBlock(h)
           \/ \E c \in Cells : Value!Replace(c)
<1>own. ASSUME Owner(h)
        PROVE  /\ h \in Cells /\ at[h] = h /\ Live(h) /\ Inner(h) = cells[h]
               /\ Values[h] = <<ValueOfInner(cells[h])>> /\ cells[h] \in Inners /\ Good(cells[h])
  BY <1>own, OwnCell, LiveInUse DEF HashInv, TypeOK, CellsGood
<1>set. ASSUME NEW k \in Cells, InUse(k), at' = at, size' = size, NEW inner,
               cells' = [cells EXCEPT ![k] = inner]
        PROVE  Values' = [Values EXCEPT ![k] = <<ValueOfInner(inner)>>]
  <2>1. cells'[k] = inner /\ \A c \in Cells \ {k} : cells'[c] = cells[c]
    BY <1>set DEF HashInv, TypeOK
  <2>2. \A c \in Cells : InUse(c)' = InUse(c)
    BY <1>set DEF InUse, Live, Owner
  <2>3. ValueOfCell(k)' = <<ValueOfInner(inner)>>
    BY <1>set, <2>1, <2>2 DEF ValueOfCell
  <2> QED BY <2>1, <2>2, <2>3, OneValue
<1>replace. ASSUME NEW k \in Cells, InUse(k), at' = at, size' = size, wire' = wire, NEW inner,
                   cells' = [cells EXCEPT ![k] = inner],
                   \/ \E g \in Handles : Live(g) /\ inner = Inner(g)
                   \/ wire # <<>> /\ inner = wire[1]
            PROVE  Value!Replace(k)
  <2> DEFINE v == <<ValueOfInner(inner)>>
  <2>1. Values' = [Values EXCEPT ![k] = v] /\ Sent' = Sent /\ Values[k] # <<>>
    BY <1>set, <1>replace DEF Sent, Values, ValueOfCell
  <2>2. v # <<>> /\ v \in {Values[at[g]] : g \in {x \in Handles : Live(x)}} \cup {Sent}
    <3>1. CASE \E g \in Handles : Live(g) /\ inner = Inner(g)
      BY <3>1, LiveInUse
    <3>2. CASE wire # <<>> /\ inner = wire[1]
      BY <3>2 DEF Sent
    <3> QED BY <1>replace, <3>1, <3>2
  <2> HIDE DEF v
  <2> QED BY <1>replace, <2>1, <2>2
          DEF Value!Replace, Value!ValueOf, Value!Live, Value!NoCell, Value!Absent, Live, NoCell,
              Values, ValueOfCell, Sent
<1>1. ASSUME NEW k \in Keys, SetSignatureData(h, k)
      PROVE  Value!Sign(h)
  <2> DEFINE signed == [cells[h] EXCEPT !.signature = <<[key |-> k, over |-> HashValue(h)]>>]
             v == Values[h][1]
  <2>1. Owner(h) /\ at' = at /\ size' = size /\ wire' = wire
        /\ cells' = [cells EXCEPT ![h].signature = <<[key |-> k, over |-> HashValue(h)]>>]
    BY <1>1 DEF SetSignatureData, MaySet
  <2>2. cells' = [cells EXCEPT ![h] = signed]
    BY <1>own, <2>1 DEF HashInv, TypeOK
  <2>3. HashValue(h) = Hash(<<cells[h].data>>)
    BY <1>own, <2>1, HashValueGood
  <2>4. ValueOfInner(signed) = [v EXCEPT !.signature = <<[key |-> k, of |-> v.data]>>]
    BY <1>own, <2>1, <2>3 DEF ValueOfInner, Inners, Hash
  <2>5. InUse(h)
    BY <1>own, <2>1, LiveInUse
  <2> HIDE DEF signed
  <2>6. Values' = [Values EXCEPT ![h] = <<ValueOfInner(signed)>>]
    BY <1>own, <1>set, <2>1, <2>2, <2>5
  <2>7. Sent' = Sent
    BY <2>1 DEF Sent
  <2>8. Values' = [Values EXCEPT ![h] = <<[v EXCEPT !.signature = <<[key |-> k, of |-> v.data]>>]>>]
    BY <2>4, <2>6
  <2>9. Values[h] = Value!ValueOf(h)
    BY <1>own, <2>1 DEF Value!ValueOf, Values, ValueOfCell, Owner
  <2>10. at[h] = h
    BY <2>1 DEF Owner
  <2>11. \E key \in Keys : Values' = [Values EXCEPT ![h] =
            <<[Value!ValueOf(h)[1] EXCEPT
                 !.signature = <<[key |-> key, of |-> Value!ValueOf(h)[1].data]>>]>>]
    BY <2>8, <2>9
  <2> HIDE DEF v
  <2> QED BY <2>1, <2>7, <2>10, <2>11
          DEF Value!Sign, Values, ValueOfCell, Sent
<1>2. ASSUME NEW a \in Attributes, SetAttribute(h, a)
      PROVE  Value!Annotate(h)
  <2> DEFINE set == [cells[h] EXCEPT !.attribute = a]
             v == Values[h][1]
  <2>1. Owner(h) /\ at' = at /\ size' = size /\ wire' = wire
        /\ cells' = [cells EXCEPT ![h].attribute = a]
    BY <1>2 DEF SetAttribute, MaySet
  <2>2. cells' = [cells EXCEPT ![h] = set]
    BY <1>own, <2>1 DEF HashInv, TypeOK
  <2>3. ValueOfInner(set) = [v EXCEPT !.attribute = a]
    BY <1>own, <2>1 DEF ValueOfInner, Inners
  <2>4. InUse(h)
    BY <1>own, <2>1, LiveInUse
  <2> HIDE DEF set
  <2>5. Values' = [Values EXCEPT ![h] = <<ValueOfInner(set)>>]
    BY <1>own, <1>set, <2>1, <2>2, <2>4
  <2>6. Sent' = Sent
    BY <2>1 DEF Sent
  <2>7. Values' = [Values EXCEPT ![h] = <<[v EXCEPT !.attribute = a]>>]
    BY <2>3, <2>5
  <2> QED BY <1>own, <2>1, <2>6, <2>7
          DEF Value!Annotate, Value!ValueOf, Values, ValueOfCell, Sent
<1>3. ASSUME Decode(h)
      PROVE  \E c \in Cells : Value!Replace(c)
  <2>1. Owner(h) /\ wire # <<>> /\ cells' = [cells EXCEPT ![h] = wire[1]]
        /\ at' = at /\ size' = size /\ wire' = wire
    BY <1>3 DEF Decode
  <2>2. h \in Cells /\ InUse(h)
    BY <1>own, <2>1, LiveInUse
  <2> QED BY <1>replace, <2>1, <2>2
<1>4. ASSUME NEW g \in Handles, SetInner(h, g)
      PROVE  \E c \in Cells : Value!Replace(c)
  <2>1. Owner(h) /\ Live(g) /\ cells' = [cells EXCEPT ![h] = Inner(g)]
        /\ at' = at /\ size' = size /\ wire' = wire
    BY <1>4 DEF SetInner
  <2>2. h \in Cells /\ InUse(h)
    BY <1>own, <2>1, LiveInUse
  <2> QED BY <1>replace, <2>1, <2>2
<1>5. CASE AppendTransaction(h)
  <2> DEFINE v == <<ValueOfInner(Inner(h))>>
  <2>k. size \in Nat /\ size + 1 \in Slots
    BY <1>5, MaxTxsAssumption DEF AppendTransaction, HashInv, TypeOK, Slots
  <2>p. PICK k \in Slots : k = size + 1
    BY <2>k
  <2>1. Live(h) /\ size < MaxTxs /\ size' = k /\ cells' = [cells EXCEPT ![k] = Inner(h)]
        /\ at' = at /\ wire' = wire
    BY <1>5, <2>p DEF AppendTransaction
  <2>2. k \in Nat /\ k \in Cells /\ k \notin Handles
    BY <2>k, <2>p, HandlesAssumption DEF Slots, Cells
  <2>3. cells'[k] = Inner(h) /\ \A c \in Cells \ {k} : cells'[c] = cells[c]
    BY <2>1, <2>2 DEF HashInv, TypeOK
  <2>4. \A c \in Cells \ {k} : InUse(c)' = InUse(c)
    <3>1. \A c \in Slots \ {k} : c \in Nat /\ (c <= k <=> c <= size)
      BY <2>k, <2>p DEF Slots
    <3> QED BY <2>1, <3>1 DEF InUse, Live, Owner, Cells
  <2>u. InUse(k)'
    BY <2>1, <2>2 DEF InUse
  <2>5. ValueOfCell(k)' = v
    BY <2>3, <2>u DEF ValueOfCell
  <2>7. v = Values[at[h]]
    BY <2>1, LiveInUse
  <2>s. Sent' = Sent
    BY <2>1 DEF Sent
  <2> HIDE DEF v
  <2>6. Values' = [Values EXCEPT ![k] = v]
    BY <2>2, <2>3, <2>4, <2>5, OneValue
  <2>8. Value!AddToBlock(h)
    BY <2>1, <2>p, <2>s, <2>6, <2>7
       DEF Value!AddToBlock, Value!ValueOf, Value!Live, Value!NoCell, Live, NoCell,
           Values, ValueOfCell, Sent
  <2> QED BY <2>8
<1>6. ASSUME NEW i \in Slots, SetTransaction(i, h)
      PROVE  \E c \in Cells : Value!Replace(c)
  <2>1. Live(h) /\ i <= size /\ cells' = [cells EXCEPT ![i] = Inner(h)]
        /\ at' = at /\ size' = size /\ wire' = wire
    BY <1>6 DEF SetTransaction
  <2>2. i \in Cells /\ InUse(i)
    BY <2>1, HandlesAssumption DEF Slots, Cells, InUse
  <2> QED BY <1>replace, <2>1, <2>2
<1> QED BY <1>1, <1>2, <1>3, <1>4, <1>5, <1>6 DEF Writes

LEMMA ReleaseRefines ==
    ASSUME HashInv, NEW h \in Handles, Release(h)
    PROVE  Value!Drop(h)
<1>1. Live(h) /\ at' = [at EXCEPT ![h] = NoCell] /\ size' = size /\ wire' = wire
      /\ cells' = IF Owner(h) THEN [cells EXCEPT ![h] = Blank] ELSE cells
  BY DEF Release
<1>2. h \in Cells /\ h # NoCell /\ at'[h] = NoCell
  BY <1>1, HandlesAssumption DEF Cells, NoCell, HashInv, TypeOK
<1>3. \A c \in Cells \ {h} : InUse(c)' = InUse(c) /\ cells'[c] = cells[c]
  BY <1>1 DEF InUse, Live, Owner, HashInv, TypeOK
<1>4. ValueOfCell(h)' = <<>>
  BY <1>2 DEF ValueOfCell, InUse, Live
<1>5. Values' = [Values EXCEPT ![h] = <<>>] /\ Sent' = Sent
  BY <1>1, <1>2, <1>3, <1>4, OneValue DEF Sent
<1>6. CASE at[h] = h
  BY <1>1, <1>5, <1>6 DEF Value!Drop, Value!Live, Value!NoCell, Value!Absent, Live, NoCell,
                          Values, ValueOfCell, Sent
<1>7. CASE at[h] # h
  <2>1. ~InUse(h)
    BY <1>7 DEF InUse, Owner
  <2>2. Values[h] = <<>> /\ Values = [c \in Cells |-> Values[c]]
    BY <1>2, <2>1 DEF Values, ValueOfCell
  <2>3. Values' = Values
    BY <1>2, <1>5, <2>2
  <2> QED BY <1>1, <1>5, <1>7, <2>3
          DEF Value!Drop, Value!Live, Value!NoCell, Value!Absent, Live, NoCell,
              Values, ValueOfCell, Sent
<1> QED BY <1>6, <1>7

\* Another block is one of transactions that the abstract program has or sent.
LEMMA BlockRefines ==
    ASSUME HashInv, NEW n \in 0 .. MaxTxs, NEW list \in [1 .. n -> Copies], ReplaceBlock(list)
    PROVE  Value!ReplaceBlock
<1> DEFINE there == {Values[c] : c \in Cells} \cup {Sent, <<>>}
<1>1. \A x \in Copies : <<ValueOfInner(x)>> \in there
  <2> SUFFICES ASSUME NEW x \in Copies
               PROVE  <<ValueOfInner(x)>> \in there
    OBVIOUS
  <2>1. CASE x \in {Inner(g) : g \in {h \in Handles : Live(h)}}
    BY <2>1, LiveInUse
  <2>2. CASE x \in {cells[i] : i \in 1 .. size}
    <3>1. PICK i \in 1 .. size : x = cells[i]
      BY <2>2
    <3>2. i \in Cells /\ InUse(i)
      BY MaxTxsAssumption, HandlesAssumption DEF HashInv, TypeOK, Cells, Slots, InUse
    <3> QED BY <3>1, <3>2 DEF Values, ValueOfCell
  <2>3. CASE x \in {wire[i] : i \in DOMAIN wire}
    BY <2>3 DEF HashInv, TypeOK, Bytes, Sent
  <2> QED BY <2>1, <2>2, <2>3 DEF Copies
<1>2. size' = n /\ at' = at /\ Sent' = Sent
  BY BlockCells DEF Sent
<1>3. \A h \in Handles : h \in Cells /\ h \notin Slots
  BY HandlesAssumption, MaxTxsAssumption DEF Cells, Slots
<1>4. \A h \in Handles : Values'[h] = Values[h]
  <2> SUFFICES ASSUME NEW h \in Handles
               PROVE  ValueOfCell(h)' = ValueOfCell(h)
    BY <1>3 DEF Values
  <2>1. cells'[h] = cells[h] /\ InUse(h)' = InUse(h)
    BY <1>2, <1>3, BlockCells DEF InUse, Live, Owner
  <2> QED BY <2>1 DEF ValueOfCell
<1>5. \A i \in Slots : /\ i \in Cells /\ i \in Nat
                       /\ i <= n => Values'[i] = <<ValueOfInner(cells'[i])>>
                       /\ ~(i <= n) => Values'[i] = <<>>
  <2> SUFFICES ASSUME NEW i \in Slots
               PROVE  /\ i \in Cells /\ i \in Nat
                      /\ i <= n => Values'[i] = <<ValueOfInner(cells'[i])>>
                      /\ ~(i <= n) => Values'[i] = <<>>
    OBVIOUS
  <2>1. i \in Cells /\ i \in Nat /\ i \notin Handles
    BY <1>3 DEF Cells, Slots
  <2>2. InUse(i)' <=> i <= n
    BY <1>2, <2>1 DEF InUse
  <2> QED BY <2>1, <2>2 DEF Values, ValueOfCell
<1>6. \A i \in Slots : /\ Values'[i] \in there
                       /\ Values'[i] = <<>> <=> n < i
  <2> SUFFICES ASSUME NEW i \in Slots
               PROVE  Values'[i] \in there /\ (Values'[i] = <<>> <=> n < i)
    OBVIOUS
  <2>1. i \in Nat /\ n \in Nat
    BY <1>5, MaxTxsAssumption
  <2>2. CASE i <= n
    <3>1. cells'[i] \in Copies
      BY <2>2, BlockCells
    <3>2. Values'[i] = <<ValueOfInner(cells'[i])>>
      BY <1>5, <2>2
    <3>3. <<ValueOfInner(cells'[i])>> \in there
      BY <1>1, <3>1
    <3> HIDE DEF there, Values
    <3> QED BY <2>1, <2>2, <3>2, <3>3
  <2>3. CASE ~(i <= n)
    <3>1. Values'[i] = <<>>
      BY <1>5, <2>3
    <3> QED BY <2>1, <2>3, <3>1
  <2> QED BY <2>2, <2>3
<1>7. \A c \in Cells : Values'[c] \in there
  BY <1>3, <1>4, <1>6 DEF Cells
<1>8. Values' \in [Cells -> there]
  BY <1>7 DEF Values
<1> HIDE DEF there
<1>9. \A h \in Handles : at[h] \in Slots => at[h] <= n
  BY BlockCells
<1> QED BY <1>2, <1>4, <1>6, <1>8, <1>9
        DEF Value!ReplaceBlock, Value!Cells, Value!Absent, Cells, Slots, there, Values, ValueOfCell, Sent

LEMMA InitRefines == Init => Value!Init
<1> SUFFICES ASSUME Init
             PROVE  Value!Init
  OBVIOUS
<1>1. \A c \in Cells : ~InUse(c)
  BY MaxTxsAssumption DEF Init, InUse, Live, Owner, Cells, Slots, NoCell
<1>2. Values = [c \in Cells |-> <<>>] /\ Sent = <<>> /\ size = 0 /\ at = [h \in Handles |-> NoCell]
  BY <1>1 DEF Init, Values, ValueOfCell, Sent
<1> QED BY <1>2 DEF Value!Init, Value!Cells, Value!Absent, Value!NoCell, Cells, Slots, NoCell,
                    Values, ValueOfCell, Sent

\* Callers that overwrite no object under its caches, and set nothing on one that
\* holds its encoding, cannot tell that anything is cached: each operation does to
\* the value of a transaction what TransactionValue says, or nothing, for any number
\* of wrappers, block slots, keys and payloads.
THEOREM CachesAreInvisible ==
    {"fresh", "freeze"} \subseteq CallerRules => (Spec => CachesInvisible)
<1> SUFFICES ASSUME {"fresh", "freeze"} \subseteq CallerRules
             PROVE  Spec => CachesInvisible
  OBVIOUS
<1> DEFINE valueVars == <<Values, size, at, Sent>>
<1>1. HashInv /\ HashInv' /\ EncodingCurrent /\ [Next]_vars => Value!Next \/ UNCHANGED valueVars
  <2> SUFFICES ASSUME HashInv, HashInv', EncodingCurrent, [Next]_vars
               PROVE  Value!Next \/ UNCHANGED valueVars
    OBVIOUS
  <2>1. ASSUME NEW h \in Handles, Creates(h)
        PROVE  Value!Next
    BY <2>1, CreateRefines DEF Value!Next
  <2>2. ASSUME NEW h \in Handles, Reads(h)
        PROVE  Value!Next \/ UNCHANGED valueVars
    BY <2>2, ReadRefines DEF Value!Next
  <2>3. ASSUME NEW h \in Handles, Writes(h)
        PROVE  Value!Next
    <3>1. TypeOK'
      BY DEF HashInv
    <3>2. Cells = Value!Cells
      BY DEF Cells, Slots, Value!Cells
    <3> QED BY <2>3, <3>1, <3>2, WriteRefines DEF Value!Next
  <2>4. ASSUME NEW h \in Handles, Release(h)
        PROVE  Value!Next
    BY <2>4, ReleaseRefines DEF Value!Next
  <2>5. CASE BlockSteps
    BY <2>5, BlockRefines DEF BlockSteps, Value!Next
  <2>6. CASE UNCHANGED vars
    BY <2>6 DEF vars, Values, ValueOfCell, Sent, InUse, Live, Owner
  <2> QED BY <2>1, <2>2, <2>3, <2>4, <2>5, <2>6 DEF Next
<1>2. Spec => []HashInv
  BY HashInductive
<1>3. Spec => []EncodingCurrent
  BY EncodingsAreRight
<1>4. HashInv /\ HashInv' /\ EncodingCurrent /\ [Next]_vars => [Value!Next]_(Value!valueVars)
  BY <1>1 DEF Value!valueVars, Values, ValueOfCell, Sent
<1> QED BY <1>2, <1>3, <1>4, InitRefines, PTL DEF Spec, CachesInvisible, Value!Spec
=============================================================================
