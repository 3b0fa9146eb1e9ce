------------------------------ MODULE WireProofs ------------------------------
(***************************************************************************)
(* Proofs about bytes that go out and bytes that come in: OutputBuffer,    *)
(* into which every object is encoded, for any bytes, chunks and bounds;   *)
(* and, at the end, TransactionDecode, for any transactions, cut off       *)
(* anywhere.                                                               *)
(***************************************************************************)
EXTENDS OutputBuffer, TransactionDecode, SequenceTheorems, TLAPS

-----------------------------------------------------------------------------
(* Lemmas about vectors. *)

LEMMA VectorType ==
    ASSUME NEW v \in Vectors
    PROVE  v.store \in Seq(Bytes) /\ v.size \in Nat /\ v.size <= Len(v.store)
           /\ Len(v.store) \in Nat
BY LenProperties DEF Vectors

LEMMA EmptyType == Empty \in Vectors /\ Elements(Empty) = <<>>
BY DEF Empty, Vectors, Elements

\* A vector is of its type when its memory is a function on an interval.
LEMMA VectorIntro ==
    ASSUME NEW n \in Nat, NEW store \in [1 .. n -> Bytes], NEW size \in Nat, size <= n
    PROVE  [size |-> size, store |-> store] \in Vectors /\ Len(store) = n
<1>1. store \in Seq(Bytes) /\ Len(store) = n
  OBVIOUS
<1> QED BY <1>1 DEF Vectors

LEMMA LargerType ==
    ASSUME NEW m \in Nat, NEW n \in Nat
    PROVE  Larger(m, n) \in Nat /\ m <= Larger(m, n) /\ n <= Larger(m, n)
BY DEF Larger

LEMMA ReservedType ==
    ASSUME NEW n \in Nat
    PROVE  Reserved(n) \in Nat /\ n <= Reserved(n)
<1>1. 2 * n \in Nat /\ n <= 2 * n
  OBVIOUS
<1>2. Larger(2 * n, MinReserve) \in Nat /\ 2 * n <= Larger(2 * n, MinReserve)
  BY <1>1, BoundsAssumption, LargerType
<1> QED BY <1>1, <1>2 DEF Reserved

\* resize(n) makes n elements, and keeps those that were there.
LEMMA ResizeKeeps ==
    ASSUME NEW v \in Vectors, NEW n \in Nat
    PROVE  /\ Resize(v, n) \in Vectors
           /\ Resize(v, n).size = n
           /\ n <= Len(Resize(v, n).store) /\ Len(v.store) <= Len(Resize(v, n).store)
           /\ \A i \in 1 .. v.size : Resize(v, n).store[i] = v.store[i]
<1> DEFINE length == Larger(n, Len(v.store))
           store == [i \in 1 .. length |->
                        IF v.size < i /\ i <= n THEN Zero ELSE v.store[i]]
<1>1. v.store \in Seq(Bytes) /\ v.size \in Nat /\ v.size <= Len(v.store) /\ Len(v.store) \in Nat
  BY VectorType
<1>2. length \in Nat /\ n <= length /\ Len(v.store) <= length
  BY <1>1, LargerType
<1>3. length = n \/ length = Len(v.store)
  BY DEF Larger
<1>4. store \in [1 .. length -> Bytes]
  <2> HIDE DEF length
  <2>1. ASSUME NEW i \in 1 .. length, ~(v.size < i /\ i <= n)
        PROVE  v.store[i] \in Bytes
    <3>1. i \in 1 .. Len(v.store)
      BY <1>1, <1>2, <1>3, <2>1
    <3> QED BY <1>1, <3>1, ElementOfSeq
  <2> QED BY <2>1, BytesAssumption
<1>5. Resize(v, n) = [size |-> n, store |-> store]
  BY DEF Resize
<1>6. Resize(v, n) \in Vectors /\ Len(store) = length
  BY <1>2, <1>4, <1>5, VectorIntro
<1>7. ASSUME NEW i \in 1 .. v.size
      PROVE  store[i] = v.store[i]
  <2> HIDE DEF length
  <2> QED BY <1>1, <1>2
<1> HIDE DEF store, length
<1> QED BY <1>2, <1>5, <1>6, <1>7

LEMMA ResizeElements ==
    ASSUME NEW v \in Vectors, NEW n \in Nat, NEW k \in Nat, k <= v.size
    PROVE  SubSeq(Resize(v, n).store, 1, k) = SubSeq(v.store, 1, k)
<1> DEFINE r == Resize(v, n)
<1>1. r \in Vectors /\ Len(v.store) <= Len(r.store)
      /\ \A i \in 1 .. v.size : r.store[i] = v.store[i]
  BY ResizeKeeps
<1>2. v.size \in Nat /\ v.size <= Len(v.store) /\ Len(v.store) \in Nat /\ Len(r.store) \in Nat
      /\ v.store \in Seq(Bytes) /\ r.store \in Seq(Bytes)
  BY <1>1, VectorType
<1> HIDE DEF r
<1>3. \A i \in 1 .. k : r.store[i] = v.store[i]
  BY <1>1, <1>2
<1>4. SubSeq(r.store, 1, k) = [i \in 1 .. k |-> r.store[i]]
      /\ SubSeq(v.store, 1, k) = [i \in 1 .. k |-> v.store[i]]
  OBVIOUS
<1>5. [i \in 1 .. k |-> r.store[i]] = [i \in 1 .. k |-> v.store[i]]
  BY <1>3
<1> QED BY <1>4, <1>5 DEF r

\* What is handed out after resize(_len) is the first _len bytes.
LEMMA HandedOut ==
    ASSUME NEW v \in Vectors, NEW n \in Nat, n <= v.size
    PROVE  Elements(Resize(v, n)) = SubSeq(v.store, 1, n)
BY ResizeKeeps, ResizeElements DEF Elements

LEMMA PutType ==
    ASSUME NEW v \in Vectors, NEW chunk \in Seq(Bytes), len \in Nat
    PROVE  /\ Put(v, chunk) \in Vectors
           /\ Put(v, chunk).size = v.size
           /\ Len(Put(v, chunk).store) = Len(v.store)
<1> DEFINE store == [i \in 1 .. Len(v.store) |->
               IF len < i /\ i <= len + Len(chunk) THEN chunk[i - len] ELSE v.store[i]]
<1>1. v.store \in Seq(Bytes) /\ v.size \in Nat /\ v.size <= Len(v.store) /\ Len(v.store) \in Nat
  BY VectorType
<1>2. store \in [1 .. Len(v.store) -> Bytes]
  <2>1. ASSUME NEW i \in 1 .. Len(v.store), len < i, i <= len + Len(chunk)
        PROVE  chunk[i - len] \in Bytes
    <3>1. i - len \in 1 .. Len(chunk)
      BY <2>1, LenProperties
    <3> QED BY <3>1, ElementOfSeq
  <2>2. \A i \in 1 .. Len(v.store) : v.store[i] \in Bytes
    BY <1>1, ElementOfSeq
  <2> QED BY <2>1, <2>2
<1>3. Put(v, chunk) = [size |-> v.size, store |-> store]
  BY DEF Put
<1> HIDE DEF store
<1> QED BY <1>1, <1>2, <1>3, VectorIntro

\* A chunk put at _len follows the bytes before it.
LEMMA PutAppends ==
    ASSUME NEW v \in Vectors, NEW chunk \in Seq(Bytes), len \in Nat,
           len + Len(chunk) <= Len(v.store)
    PROVE  SubSeq(Put(v, chunk).store, 1, len + Len(chunk)) = SubSeq(v.store, 1, len) \o chunk
<1> DEFINE n == Len(chunk)
           put == Put(v, chunk).store
<1>1. n \in Nat /\ v.store \in Seq(Bytes) /\ Len(v.store) \in Nat /\ put \in Seq(Bytes)
  BY VectorType, PutType, LenProperties
<1>2. \A i \in 1 .. Len(v.store) :
         put[i] = IF len < i /\ i <= len + n THEN chunk[i - len] ELSE v.store[i]
  BY <1>1 DEF Put
<1>3. SubSeq(put, 1, len + n) = [i \in 1 .. len + n |-> put[i]]
  BY <1>1
<1>4. SubSeq(v.store, 1, len) \o chunk =
        [i \in 1 .. len + n |-> IF i <= len THEN v.store[i] ELSE chunk[i - len]]
  BY <1>1
<1>5. ASSUME NEW i \in 1 .. len + n
      PROVE  put[i] = IF i <= len THEN v.store[i] ELSE chunk[i - len]
  <2>1. i \in 1 .. Len(v.store)
    BY <1>1
  <2> HIDE DEF put
  <2> QED BY <1>1, <1>2, <2>1
<1> HIDE DEF put
<1>6. [i \in 1 .. len + n |-> put[i]] =
        [i \in 1 .. len + n |-> IF i <= len THEN v.store[i] ELSE chunk[i - len]]
  BY <1>5
<1> QED BY <1>3, <1>4, <1>6 DEF put

LEMMA GivenCopy ==
    ASSUME NEW v \in Vectors
    PROVE  /\ Elements(v) \in Seq(Bytes) /\ Len(Elements(v)) = v.size
           /\ [store |-> Elements(v), size |-> v.size] \in Vectors
           /\ Elements([store |-> Elements(v), size |-> v.size]) = Elements(v)
<1>1. v.store \in Seq(Bytes) /\ v.size \in Nat /\ v.size <= Len(v.store)
  BY VectorType
<1>2. Elements(v) \in Seq(Bytes) /\ Len(Elements(v)) = v.size
  BY <1>1 DEF Elements
<1>3. SubSeq(Elements(v), 1, v.size) = Elements(v)
  BY <1>1, <1>2
<1> QED BY <1>1, <1>2, <1>3 DEF Vectors, Elements

-----------------------------------------------------------------------------
(* Type correctness, whatever the callers do. *)

LEMMA WriteType ==
    ASSUME TypeOK, NEW chunk \in Chunks, WriteBuf(chunk)
    PROVE  TypeOK'
<1> DEFINE needed == len + Len(chunk)
           grows == bufLen < needed
           vector == IF grows THEN Resize(own, Reserved(needed)) ELSE own
           target == IF grows THEN "own" ELSE buf
<1>1. chunk \in Seq(Bytes) /\ len \in Nat /\ needed \in Nat /\ Reserved(needed) \in Nat
  BY ChunksAssumption, ReservedType, LenProperties DEF TypeOK
<1>2. vector \in Vectors
  BY <1>1, ResizeKeeps DEF TypeOK
<1>3. Put(vector, chunk) \in Vectors /\ Put(given, chunk) \in Vectors
  <2> HIDE DEF vector
  <2> QED BY <1>1, <1>2, PutType DEF TypeOK
<1>4. /\ own' = IF target = "own" THEN Put(vector, chunk) ELSE vector
      /\ given' = IF target = "given" THEN Put(given, chunk) ELSE given
      /\ buf' = target /\ len' = needed /\ handed' = handed
      /\ bufLen' = IF grows THEN Reserved(needed) ELSE bufLen
  BY DEF WriteBuf
<1> HIDE DEF vector, needed
<1> QED BY <1>1, <1>2, <1>3, <1>4 DEF TypeOK

LEMMA StepType ==
    ASSUME TypeOK, [Next]_vars
    PROVE  TypeOK'
<1>0. Resize(own, len) \in Vectors /\ Resize(own, len).size = len
  BY ResizeKeeps DEF TypeOK
<1>1. ASSUME NEW chunk \in Chunks, WriteBuf(chunk)
      PROVE  TypeOK'
  BY <1>1, WriteType
<1>2. CASE Reset
  BY <1>2 DEF Reset, TypeOK
<1>3. CASE Look
  BY <1>0, <1>3, GivenCopy DEF Look, TypeOK
<1>4. CASE Take
  BY <1>0, <1>4 DEF Take, Swapped, TypeOK
<1>5. CASE Swap
  BY <1>0, <1>5 DEF Swap, TypeOK
<1>6. CASE Drop
  BY <1>6, EmptyType DEF Drop, TypeOK
<1>7. CASE New
  BY <1>7, EmptyType DEF New, TypeOK
<1>8. CASE UNCHANGED vars
  BY <1>8 DEF vars, TypeOK
<1> QED BY <1>1, <1>2, <1>3, <1>4, <1>5, <1>6, <1>7, <1>8 DEF Next

\* The writer and its memory keep their types (BufferWriterByteVector), whatever
\* is called in whatever order.
THEOREM TypeCorrect == Spec => []TypeOK
<1>1. Init => TypeOK
  BY EmptyType DEF Init, TypeOK
<1> QED BY <1>1, StepType, PTL DEF Spec

-----------------------------------------------------------------------------
(* A writer that is not used after its vector was handed out. *)

\* Either nothing was reserved since the pointer was reset, or the pointer is
\* into the own vector, which has every byte written among its elements: while
\* more may be written, all that was reserved.  The second half is what keeps
\* the bytes when the vector is resized.
Owned ==
    handed # "taken" =>
        \/ buf = "null" /\ len = 0 /\ bufLen = 0
        \/ /\ buf = "own" /\ len <= own.size /\ len <= bufLen /\ bufLen <= Len(own.store)
           /\ handed = "no" => bufLen <= own.size

Written == IF handed = "taken" \/ buf = "null" THEN <<>> ELSE SubSeq(own.store, 1, len)

\* Any vector's first 0 elements.
LEMMA NothingWritten == \A v \in Vectors : SubSeq(v.store, 1, 0) = <<>>
BY VectorType

\* What the log is, and what resize(_len) makes of it.
LEMMA LogBytes ==
    ASSUME TypeOK, Owned, handed # "taken"
    PROVE  /\ Written = SubSeq(own.store, 1, len)
           /\ Elements(Resize(own, len)) = Written
           /\ len <= own.size
<1>1. len \in Nat /\ own \in Vectors /\ own.size \in Nat
  BY VectorType DEF TypeOK
<1>2. len <= own.size
  BY <1>1 DEF Owned
<1>3. Written = SubSeq(own.store, 1, len)
  <2>1. CASE buf = "null"
    <3>1. len = 0 /\ Written = <<>>
      BY <2>1 DEF Owned, Written
    <3>2. SubSeq(own.store, 1, 0) = <<>>
      BY <1>1, NothingWritten
    <3> QED BY <3>1, <3>2
  <2>2. CASE buf # "null"
    BY <2>2 DEF Written
  <2> QED BY <2>1, <2>2
<1> QED BY <1>1, <1>2, <1>3, HandedOut

\* One write: the memory is the writer's before the bytes go there, and the log
\* has grown by the chunk.
LEMMA WriteStep ==
    ASSUME "once" \in CallerRules, TypeOK, Owned, NEW chunk \in Chunks, WriteBuf(chunk)
    PROVE  Owned' /\ Written' = Written \o chunk /\ UNCHANGED <<handed, given>> /\ handed = "no"
<1> DEFINE needed == len + Len(chunk)
           grows == bufLen < needed
           vector == IF grows THEN Resize(own, Reserved(needed)) ELSE own
<1>1. chunk \in Seq(Bytes) /\ Len(chunk) \in Nat /\ len \in Nat /\ bufLen \in Nat
      /\ needed \in Nat /\ Reserved(needed) \in Nat /\ needed <= Reserved(needed)
      /\ own \in Vectors /\ own.size \in Nat /\ Len(own.store) \in Nat
  <2>1. chunk \in Seq(Bytes) /\ Len(chunk) \in Nat /\ len \in Nat /\ bufLen \in Nat
    BY ChunksAssumption, LenProperties DEF TypeOK
  <2>2. needed \in Nat
    BY <2>1
  <2>3. Reserved(needed) \in Nat /\ needed <= Reserved(needed)
    <3> HIDE DEF needed
    <3> QED BY <2>2, ReservedType
  <2>4. own \in Vectors /\ own.size \in Nat /\ Len(own.store) \in Nat
    BY VectorType DEF TypeOK
  <2> QED BY <2>1, <2>2, <2>3, <2>4
<1>2. handed = "no" /\ handed' = "no" /\ len' = needed
  BY DEF WriteBuf, MayWrite
<1>3. Written = SubSeq(own.store, 1, len) /\ len <= own.size
  BY <1>2, LogBytes
<1>4. CASE ~grows /\ buf = "null"
  <2>1. len = 0 /\ bufLen = 0 /\ Len(chunk) = 0 /\ needed = 0
    BY <1>1, <1>2, <1>4 DEF Owned
  <2>2. chunk = <<>>
    BY <1>1, <2>1, EmptySeq
  <2>3. Written = <<>> /\ Written \o chunk = <<>>
    BY <1>4, <2>2 DEF Written
  <2>4. UNCHANGED <<own, given, buf, bufLen>>
    BY <1>4 DEF WriteBuf
  <2> QED BY <1>2, <1>4, <2>1, <2>3, <2>4 DEF Owned, Written
<1>5. CASE grows \/ buf = "own"
  <2>1. own' = Put(vector, chunk) /\ given' = given /\ buf' = "own"
        /\ bufLen' = (IF grows THEN Reserved(needed) ELSE bufLen)
    BY <1>5 DEF WriteBuf
  <2>2. /\ vector \in Vectors /\ bufLen' <= vector.size
        /\ SubSeq(vector.store, 1, len) = SubSeq(own.store, 1, len)
    <3>1. CASE grows
      BY <1>1, <1>3, <2>1, <3>1, ResizeKeeps, ResizeElements
    <3>2. CASE ~grows
      BY <1>1, <1>2, <1>5, <2>1, <3>2 DEF Owned
    <3> QED BY <3>1, <3>2
  <2>3. needed <= bufLen' /\ bufLen' \in Nat
    BY <1>1, <2>1
  <2> HIDE DEF vector
  <2>4. vector.size \in Nat /\ vector.size <= Len(vector.store) /\ Len(vector.store) \in Nat
    BY <2>2, VectorType
  <2>5. own'.size = vector.size /\ Len(own'.store) = Len(vector.store)
    BY <1>1, <2>1, <2>2, PutType
  <2>6. needed <= own'.size /\ needed <= Len(vector.store) /\ bufLen' <= Len(own'.store)
    BY <1>1, <2>2, <2>3, <2>4, <2>5
  <2>7. SubSeq(own'.store, 1, needed) = SubSeq(vector.store, 1, len) \o chunk
    BY <1>1, <2>1, <2>2, <2>6, PutAppends
  <2>8. Written' = SubSeq(own'.store, 1, needed)
    BY <1>2, <2>1 DEF Written
  <2>9. Owned'
    BY <1>2, <2>1, <2>2, <2>3, <2>5, <2>6 DEF Owned
  <2> QED BY <1>2, <1>3, <2>1, <2>2, <2>7, <2>8, <2>9
<1> QED BY <1>2, <1>4, <1>5 DEF Owned

\* Every other step: what is known of the memory stays true, and the log does
\* what ByteLog says.
LEMMA OnceStep ==
    ASSUME "once" \in CallerRules, TypeOK, Owned, Next
    PROVE  Owned' /\ Log!Next
<1>0. Written = IF handed = "taken" \/ buf = "null" THEN <<>> ELSE SubSeq(own.store, 1, len)
  BY DEF Written
<1>a. len \in Nat /\ own \in Vectors /\ Resize(own, len) \in Vectors
      /\ Resize(own, len).size = len /\ Len(own.store) <= Len(Resize(own, len).store)
      /\ given \in Vectors
  BY ResizeKeeps DEF TypeOK
<1>1. ASSUME NEW chunk \in Chunks, WriteBuf(chunk)
      PROVE  Owned' /\ Log!Next
  <2>1. Owned' /\ Written' = Written \o chunk /\ UNCHANGED <<handed, given>> /\ handed = "no"
    BY <1>1, WriteStep
  <2>2. Log!Write(chunk)
    BY <2>1 DEF Log!Write, Written
  <2> QED BY <2>1, <2>2 DEF Log!Next
<1>2. CASE Reset
  <2>1. Owned'
    BY <1>a, <1>2, VectorType DEF Reset, Owned, TypeOK
  <2>2. Written' = <<>>
    BY <1>a, <1>2, NothingWritten DEF Reset, Written
  <2>3. Log!Reset
    BY <1>2, <2>2 DEF Reset, MayWrite, Log!Reset, Written
  <2> QED BY <2>1, <2>3 DEF Log!Next
<1>3. CASE Look
  <2>1. handed # "taken" /\ handed' = "looked" /\ own' = Resize(own, len) /\ UNCHANGED len
    BY <1>3 DEF Look, MayHandOut
  <2>2. buf' = buf /\ Owned'
    BY <1>a, <1>3, <2>1, VectorType DEF Look, Owned, TypeOK
  <2>3. Elements(given') = Elements(Resize(own, len)) /\ Elements(Resize(own, len)) = Written
    BY <1>a, <1>3, <2>1, GivenCopy, LogBytes DEF Look
  <2>4. Written' = Written
    BY <1>a, <2>1, <2>2, <2>3 DEF Written, Elements
  <2>5. Log!Look
    BY <2>1, <2>3, <2>4 DEF Log!Look, Written
  <2> QED BY <2>2, <2>5 DEF Log!Next
<1>4. CASE Take
  <2>1. handed # "taken" /\ handed' = "taken" /\ given' = Resize(own, len)
    BY <1>4 DEF Take, MayHandOut
  <2>2. Elements(given') = Written
    BY <2>1, LogBytes
  <2>3. Log!Take
    BY <2>1, <2>2 DEF Log!Take, Written
  <2> QED BY <2>1, <2>3 DEF Log!Next, Owned
<1>5. CASE Swap
  <2>1. handed # "taken" /\ handed' = "no" /\ given' = Resize(own, len)
        /\ buf' = "null" /\ len' = 0 /\ bufLen' = 0
    BY <1>5 DEF Swap, MayHandOut
  <2>2. Elements(given') = Written
    BY <2>1, LogBytes
  <2>3. Log!Swap
    BY <2>1, <2>2 DEF Log!Swap, Written
  <2> QED BY <2>1, <2>3 DEF Log!Next, Owned
<1>6. CASE Drop
  <2>1. UNCHANGED <<own, len, bufLen, handed>> /\ Elements(given') = <<>>
    BY <1>6, EmptyType DEF Drop
  <2>2. handed # "taken" => buf' = buf
    BY <1>6 DEF Drop, Owned
  <2>3. Written' = Written /\ Owned'
    BY <2>1, <2>2 DEF Owned, Written
  <2>4. Log!Drop
    BY <2>1, <2>3 DEF Log!Drop, Written
  <2> QED BY <2>3, <2>4 DEF Log!Next
<1>7. CASE New
  <2>1. handed' = "no" /\ given' = given /\ buf' = "null" /\ len' = 0 /\ bufLen' = 0
    BY <1>7 DEF New
  <2>2. Log!New
    BY <2>1 DEF Log!New
  <2> QED BY <2>1, <2>2 DEF Owned, Log!Next
<1> QED BY <1>1, <1>2, <1>3, <1>4, <1>5, <1>6, <1>7 DEF Next

Inv == TypeOK /\ Owned

LEMMA OnceInitial == Init => Inv /\ Log!Init
BY EmptyType DEF Init, Inv, TypeOK, Owned, Log!Init

LEMMA OnceInductive ==
    ASSUME "once" \in CallerRules, Inv, [Next]_vars
    PROVE  Inv' /\ [Log!Next]_(Log!logVars)
<1>1. CASE Next
  BY <1>1, StepType, OnceStep DEF Inv
<1>2. CASE UNCHANGED vars
  BY <1>2, StepType DEF Inv, Owned, vars, Log!logVars
<1> QED BY <1>1, <1>2

\* A writer that callers leave alone once its bytes were handed out never writes
\* outside of its own vector (writeBuf through _buf).
THEOREM OnceWritesInOwnMemory ==
    ASSUME "once" \in CallerRules
    PROVE  Spec => []WritesInOwnMemory
<1>1. Inv => WritesInOwnMemory
  BY DEF Inv, Owned, WritesInOwnMemory, TypeOK
<1> QED BY <1>1, OnceInitial, OnceInductive, PTL DEF Spec

\* Such a writer is an append-only log: getByteBuffer() and swap() hand out every
\* byte written, in order, for any chunks and whatever is reserved when.
THEOREM OnceImplementsLog ==
    ASSUME "once" \in CallerRules
    PROVE  Spec => HandsOutWhatWasWritten
BY OnceInitial, OnceInductive, PTL DEF Spec, HandsOutWhatWasWritten, Log!Spec

-----------------------------------------------------------------------------
(* Bytes that come in. *)

\* What comes in was encoded by a program that had signed it.
SignedBy(in, r, n, a, k) ==
    \E withSender \in BOOLEAN : in = Signed(r, n, a, k, withSender)

\* What may be there of such bytes, cut at any place.
Genuine(b) ==
    /\ b \in Encodings /\ Possible(b)
    /\ \E r \in Rests, n \in Nonces, a \in Attributes, k \in Keys : SignedBy(b.of, r, n, a, k)

DecoderInv == DecodeTypeOK /\ (bytes # <<>> => Genuine(bytes[1]))

\* A vector that is empty or holds one value.
LEMMA OptionalBytes ==
    ASSUME NEW S
    PROVE  /\ <<>> \in Optional(S)
           /\ \A v \in S : <<v>> \in Optional(S) /\ <<v>>[1] = v
           /\ \A o \in Optional(S) : o # <<>> => o[1] \in S /\ o = <<o[1]>>
BY DEF Optional

\* The signature comes after all that it is over, and the sender last.
LEMMA FieldOrder ==
    /\ Len(Fields) = 5
    /\ Fields[1] = "data" /\ Fields[2] = "dataHash"
    /\ Fields[3] = "signature" /\ Fields[4] = "attribute"
    /\ Fields[5] = "sender"
BY DEF Fields

LEMMA BlankInner == Blank \in Inners
BY OptionalBytes, BlanksAssumption DEF Blank, Inners, Datas

LEMMA SignedInner ==
    ASSUME NEW r \in Rests, NEW n \in Nonces, NEW a \in Attributes, NEW k \in Keys,
           NEW withSender \in BOOLEAN
    PROVE  Signed(r, n, a, k, withSender) \in Inners
<1> DEFINE data == [rest |-> r, nonce |-> <<n>>]
<1>1. data \in Datas
  BY OptionalBytes DEF Datas
<1>2. Hash(data) \in Hashes
  BY <1>1 DEF Hash, Hashes
<1>3. [key |-> k, over |-> Hash(data)] \in Signatures
  BY <1>2 DEF Signatures
<1> HIDE DEF data
<1> QED BY <1>1, <1>2, <1>3, OptionalBytes DEF Signed, Inners, data

\* What a field holds after readFrom(): what was sent, as far as the bytes reach.
LEMMA ReadFields ==
    ASSUME NEW b \in Encodings
    PROVE  LET in == Read(b)
           IN /\ in.data = IF 1 <= b.upto THEN b.of.data ELSE Blank.data
              /\ in.dataHash = IF 2 <= b.upto THEN b.of.dataHash ELSE <<>>
              /\ in.signature = IF 3 <= b.upto THEN b.of.signature ELSE <<>>
              /\ in.attribute = IF 4 <= b.upto THEN b.of.attribute ELSE BlankAttribute
              /\ in.sender = IF 5 <= b.upto THEN b.of.sender ELSE <<>>
<1>1. b.upto \in 0 .. 5
  BY FieldOrder DEF Encodings
<1>2. ASSUME NEW i \in 1 .. 5
      PROVE  (\E j \in 1 .. b.upto : Fields[j] = Fields[i]) <=> i <= b.upto
  BY <1>1, FieldOrder
<1>3. DOMAIN Blank = {"data", "dataHash", "signature", "attribute", "sender"}
  BY DEF Blank
<1>4. \A f \in DOMAIN Blank :
         Read(b)[f] = IF \E j \in 1 .. b.upto : Fields[j] = f
                              THEN b.of[f] ELSE Blank[f]
  BY DEF Read
<1> QED BY <1>2, <1>3, <1>4, FieldOrder DEF Blank

LEMMA ReadInner ==
    ASSUME NEW b \in Encodings
    PROVE  Read(b) \in Inners
<1>1. b.of \in Inners /\ Blank \in Inners
  BY BlankInner DEF Encodings
<1>2. Read(b) = [data |-> Read(b).data, dataHash |-> Read(b).dataHash,
                         signature |-> Read(b).signature,
                         attribute |-> Read(b).attribute,
                         sender |-> Read(b).sender]
  BY DEF Read, Blank
<1> QED BY <1>1, <1>2, ReadFields DEF Inners, Blank

LEMMA HoldingType ==
    ASSUME NEW b \in Encodings
    PROVE  Holding(b) \in Optional(Encodings)
BY OptionalBytes DEF Holding

\* The hashed fields that encode() hashes and sends.
LEMMA DataBytesType == DecodeTypeOK => DataBytes \in Datas
BY OptionalBytes DEF DecodeTypeOK, DataBytes, Inners

LEMMA EncodedInner ==
    ASSUME DecodeTypeOK
    PROVE  LET hashed == [inner EXCEPT !.dataHash = <<Hash(DataBytes)>>]
           IN hashed \in Inners /\ Encoding(hashed) \in Encodings
<1> DEFINE hash == Hash(DataBytes)
<1>1. hash \in Hashes
  BY DataBytesType DEF Hash, Hashes
<1>2. <<hash>> \in Optional(Hashes \cup {Cut})
  <2> HIDE DEF hash
  <2> QED BY <1>1, OptionalBytes
<1>3. inner \in Inners
  BY DEF DecodeTypeOK
<1> HIDE DEF hash
<1>4. [inner EXCEPT !.dataHash = <<hash>>] \in Inners
  BY <1>2, <1>3 DEF Inners
<1> QED BY <1>4, FieldOrder DEF Encoding, Encodings, hash

\* Whatever reading a cut field leaves in it is of the field's type.
LEMMA LeftoversType ==
    ASSUME NEW b \in Encodings, b.upto < 5,
           NEW v \in Leftovers(Fields[b.upto + 1], b.of[Fields[b.upto + 1]])
    PROVE  [Read(b) EXCEPT ![Fields[b.upto + 1]] = v] \in Inners
<1> DEFINE f == Fields[b.upto + 1]
<1>0. b.upto \in 0 .. 5 /\ b.of \in Inners /\ Read(b) \in Inners
  BY FieldOrder, ReadInner DEF Encodings
<1>1. b.upto + 1 \in 1 .. 5
  BY <1>0
<1>2. f \in {"data", "dataHash", "signature", "attribute", "sender"}
  BY <1>1, FieldOrder
<1> HIDE DEF f
<1>3. v \in Leftovers(f, b.of[f])
  BY DEF f
<1>4. CASE f = "data"
  <2>1. v \in {Blank.data, [rest |-> Cut, nonce |-> <<>>],
               [rest |-> Cut, nonce |-> b.of.data.nonce], b.of.data}
    BY <1>3, <1>4 DEF Leftovers
  <2>2. Blank.data \in Datas /\ b.of.data \in Datas
    BY <1>0, BlankInner DEF Inners
  <2>3. v \in Datas
    BY <2>1, <2>2, OptionalBytes DEF Datas
  <2> QED BY <1>0, <1>4, <2>3 DEF Inners, f
<1>5. CASE f = "attribute"
  <2>1. v \in Attributes \cup {Cut}
    BY <1>3, <1>5, BlanksAssumption DEF Leftovers
  <2> QED BY <1>0, <1>5, <2>1 DEF Inners, f
<1>6. CASE f \in {"dataHash", "signature", "sender"}
  <2>1. v \in {<<>>, <<Cut>>}
    BY <1>3, <1>6 DEF Leftovers
  <2>2. \A S : v \in Optional(S \cup {Cut})
    BY <2>1, OptionalBytes
  <2>3. [Read(b) EXCEPT ![f] = v] \in Inners
    BY <1>0, <1>6, <2>2 DEF Inners
  <2> QED BY <2>3 DEF f
<1> QED BY <1>2, <1>4, <1>5, <1>6

\* What verify() has before it when it looks at bytes that were signed: with a
\* sender, everything came; with a signature, all that it is over.
LEMMA GenuineRead ==
    ASSUME NEW b, Genuine(b)
    PROVE  LET in == Read(b)
           IN /\ in.sender # <<>> => in = b.of /\ in.sender = <<in.signature[1].key>>
              /\ in.signature # <<>> =>
                    /\ in.data = b.of.data /\ in.dataHash = b.of.dataHash
                    /\ in.signature = b.of.signature
                    /\ in.dataHash # <<>> /\ in.dataHash = <<in.dataHash[1]>>
                    /\ in.signature[1].key \in Keys
<1> DEFINE in == Read(b)
<1>1. PICK r \in Rests, n \in Nonces, a \in Attributes, k \in Keys, withSender \in BOOLEAN :
         b.of = Signed(r, n, a, k, withSender)
  BY DEF Genuine, SignedBy
<1>2. b \in Encodings /\ b.of \in Inners /\ b.upto \in 0 .. 5
  BY FieldOrder DEF Genuine, Encodings
<1>3. /\ in.data = IF 1 <= b.upto THEN b.of.data ELSE Blank.data
      /\ in.dataHash = IF 2 <= b.upto THEN b.of.dataHash ELSE <<>>
      /\ in.signature = IF 3 <= b.upto THEN b.of.signature ELSE <<>>
      /\ in.attribute = IF 4 <= b.upto THEN b.of.attribute ELSE BlankAttribute
      /\ in.sender = IF 5 <= b.upto THEN b.of.sender ELSE <<>>
  BY <1>2, ReadFields
<1>4. in = [data |-> in.data, dataHash |-> in.dataHash, signature |-> in.signature,
            attribute |-> in.attribute, sender |-> in.sender]
  BY DEF Read, Blank
<1>5. b.of = [data |-> b.of.data, dataHash |-> b.of.dataHash, signature |-> b.of.signature,
              attribute |-> b.of.attribute, sender |-> b.of.sender]
  BY <1>2 DEF Inners
<1>6. /\ b.of.dataHash # <<>> /\ b.of.dataHash = <<b.of.dataHash[1]>>
      /\ b.of.signature # <<>> /\ b.of.signature[1].key = k
      /\ b.of.sender = IF withSender THEN <<k>> ELSE <<>>
  BY <1>1 DEF Signed
<1> HIDE DEF in
<1>7. in.sender # <<>> => in = b.of /\ in.sender = <<in.signature[1].key>>
  <2> SUFFICES ASSUME in.sender # <<>>
               PROVE  in = b.of /\ in.sender = <<in.signature[1].key>>
    OBVIOUS
  <2>1. b.upto = 5
    BY <1>2, <1>3
  <2>2. in = b.of
    BY <1>3, <1>4, <1>5, <2>1
  <2> QED BY <1>6, <2>2
<1>8. in.signature # <<>> => 3 <= b.upto
  BY <1>3
<1> QED BY <1>2, <1>3, <1>6, <1>7, <1>8 DEF in

\* createTransaction(bytes, true) gives what the bytes were signed as, with its signer.
LEMMA CheckedCreation ==
    ASSUME DecoderInv, CreateChecked
    PROVE  DecoderInv' /\ CheckedIsWhole'
<1> DEFINE b == bytes[1]
           in == Read(b)
           hash == IF in.dataHash = <<>> THEN Hash(in.data) ELSE in.dataHash[1]
<1>1. bytes # <<>> /\ ~b.torn /\ Genuine(b) /\ b \in Encodings
  BY DEF DecoderInv, Genuine, CreateChecked
<1>2. in \in Inners
  BY <1>1, ReadInner
<1>3. Holding(b) \in Optional(Encodings)
  BY <1>1, HoldingType
<1>4. /\ in.sender # <<>> => in = b.of /\ in.sender = <<in.signature[1].key>>
      /\ in.signature # <<>> =>
           /\ in.data = b.of.data /\ in.dataHash = b.of.dataHash
           /\ in.signature = b.of.signature
           /\ in.dataHash # <<>> /\ in.dataHash = <<in.dataHash[1]>>
           /\ in.signature[1].key \in Keys
  BY <1>1, GenuineRead
<1>5. (in.sender # <<>> \/ in.signature # <<>>) => Holding(b) = <<b>>
  <2> SUFFICES ASSUME in.sender # <<>> \/ in.signature # <<>>
               PROVE  b.upto # 0
    BY DEF Holding
  <2> QED BY <1>1, ReadFields DEF Encodings
<1>6. /\ state' = "whole" /\ nonce' = 0 /\ checked' = TRUE /\ bytes' = bytes
      /\ buffer' = Holding(b) /\ dataBuffer' \in {<<>>, <<in.data>>}
  BY DEF CreateChecked, Create
<1>7. \/ in.sender # <<>> /\ inner' = in
      \/ /\ in.signature # <<>>
         /\ inner' = [in EXCEPT !.dataHash = <<hash>>, !.sender = <<in.signature[1].key>>]
  BY DEF CreateChecked, Create
<1> HIDE DEF b, in, hash
<1>8. /\ inner' \in Inners
      /\ inner'.data = b.of.data /\ inner'.dataHash = b.of.dataHash
      /\ inner'.signature = b.of.signature
      /\ inner'.sender = <<inner'.signature[1].key>>
      /\ Holding(b) = <<b>>
  <2>1. CASE in.sender # <<>> /\ inner' = in
    BY <1>2, <1>4, <1>5, <2>1
  <2>2. CASE /\ in.signature # <<>>
             /\ inner' = [in EXCEPT !.dataHash = <<hash>>, !.sender = <<in.signature[1].key>>]
    <3>1. <<hash>> = in.dataHash
      BY <1>4, <2>2 DEF hash
    <3>2. <<in.signature[1].key>> \in Optional(Keys \cup {Cut})
      BY <1>4, <2>2, OptionalBytes
    <3>3. inner' = [data |-> in.data, dataHash |-> in.dataHash, signature |-> in.signature,
                    attribute |-> in.attribute, sender |-> <<in.signature[1].key>>]
      BY <1>2, <2>2, <3>1 DEF Inners
    <3>4. inner' \in Inners
      BY <1>2, <3>2, <3>3 DEF Inners
    <3>5. /\ inner'.data = in.data /\ inner'.dataHash = in.dataHash
          /\ inner'.signature = in.signature /\ inner'.sender = <<in.signature[1].key>>
      BY <3>3
    <3>6. /\ inner'.data = b.of.data /\ inner'.dataHash = b.of.dataHash
          /\ inner'.signature = b.of.signature
      BY <1>4, <2>2, <3>5
    <3>7. inner'.sender = <<inner'.signature[1].key>>
      BY <3>5
    <3> QED BY <1>5, <2>2, <3>4, <3>6, <3>7
  <2> QED BY <1>7, <2>1, <2>2
<1>9. dataBuffer' \in Optional(Datas)
  BY <1>2, <1>6, OptionalBytes DEF Inners
<1>10. DecodeTypeOK'
  BY <1>1, <1>3, <1>6, <1>8, <1>9 DEF DecoderInv, DecodeTypeOK
<1>11. CheckedIsWhole'
  BY <1>6, <1>8 DEF CheckedIsWhole
<1> QED BY <1>6, <1>10, <1>11 DEF DecoderInv

\* The other ways to make an object: it has its type, and is not a checked one.
LEMMA OtherCreation ==
    ASSUME DecoderInv,
           \/ \E r \in Rests, n \in Nonces, a \in Attributes :
                 \/ CreateTransaction(r, n, a)
                 \/ \E k \in Keys : CreateSigned(r, n, a, k)
           \/ CreateUnchecked
    PROVE  DecoderInv' /\ ~checked' /\ state' = "whole" /\ nonce' = 0
<1>1. ASSUME NEW r \in Rests, NEW n \in Nonces, NEW a \in Attributes,
             CreateTransaction(r, n, a)
      PROVE  DecoderInv' /\ ~checked' /\ state' = "whole" /\ nonce' = 0
  <2> DEFINE data == [rest |-> r, nonce |-> <<n>>]
             in == [Blank EXCEPT !.data = data, !.attribute = a]
  <2>1. data \in Datas
    BY OptionalBytes DEF Datas
  <2>2. in \in Inners
    <3> HIDE DEF data
    <3> QED BY <2>1, BlankInner DEF Inners
  <2>3. /\ state' = "whole" /\ inner' = in /\ buffer' = <<>> /\ dataBuffer' = <<>>
        /\ nonce' = 0 /\ checked' = FALSE /\ bytes' = bytes
    BY <1>1 DEF CreateTransaction, Create
  <2> HIDE DEF in
  <2> QED BY <2>2, <2>3, OptionalBytes DEF DecoderInv, DecodeTypeOK
<1>2. ASSUME NEW r \in Rests, NEW n \in Nonces, NEW a \in Attributes, NEW k \in Keys,
             CreateSigned(r, n, a, k)
      PROVE  DecoderInv' /\ ~checked' /\ state' = "whole" /\ nonce' = 0
  <2> DEFINE in == Signed(r, n, a, k, FALSE)
  <2>1. in \in Inners
    BY SignedInner
  <2>2. /\ state' = "whole" /\ inner' = in /\ buffer' = <<>> /\ dataBuffer' = <<in.data>>
        /\ nonce' = 0 /\ checked' = FALSE /\ bytes' = bytes
    BY <1>2 DEF CreateSigned, Create
  <2> HIDE DEF in
  <2>3. in.data \in Datas
    BY <2>1 DEF Inners
  <2> QED BY <2>1, <2>2, <2>3, OptionalBytes DEF DecoderInv, DecodeTypeOK
<1>3. CASE CreateUnchecked
  <2>1. bytes # <<>> /\ bytes[1] \in Encodings
    BY <1>3 DEF DecoderInv, Genuine, CreateUnchecked
  <2>2. /\ state' = "whole" /\ inner' = Read(bytes[1])
        /\ buffer' = Holding(bytes[1]) /\ dataBuffer' = <<>>
        /\ nonce' = 0 /\ checked' = FALSE /\ bytes' = bytes
    BY <1>3 DEF CreateUnchecked, Create
  <2> QED BY <2>1, <2>2, ReadInner, HoldingType, OptionalBytes DEF DecoderInv, DecodeTypeOK
<1> QED BY <1>1, <1>2, <1>3

\* Bytes may end anywhere: what is read is of the type of a transaction.
LEMMA DecodeType ==
    ASSUME DecoderInv, Decode
    PROVE  DecoderInv' /\ ~checked'
<1> DEFINE b == bytes[1]
<1>1. bytes # <<>> /\ b \in Encodings
  BY DEF DecoderInv, Genuine, Decode
<1>2. b.upto \in 0 .. 5 /\ (b.torn => b.upto < 5)
  <2>1. b.torn => b.upto < 5 \/ b.upto = 5
    BY <1>1, FieldOrder DEF Encodings
  <2> QED BY <1>1, <2>1, FieldOrder DEF Encodings, DecoderInv, Genuine, Possible
<1>3. /\ buffer' = Holding(b) /\ checked' = FALSE
      /\ state' \in {"whole", "spoilt"} /\ UNCHANGED <<bytes, dataBuffer, nonce>>
  BY DEF Decode
<1>4. inner' \in Inners
  <2>1. CASE ~b.torn /\ inner' = Read(b)
    BY <1>1, <2>1, ReadInner
  <2>2. CASE /\ b.torn
             /\ \E v \in Leftovers(Fields[b.upto + 1],
                                            b.of[Fields[b.upto + 1]]) :
                    inner' = [Read(b) EXCEPT ![Fields[b.upto + 1]] = v]
    BY <1>1, <1>2, <2>2, LeftoversType
  <2> QED BY <2>1, <2>2 DEF Decode
<1>5. buffer' \in Optional(Encodings)
  BY <1>1, <1>3, HoldingType
<1> QED BY <1>1, <1>3, <1>4, <1>5 DEF DecoderInv, DecodeTypeOK

\* One step keeps the types, the source of the bytes, and what was checked.
LEMMA DecoderStep ==
    ASSUME DecoderInv, CheckedIsWhole, [DecodeNext]_decodeVars
    PROVE  DecoderInv' /\ CheckedIsWhole'
<1>1. ASSUME \/ \E r \in Rests, n \in Nonces, a \in Attributes :
                   \/ CreateTransaction(r, n, a)
                   \/ \E k \in Keys : CreateSigned(r, n, a, k)
             \/ CreateUnchecked
      PROVE  DecoderInv' /\ CheckedIsWhole'
  BY <1>1, OtherCreation DEF CheckedIsWhole
<1>2. ASSUME NEW r \in Rests, NEW n \in Nonces, NEW a \in Attributes, NEW k \in Keys,
             NEW withSender \in BOOLEAN, NEW torn \in BOOLEAN,
             NEW upto \in 0 .. Len(Fields),
             Arrive(Signed(r, n, a, k, withSender), upto, torn)
      PROVE  DecoderInv' /\ CheckedIsWhole'
  <2> DEFINE in == Signed(r, n, a, k, withSender)
             b == [of |-> in, upto |-> upto, torn |-> torn]
  <2>1. in \in Inners /\ SignedBy(in, r, n, a, k)
    BY SignedInner DEF SignedBy
  <2>2. bytes' = <<b>> /\ Possible(b)
        /\ UNCHANGED <<state, inner, buffer, dataBuffer, nonce, checked>>
    BY <1>2 DEF Arrive
  <2> HIDE DEF in
  <2>3. b \in Encodings /\ b.of = in
    BY <2>1 DEF Encodings
  <2> HIDE DEF b
  <2>4. Genuine(b)
    BY <2>1, <2>2, <2>3 DEF Genuine
  <2>5. DecoderInv'
    BY <2>2, <2>3, <2>4, OptionalBytes DEF DecoderInv, DecodeTypeOK
  <2> QED BY <2>2, <2>5 DEF CheckedIsWhole
<1>3. CASE CreateChecked
  BY <1>3, CheckedCreation
<1>4. CASE Decode
  BY <1>4, DecodeType DEF CheckedIsWhole
<1>5. CASE ReadNonce
  <2>1. UNCHANGED <<bytes, state, inner, buffer, dataBuffer, checked>>
        /\ nonce' = NonceValue
    BY <1>5 DEF ReadNonce
  <2>2. NonceValue \in Nonces \cup {0}
    <3>1. inner.data.nonce \in Optional(Nonces) /\ nonce \in Nonces \cup {0}
      BY DEF DecoderInv, DecodeTypeOK, Inners, Datas
    <3> QED BY <3>1, OptionalBytes DEF NonceValue
  <2>3. DecoderInv'
    BY <2>1, <2>2 DEF DecoderInv, DecodeTypeOK
  <2> QED BY <2>1, <2>3 DEF CheckedIsWhole
<1>6. CASE Encode
  <2> DEFINE hashed == [inner EXCEPT !.dataHash = <<Hash(DataBytes)>>]
  <2>1. buffer = <<>> /\ inner' = hashed /\ buffer' = <<Encoding(hashed)>>
        /\ dataBuffer' = <<DataBytes>> /\ UNCHANGED <<bytes, state, nonce, checked>>
    BY <1>6 DEF Encode
  <2>2. hashed \in Inners /\ Encoding(hashed) \in Encodings
    BY EncodedInner DEF DecoderInv
  <2> HIDE DEF hashed
  <2>3. DecoderInv'
    BY <2>1, <2>2, DataBytesType, OptionalBytes DEF DecoderInv, DecodeTypeOK
  <2> QED BY <2>1, <2>3 DEF CheckedIsWhole
<1>7. CASE Discard
  BY <1>7, BlankInner, OptionalBytes DEF Discard, DecoderInv, DecodeTypeOK,
                                         CheckedIsWhole
<1>8. CASE UNCHANGED decodeVars
  BY <1>8 DEF decodeVars, DecoderInv, DecodeTypeOK, CheckedIsWhole
<1> QED BY <1>1, <1>2, <1>3, <1>4, <1>5, <1>6, <1>7, <1>8 DEF DecodeNext

LEMMA DecoderAlways == DecodeSpec => [](DecoderInv /\ CheckedIsWhole)
<1>1. DecodeInit => DecoderInv /\ CheckedIsWhole
  BY BlankInner, OptionalBytes DEF DecodeInit, DecoderInv, DecodeTypeOK, CheckedIsWhole
<1> QED BY <1>1, DecoderStep, PTL DEF DecodeSpec

\* Whatever arrives, and whoever goes on using an object whose decode() threw, the
\* object's fields and caches are of their types (TransactionImpl::decode).
THEOREM DecodedTypeCorrect == DecodeSpec => []DecodeTypeOK
<1>1. DecoderInv => DecodeTypeOK
  BY DEF DecoderInv
<1> QED BY <1>1, DecoderAlways, PTL

\* A transaction that createTransaction(bytes, true) accepted has the hashed fields,
\* the hash and the signature that were signed, and the signer for its sender,
\* wherever its bytes end; no rule of callers is needed for it.
THEOREM CheckedTransactionsAreWhole == DecodeSpec => []CheckedIsWhole
BY DecoderAlways, PTL

-----------------------------------------------------------------------------
(* Objects that are filled in the middle of their life. *)

\* An object that holds all of an encoding is the object that was encoded.
LEMMA EncodedReads ==
    ASSUME NEW in \in Inners, Encoding(in) \in Encodings
    PROVE  /\ ~Encoding(in).torn
           /\ \A f \in {"data", "signature", "attribute"} :
                  Read(Encoding(in))[f] = in[f]
<1>1. Encoding(in).upto = 5 /\ Encoding(in).of = in /\ ~Encoding(in).torn
  BY FieldOrder DEF Encoding
<1> QED BY <1>1, ReadFields

\* The bytes in m_buffer, when there are any, were not cut in the middle of a field,
\* and the fields are those bytes'.
LEMMA HeldBytes ==
    ASSUME NEW b, ~b.torn, Holding(b) # <<>>
    PROVE  Holding(b) = <<b>> /\ Holding(b)[1] = b
BY DEF Holding

LEMMA BufferStep ==
    ASSUME "discard" \in DecoderRules, DecoderInv, CheckedIsWhole,
           BufferIsObject, [DecodeNext]_decodeVars
    PROVE  BufferIsObject'
<1> DEFINE Same(in, held) ==
        held # <<>> => /\ ~held[1].torn
                      /\ \A f \in {"data", "signature", "attribute"} :
                             Read(held[1])[f] = in[f]
<1>a. (Usable <=> state = "whole") /\ (Usable' <=> state' = "whole")
  BY DEF Usable
<1>b. /\ BufferIsObject <=> (state = "whole" => Same(inner, buffer))
      /\ BufferIsObject' <=> (state' = "whole" => Same(inner', buffer'))
  BY <1>a DEF BufferIsObject
<1> HIDE DEF Same
<1>c. \A in : Same(in, <<>>)
  BY DEF Same
<1>d. \A b : ~b.torn => Same(Read(b), Holding(b))
  BY HeldBytes DEF Same
<1>1. ASSUME NEW r \in Rests, NEW n \in Nonces, NEW a \in Attributes,
             \/ CreateTransaction(r, n, a)
             \/ \E k \in Keys : CreateSigned(r, n, a, k)
      PROVE  BufferIsObject'
  <2>1. buffer' = <<>>
    BY <1>1 DEF CreateTransaction, CreateSigned, Create
  <2> QED BY <1>b, <1>c, <2>1
<1>2. CASE CreateUnchecked
  <2>1. inner' = Read(bytes[1]) /\ buffer' = Holding(bytes[1])
        /\ ~bytes[1].torn
    BY <1>2 DEF CreateUnchecked, Create
  <2> QED BY <1>b, <1>d, <2>1
<1>3. CASE CreateChecked
  <2> DEFINE in == Read(bytes[1])
             hash == IF in.dataHash = <<>> THEN Hash(in.data) ELSE in.dataHash[1]
  <2>1. bytes[1] \in Encodings /\ ~bytes[1].torn
    BY <1>3 DEF DecoderInv, Genuine, CreateChecked
  <2>2. in \in Inners
    BY <2>1, ReadInner
  <2>3. buffer' = Holding(bytes[1])
    BY <1>3 DEF CreateChecked, Create
  <2>4. \/ inner' = in
        \/ inner' = [in EXCEPT !.dataHash = <<hash>>, !.sender = <<in.signature[1].key>>]
    BY <1>3 DEF CreateChecked, Create
  <2> HIDE DEF in, hash
  <2>5. inner'.data = in.data /\ inner'.signature = in.signature /\ inner'.attribute = in.attribute
    BY <2>2, <2>4 DEF Inners
  <2>6. Same(in, buffer')
    BY <1>d, <2>1, <2>3 DEF in
  <2>7. Same(inner', buffer')
    BY <2>5, <2>6 DEF Same
  <2> QED BY <1>b, <2>7
<1>4. CASE Decode
  <2>1. buffer' = Holding(bytes[1])
    BY <1>4 DEF Decode
  <2>2. state' = "whole" => inner' = Read(bytes[1]) /\ ~bytes[1].torn
    BY <1>4 DEF Decode
  <2> QED BY <1>b, <1>d, <2>1, <2>2
<1>5. CASE Encode
  <2> DEFINE hashed == [inner EXCEPT !.dataHash = <<Hash(DataBytes)>>]
  <2>1. inner' = hashed /\ buffer' = <<Encoding(hashed)>>
    BY <1>5 DEF Encode
  <2>2. hashed \in Inners /\ Encoding(hashed) \in Encodings
    BY EncodedInner DEF DecoderInv
  <2> HIDE DEF hashed
  <2>3. Same(hashed, <<Encoding(hashed)>>)
    BY <2>2, EncodedReads DEF Same
  <2> QED BY <1>b, <2>1, <2>3
<1>6. CASE Discard
  BY <1>6, <1>b DEF Discard
<1>7. CASE ReadNonce \/ UNCHANGED decodeVars
  BY <1>7, <1>b DEF ReadNonce, decodeVars
<1>8. ASSUME NEW t, NEW upto, NEW torn, Arrive(t, upto, torn)
      PROVE  BufferIsObject'
  BY <1>8, <1>b DEF Arrive
<1> QED BY <1>1, <1>2, <1>3, <1>4, <1>5, <1>6, <1>7, <1>8 DEF DecodeNext

\* When an object whose decode() threw is given up, the bytes encode(false) has cached
\* are whole and read as the object they are taken from, with whatever callers
\* decode into objects in use.
THEOREM DiscardKeepsBufferOfObject ==
    ASSUME "discard" \in DecoderRules
    PROVE  DecodeSpec => []BufferIsObject
<1>1. DecodeInit => BufferIsObject
  BY DEF DecodeInit, BufferIsObject
<1> QED BY <1>1, BufferStep, DecoderAlways, PTL DEF DecodeSpec

LEMMA NonceStep ==
    ASSUME "fresh" \in DecoderRules, NonceCurrent, [DecodeNext]_decodeVars
    PROVE  NonceCurrent'
<1> DEFINE Own(in, kept) == in.data.nonce = <<>> => kept = 0
<1>a. /\ NonceCurrent <=> (Usable => Own(inner, nonce))
      /\ NonceCurrent' <=> (Usable' => Own(inner', nonce'))
  BY DEF NonceCurrent, NonceValue
<1> HIDE DEF Own
<1>b. \A in : Own(in, 0)
  BY DEF Own
<1>1. CASE nonce' = 0
  BY <1>1, <1>a, <1>b
<1>2. CASE Decode
  BY <1>1, <1>2 DEF Decode
<1>3. CASE ReadNonce
  BY <1>3, <1>a DEF ReadNonce, NonceValue, Usable, Own
<1>4. CASE Encode
  <2>1. UNCHANGED <<state, nonce>> /\ Usable
        /\ inner' = [inner EXCEPT !.dataHash = <<Hash(DataBytes)>>]
    BY <1>4 DEF Encode
  <2>2. inner'.data = inner.data
    BY <2>1
  <2> QED BY <1>a, <2>1, <2>2 DEF Own
<1>5. ASSUME NEW t, NEW upto, NEW torn, Arrive(t, upto, torn)
      PROVE  NonceCurrent'
  BY <1>5, <1>a DEF Arrive, Usable
<1>6. CASE UNCHANGED decodeVars
  BY <1>6, <1>a DEF decodeVars, Usable
<1>7. CASE Discard
  BY <1>1, <1>7 DEF Discard
<1>8. ASSUME NEW in, NEW held, NEW dataHeld, NEW isChecked,
             Create(in, held, dataHeld, isChecked)
      PROVE  NonceCurrent'
  BY <1>1, <1>8 DEF Create
<1>9. CASE \/ \E r \in Rests, n \in Nonces, a \in Attributes :
                 \/ CreateTransaction(r, n, a)
                 \/ \E k \in Keys : CreateSigned(r, n, a, k)
           \/ CreateUnchecked \/ CreateChecked
  BY <1>8, <1>9 DEF CreateTransaction, CreateSigned, CreateUnchecked,
                    CreateChecked
<1> QED BY <1>2, <1>3, <1>4, <1>5, <1>6, <1>7, <1>9 DEF DecodeNext

\* When decode() is called on objects that cached nothing, nonce() is the number of
\* the object's own nonce text, and 0 without one, also on an object whose decode()
\* threw and that stays in use.
THEOREM FreshKeepsNonceCurrent ==
    ASSUME "fresh" \in DecoderRules
    PROVE  DecodeSpec => []NonceCurrent
<1>1. DecodeInit => NonceCurrent
  BY DEF DecodeInit, NonceCurrent, NonceValue, Blank
<1> QED BY <1>1, NonceStep, PTL DEF DecodeSpec
=============================================================================
