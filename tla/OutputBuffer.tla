------------------------------ MODULE OutputBuffer ------------------------------
(***************************************************************************)
(* BufferWriterByteVector, Common.h: the buffer every encode() and hash()  *)
(* of the protocol objects lets tars::TarsOutputStream write into.         *)
(*                                                                         *)
(* The stream reserves through a function of the buffer and then writes    *)
(* through _buf, so that three things describe one memory: the vector      *)
(* _buffer with its own size and capacity, the pointer _buf, and _len and  *)
(* _buf_len.  The capacity is used beyond the vector's size, which the     *)
(* vector knows nothing of: growing it again sets those bytes to zero.     *)
(*                                                                         *)
(* A vector's memory is `store', as long as its capacity; `size' elements  *)
(* of it are the vector's.  Two vectors that are swapped swap memories,    *)
(* and a pointer goes with the memory.                                     *)
(***************************************************************************)
EXTENDS Naturals, Sequences

CONSTANTS
    Bytes,       \* byte values
    Zero,        \* ... the one resize() fills with
    Chunks,      \* what one writeBuf() may write
    MinReserve,  \* the least TarsReserveBuf asks for, 128
    MaxLength,   \* bound on _len
    CallerRules  \* what callers keep to; a subset of Rules

(* "once": a writer is not written after getByteBuffer(), and not touched  *)
(* once the caller swapped its vector away.  Every use in the repository   *)
(* keeps to it; the code does not enforce it.                              *)
Rules == {"once"}

ASSUME BytesAssumption == Zero \in Bytes
ASSUME ChunksAssumption == Chunks \subseteq Seq(Bytes)
ASSUME BoundsAssumption == MinReserve \in Nat /\ MaxLength \in Nat

VARIABLES
    own,     \* _buffer
    given,   \* the caller's vector
    buf,     \* the memory _buf points to
    len,     \* _len
    bufLen,  \* _buf_len
    handed   \* what getByteBuffer() was last used for

vars == <<own, given, buf, len, bufLen, handed>>

Vectors == {v \in [store : Seq(Bytes), size : Nat] : v.size <= Len(v.store)}

Empty == [store |-> <<>>, size |-> 0]

TypeOK ==
    /\ own \in Vectors /\ given \in Vectors
    /\ buf \in {"null", "own", "given", "freed"}
    /\ len \in Nat /\ bufLen \in Nat
    /\ handed \in {"no", "looked", "taken"}

-----------------------------------------------------------------------------
(* std::vector and TarsReserveBuf *)

Larger(m, n) == IF m < n THEN n ELSE m

\* The vector's elements.
Elements(v) == SubSeq(v.store, 1, v.size)

\* Faulty: reserve() for resize().
ResizeCapacityOnly(v, n) ==
    [size |-> IF n < v.size THEN n ELSE v.size,
     store |-> [i \in 1 .. Larger(n, Len(v.store)) |->
                   IF v.size < i /\ i <= n THEN Zero ELSE v.store[i]]]

\* resize(n): elements beyond the old size are zero, in old memory and in new.
Resize(v, n) ==
    [size |-> n,
     store |-> [i \in 1 .. Larger(n, Len(v.store)) |->
                   IF v.size < i /\ i <= n THEN Zero ELSE v.store[i]]]

Reserved(n) == Larger(2 * n, MinReserve)

\* memcpy(_buf + _len, chunk) into the memory of v.
Put(v, chunk) ==
    [size |-> v.size,
     store |-> [i \in 1 .. Len(v.store) |->
                   IF len < i /\ i <= len + Len(chunk) THEN chunk[i - len] ELSE v.store[i]]]

\* Where a pointer points to after the two vectors were swapped.
Swapped(pointer) ==
    CASE pointer = "own" -> "given" [] pointer = "given" -> "own" [] OTHER -> pointer

-----------------------------------------------------------------------------
Init ==
    /\ own = Empty /\ given = Empty
    /\ buf = "null" /\ len = 0 /\ bufLen = 0
    /\ handed = "no"

MayWrite == "once" \in CallerRules => handed = "no"
MayHandOut == "once" \in CallerRules => handed # "taken"

\* The writer goes out of scope; the next encode() or hash() makes another.
New ==
    /\ own' = Empty
    /\ buf' = "null" /\ len' = 0 /\ bufLen' = 0
    /\ handed' = "no"
    /\ UNCHANGED given

\* writeBuf(), and the writes of the stream, which are the same.
WriteBuf(chunk) ==
    /\ MayWrite
    /\ len + Len(chunk) <= MaxLength
    /\ LET needed == len + Len(chunk)
           grows == bufLen < needed
           vector == IF grows THEN Resize(own, Reserved(needed)) ELSE own
           target == IF grows THEN "own" ELSE buf
       IN  /\ own' = IF target = "own" THEN Put(vector, chunk) ELSE vector
           /\ given' = IF target = "given" THEN Put(given, chunk) ELSE given
           /\ buf' = target
           /\ bufLen' = IF grows THEN Reserved(needed) ELSE bufLen
           /\ len' = needed
    /\ UNCHANGED handed

Reset ==
    /\ MayWrite
    /\ len' = 0
    /\ UNCHANGED <<own, given, buf, bufLen, handed>>

\* getByteBuffer(), whose elements the caller hashes or copies.
Look ==
    /\ MayHandOut
    /\ own' = Resize(own, len)
    /\ given' = [store |-> Elements(own'), size |-> len]
    /\ buf' = IF buf = "given" THEN "freed" ELSE buf
    /\ handed' = "looked"
    /\ UNCHANGED <<len, bufLen>>

\* Faulty: the vector is swapped away at the size it was reserved with.
TakeReserved ==
    /\ MayHandOut
    /\ own' = given /\ given' = own
    /\ buf' = Swapped(buf)
    /\ handed' = "taken"
    /\ UNCHANGED <<len, bufLen>>

\* getByteBuffer().swap(): the caller's vector and the writer's change places.
Take ==
    /\ MayHandOut
    /\ own' = given /\ given' = Resize(own, len)
    /\ buf' = Swapped(buf)
    /\ handed' = "taken"
    /\ UNCHANGED <<len, bufLen>>

\* Faulty: the capacity and the pointer are not reset.
SwapKeepsPointer ==
    /\ MayHandOut
    /\ own' = given /\ given' = Resize(own, len)
    /\ buf' = Swapped(buf)
    /\ len' = 0
    /\ handed' = "no"
    /\ UNCHANGED bufLen

\* swap(std::vector&)
Swap ==
    /\ MayHandOut
    /\ own' = given /\ given' = Resize(own, len)
    /\ buf' = "null" /\ len' = 0 /\ bufLen' = 0
    /\ handed' = "no"

\* The caller lets its bytes go.
Drop ==
    /\ given' = Empty
    /\ buf' = IF buf = "given" THEN "freed" ELSE buf
    /\ UNCHANGED <<own, len, bufLen, handed>>

Next ==
    \/ \E chunk \in Chunks : WriteBuf(chunk)
    \/ Reset \/ Look \/ Take \/ Swap \/ Drop \/ New

Spec == Init /\ [][Next]_vars

-----------------------------------------------------------------------------
\* Until its vector is swapped away by the caller, a writer's _buf points into
\* its own vector and _buf_len is no more than that vector's capacity, so that a
\* write lands in memory that is the writer's: never in bytes handed out before,
\* never in freed memory.
WritesInOwnMemory ==
    (buf # "null" \/ bufLen > 0) /\ handed # "taken" =>
        buf = "own" /\ len <= bufLen /\ bufLen <= Len(own.store)

\* The writer is an append-only log: what getByteBuffer() and swap() hand out is
\* every byte written, in order, although resize() sets bytes to zero and moves
\* them; and bytes handed out are not written again.
Log ==
    INSTANCE ByteLog WITH
        log <- IF handed = "taken" \/ buf = "null" THEN <<>> ELSE SubSeq(own.store, 1, len),
        sealed <- handed # "no",
        out <- Elements(given)

HandsOutWhatWasWritten == Log!Spec
=============================================================================
