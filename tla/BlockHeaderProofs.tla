--------------------------- MODULE BlockHeaderProofs ---------------------------
(* Proofs about BlockHeaderImpl, for any set of wrappers, parents and sealers. *)
EXTENDS BlockHeaderImpl, SequenceTheorems, TLAPS

-----------------------------------------------------------------------------
(* Lemmas about headers. *)

LEMMA OptionalElement ==
    ASSUME NEW S, NEW o \in Optional(S), o # <<>>
    PROVE  o[1] \in S /\ o = <<o[1]>>
BY DEF Optional

LEMMA OptionalIntro ==
    ASSUME NEW S, NEW v \in S
    PROVE  <<>> \in Optional(S) /\ <<v>> \in Optional(S) /\ <<v>> # <<>>
BY DEF Optional

LEMMA BlankType == Blank \in Inners
BY FieldsAssumption DEF Blank, Inners, Data, Optional

LEMMA WireType ==
    ASSUME TypeOK, wire # <<>>
    PROVE  wire[1] \in Inners /\ wire = <<wire[1]>>
<1>1. wire \in Seq(Inners)
  BY DEF TypeOK
<1> DEFINE n == Len(wire)
<1>2. n \in Nat \ {0} /\ n <= 1
  BY <1>1, EmptySeq DEF TypeOK
<1>3. n = 1
  <2> HIDE DEF n
  <2> QED BY <1>2
<1>4. wire[1] \in Inners
  BY <1>1, <1>3, ElementOfSeq
<1>5. wire = <<wire[1]>>
  BY <1>1, <1>3, <1>4, SeqEqual
<1> QED BY <1>4, <1>5

LEMMA SentType ==
    ASSUME NEW inner \in Inners
    PROVE  <<inner>> \in Seq(Inners) /\ Len(<<inner>>) <= 1
OBVIOUS

\* A live wrapper reaches a header.
LEMMA InnerType ==
    ASSUME TypeOK, NEW w \in Wrappers, Live(w)
    PROVE  at[w] \in Cells /\ Inner(w) = headers[at[w]] /\ Inner(w) \in Inners
BY DEF TypeOK, Live, Inner

LEMMA SetParentsType ==
    ASSUME NEW inner \in Inners, NEW parents \in Optional(Parents)
    PROVE  [inner EXCEPT !.data.parents = parents] \in Inners
BY DEF Inners, Data

LEMMA SetFieldsType ==
    ASSUME NEW inner \in Inners, NEW f \in Fields
    PROVE  [inner EXCEPT !.data.fields = f] \in Inners
BY DEF Inners, Data

LEMMA SetHashType ==
    ASSUME NEW inner \in Inners
    PROVE  [inner EXCEPT !.dataHash = <<Hash(inner.data)>>] \in Inners
<1>1. inner.data \in Data
  BY DEF Inners
<1>2. <<Hash(inner.data)>> \in Optional({Hash(d) : d \in Data})
  BY <1>1 DEF Optional
<1> QED BY <1>2 DEF Inners

LEMMA SignatureListsType ==
    ASSUME NEW signatures \in SignatureLists
    PROVE  signatures \in Seq(Sealers)
<1>1. PICK n \in 1 .. MaxSignatures : signatures \in [1 .. n -> Sealers]
  BY DEF SignatureLists
<1>2. n \in Nat
  BY <1>1, MaxSignaturesAssumption
<1> QED BY <1>1, <1>2

LEMMA AddSignaturesType ==
    ASSUME NEW inner \in Inners, NEW signatures \in Seq(Sealers)
    PROVE  [inner EXCEPT !.signatureList = @ \o signatures] \in Inners
<1>1. inner.signatureList \in Seq(Sealers)
  BY DEF Inners
<1>2. inner.signatureList \o signatures \in Seq(Sealers)
  BY <1>1
<1> QED BY <1>2 DEF Inners

-----------------------------------------------------------------------------
(* Type correctness. *)

\* An action that writes one header and may clear or fill one m_parentInfo.
LEMMA WriteType ==
    ASSUME TypeOK, NEW c \in Cells, NEW inner \in Inners,
           headers' = [headers EXCEPT ![c] = inner],
           parentInfo' \in [Wrappers -> Optional(Parents)],
           UNCHANGED <<at, wire>>
    PROVE  TypeOK'
BY DEF TypeOK

LEMMA CreateType ==
    ASSUME TypeOK, NEW w \in Wrappers, Creates(w)
    PROVE  TypeOK'
<1>1. CASE CreateBlockHeader(w)
  BY <1>1 DEF CreateBlockHeader, NewWrapper, TypeOK, Cells
<1>2. CASE CreateFromBytes(w)
  <2>1. wire[1] \in Inners
    BY <1>2, WireType DEF CreateFromBytes
  <2> QED BY <1>2, <2>1 DEF CreateFromBytes, NewWrapper, TypeOK, Cells
<1>3. CASE ViewBlockHeader(w)
  BY <1>3 DEF ViewBlockHeader, NewWrapper, TypeOK, Cells
<1> QED BY <1>1, <1>2, <1>3 DEF Creates

LEMMA ReadType ==
    ASSUME TypeOK, NEW w \in Wrappers, Reads(w)
    PROVE  TypeOK'
<1>1. CASE ComputeHash(w)
  <2>1. at[w] \in Cells /\ Inner(w) = headers[at[w]] /\ Inner(w) \in Inners
    BY <1>1, InnerType DEF ComputeHash
  <2> DEFINE hashed == [Inner(w) EXCEPT !.dataHash = <<Hash(Inner(w).data)>>]
  <2>2. hashed \in Inners
    BY <2>1, SetHashType
  <2>3. headers' = [headers EXCEPT ![at[w]] = hashed]
    BY <1>1, <2>1 DEF ComputeHash
  <2> QED BY <1>1, <2>1, <2>2, <2>3, WriteType DEF ComputeHash, TypeOK
<1>2. CASE ReadParentInfo(w)
  <2>1. ParentInfo(w) \in Optional(Parents)
    BY <1>2, InnerType DEF ReadParentInfo, ParentInfo, TypeOK, Inners, Data
  <2> QED BY <1>2, <2>1 DEF ReadParentInfo, TypeOK
<1>3. CASE Encode(w)
  <2>1. Inner(w) \in Inners
    BY <1>3, InnerType DEF Encode
  <2> QED BY <1>3, <2>1, SentType DEF Encode, TypeOK
<1> QED BY <1>1, <1>2, <1>3 DEF Reads

LEMMA WritesType ==
    ASSUME TypeOK, NEW w \in Wrappers, Writes(w)
    PROVE  TypeOK'
<1>1. ASSUME NEW parents \in Optional(Parents), SetParentInfo(w, parents)
      PROVE  TypeOK'
  <2>1. at[w] \in Cells /\ Inner(w) = headers[at[w]] /\ Inner(w) \in Inners
    BY <1>1, InnerType DEF SetParentInfo
  <2> DEFINE inner == [Inner(w) EXCEPT !.data.parents = parents]
  <2>2. inner \in Inners
    BY <2>1, SetParentsType
  <2>3. headers' = [headers EXCEPT ![at[w]] = inner]
    BY <1>1, <2>1 DEF SetParentInfo
  <2>4. parentInfo' \in [Wrappers -> Optional(Parents)]
    BY <1>1 DEF SetParentInfo, TypeOK, Optional
  <2> QED BY <1>1, <2>1, <2>2, <2>3, <2>4, WriteType DEF SetParentInfo
<1>2. ASSUME NEW f \in Fields, SetField(w, f)
      PROVE  TypeOK'
  <2>1. at[w] \in Cells /\ Inner(w) = headers[at[w]] /\ Inner(w) \in Inners
    BY <1>2, InnerType DEF SetField
  <2> DEFINE inner == [Inner(w) EXCEPT !.data.fields = f]
  <2>2. inner \in Inners
    BY <2>1, SetFieldsType
  <2>3. headers' = [headers EXCEPT ![at[w]] = inner]
    BY <1>2, <2>1 DEF SetField
  <2> QED BY <1>2, <2>1, <2>2, <2>3, WriteType DEF SetField, TypeOK
<1>3. ASSUME NEW signatures \in SignatureLists, SetSignatureList(w, signatures)
      PROVE  TypeOK'
  <2>1. at[w] \in Cells /\ Inner(w) = headers[at[w]] /\ Inner(w) \in Inners
    BY <1>3, InnerType DEF SetSignatureList
  <2> DEFINE inner == [Inner(w) EXCEPT !.signatureList = @ \o signatures]
  <2>2. inner \in Inners
    BY <2>1, SignatureListsType, AddSignaturesType
  <2>3. headers' = [headers EXCEPT ![at[w]] = inner]
    BY <1>3, <2>1 DEF SetSignatureList
  <2> QED BY <1>3, <2>1, <2>2, <2>3, WriteType DEF SetSignatureList, TypeOK
<1>4. CASE Clear(w)
  <2>1. parentInfo' \in [Wrappers -> Optional(Parents)]
    BY <1>4 DEF Clear, TypeOK, Optional
  <2> QED BY <1>4, <2>1, InnerType, BlankType, WriteType DEF Clear
<1>5. CASE Decode(w)
  BY <1>5, InnerType, WireType, WriteType DEF Decode, TypeOK
<1>6. ASSUME NEW v \in Wrappers, SetInner(w, v)
      PROVE  TypeOK'
  <2>1. at[w] \in Cells /\ Inner(v) \in Inners
    BY <1>6, InnerType DEF SetInner
  <2> QED BY <1>6, <2>1, WriteType DEF SetInner, TypeOK
<1>7. CASE SetBlockHeader(w)
  <2>1. Block \in Cells /\ Inner(w) \in Inners
    BY <1>7, InnerType DEF SetBlockHeader, Cells
  <2> QED BY <1>7, <2>1, WriteType DEF SetBlockHeader, TypeOK
<1> QED BY <1>1, <1>2, <1>3, <1>4, <1>5, <1>6, <1>7 DEF Writes

LEMMA BlockType ==
    ASSUME TypeOK, BlockSteps
    PROVE  TypeOK'
<1>1. Block \in Cells /\ headers[Block] \in Inners
  BY DEF Cells, TypeOK
<1>2. ASSUME NEW f \in Fields, SetBlockVersion(f)
      PROVE  TypeOK'
  <2> DEFINE inner == [headers[Block] EXCEPT !.data.fields = f]
  <2>1. inner \in Inners
    BY <1>1, SetFieldsType
  <2>2. headers' = [headers EXCEPT ![Block] = inner]
    BY <1>2 DEF SetBlockVersion
  <2> QED BY <1>1, <1>2, <2>1, <2>2, WriteType DEF SetBlockVersion, TypeOK
<1>3. CASE EncodeBlock
  BY <1>1, <1>3, SentType DEF EncodeBlock, TypeOK
<1>4. CASE ReplaceBlock
  BY <1>1, <1>4, WireType, WriteType DEF ReplaceBlock, TypeOK
<1> QED BY <1>2, <1>3, <1>4 DEF BlockSteps

LEMMA ReleaseType ==
    ASSUME TypeOK, NEW w \in Wrappers, Release(w)
    PROVE  TypeOK'
BY BlankType DEF Release, TypeOK, Optional, Cells

LEMMA NextType == TypeOK /\ [Next]_vars => TypeOK'
<1> SUFFICES ASSUME TypeOK, [Next]_vars
             PROVE  TypeOK'
  OBVIOUS
<1>1. CASE UNCHANGED vars
  BY <1>1 DEF vars, TypeOK
<1>2. ASSUME NEW w \in Wrappers, Creates(w) \/ Reads(w) \/ Writes(w) \/ Release(w)
      PROVE  TypeOK'
  BY <1>2, CreateType, ReadType, WritesType, ReleaseType
<1>3. CASE BlockSteps
  BY <1>3, BlockType
<1> QED BY <1>1, <1>2, <1>3 DEF Next

\* Every reachable state of the headers is of the declared type, whatever the
\* callers do.
THEOREM TypeCorrect == Spec => []TypeOK
<1>1. Init => TypeOK
  BY BlankType DEF Init, TypeOK, Optional, Cells
<1> QED BY <1>1, NextType, PTL DEF Spec

-----------------------------------------------------------------------------
(* Callers that set nothing on a header that was hashed. *)

HashOk(inner) == inner.dataHash \in {<<>>, <<Hash(inner.data)>>}

HeadersHashed == \A c \in Cells : HashOk(headers[c])
WireHashed == wire # <<>> => HashOk(wire[1])

HashInv == TypeOK /\ HeadersHashed /\ WireHashed

LEMMA HashInvHolds == HashInv => HashOfHeader
<1> SUFFICES ASSUME HashInv, NEW i \in DOMAIN wire
             PROVE  HashOk(wire[i])
  BY DEF HashInv, HeadersHashed, HashOfHeader, HashOk
<1>1. wire # <<>>
  OBVIOUS
<1>2. wire = <<wire[1]>>
  BY <1>1, WireType DEF HashInv
<1>3. i = 1
  BY <1>2
<1> QED BY <1>1, <1>3 DEF HashInv, WireHashed

LEMMA BlankHashed == HashOk(Blank)
BY DEF HashOk, Blank

\* Writing a header whose hash is right, or none, keeps every hash right.
LEMMA WriteHashed ==
    ASSUME HashInv, NEW c \in Cells, NEW inner, HashOk(inner),
           headers' = [headers EXCEPT ![c] = inner],
           UNCHANGED wire
    PROVE  HeadersHashed' /\ WireHashed'
BY DEF HashInv, TypeOK, HeadersHashed, WireHashed

LEMMA CreateHashed ==
    ASSUME HashInv, NEW w \in Wrappers, Creates(w) \/ Release(w)
    PROVE  HeadersHashed' /\ WireHashed'
<1>1. w \in Cells /\ UNCHANGED wire
  BY DEF Cells, Creates, Release, CreateBlockHeader, CreateFromBytes, ViewBlockHeader, NewWrapper
<1>2. CASE UNCHANGED headers
  BY <1>1, <1>2 DEF HashInv, HeadersHashed, WireHashed
<1>3. CASE CreateFromBytes(w)
  BY <1>1, <1>3, WriteHashed DEF CreateFromBytes, HashInv, WireHashed
<1>4. CASE Release(w)
  BY <1>1, <1>2, <1>4, BlankHashed, WriteHashed DEF Release
<1> QED BY <1>2, <1>3, <1>4 DEF Creates, CreateBlockHeader, ViewBlockHeader

LEMMA ReadHashed ==
    ASSUME HashInv, NEW w \in Wrappers, Reads(w)
    PROVE  HeadersHashed' /\ WireHashed'
<1> USE DEF HashInv
<1>1. CASE ComputeHash(w)
  <2>1. at[w] \in Cells /\ Inner(w) = headers[at[w]] /\ Inner(w) \in Inners
    BY <1>1, InnerType DEF ComputeHash
  <2> DEFINE hashed == [Inner(w) EXCEPT !.dataHash = <<Hash(Inner(w).data)>>]
  <2>2. headers' = [headers EXCEPT ![at[w]] = hashed]
    BY <1>1, <2>1 DEF ComputeHash
  <2>3. HashOk(hashed)
    BY <2>1 DEF HashOk, Inners
  <2> QED BY <1>1, <2>1, <2>2, <2>3, WriteHashed DEF ComputeHash
<1>2. CASE ReadParentInfo(w)
  BY <1>2 DEF ReadParentInfo, HeadersHashed, WireHashed
<1>3. CASE Encode(w)
  <2>1. HashOk(Inner(w))
    BY <1>3, InnerType DEF Encode, HeadersHashed
  <2> QED BY <1>3, <2>1 DEF Encode, HeadersHashed, WireHashed
<1> QED BY <1>1, <1>2, <1>3 DEF Reads

LEMMA SetHashed ==
    ASSUME "freeze" \in CallerRules, HashInv, NEW w \in Wrappers, Writes(w)
    PROVE  HeadersHashed' /\ WireHashed'
<1> USE DEF HashInv
<1>1. ASSUME NEW parents \in Optional(Parents), SetParentInfo(w, parents)
      PROVE  HeadersHashed' /\ WireHashed'
  <2>1. at[w] \in Cells /\ Inner(w) = headers[at[w]] /\ Inner(w) \in Inners
    BY <1>1, InnerType DEF SetParentInfo
  <2> DEFINE inner == [Inner(w) EXCEPT !.data.parents = parents]
  <2>2. headers' = [headers EXCEPT ![at[w]] = inner]
    BY <1>1, <2>1 DEF SetParentInfo
  <2>3. inner.dataHash = <<>>
    BY <1>1, <2>1 DEF SetParentInfo, MaySet, Inners
  <2>4. HashOk(inner)
    BY <2>3 DEF HashOk
  <2> QED BY <1>1, <2>1, <2>2, <2>4, WriteHashed DEF SetParentInfo
<1>2. ASSUME NEW f \in Fields, SetField(w, f)
      PROVE  HeadersHashed' /\ WireHashed'
  <2>1. at[w] \in Cells /\ Inner(w) = headers[at[w]] /\ Inner(w) \in Inners
    BY <1>2, InnerType DEF SetField
  <2> DEFINE inner == [Inner(w) EXCEPT !.data.fields = f]
  <2>2. headers' = [headers EXCEPT ![at[w]] = inner]
    BY <1>2, <2>1 DEF SetField
  <2>3. inner.dataHash = <<>>
    BY <1>2, <2>1 DEF SetField, MaySet, Inners
  <2>4. HashOk(inner)
    BY <2>3 DEF HashOk
  <2> QED BY <1>2, <2>1, <2>2, <2>4, WriteHashed DEF SetField
<1>3. ASSUME NEW signatures \in SignatureLists, SetSignatureList(w, signatures)
      PROVE  HeadersHashed' /\ WireHashed'
  <2>1. at[w] \in Cells /\ Inner(w) = headers[at[w]] /\ Inner(w) \in Inners
    BY <1>3, InnerType DEF SetSignatureList
  <2> DEFINE inner == [Inner(w) EXCEPT !.signatureList = @ \o signatures]
  <2>2. headers' = [headers EXCEPT ![at[w]] = inner]
    BY <1>3, <2>1 DEF SetSignatureList
  <2>3. inner.dataHash = Inner(w).dataHash /\ inner.data = Inner(w).data
    BY <2>1 DEF Inners
  <2>4. HashOk(inner)
    BY <2>1, <2>3 DEF HashOk, HeadersHashed
  <2> QED BY <1>3, <2>1, <2>2, <2>4, WriteHashed DEF SetSignatureList
<1>4. CASE Clear(w)
  BY <1>4, InnerType, BlankHashed, WriteHashed DEF Clear
<1>5. CASE Decode(w)
  BY <1>5, InnerType, WriteHashed DEF Decode, WireHashed
<1>6. ASSUME NEW v \in Wrappers, SetInner(w, v)
      PROVE  HeadersHashed' /\ WireHashed'
  <2>1. at[w] \in Cells /\ HashOk(Inner(v))
    BY <1>6, InnerType DEF SetInner, HeadersHashed
  <2> QED BY <1>6, <2>1, WriteHashed DEF SetInner
<1>7. CASE SetBlockHeader(w)
  <2>1. Block \in Cells /\ HashOk(Inner(w))
    BY <1>7, InnerType DEF SetBlockHeader, HeadersHashed, Cells
  <2> QED BY <1>7, <2>1, WriteHashed DEF SetBlockHeader
<1> QED BY <1>1, <1>2, <1>3, <1>4, <1>5, <1>6, <1>7 DEF Writes

LEMMA BlockHashed ==
    ASSUME "freeze" \in CallerRules, HashInv, BlockSteps
    PROVE  HeadersHashed' /\ WireHashed'
<1> USE DEF HashInv
<1>1. Block \in Cells /\ headers[Block] \in Inners
  BY DEF Cells, TypeOK
<1>2. ASSUME NEW f \in Fields, SetBlockVersion(f)
      PROVE  HeadersHashed' /\ WireHashed'
  <2> DEFINE inner == [headers[Block] EXCEPT !.data.fields = f]
  <2>1. headers' = [headers EXCEPT ![Block] = inner]
    BY <1>2 DEF SetBlockVersion
  <2>2. inner.dataHash = <<>>
    BY <1>1, <1>2 DEF SetBlockVersion, MaySet, Inners
  <2>3. HashOk(inner)
    BY <2>2 DEF HashOk
  <2> QED BY <1>1, <1>2, <2>1, <2>3, WriteHashed DEF SetBlockVersion
<1>3. CASE EncodeBlock
  BY <1>1, <1>3 DEF EncodeBlock, HeadersHashed, WireHashed
<1>4. CASE ReplaceBlock
  BY <1>1, <1>4, WriteHashed DEF ReplaceBlock, WireHashed
<1> QED BY <1>2, <1>3, <1>4 DEF BlockSteps

\* With callers that set the hashed fields of a header only before it is hashed, the
\* cached hash of every header, also of one just received, is the hash of its data,
\* whatever they replace and whichever wrappers keep parents.
THEOREM HeaderHashesAreRight ==
    "freeze" \in CallerRules => (Spec => []HashOfHeader)
<1> SUFFICES ASSUME "freeze" \in CallerRules
             PROVE  Spec => []HashOfHeader
  OBVIOUS
<1>1. Init => HashInv
  <2>1. Init => TypeOK
    BY BlankType DEF Init, TypeOK, Optional, Cells
  <2> QED BY <2>1, BlankHashed DEF Init, HashInv, HeadersHashed, WireHashed
<1>2. HashInv /\ [Next]_vars => HashInv'
  <2> SUFFICES ASSUME HashInv, [Next]_vars
               PROVE  HashInv'
    OBVIOUS
  <2>1. TypeOK'
    BY NextType DEF HashInv
  <2>2. CASE UNCHANGED vars
    BY <2>1, <2>2 DEF vars, HashInv, HeadersHashed, WireHashed
  <2>3. ASSUME NEW w \in Wrappers, Creates(w) \/ Reads(w) \/ Writes(w) \/ Release(w)
        PROVE  HashInv'
    BY <2>1, <2>3, CreateHashed, ReadHashed, SetHashed DEF HashInv
  <2>4. CASE BlockSteps
    BY <2>1, <2>4, BlockHashed DEF HashInv
  <2> QED BY <2>2, <2>3, <2>4 DEF Next
<1> QED BY <1>1, <1>2, HashInvHolds, PTL DEF Spec

-----------------------------------------------------------------------------
(* Callers that replace no header whose parents are cached. *)

\* A wrapper that does not exist has nothing cached: the next one to take its
\* place starts empty.  Without this ViewBlockHeader could bring an old cache back.
DeadIsEmpty == \A w \in Wrappers : ~Live(w) => parentInfo[w] = <<>>

\* A wrapper's getter returns its own header or the block's, never another's.
Placed == \A w \in Wrappers : at[w] \in {w, Block, NoCell}

ParentsInv == TypeOK /\ ParentInfoCurrent /\ DeadIsEmpty /\ Placed

\* The header c of a caller that may replace it is nobody's cached parents.
LEMMA ReplaceKeepsParents ==
    ASSUME ParentsInv, "fresh" \in CallerRules, NEW c \in Cells, MayReplace(c, {}), NEW inner,
           headers' = [headers EXCEPT ![c] = inner],
           UNCHANGED <<at, parentInfo>>
    PROVE  (ParentInfoCurrent /\ DeadIsEmpty /\ Placed)'
<1>1. DeadIsEmpty' /\ Placed'
  BY DEF ParentsInv, DeadIsEmpty, Live, Placed
<1>2. ASSUME NEW w \in Wrappers, Live(w)
      PROVE  (ParentInfo(w) = Inner(w).data.parents)'
  <2>1. CASE at[w] = c
    BY <2>1 DEF MayReplace, Fresh, ParentInfo, Inner
  <2>2. CASE at[w] # c
    <3>1. Inner(w)' = Inner(w)
      BY <1>2, <2>2 DEF Inner, ParentsInv, TypeOK, Live
    <3> QED BY <1>2, <3>1 DEF ParentsInv, ParentInfoCurrent, ParentInfo
  <2> QED BY <2>1, <2>2
<1> QED BY <1>1, <1>2 DEF ParentInfoCurrent, Live

\* A write that leaves the parents alone disturbs no m_parentInfo.
LEMMA SameParents ==
    ASSUME ParentsInv, NEW c \in Cells, NEW inner, inner.data.parents = headers[c].data.parents,
           headers' = [headers EXCEPT ![c] = inner],
           UNCHANGED <<at, parentInfo>>
    PROVE  (ParentInfoCurrent /\ DeadIsEmpty /\ Placed)'
<1>1. DeadIsEmpty' /\ Placed'
  BY DEF ParentsInv, DeadIsEmpty, Live, Placed
<1>2. ASSUME NEW w \in Wrappers, Live(w)
      PROVE  (ParentInfo(w) = Inner(w).data.parents)'
  <2>1. Inner(w)'.data.parents = Inner(w).data.parents
    BY <1>2 DEF Inner, ParentsInv, TypeOK, Live
  <2> QED BY <1>2, <2>1 DEF ParentsInv, ParentInfoCurrent, ParentInfo
<1> QED BY <1>1, <1>2 DEF ParentInfoCurrent, Live

\* A wrapper that may set parents is the only one with a cache, and empties it.
LEMMA ClearingKeepsParents ==
    ASSUME ParentsInv, "fresh" \in CallerRules, NEW w \in Wrappers, Live(w),
           MayReplace(at[w], {w}), NEW inner,
           headers' = [headers EXCEPT ![at[w]] = inner],
           parentInfo' = [parentInfo EXCEPT ![w] = <<>>],
           UNCHANGED at
    PROVE  (ParentInfoCurrent /\ DeadIsEmpty /\ Placed)'
<1> USE DEF ParentsInv
<1>1. DeadIsEmpty' /\ Placed'
  BY DEF DeadIsEmpty, Live, TypeOK, Placed
<1>2. ASSUME NEW v \in Wrappers, Live(v)
      PROVE  (ParentInfo(v) = Inner(v).data.parents)'
  <2>1. CASE at[v] = at[w]
    <3>1. parentInfo'[v] = <<>>
      BY <2>1 DEF MayReplace, Fresh, TypeOK
    <3> QED BY <3>1 DEF ParentInfo
  <2>2. CASE at[v] # at[w]
    <3>1. Inner(v)' = Inner(v) /\ parentInfo'[v] = parentInfo[v]
      BY <1>2, <2>2 DEF Inner, TypeOK, Live
    <3> QED BY <1>2, <3>1 DEF ParentInfoCurrent, ParentInfo
  <2> QED BY <2>1, <2>2
<1> QED BY <1>1, <1>2 DEF ParentInfoCurrent, Live

LEMMA CreateParents ==
    ASSUME ParentsInv, NEW w \in Wrappers, Creates(w)
    PROVE  (ParentInfoCurrent /\ DeadIsEmpty /\ Placed)'
<1> USE DEF ParentsInv
<1>1. PICK c \in {w, Block} : NewWrapper(w, c) /\ (UNCHANGED headers \/ CreateFromBytes(w))
  <2>1. CASE CreateBlockHeader(w)
    BY <2>1 DEF CreateBlockHeader
  <2>2. CASE CreateFromBytes(w)
    <3>1. NewWrapper(w, w)
      BY <2>2 DEF CreateFromBytes
    <3> QED BY <2>2, <3>1
  <2>3. CASE ViewBlockHeader(w)
    BY <2>3 DEF ViewBlockHeader
  <2> QED BY <2>1, <2>2, <2>3 DEF Creates
<1>2. ~Live(w) /\ parentInfo[w] = <<>> /\ UNCHANGED <<parentInfo, wire>>
  BY <1>1 DEF NewWrapper, DeadIsEmpty
<1>3. DeadIsEmpty' /\ Placed'
  BY <1>1, <1>2 DEF NewWrapper, DeadIsEmpty, Live, TypeOK, Placed
<1>4. ASSUME NEW v \in Wrappers, Live(v)'
      PROVE  (ParentInfo(v) = Inner(v).data.parents)'
  <2>1. CASE v = w
    BY <1>2, <2>1 DEF ParentInfo
  <2>2. CASE v # w
    <3>1. Live(v) /\ at'[v] = at[v]
      BY <1>1, <1>4, <2>2 DEF NewWrapper, Live, TypeOK
    <3>2. at[v] # w
      BY <2>2, CellsAssumption DEF Placed
    <3>3. at[v] \in Cells
      BY <3>1 DEF TypeOK, Live
    <3>4. headers'[at[v]] = headers[at[v]]
      BY <1>1, <3>2, <3>3 DEF CreateFromBytes, TypeOK
    <3> QED BY <1>2, <3>1, <3>4 DEF ParentInfoCurrent, ParentInfo, Inner
  <2> QED BY <2>1, <2>2
<1> QED BY <1>3, <1>4 DEF ParentInfoCurrent

LEMMA ReadParents ==
    ASSUME ParentsInv, NEW w \in Wrappers, Reads(w)
    PROVE  (ParentInfoCurrent /\ DeadIsEmpty /\ Placed)'
<1> USE DEF ParentsInv
<1>1. CASE ComputeHash(w)
  <2>1. at[w] \in Cells /\ Inner(w) = headers[at[w]] /\ Inner(w) \in Inners
    BY <1>1, InnerType DEF ComputeHash
  <2> DEFINE hashed == [Inner(w) EXCEPT !.dataHash = <<Hash(Inner(w).data)>>]
  <2>2. headers' = [headers EXCEPT ![at[w]] = hashed]
    BY <1>1, <2>1 DEF ComputeHash
  <2>3. hashed.data = Inner(w).data
    BY <2>1 DEF Inners
  <2> QED BY <1>1, <2>1, <2>2, <2>3, SameParents DEF ComputeHash
<1>2. CASE ReadParentInfo(w)
  BY <1>2 DEF ReadParentInfo, ParentInfoCurrent, ParentInfo, Inner, Live, TypeOK, DeadIsEmpty, Placed
<1>3. CASE Encode(w)
  BY <1>3 DEF Encode, ParentInfoCurrent, DeadIsEmpty, Placed, ParentInfo, Inner, Live
<1> QED BY <1>1, <1>2, <1>3 DEF Reads

LEMMA WriteParents ==
    ASSUME ParentsInv, "fresh" \in CallerRules, NEW w \in Wrappers, Writes(w)
    PROVE  (ParentInfoCurrent /\ DeadIsEmpty /\ Placed)'
<1> USE DEF ParentsInv
<1>1. ASSUME NEW parents \in Optional(Parents), SetParentInfo(w, parents)
      PROVE  (ParentInfoCurrent /\ DeadIsEmpty /\ Placed)'
  <2>1. at[w] \in Cells /\ Inner(w) = headers[at[w]]
    BY <1>1, InnerType DEF SetParentInfo
  <2>2. headers' = [headers EXCEPT ![at[w]] = [Inner(w) EXCEPT !.data.parents = parents]]
    BY <1>1, <2>1 DEF SetParentInfo
  <2> QED BY <1>1, <2>2, ClearingKeepsParents DEF SetParentInfo
<1>2. ASSUME NEW f \in Fields, SetField(w, f)
      PROVE  (ParentInfoCurrent /\ DeadIsEmpty /\ Placed)'
  <2>1. at[w] \in Cells /\ Inner(w) = headers[at[w]] /\ Inner(w) \in Inners
    BY <1>2, InnerType DEF SetField
  <2> DEFINE inner == [Inner(w) EXCEPT !.data.fields = f]
  <2>2. headers' = [headers EXCEPT ![at[w]] = inner]
    BY <1>2, <2>1 DEF SetField
  <2>3. inner.data.parents = Inner(w).data.parents
    BY <2>1 DEF Inners, Data
  <2> HIDE DEF inner
  <2> QED BY <1>2, <2>1, <2>2, <2>3, SameParents DEF SetField
<1>3. ASSUME NEW signatures \in SignatureLists, SetSignatureList(w, signatures)
      PROVE  (ParentInfoCurrent /\ DeadIsEmpty /\ Placed)'
  <2>1. at[w] \in Cells /\ Inner(w) = headers[at[w]] /\ Inner(w) \in Inners
    BY <1>3, InnerType DEF SetSignatureList
  <2> DEFINE inner == [Inner(w) EXCEPT !.signatureList = @ \o signatures]
  <2>2. headers' = [headers EXCEPT ![at[w]] = inner]
    BY <1>3, <2>1 DEF SetSignatureList
  <2>3. inner.data = Inner(w).data
    BY <2>1 DEF Inners
  <2> QED BY <1>3, <2>1, <2>2, <2>3, SameParents DEF SetSignatureList
<1>4. CASE Clear(w)
  BY <1>4, ClearingKeepsParents DEF Clear
<1>5. CASE Decode(w)
  BY <1>5, InnerType, ReplaceKeepsParents DEF Decode
<1>6. ASSUME NEW v \in Wrappers, SetInner(w, v)
      PROVE  (ParentInfoCurrent /\ DeadIsEmpty /\ Placed)'
  BY <1>6, InnerType, ReplaceKeepsParents DEF SetInner
<1>7. CASE SetBlockHeader(w)
  BY <1>7, ReplaceKeepsParents DEF SetBlockHeader, Cells
<1> QED BY <1>1, <1>2, <1>3, <1>4, <1>5, <1>6, <1>7 DEF Writes

LEMMA ReleaseParents ==
    ASSUME ParentsInv, NEW w \in Wrappers, Release(w)
    PROVE  (ParentInfoCurrent /\ DeadIsEmpty /\ Placed)'
<1> USE DEF ParentsInv
<1>1. Placed' /\ DeadIsEmpty'
  BY DEF Release, Placed, DeadIsEmpty, Live, TypeOK
<1>2. ASSUME NEW v \in Wrappers, Live(v)'
      PROVE  (ParentInfo(v) = Inner(v).data.parents)'
  <2>1. v # w /\ at'[v] = at[v] /\ parentInfo'[v] = parentInfo[v] /\ Live(v)
    BY <1>2 DEF Release, Live, TypeOK
  <2>2. at[v] # w
    BY <2>1, CellsAssumption DEF Placed
  <2>3. headers'[at[v]] = headers[at[v]]
    BY <2>2 DEF Release, TypeOK
  <2> QED BY <2>1, <2>3 DEF ParentInfoCurrent, ParentInfo, Inner
<1> QED BY <1>1, <1>2 DEF ParentInfoCurrent

LEMMA BlockParents ==
    ASSUME ParentsInv, "fresh" \in CallerRules, BlockSteps
    PROVE  (ParentInfoCurrent /\ DeadIsEmpty /\ Placed)'
<1> USE DEF ParentsInv
<1>1. Block \in Cells /\ headers[Block] \in Inners
  BY DEF Cells, TypeOK
<1>2. ASSUME NEW f \in Fields, SetBlockVersion(f)
      PROVE  (ParentInfoCurrent /\ DeadIsEmpty /\ Placed)'
  <2> DEFINE inner == [headers[Block] EXCEPT !.data.fields = f]
  <2>1. headers' = [headers EXCEPT ![Block] = inner]
    BY <1>2 DEF SetBlockVersion
  <2>2. inner.data.parents = headers[Block].data.parents
    BY <1>1 DEF Inners, Data
  <2> HIDE DEF inner
  <2> QED BY <1>1, <1>2, <2>1, <2>2, SameParents DEF SetBlockVersion
<1>3. CASE EncodeBlock
  BY <1>3 DEF EncodeBlock, ParentInfoCurrent, DeadIsEmpty, Placed, ParentInfo, Inner, Live
<1>4. CASE ReplaceBlock
  BY <1>1, <1>4, ReplaceKeepsParents DEF ReplaceBlock
<1> QED BY <1>2, <1>3, <1>4 DEF BlockSteps

\* With callers that replace, clear or give parents to a header only while no other
\* wrapper has its parents cached, parentInfo() returns the parents of the header as
\* it is, whichever wrapper is asked and whenever the other fields are set.
THEOREM ParentsAreCurrent ==
    "fresh" \in CallerRules => (Spec => []ParentInfoCurrent)
<1> SUFFICES ASSUME "fresh" \in CallerRules
             PROVE  Spec => []ParentInfoCurrent
  OBVIOUS
<1>1. Init => ParentsInv
  <2>1. Init => TypeOK
    BY BlankType DEF Init, TypeOK, Optional, Cells
  <2> QED BY <2>1 DEF Init, ParentsInv, ParentInfoCurrent, DeadIsEmpty, Placed, Live
<1>2. ParentsInv /\ [Next]_vars => ParentsInv'
  <2> SUFFICES ASSUME ParentsInv, [Next]_vars
               PROVE  ParentsInv'
    OBVIOUS
  <2>1. TypeOK'
    BY NextType DEF ParentsInv
  <2>2. CASE UNCHANGED vars
    BY <2>1, <2>2 DEF vars, ParentsInv, ParentInfoCurrent, DeadIsEmpty, Placed, ParentInfo, Inner, Live
  <2>3. ASSUME NEW w \in Wrappers, Creates(w) \/ Reads(w) \/ Writes(w) \/ Release(w)
        PROVE  ParentsInv'
    BY <2>1, <2>3, CreateParents, ReadParents, WriteParents, ReleaseParents DEF ParentsInv
  <2>4. CASE BlockSteps
    BY <2>1, <2>4, BlockParents DEF ParentsInv
  <2> QED BY <2>2, <2>3, <2>4 DEF Next
<1>3. ParentsInv => ParentInfoCurrent
  BY DEF ParentsInv
<1> QED BY <1>1, <1>2, <1>3, PTL DEF Spec
=============================================================================
