--------------------------- MODULE BlockHeaderImpl ---------------------------
(***************************************************************************)
(* Block headers, protocol/BlockHeaderImpl, and the header of a block,     *)
(* protocol/BlockImpl.  A wrapper reaches a tars `bcostars::BlockHeader'   *)
(* through a getter: its own, made by BlockHeaderFactoryImpl, or the one   *)
(* inside a block, which every block->blockHeader() hands out again.       *)
(*                                                                         *)
(* Two things are filled lazily: dataHash, inside the shared inner object, *)
(* and m_parentInfo, inside each wrapper.  The setters of hashed fields    *)
(* look at neither, but for setParentInfo and clear(), which clear the     *)
(* m_parentInfo of the wrapper they are called on.                         *)
(*                                                                         *)
(* An optional value is <<>> or <<v>>; a parent list is <<>> or <<p>>.     *)
(***************************************************************************)
EXTENDS Naturals, Sequences

CONSTANTS
    Wrappers,       \* BlockHeaderImpl objects the program may hold at one time
    Block,          \* the block's own header
    NoCell,         \* no header: the wrapper does not exist
    Parents,        \* parents a block may name
    Fields,         \* the other hashed fields, taken together
    DefaultFields,  \* ... of a default-constructed header
    Sealers,        \* sealer indexes that sign
    MaxSignatures,  \* bound on a signature list
    CallerRules     \* what callers keep to; a subset of Rules

(* "freeze": the hashed fields of a header are not set once it was hashed. *)
(* "fresh":  a header is replaced, cleared or given parents only while no  *)
(*           wrapper that keeps its m_parentInfo has one cached.           *)
(* Neither is enforced by the code.                                        *)
Rules == {"freeze", "fresh"}

ASSUME CellsAssumption == Block \notin Wrappers /\ NoCell \notin Wrappers \cup {Block}
ASSUME FieldsAssumption == DefaultFields \in Fields
ASSUME MaxSignaturesAssumption == MaxSignatures \in Nat

VARIABLES
    headers,     \* the inner objects: one per owning wrapper and the block's
    at,          \* the inner object a wrapper's getter returns; NoCell: no wrapper
    parentInfo,  \* m_parentInfo
    wire         \* the last header encoded, alone or inside its block

vars == <<headers, at, parentInfo, wire>>

Cells == Wrappers \cup {Block}

Optional(S) == {<<>>} \cup {<<v>> : v \in S}

Data == [parents : Optional(Parents), fields : Fields]

\* cryptoSuite->hash of the encoded data; injective.
Hash(data) == [hashOf |-> data]

Inners == [data : Data, dataHash : Optional({Hash(d) : d \in Data}),
           signatureList : Seq(Sealers)]

Blank == [data |-> [parents |-> <<>>, fields |-> DefaultFields],
          dataHash |-> <<>>, signatureList |-> <<>>]

TypeOK ==
    /\ headers \in [Cells -> Inners]
    /\ at \in [Wrappers -> Cells \cup {NoCell}]
    /\ parentInfo \in [Wrappers -> Optional(Parents)]
    /\ wire \in Seq(Inners) /\ Len(wire) <= 1

-----------------------------------------------------------------------------
Live(w) == at[w] # NoCell
Owner(w) == at[w] = w
Inner(w) == headers[at[w]]

Init ==
    /\ headers = [c \in Cells |-> Blank]
    /\ at = [w \in Wrappers |-> NoCell]
    /\ parentInfo = [w \in Wrappers |-> <<>>]
    /\ wire = <<>>

\* Nobody but the wrappers in `clearing' has cached the parents of header c.
Fresh(c, clearing) == \A w \in Wrappers \ clearing : at[w] = c => parentInfo[w] = <<>>

MayReplace(c, clearing) == "fresh" \in CallerRules => Fresh(c, clearing)
MaySet(c) == "freeze" \in CallerRules => headers[c].dataHash = <<>>

\* What parentInfo() returns.
ParentInfo(w) == IF parentInfo[w] = <<>> THEN Inner(w).data.parents ELSE parentInfo[w]

-----------------------------------------------------------------------------
(* BlockHeaderFactoryImpl, and the views of the block *)

NewWrapper(w, c) ==
    /\ ~Live(w)
    /\ at' = [at EXCEPT ![w] = c]
    /\ UNCHANGED <<parentInfo, wire>>

CreateBlockHeader(w) == NewWrapper(w, w) /\ UNCHANGED headers

CreateFromBytes(w) ==
    /\ wire # <<>>
    /\ NewWrapper(w, w)
    /\ headers' = [headers EXCEPT ![w] = wire[1]]

\* w = block->blockHeader() or block->blockHeaderConst()
ViewBlockHeader(w) == NewWrapper(w, Block) /\ UNCHANGED headers

Release(w) ==
    /\ Live(w)
    /\ at' = [at EXCEPT ![w] = NoCell]
    /\ headers' = IF Owner(w) THEN [headers EXCEPT ![w] = Blank] ELSE headers
    /\ parentInfo' = [parentInfo EXCEPT ![w] = <<>>]
    /\ UNCHANGED wire

-----------------------------------------------------------------------------
(* BlockHeaderImpl *)

\* Faulty: the encoded data is stored, not its hash.
ComputeHashRaw(w) ==
    /\ Live(w)
    /\ Inner(w).dataHash = <<>>
    /\ headers' = [headers EXCEPT ![at[w]].dataHash = <<Inner(w).data>>]
    /\ UNCHANGED <<at, parentInfo, wire>>

\* hash() with an empty dataHash; with a full one it changes nothing.
ComputeHash(w) ==
    /\ Live(w)
    /\ Inner(w).dataHash = <<>>
    /\ headers' = [headers EXCEPT ![at[w]].dataHash = <<Hash(Inner(w).data)>>]
    /\ UNCHANGED <<at, parentInfo, wire>>

ReadParentInfo(w) ==
    /\ Live(w)
    /\ parentInfo' = [parentInfo EXCEPT ![w] = ParentInfo(w)]
    /\ UNCHANGED <<headers, at, wire>>

\* encode() writes the inner object as it is: a dataHash only if hash() ran.
Encode(w) ==
    /\ Live(w)
    /\ wire' = <<Inner(w)>>
    /\ UNCHANGED <<headers, at, parentInfo>>

\* Faulty: the wrapper's own m_parentInfo is left.
SetParentInfoKeepsCache(w, parents) ==
    /\ Live(w)
    /\ MaySet(at[w]) /\ MayReplace(at[w], {w})
    /\ headers' = [headers EXCEPT ![at[w]].data.parents = parents]
    /\ UNCHANGED <<at, parentInfo, wire>>

SetParentInfo(w, parents) ==
    /\ Live(w)
    /\ MaySet(at[w]) /\ MayReplace(at[w], {w})
    /\ parentInfo' = [parentInfo EXCEPT ![w] = <<>>]
    /\ headers' = [headers EXCEPT ![at[w]].data.parents = parents]
    /\ UNCHANGED <<at, wire>>

\* Every other setter of the hashed data.
SetField(w, f) ==
    /\ Live(w)
    /\ MaySet(at[w])
    /\ headers' = [headers EXCEPT ![at[w]].data.fields = f]
    /\ UNCHANGED <<at, parentInfo, wire>>

\* setSignatureList() adds to the list that is there.
SetSignatureList(w, signatures) ==
    /\ Live(w)
    /\ Len(Inner(w).signatureList) + Len(signatures) <= MaxSignatures
    /\ headers' = [headers EXCEPT ![at[w]].signatureList = @ \o signatures]
    /\ UNCHANGED <<at, parentInfo, wire>>

\* Faulty: only the data is reset.
ClearKeepsHash(w) ==
    /\ Live(w)
    /\ MayReplace(at[w], {w})
    /\ headers' = [headers EXCEPT ![at[w]].data = Blank.data]
    /\ parentInfo' = [parentInfo EXCEPT ![w] = <<>>]
    /\ UNCHANGED <<at, wire>>

Clear(w) ==
    /\ Live(w)
    /\ MayReplace(at[w], {w})
    /\ headers' = [headers EXCEPT ![at[w]] = Blank]
    /\ parentInfo' = [parentInfo EXCEPT ![w] = <<>>]
    /\ UNCHANGED <<at, wire>>

\* decode() into a header in use: m_parentInfo is left.
Decode(w) ==
    /\ Live(w) /\ wire # <<>>
    /\ MayReplace(at[w], {})
    /\ headers' = [headers EXCEPT ![at[w]] = wire[1]]
    /\ UNCHANGED <<at, parentInfo, wire>>

\* setInner() with a copy of v's inner object: m_parentInfo is left.
SetInner(w, v) ==
    /\ Live(w) /\ Live(v)
    /\ MayReplace(at[w], {})
    /\ headers' = [headers EXCEPT ![at[w]] = Inner(v)]
    /\ UNCHANGED <<at, parentInfo, wire>>

-----------------------------------------------------------------------------
(* BlockImpl *)

\* setBlockHeader() copies; with a null pointer it does nothing.
SetBlockHeader(w) ==
    /\ Live(w)
    /\ MayReplace(Block, {})
    /\ headers' = [headers EXCEPT ![Block] = Inner(w)]
    /\ UNCHANGED <<at, parentInfo, wire>>

\* setVersion() goes past the wrappers to the header's data.
SetBlockVersion(f) ==
    /\ MaySet(Block)
    /\ headers' = [headers EXCEPT ![Block].data.fields = f]
    /\ UNCHANGED <<at, parentInfo, wire>>

EncodeBlock ==
    /\ wire' = <<headers[Block]>>
    /\ UNCHANGED <<headers, at, parentInfo>>

\* decode() or setInner() of the whole block.
ReplaceBlock ==
    /\ wire # <<>>
    /\ MayReplace(Block, {})
    /\ headers' = [headers EXCEPT ![Block] = wire[1]]
    /\ UNCHANGED <<at, parentInfo, wire>>

-----------------------------------------------------------------------------
\* The lists a caller collects: at most one signature of each sealer.
SignatureLists ==
    {list \in UNION {[1 .. n -> Sealers] : n \in 1 .. MaxSignatures} :
        \A i, j \in DOMAIN list : list[i] = list[j] => i = j}

Creates(w) == CreateBlockHeader(w) \/ CreateFromBytes(w) \/ ViewBlockHeader(w)

Reads(w) == ComputeHash(w) \/ ReadParentInfo(w) \/ Encode(w)

Writes(w) ==
    \/ \E parents \in Optional(Parents) : SetParentInfo(w, parents)
    \/ \E f \in Fields : SetField(w, f)
    \/ \E signatures \in SignatureLists : SetSignatureList(w, signatures)
    \/ Clear(w)
    \/ Decode(w)
    \/ \E v \in Wrappers : SetInner(w, v)
    \/ SetBlockHeader(w)

BlockSteps == (\E f \in Fields : SetBlockVersion(f)) \/ EncodeBlock \/ ReplaceBlock

Next == (\E w \in Wrappers : Creates(w) \/ Reads(w) \/ Writes(w) \/ Release(w)) \/ BlockSteps

Spec == Init /\ [][Next]_vars
-----------------------------------------------------------------------------
\* hash() returns dataHash without a look at the data when there is one, and
\* encode() sends it: in every header, of every wrapper and of the block, and on
\* the wire, a dataHash is the hash of the data it is stored with.
HashOfHeader ==
    \A inner \in {headers[c] : c \in Cells} \cup {wire[i] : i \in DOMAIN wire} :
        inner.dataHash \in {<<>>, <<Hash(inner.data)>>}

\* parentInfo() returns the parents of the header as it is now, whichever of the
\* wrappers that share the header changed it and whichever is asked.
ParentInfoCurrent == \A w \in Wrappers : Live(w) => ParentInfo(w) = Inner(w).data.parents

\* setSignatureList() leaves the list it was given, as setSealerList() and
\* setParentInfo() do: after it the list has as many signatures as were passed.
SignatureListIsSet ==
    [][\A w \in Wrappers, signatures \in SignatureLists :
          SetSignatureList(w, signatures) => Inner(w)'.signatureList = signatures]_vars
=============================================================================
