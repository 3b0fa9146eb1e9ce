------------------------------ MODULE BlockProofs ------------------------------
(***************************************************************************)
(* Proofs about BlockImpl, for vectors of any length.                      *)
(***************************************************************************)
EXTENDS BlockImpl, TLAPS

LEMMA FunctionIsSeq ==
    ASSUME NEW S, NEW n \in Nat, NEW f \in [1 .. n -> S]
    PROVE  f \in Seq(S) /\ Len(f) = n /\ DOMAIN f = 1 .. n
OBVIOUS

LEMMA SeqIsFunction ==
    ASSUME NEW S, NEW list \in Seq(S)
    PROVE  list \in [1 .. Len(list) -> S] /\ DOMAIN list = 1 .. Len(list) /\ Len(list) \in Nat
OBVIOUS

\* The numbers of n texts that can be read are n numbers.
LEMMA NumbersOfType ==
    ASSUME NEW list \in Seq(Texts), NEW n \in 0 .. Len(list),
           \A i \in 1 .. n : list[i] # Unreadable
    PROVE  NumbersOf(list, n) \in Seq(Numbers) /\ Len(NumbersOf(list, n)) = n
<1>1. n \in Nat /\ \A i \in 1 .. n : list[i] \in Texts
  OBVIOUS
<1>2. ASSUME NEW i \in 1 .. n PROVE Number(list[i]) \in Numbers
  <2>1. CASE list[i] = NoText
    BY <2>1, NumbersAssumption DEF Number
  <2>2. CASE list[i] # NoText
    <3>1. PICK number \in Numbers : list[i] = <<number>>
      BY <1>1, <2>2 DEF Texts, Text
    <3> QED BY <2>2, <3>1 DEF Number
  <2> QED BY <2>1, <2>2
<1>3. NumbersOf(list, n) \in [1 .. n -> Numbers]
  BY <1>2 DEF NumbersOf
<1> QED BY <1>1, <1>3, FunctionIsSeq

\* What setReceipt(i) writes to: the receipts, grown when i is past the end.
Target(i) == IF i > Len(receipts) THEN Resize(receipts, transactions) ELSE receipts

LEMMA TargetType ==
    ASSUME TypeOK, NEW i \in Indexes
    PROVE  /\ Target(i) \in Seq(Receipts \cup {Blank})
           /\ Len(Target(i)) = IF i > Len(receipts) THEN transactions ELSE Len(receipts)
           /\ \A j \in 1 .. Len(receipts) :
                 j <= Len(Target(i)) => Target(i)[j] = receipts[j]
<1>1. CASE i > Len(receipts)
  <2>1. transactions \in Nat /\ Target(i) = Resize(receipts, transactions)
    BY <1>1, MaxItemsAssumption DEF Target, TypeOK
  <2>2. Resize(receipts, transactions) \in [1 .. transactions -> Receipts \cup {Blank}]
    <3>1. \A j \in 1 .. transactions : j <= Len(receipts) => receipts[j] \in Receipts \cup {Blank}
      BY <2>1 DEF TypeOK
    <3> QED BY <3>1 DEF Resize
  <2>3. Target(i) \in Seq(Receipts \cup {Blank}) /\ Len(Target(i)) = transactions
    BY <2>1, <2>2, FunctionIsSeq
  <2>4. \A j \in 1 .. Len(receipts) : j <= transactions => Target(i)[j] = receipts[j]
    BY <2>1 DEF Resize
  <2> QED BY <1>1, <2>3, <2>4
<1>2. CASE ~(i > Len(receipts))
  BY <1>2 DEF Target, TypeOK
<1> QED BY <1>1, <1>2

LEMMA SetReceiptEffect ==
    ASSUME TypeOK, NEW i \in Indexes, NEW r \in Receipts, SetReceipt(i, r)
    PROVE  /\ receipts' \in Seq(Receipts \cup {Blank})
           /\ Len(receipts') = IF i > Len(receipts) THEN transactions ELSE Len(receipts)
           /\ outside' = (outside \/ i > Len(receipts'))
           /\ \A j \in 1 .. Len(receipts) :
                 j # i /\ j <= Len(receipts') => receipts'[j] = receipts[j]
<1> DEFINE list == Target(i)
           n == Len(list)
<1>1. /\ receipts' = [j \in 1 .. n |-> IF j = i THEN r ELSE list[j]]
      /\ outside' = (outside \/ i > n)
  BY DEF SetReceipt, WriteReceipt, Target
<1>2. /\ list \in Seq(Receipts \cup {Blank}) /\ n \in Nat
      /\ n = IF i > Len(receipts) THEN transactions ELSE Len(receipts)
      /\ \A j \in 1 .. Len(receipts) : j <= n => list[j] = receipts[j]
  BY TargetType
<1>3. receipts' \in [1 .. n -> Receipts \cup {Blank}]
  BY <1>1, <1>2
<1>4. receipts' \in Seq(Receipts \cup {Blank}) /\ Len(receipts') = n
  BY <1>2, <1>3, FunctionIsSeq
<1>5. \A j \in 1 .. Len(receipts) : j # i /\ j <= n => receipts'[j] = receipts[j]
  BY <1>1, <1>2
<1> HIDE DEF list, n
<1> QED BY <1>1, <1>2, <1>4, <1>5

-----------------------------------------------------------------------------
LEMMA InitType == Init => TypeOK
<1>1. 0 \in 0 .. MaxItems
  BY MaxItemsAssumption
<1>2. \A S : <<>> \in Seq(S)
  OBVIOUS
<1> QED BY <1>1, <1>2, Zenon DEF Init, TypeOK

LEMMA TypeSteps == TypeOK /\ [Next]_vars => TypeOK'
<1> SUFFICES ASSUME TypeOK, [Next]_vars PROVE TypeOK'
  OBVIOUS
<1> USE DEF TypeOK
<1>1. CASE AppendTransaction \/ AppendTransactionMetaData \/ \E i \in Indexes : SetTransaction(i)
  <2>1. /\ UNCHANGED <<receipts, nonces, nonceList, views>>
        /\ outside' \in BOOLEAN
    BY <1>1 DEF AppendTransaction, AppendTransactionMetaData, SetTransaction, inner
  <2>2. transactions' \in 0 .. MaxItems /\ metaData' \in 0 .. MaxItems
    BY <1>1, MaxItemsAssumption
    DEF AppendTransaction, AppendTransactionMetaData, SetTransaction, inner
  <2> QED BY <2>1, <2>2
<1>2. CASE \E r \in Receipts : AppendReceipt(r)
  BY <1>2 DEF AppendReceipt
<1>3. CASE \E i \in Indexes, r \in Receipts : SetReceipt(i, r)
  <2> PICK i \in Indexes, r \in Receipts : SetReceipt(i, r)
    BY <1>3
  <2>1. receipts' \in Seq(Receipts \cup {Blank})
    BY SetReceiptEffect
  <2> QED BY <2>1 DEF SetReceipt, WriteReceipt
<1>4. CASE \E n \in 0 .. MaxItems : \E list \in [1 .. n -> Numbers] : SetNonceList(list)
  <2> PICK n \in 0 .. MaxItems : \E list \in [1 .. n -> Numbers] : SetNonceList(list)
    BY <1>4
  <2> PICK list \in [1 .. n -> Numbers] : SetNonceList(list)
    OBVIOUS
  <2>1. nonces' \in [1 .. n -> Texts]
    BY DEF SetNonceList, Texts
  <2>2. nonces' \in Seq(Texts)
    BY <2>1, FunctionIsSeq, MaxItemsAssumption
  <2> QED BY <2>2 DEF SetNonceList
<1>5. CASE ReadNonceList
  <2> PICK n \in 0 .. Len(nonces) : /\ \A i \in 1 .. n : nonces[i] # Unreadable
                                    /\ nonceList' = NumbersOf(nonces, n)
    BY <1>5 DEF ReadNonceList
  <2>1. nonceList' \in Seq(Numbers)
    BY NumbersOfType
  <2> QED BY <1>5, <2>1 DEF ReadNonceList, inner
<1>6. CASE Wrappers
  BY <1>6 DEF Wrappers, View, ViewMetaData, NewView, Parts, Release, Views, inner
<1>7. CASE Replace
  <2>1. receipts' \in Seq(Receipts \cup {Blank})
    <3> PICK n \in 0 .. MaxItems : receipts' \in [1 .. n -> Receipts]
      BY <1>7 DEF Replace
    <3>1. receipts' \in [1 .. n -> Receipts \cup {Blank}]
      OBVIOUS
    <3> QED BY <3>1, FunctionIsSeq, MaxItemsAssumption
  <2>2. nonces' \in Seq(Texts)
    <3> PICK n \in 0 .. MaxItems : nonces' \in [1 .. n -> Texts]
      BY <1>7 DEF Replace
    <3> QED BY FunctionIsSeq, MaxItemsAssumption
  <2> QED BY <1>7, <2>1, <2>2 DEF Replace
<1>8. CASE UNCHANGED vars
  BY <1>8 DEF vars
<1> QED BY <1>1, <1>2, <1>3, <1>4, <1>5, <1>6, <1>7, <1>8 DEF Next, Elements, Nonces

\* Every variable holds what it may.
THEOREM TypeCorrect == Spec => []TypeOK
<1>1. Init => TypeOK
  BY InitType
<1> QED BY <1>1, TypeSteps, PTL DEF Spec

-----------------------------------------------------------------------------
\* A block whose nonces cannot all be read would leave half of them in
\* m_nonceList, so that there is none such is part of the invariant.
AllReadable == \A i \in DOMAIN nonces : nonces[i] # Unreadable

NoncesInv == TypeOK /\ AllReadable /\ NoncesCurrent

LEMMA NoncesSteps ==
    ASSUME {"fresh", "numeric"} \subseteq CallerRules, NoncesInv, [Next]_vars
    PROVE  AllReadable' /\ NoncesCurrent'
<1> USE DEF NoncesInv, AllReadable, NoncesCurrent
<1>1. CASE UNCHANGED <<nonces, nonceList>>
  BY <1>1 DEF NumbersOf, Number
<1>2. CASE \E n \in 0 .. MaxItems : \E list \in [1 .. n -> Numbers] : SetNonceList(list)
  <2> PICK n \in 0 .. MaxItems : \E list \in [1 .. n -> Numbers] : SetNonceList(list)
    BY <1>2
  <2> PICK list \in [1 .. n -> Numbers] : SetNonceList(list)
    OBVIOUS
  <2>1. DOMAIN nonces' = 1 .. n /\ \A i \in 1 .. n : nonces'[i] = Text(list[i]) /\ list[i] \in Numbers
    BY DEF SetNonceList
  <2>2. AllReadable'
    BY <2>1, UnreadableAssumption
  <2> QED BY <2>2 DEF SetNonceList
<1>3. CASE ReadNonceList
  <2> PICK n \in 0 .. Len(nonces) : /\ n < Len(nonces) => nonces[n + 1] = Unreadable
                                    /\ nonceList' = NumbersOf(nonces, n)
    BY <1>3 DEF ReadNonceList
  <2>1. nonces \in Seq(Texts) /\ Len(nonces) \in Nat /\ DOMAIN nonces = 1 .. Len(nonces)
    BY DEF TypeOK
  <2>2. n = Len(nonces)
    <3>1. \A i \in 1 .. Len(nonces) : nonces[i] # Unreadable
      BY <2>1
    <3> HIDE DEF NoncesInv, AllReadable, NoncesCurrent
    <3>2. ~(n < Len(nonces))
      BY <2>1, <3>1
    <3>3. ASSUME NEW len \in Nat, NEW m \in 0 .. len, ~(m < len) PROVE m = len
      BY <3>3
    <3> QED BY <2>1, <3>2, <3>3
  <2>3. nonces' = nonces
    BY <1>3 DEF ReadNonceList, inner
  <2> QED BY <2>2, <2>3 DEF NumbersOf, Number
<1>4. CASE Replace
  <2>1. nonceList' = <<>> /\ AllReadable'
    BY <1>4 DEF Replace
  <2> QED BY <2>1
<1>5. CASE Elements \/ Wrappers
  <2>1. UNCHANGED <<nonces, nonceList>>
    BY <1>5 DEF Elements, Wrappers, AppendTransaction, AppendTransactionMetaData, AppendReceipt,
                SetTransaction, SetReceipt, View, ViewMetaData, NewView, Release, inner
  <2> QED BY <1>1, <2>1
<1> QED BY <1>1, <1>2, <1>3, <1>4, <1>5 DEF Next, Nonces, vars

LEMMA BoundsSteps ==
    ASSUME {"fresh", "bounds"} \subseteq CallerRules, TypeOK, InBounds, [Next]_vars
    PROVE  InBounds'
<1> USE DEF InBounds
<1>0. /\ transactions \in Nat /\ metaData \in Nat /\ Len(receipts) \in Nat
      /\ views \subseteq Views /\ \A v \in views : v.part \in Parts /\ v.index \in Nat
  BY MaxItemsAssumption DEF TypeOK, Views, Indexes
\* It is enough that no vector shrinks under a wrapper.
<1>1. ASSUME ~outside', views' \subseteq views,
             transactions' \in Nat /\ metaData' \in Nat /\ Len(receipts') \in Nat,
             transactions' >= transactions /\ metaData' >= metaData
                /\ Len(receipts') >= Len(receipts)
      PROVE  InBounds'
  <2> SUFFICES ASSUME NEW v \in views PROVE v.index <= Size(v.part)'
    BY <1>1
  <2>1. v.index <= Size(v.part) /\ v.part \in Parts /\ v.index \in Nat
    BY <1>0
  <2>2. CASE v.part = "transactions"
    BY <1>0, <1>1, <2>1, <2>2 DEF Size
  <2>3. CASE v.part = "receipts"
    BY <1>0, <1>1, <2>1, <2>3 DEF Size
  <2>4. CASE v.part = "metaData"
    BY <1>0, <1>1, <2>1, <2>4 DEF Size
  <2> QED BY <2>1, <2>2, <2>3, <2>4 DEF Parts
<1>2. CASE AppendTransaction \/ AppendTransactionMetaData
  <2>1. UNCHANGED <<receipts, views, outside>>
    BY <1>2 DEF AppendTransaction, AppendTransactionMetaData
  <2>2. /\ transactions' \in Nat /\ metaData' \in Nat
        /\ transactions' >= transactions /\ metaData' >= metaData
    BY <1>0, <1>2 DEF AppendTransaction, AppendTransactionMetaData
  <2>3. Len(receipts') \in Nat /\ Len(receipts') >= Len(receipts)
    BY <1>0, <2>1
  <2> QED BY <1>1, <2>1, <2>2, <2>3
<1>3. CASE \E r \in Receipts : AppendReceipt(r)
  <2>1. Len(receipts') = Len(receipts) + 1
    BY <1>3 DEF AppendReceipt, TypeOK
  <2> QED BY <1>0, <1>1, <1>3, <2>1 DEF AppendReceipt
<1>4. CASE \E i \in Indexes : SetTransaction(i)
  <2> PICK i \in Indexes : SetTransaction(i)
    BY <1>4
  <2>1. i <= transactions /\ i \in Nat
    BY DEF SetTransaction, MayIndex, Indexes
  <2>2. UNCHANGED <<inner, views>> /\ outside' = (outside \/ i > transactions)
    BY DEF SetTransaction
  <2>3. ~(i > transactions)
    BY <1>0, <2>1
  <2>4. ~outside'
    BY <2>2, <2>3
  <2> QED BY <1>0, <1>1, <2>2, <2>4 DEF inner
<1>5. CASE \E i \in Indexes, r \in Receipts : SetReceipt(i, r)
  <2> PICK i \in Indexes, r \in Receipts : SetReceipt(i, r)
    BY <1>5
  <2>1. i <= transactions /\ i \in Nat
    BY DEF SetReceipt, MayIndex, Indexes
  <2>2. /\ Len(receipts') = IF i > Len(receipts) THEN transactions ELSE Len(receipts)
        /\ outside' = (outside \/ i > Len(receipts'))
    BY SetReceiptEffect
  <2>3. /\ Len(receipts') \in Nat /\ Len(receipts') >= Len(receipts)
        /\ ~(i > Len(receipts'))
    BY <1>0, <2>1, <2>2
  <2>4. ~outside'
    BY <2>2, <2>3
  <2> QED BY <1>0, <1>1, <2>3, <2>4 DEF SetReceipt
<1>6. CASE Nonces \/ UNCHANGED vars
  BY <1>0, <1>1, <1>6 DEF Nonces, SetNonceList, ReadNonceList, inner, vars
<1>7. CASE \/ \E part \in Parts \ {"metaData"}, i \in Indexes : View(part, i)
           \/ \E i \in Indexes : ViewMetaData(i)
  <2> PICK part \in Parts, i \in Indexes : i <= Size(part) /\ NewView(part, i)
    BY <1>7 DEF View, ViewMetaData, Parts, Size
  <2>1. views' = views \cup {[part |-> part, index |-> i]}
    BY DEF NewView
  <2>2. outside' = outside /\ \A p : Size(p)' = Size(p)
    BY DEF NewView, inner, Size
  <2> QED BY <2>1, <2>2
<1>8. CASE \E v \in Views : Release(v)
  BY <1>0, <1>1, <1>8 DEF Release, inner
<1>9. CASE Replace
  BY <1>9 DEF Replace
<1> QED BY <1>2, <1>3, <1>4, <1>5, <1>6, <1>7, <1>8, <1>9 DEF Next, Elements, Wrappers

\* With callers that replace a block only before anything was read from it, and
\* blocks received that have numbers for nonces, nonceList() is the list of the block,
\* however its elements are indexed.
THEOREM NoncesAreCurrent ==
    ASSUME {"fresh", "numeric"} \subseteq CallerRules
    PROVE  Spec => []NoncesCurrent
<1>1. Init => NoncesInv
  BY InitType DEF Init, NoncesInv, AllReadable, NoncesCurrent
<1>2. NoncesInv /\ [Next]_vars => NoncesInv'
  BY NoncesSteps, TypeSteps DEF NoncesInv
<1>3. NoncesInv => NoncesCurrent
  BY DEF NoncesInv
<1> QED BY <1>1, <1>2, <1>3, PTL DEF Spec

\* With callers that index elements there are, and replace a block only before
\* anything was read from it, no wrapper of a block reaches past a vector's end and no
\* setter writes there, however long the vectors get and whatever the nonces are.
THEOREM IndexesAreInBounds ==
    ASSUME {"fresh", "bounds"} \subseteq CallerRules
    PROVE  Spec => []InBounds
<1>1. Init => TypeOK /\ InBounds
  BY InitType DEF Init, InBounds
<1>2. TypeOK /\ InBounds /\ [Next]_vars => (TypeOK /\ InBounds)'
  BY BoundsSteps, TypeSteps
<1> QED BY <1>1, <1>2, PTL DEF Spec

\* setReceipt(i) never costs another receipt, as long as i is below the number of
\* transactions: then it makes the vector longer or leaves it.
THEOREM SettingKeepsReceipts ==
    ASSUME "bounds" \in CallerRules
    PROVE  Spec => ReceiptsKept
<1>1. ASSUME TypeOK, NEW i \in Indexes, NEW r \in Receipts, SetReceipt(i, r),
             NEW j \in DOMAIN receipts \ {i}
      PROVE  j \in DOMAIN receipts' /\ receipts'[j] = receipts[j]
  <2>1. i <= transactions /\ i \in Nat /\ transactions \in Nat
    BY <1>1, MaxItemsAssumption DEF SetReceipt, MayIndex, Indexes, TypeOK
  <2>2. /\ receipts' \in Seq(Receipts \cup {Blank})
        /\ Len(receipts') = IF i > Len(receipts) THEN transactions ELSE Len(receipts)
        /\ \A k \in 1 .. Len(receipts) : k # i /\ k <= Len(receipts') => receipts'[k] = receipts[k]
    BY <1>1, SetReceiptEffect
  <2>3. j \in 1 .. Len(receipts) /\ j # i /\ Len(receipts) \in Nat
    BY <1>1 DEF TypeOK
  <2>4. j \in 1 .. Len(receipts') /\ DOMAIN receipts' = 1 .. Len(receipts')
    BY <2>1, <2>2, <2>3
  <2> QED BY <2>2, <2>3, <2>4
<1>2. TypeOK /\ [Next]_vars =>
        [\A i \in Indexes, r \in Receipts :
            SetReceipt(i, r) => \A j \in DOMAIN receipts \ {i} :
                                   j \in DOMAIN receipts' /\ receipts'[j] = receipts[j]]_vars
  BY <1>1
<1> QED BY <1>2, TypeCorrect, PTL DEF Spec, ReceiptsKept
=============================================================================
