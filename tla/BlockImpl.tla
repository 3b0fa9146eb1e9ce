------------------------------- MODULE BlockImpl -------------------------------
(***************************************************************************)
(* A block, protocol/BlockImpl: what BlockHeaderImpl and TransactionImpl   *)
(* leave out of it.  That is its vectors and the wrappers over one element *)
(* of them, which keep an index and look the element up at every use, and  *)
(* m_nonceList, the numbers of the nonce list, filled when they are first  *)
(* read.  An index i here is the code's i - 1.                             *)
(***************************************************************************)
EXTENDS Naturals, Sequences

CONSTANTS
    Receipts,
    Blank,       \* a default-constructed receipt
    Numbers,     \* nonces, 0 among them
    Unreadable,  \* the text of a nonce that lexical_cast rejects
    MaxItems,    \* bound on each vector
    CallerRules  \* what callers keep to; a subset of Rules

(* "fresh":   decode() and setInner() are called on a block from which     *)
(*            nothing was read: no m_nonceList, no wrapper alive.          *)
(* "bounds":  transaction(i), receipt(i) are called for elements there     *)
(*            are, setTransaction(i), setReceipt(i) for transactions there *)
(*            are.                                                         *)
(* "numeric": a block received has decimal numbers, or nothing, for nonces *)
(* None of them is enforced by the code.                                   *)
Rules == {"fresh", "bounds", "numeric"}

\* The text of a nonce: of a number, empty, or neither.
Text(number) == <<number>>
NoText == <<>>
Texts == {Text(number) : number \in Numbers} \cup {NoText, Unreadable}
Indexes == 1 .. MaxItems
Parts == {"transactions", "receipts", "metaData"}

ASSUME NumbersAssumption == 0 \in Numbers
ASSUME UnreadableAssumption == Unreadable \notin {Text(number) : number \in Numbers} \cup {NoText}
ASSUME MaxItemsAssumption == MaxItems \in Nat

VARIABLES
    transactions,  \* how many transactions
    metaData,      \* how many transactionsMetaData
    receipts,
    nonces,        \* the texts of inner nonceList
    nonceList,     \* m_nonceList
    views,         \* the wrappers alive: the vector and the index each keeps
    outside        \* an element outside of a vector was written

inner == <<transactions, metaData, receipts, nonces>>
vars == <<transactions, metaData, receipts, nonces, nonceList, views, outside>>

Views == [part : Parts, index : Indexes]

TypeOK ==
    /\ transactions \in 0 .. MaxItems
    /\ metaData \in 0 .. MaxItems
    /\ receipts \in Seq(Receipts \cup {Blank})
    /\ nonces \in Seq(Texts)
    /\ nonceList \in Seq(Numbers)
    /\ views \subseteq Views
    /\ outside \in BOOLEAN

Init ==
    /\ transactions = 0 /\ metaData = 0
    /\ receipts = <<>> /\ nonces = <<>>
    /\ nonceList = <<>>
    /\ views = {}
    /\ outside = FALSE

Size(part) ==
    CASE part = "transactions" -> transactions
      [] part = "receipts" -> Len(receipts)
      [] part = "metaData" -> metaData

-----------------------------------------------------------------------------
(* Nonces *)

\* Faulty: an empty text is read like any other, and is no number.
NumberOfAny(text) == IF text = NoText THEN Unreadable ELSE text[1]

\* An empty text is the nonce 0.
Number(text) == IF text = NoText THEN 0 ELSE text[1]
NumbersOf(list, n) == [i \in 1 .. n |-> Number(list[i])]

\* Faulty: the numbers of the old list are left.
SetNonceListKeepsCache(list) ==
    /\ nonces' = [i \in DOMAIN list |-> Text(list[i])]
    /\ UNCHANGED <<transactions, metaData, receipts, nonceList, views, outside>>

\* Both overloads of setNonceList.
SetNonceList(list) ==
    /\ nonces' = [i \in DOMAIN list |-> Text(list[i])]
    /\ nonceList' = <<>>
    /\ UNCHANGED <<transactions, metaData, receipts, views, outside>>

\* nonceList(): the first text that cannot be read throws, and what was read
\* before it stays in m_nonceList.  With numbers there it changes nothing.
ReadNonceList ==
    /\ nonceList = <<>>
    /\ \E n \in 0 .. Len(nonces) :
          /\ \A i \in 1 .. n : nonces[i] # Unreadable
          /\ n < Len(nonces) => nonces[n + 1] = Unreadable
          /\ nonceList' = NumbersOf(nonces, n)
    /\ UNCHANGED <<inner, views, outside>>

-----------------------------------------------------------------------------
(* Elements *)

AppendTransaction ==
    /\ transactions < MaxItems
    /\ transactions' = transactions + 1
    /\ UNCHANGED <<metaData, receipts, nonces, nonceList, views, outside>>

AppendTransactionMetaData ==
    /\ metaData < MaxItems
    /\ metaData' = metaData + 1
    /\ UNCHANGED <<transactions, receipts, nonces, nonceList, views, outside>>

AppendReceipt(r) ==
    /\ Len(receipts) < MaxItems
    /\ receipts' = Append(receipts, r)
    /\ UNCHANGED <<transactions, metaData, nonces, nonceList, views, outside>>

MayIndex(i) == "bounds" \in CallerRules => i <= transactions

\* The elements of a vector stay as they were but for the one written.
SetTransaction(i) ==
    /\ MayIndex(i)
    /\ outside' = (outside \/ i > transactions)
    /\ UNCHANGED <<inner, nonceList, views>>

\* std::vector::resize: cut off, or filled up with default-constructed receipts.
Resize(list, n) == [j \in 1 .. n |-> IF j <= Len(list) THEN list[j] ELSE Blank]

WriteReceipt(list, i, r) ==
    /\ receipts' = [j \in 1 .. Len(list) |-> IF j = i THEN r ELSE list[j]]
    /\ outside' = (outside \/ i > Len(list))

\* Faulty: no resize.
SetReceiptInPlace(i, r) ==
    /\ MayIndex(i)
    /\ WriteReceipt(receipts, i, r)
    /\ UNCHANGED <<transactions, metaData, nonces, nonceList, views>>

\* Faulty: resized whether the index is past the end or not.
SetReceiptResizing(i, r) ==
    /\ MayIndex(i)
    /\ WriteReceipt(Resize(receipts, transactions), i, r)
    /\ UNCHANGED <<transactions, metaData, nonces, nonceList, views>>

\* setReceipt(i, r): past the end, there will be as many receipts as there are
\* transactions, be that more than before or fewer, and be it enough or not.
SetReceipt(i, r) ==
    /\ MayIndex(i)
    /\ WriteReceipt(IF i > Len(receipts) THEN Resize(receipts, transactions) ELSE receipts, i, r)
    /\ UNCHANGED <<transactions, metaData, nonces, nonceList, views>>

-----------------------------------------------------------------------------
(* Wrappers over one element *)

NewView(part, i) ==
    /\ views' = views \cup {[part |-> part, index |-> i]}
    /\ UNCHANGED <<inner, nonceList, outside>>

\* transaction(i) and receipt(i) do not look at the index.
View(part, i) ==
    /\ "bounds" \in CallerRules => i <= Size(part)
    /\ NewView(part, i)

\* transactionMetaData(i) returns nullptr for an element that is not there.
ViewMetaData(i) ==
    /\ i <= metaData
    /\ NewView("metaData", i)

Release(v) ==
    /\ v \in views
    /\ views' = views \ {v}
    /\ UNCHANGED <<inner, nonceList, outside>>

-----------------------------------------------------------------------------
\* decode() or setInner(): every vector is replaced, m_nonceList is left.
Replace ==
    /\ "fresh" \in CallerRules => nonceList = <<>> /\ views = {}
    /\ transactions' \in 0 .. MaxItems
    /\ metaData' \in 0 .. MaxItems
    /\ \E n \in 0 .. MaxItems : receipts' \in [1 .. n -> Receipts]
    /\ \E n \in 0 .. MaxItems : nonces' \in [1 .. n -> Texts]
    /\ "numeric" \in CallerRules => \A i \in DOMAIN nonces' : nonces'[i] # Unreadable
    /\ UNCHANGED <<nonceList, views, outside>>

Elements ==
    \/ AppendTransaction \/ AppendTransactionMetaData
    \/ \E r \in Receipts : AppendReceipt(r)
    \/ \E i \in Indexes : SetTransaction(i)
    \/ \E i \in Indexes, r \in Receipts : SetReceipt(i, r)

Nonces ==
    \/ \E n \in 0 .. MaxItems : \E list \in [1 .. n -> Numbers] : SetNonceList(list)
    \/ ReadNonceList

Wrappers ==
    \/ \E part \in Parts \ {"metaData"}, i \in Indexes : View(part, i)
    \/ \E i \in Indexes : ViewMetaData(i)
    \/ \E v \in Views : Release(v)

Next == Elements \/ Nonces \/ Wrappers \/ Replace

Spec == Init /\ [][Next]_vars
-----------------------------------------------------------------------------
\* nonceList() returns the numbers of the whole nonce list the block has now, also
\* after it was replaced or after an earlier call threw half way.
NoncesCurrent ==
    nonceList # <<>> => /\ \A i \in DOMAIN nonces : nonces[i] # Unreadable
                        /\ nonceList = NumbersOf(nonces, Len(nonces))

\* No wrapper reads, and no setter wrote, past the end of a vector, whatever has
\* happened to the block since the wrapper was made.
InBounds ==
    /\ ~outside
    /\ \A v \in views : v.index <= Size(v.part)

\* Setting one receipt loses no other: growing the vector for it must not cut it.
ReceiptsKept ==
    [][\A i \in Indexes, r \in Receipts :
          SetReceipt(i, r) => \A j \in DOMAIN receipts \ {i} :
                                 j \in DOMAIN receipts' /\ receipts'[j] = receipts[j]]_vars
=============================================================================
