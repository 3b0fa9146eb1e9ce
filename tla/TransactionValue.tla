--------------------------- MODULE TransactionValue ---------------------------
(***************************************************************************)
(* What the transaction objects promise: a transaction is the value of its *)
(* signed fields and attributes, and sending it sends that value.  There   *)
(* are no caches, no derived hash and no order in which operations have to *)
(* be called.                                                              *)
(***************************************************************************)
EXTENDS Naturals, Sequences

CONSTANTS Handles, Payloads, Attributes, Keys, MaxTxs

VARIABLES
    value,   \* the transaction in each cell, Absent when there is none
    size,    \* transactions in the block
    at,      \* the cell each wrapper stands for
    sent     \* the last transaction sent

NoCell == 0
Cells == Handles \cup (1 .. MaxTxs)
Absent == <<>>

Values == [data : Payloads, attribute : Attributes,
           signature : {<<>>} \cup {<<[key |-> k, of |-> d]>> : k \in Keys, d \in Payloads}]

Live(h) == at[h] # NoCell
ValueOf(h) == value[at[h]]

Init ==
    /\ value = [c \in Cells |-> Absent]
    /\ size = 0
    /\ at = [h \in Handles |-> NoCell]
    /\ sent = Absent

\* A new object: built from fields, signed or not, or received.
Make(h) ==
    /\ ~Live(h)
    /\ at' = [at EXCEPT ![h] = h]
    /\ \E v \in {<<u>> : u \in Values} \cup {sent} :
          /\ v # Absent
          /\ v[1].signature # <<>> => v[1].signature[1].of = v[1].data
          /\ value' = [value EXCEPT ![h] = v]
    /\ UNCHANGED <<size, sent>>

View(h) ==
    /\ ~Live(h)
    /\ \E i \in 1 .. size : at' = [at EXCEPT ![h] = i]
    /\ UNCHANGED <<value, size, sent>>

Drop(h) ==
    /\ Live(h)
    /\ at' = [at EXCEPT ![h] = NoCell]
    /\ value' = IF at[h] = h THEN [value EXCEPT ![h] = Absent] ELSE value
    /\ UNCHANGED <<size, sent>>

\* Sending sends the object as it is; after takeEncoded there may be nothing.
Send(h) ==
    /\ Live(h)
    /\ sent' \in {ValueOf(h), Absent}
    /\ UNCHANGED <<value, size, at>>

\* The owner signs the data as they are, or changes an attribute.
Sign(h) ==
    /\ at[h] = h
    /\ \E k \in Keys :
          LET v == ValueOf(h)[1]
          IN value' = [value EXCEPT ![h] =
                          <<[v EXCEPT !.signature = <<[key |-> k, of |-> v.data]>>]>>]
    /\ UNCHANGED <<size, at, sent>>

Annotate(h) ==
    /\ at[h] = h
    /\ \E a \in Attributes :
          LET v == ValueOf(h)[1]
          IN value' = [value EXCEPT ![h] = <<[v EXCEPT !.attribute = a]>>]
    /\ UNCHANGED <<size, at, sent>>

\* A cell takes the value of an object or of the transaction received.
Replace(c) ==
    /\ value[c] # Absent
    /\ \E v \in {ValueOf(g) : g \in {x \in Handles : Live(x)}} \cup {sent} :
          v # Absent /\ value' = [value EXCEPT ![c] = v]
    /\ UNCHANGED <<size, at, sent>>

AddToBlock(h) ==
    /\ Live(h)
    /\ size < MaxTxs
    /\ size' = size + 1
    /\ value' = [value EXCEPT ![size + 1] = ValueOf(h)]
    /\ UNCHANGED <<at, sent>>

\* The block is replaced by one of transactions that there are or that came.
ReplaceBlock ==
    /\ UNCHANGED <<at, sent>>
    /\ size' \in 0 .. MaxTxs
    /\ \A h \in Handles : at[h] \in 1 .. MaxTxs => at[h] <= size'
    /\ value' \in [Cells -> {value[c] : c \in Cells} \cup {sent, Absent}]
    /\ \A h \in Handles : value'[h] = value[h]
    /\ \A i \in 1 .. MaxTxs : value'[i] = Absent <=> size' < i

Next ==
    \/ ReplaceBlock
    \/ \E h \in Handles : \/ Make(h) \/ View(h) \/ Drop(h) \/ Send(h)
                          \/ Sign(h) \/ Annotate(h) \/ AddToBlock(h)
    \/ \E c \in Cells : Replace(c)

valueVars == <<value, size, at, sent>>

Spec == Init /\ [][Next]_valueVars
=============================================================================
