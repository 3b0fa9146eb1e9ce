--------------------------- MODULE TransactionDecode ---------------------------
(***************************************************************************)
(* TransactionImpl::decode() and createTransaction() on bytes of which the *)
(* end is missing.  decode() takes the bytes into m_buffer and then reads  *)
(* the fields, one after the other in the order of their tags.  A field    *)
(* cut in the middle makes the reading throw, and leaves what was read;    *)
(* but every field of a Transaction is optional, so bytes that end between *)
(* two fields are read without an error, the empty bytes included.         *)
(*                                                                         *)
(* nonce() keeps the number it read in m_nonce, and returns it when the    *)
(* object has no nonce text.                                               *)
(*                                                                         *)
(* The setters, hash() and the wrappers of a block are in TransactionImpl. *)
(* Names that other modules have too begin with "Decode" here, so that one *)
(* module can extend this one and OutputBuffer.                            *)
(***************************************************************************)
EXTENDS Naturals, Sequences

CONSTANTS
    Rests,     \* the hashed fields but the nonce, taken together
    BlankRest, \* those of a default TransactionData
    Nonces,    \* numbers in nonce texts
    Keys,      \* signing keys
    Attributes, BlankAttribute,  \* importTime, attribute and source, taken together
    Cut,       \* what a field that was cut off may hold
    DecoderRules  \* what callers keep to; a subset of RulesOfDecoding

(* "discard": an object whose decode() threw is not used.                  *)
(* "fresh":   decode() is called on an object with nothing in its caches.  *)
(* The factory keeps to both; nothing in the code makes others do so.      *)
RulesOfDecoding == {"discard", "fresh"}

ASSUME BlanksAssumption == BlankRest \in Rests /\ BlankAttribute \in Attributes
ASSUME NoncesAssumption == Nonces \subseteq Nat
ASSUME CutAssumption == Cut \notin Rests \cup Attributes

VARIABLES
    bytes,   \* bytes that came from elsewhere; <<>>: none
    state,   \* "none": no object, "whole", or "spoilt": its decode() threw
    inner, buffer, dataBuffer, nonce,  \* *m_inner(), m_buffer, m_dataBuffer, m_nonce
    checked  \* the object is as createTransaction(bytes, true) returned it

decodeVars == <<bytes, state, inner, buffer, dataBuffer, nonce, checked>>

Optional(S) == {<<>>} \cup [1 .. 1 -> S]

Datas == [rest : Rests \cup {Cut}, nonce : Optional(Nonces)]
Hash(data) == [hashOf |-> data]
Hashes == [hashOf : Datas]
Signatures == [key : Keys, over : Hashes]

Inners == [data : Datas, dataHash : Optional(Hashes \cup {Cut}),
           signature : Optional(Signatures \cup {Cut}),
           attribute : Attributes \cup {Cut}, sender : Optional(Keys \cup {Cut})]

Blank == [data |-> [rest |-> BlankRest, nonce |-> <<>>], dataHash |-> <<>>,
          signature |-> <<>>, attribute |-> BlankAttribute, sender |-> <<>>]

\* A signed transaction, with or without its sender.
Signed(r, n, a, k, withSender) ==
    LET data == [rest |-> r, nonce |-> <<n>>]
    IN [data |-> data, dataHash |-> <<Hash(data)>>,
        signature |-> <<[key |-> k, over |-> Hash(data)]>>, attribute |-> a,
        sender |-> IF withSender THEN <<k>> ELSE <<>>]

\* Faulty: the sender is sent before what proves it.
FieldsSenderEarly == <<"data", "sender", "dataHash", "signature", "attribute">>

\* The fields in the order of their tags.
Fields == <<"data", "dataHash", "signature", "attribute", "sender">>

\* The first `upto' fields of an object's encoding, and, when `torn', a part of the next.
Encodings == [of : Inners, upto : 0 .. Len(Fields), torn : BOOLEAN]
Encoding(in) == [of |-> in, upto |-> Len(Fields), torn |-> FALSE]

\* Only a field that is there can be cut: an empty one is not sent.
Possible(b) ==
    b.torn => /\ b.upto < Len(Fields)
              /\ b.of[Fields[b.upto + 1]] # Blank[Fields[b.upto + 1]]

\* m_buffer holding these bytes.
Holding(b) == IF b.upto = 0 /\ ~b.torn THEN <<>> ELSE <<b>>

\* The object after readFrom(): a default object, with the fields that came.
Read(b) ==
    [f \in DOMAIN Blank |->
        IF \E i \in 1 .. b.upto : Fields[i] = f THEN b.of[f] ELSE Blank[f]]

\* What may be in a field in which the bytes ended: of the hashed fields, those
\* before the end, and all of them when only the mark of their end is missing.
Leftovers(f, v) ==
    CASE f = "data" -> {Blank.data, [rest |-> Cut, nonce |-> <<>>],
                        [rest |-> Cut, nonce |-> v.nonce], v}
      [] f = "attribute" -> {BlankAttribute, Cut}
      [] OTHER -> {<<>>, <<Cut>>}

DecodeInit ==
    /\ bytes = <<>> /\ state = "none"
    /\ inner = Blank /\ buffer = <<>> /\ dataBuffer = <<>> /\ nonce = 0
    /\ checked = FALSE

Usable == state = "whole" \/ (state = "spoilt" /\ "discard" \notin DecoderRules)

DecodeTypeOK ==
    /\ bytes \in Optional(Encodings)
    /\ state \in {"none", "whole", "spoilt"}
    /\ inner \in Inners
    /\ buffer \in Optional(Encodings)
    /\ dataBuffer \in Optional(Datas)
    /\ nonce \in Nonces \cup {0}
    /\ checked \in BOOLEAN

-----------------------------------------------------------------------------
\* Another program encoded a transaction; all of the bytes come, or a part.
Arrive(t, upto, torn) ==
    /\ LET b == [of |-> t, upto |-> upto, torn |-> torn]
       IN Possible(b) /\ bytes' = <<b>>
    /\ UNCHANGED <<state, inner, buffer, dataBuffer, nonce, checked>>

Create(in, buf, dataBuf, isChecked) ==
    /\ state = "none"
    /\ state' = "whole" /\ inner' = in
    /\ buffer' = buf /\ dataBuffer' = dataBuf /\ nonce' = 0
    /\ checked' = isChecked
    /\ UNCHANGED bytes

\* createTransaction(fields)
CreateTransaction(r, n, a) ==
    Create([Blank EXCEPT !.data = [rest |-> r, nonce |-> <<n>>], !.attribute = a],
           <<>>, <<>>, FALSE)

\* createTransaction(fields, keyPair), which hashes the object.
CreateSigned(r, n, a, k) ==
    LET in == Signed(r, n, a, k, FALSE) IN Create(in, <<>>, <<in.data>>, FALSE)

\* createTransaction(bytes, false); when decode() throws the object is gone.
CreateUnchecked ==
    /\ bytes # <<>> /\ ~bytes[1].torn
    /\ Create(Read(bytes[1]), Holding(bytes[1]), <<>>, FALSE)

\* createTransaction(bytes, true): verify() is content with a sender that came;
\* otherwise the signature has to be there, over the hash.
CreateChecked ==
    /\ bytes # <<>> /\ ~bytes[1].torn
    /\ LET in == Read(bytes[1])
           hash == IF in.dataHash = <<>> THEN Hash(in.data) ELSE in.dataHash[1]
       IN \/ /\ in.sender # <<>>
             /\ Create(in, Holding(bytes[1]), <<>>, TRUE)
          \/ /\ in.sender = <<>> /\ in.signature # <<>> /\ in.signature[1].over = hash
             /\ Create([in EXCEPT !.dataHash = <<hash>>, !.sender = <<in.signature[1].key>>],
                       Holding(bytes[1]), IF in.dataHash = <<>> THEN <<in.data>> ELSE <<>>, TRUE)

\* Faulty: the fields that do not come keep what they hold.
DecodeMerging ==
    /\ bytes # <<>> /\ Usable
    /\ "fresh" \in DecoderRules => buffer = <<>> /\ dataBuffer = <<>> /\ nonce = 0
    /\ buffer' = Holding(bytes[1])
    /\ checked' = FALSE
    /\ state' = "whole"
    /\ inner' = [f \in DOMAIN inner |->
                   IF \E i \in 1 .. bytes[1].upto : Fields[i] = f THEN bytes[1].of[f] ELSE inner[f]]
    /\ UNCHANGED <<bytes, dataBuffer, nonce>>

\* decode() on an object that is there.
Decode ==
    /\ bytes # <<>> /\ Usable
    /\ "fresh" \in DecoderRules => buffer = <<>> /\ dataBuffer = <<>> /\ nonce = 0
    /\ buffer' = Holding(bytes[1])
    /\ checked' = FALSE
    /\ LET b == bytes[1]
       IN \/ ~b.torn /\ inner' = Read(b) /\ state' = "whole"
          \/ /\ b.torn
             /\ LET f == Fields[b.upto + 1]
                IN \E v \in Leftovers(f, b.of[f]) : inner' = [Read(b) EXCEPT ![f] = v]
             /\ state' = "spoilt"
    /\ UNCHANGED <<bytes, dataBuffer, nonce>>

\* Faulty: what was read once is returned, whatever is there.
NonceKept == nonce

\* What nonce() returns, and leaves in m_nonce.
NonceValue == IF inner.data.nonce = <<>> THEN nonce ELSE inner.data.nonce[1]

ReadNonce ==
    /\ Usable
    /\ nonce' = NonceValue
    /\ UNCHANGED <<bytes, state, inner, buffer, dataBuffer, checked>>

\* The hashed fields as encode() has them.
DataBytes == IF dataBuffer = <<>> THEN inner.data ELSE dataBuffer[1]

\* Faulty: the fields are stored for their hash.
EncodeRaw ==
    /\ Usable /\ buffer = <<>>
    /\ LET hashed == [inner EXCEPT !.dataHash = <<DataBytes>>]
       IN inner' = hashed /\ buffer' = <<Encoding(hashed)>>
    /\ dataBuffer' = <<DataBytes>>
    /\ UNCHANGED <<bytes, state, nonce, checked>>

\* encode(false) with an empty m_buffer.
Encode ==
    /\ Usable /\ buffer = <<>>
    /\ LET hashed == [inner EXCEPT !.dataHash = <<Hash(DataBytes)>>]
       IN inner' = hashed /\ buffer' = <<Encoding(hashed)>>
    /\ dataBuffer' = <<DataBytes>>
    /\ UNCHANGED <<bytes, state, nonce, checked>>

Discard ==
    /\ state # "none"
    /\ state' = "none" /\ inner' = Blank
    /\ buffer' = <<>> /\ dataBuffer' = <<>> /\ nonce' = 0
    /\ checked' = FALSE
    /\ UNCHANGED bytes

DecodeNext ==
    \/ \E r \in Rests, n \in Nonces, a \in Attributes : CreateTransaction(r, n, a)
    \/ \E r \in Rests, n \in Nonces, a \in Attributes, k \in Keys :
          \/ CreateSigned(r, n, a, k)
          \/ \E withSender, torn \in BOOLEAN, upto \in 0 .. Len(Fields) :
                Arrive(Signed(r, n, a, k, withSender), upto, torn)
    \/ CreateUnchecked \/ CreateChecked
    \/ Decode \/ ReadNonce \/ Encode \/ Discard

DecodeSpec == DecodeInit /\ [][DecodeNext]_decodeVars
-----------------------------------------------------------------------------
\* The bytes encode() hands out can be read, and come to the object they were taken
\* from: a decode() that threw half way leaves no object in use whose cached bytes
\* and fields differ (decode() fills m_buffer before it reads).
BufferIsObject ==
    Usable /\ buffer # <<>> =>
        /\ ~buffer[1].torn
        /\ \A f \in {"data", "signature", "attribute"} : Read(buffer[1])[f] = inner[f]

\* nonce() returns the number in the object's own nonce text, 0 when it has none, not
\* the number of what the object held before (m_nonce is kept across decode()).
NonceCurrent ==
    Usable => NonceValue = IF inner.data.nonce = <<>> THEN 0 ELSE inner.data.nonce[1]

\* Wherever the bytes ended, a transaction from createTransaction(bytes, true) has
\* the hashed fields, the hash and the signature that were encoded, and the signer
\* for its sender: bytes that end between two fields, which decode() reads without
\* an error, do not pass for a transaction of its own.
CheckedIsWhole ==
    checked =>
        /\ buffer # <<>>
        /\ \A f \in {"data", "dataHash", "signature"} : inner[f] = buffer[1].of[f]
        /\ inner.sender = <<inner.signature[1].key>>
=============================================================================
