-------------------------- MODULE MCTransactionDecode --------------------------
(* An instance of TransactionDecode for TLC: two transactions that differ in    *)
(* every field, of two signers, cut off at every place.                         *)
EXTENDS TransactionDecode

CONSTANTS r1, r2, cut, k1, k2

AllRules == RulesOfDecoding
=============================================================================
