------------------------- MODULE MCTransactionReceipt -------------------------
(* An instance of TransactionReceiptImpl for TLC: two wrappers, so that two of *)
(* one receipt, or an owner and one of the block's or the result's, are alive  *)
(* at once; log entries of two kinds and none.                                 *)
EXTENDS TransactionReceiptImpl, TLC

CONSTANTS w1, w2, r1, none, gone, a, b

MCWrappers == {w1, w2}
Perms == Permutations(MCWrappers)

MCLogs == {<<>>, <<a>>, <<b>>}

AllRules == Rules
=============================================================================
