----------------------------- MODULE MCTransaction -----------------------------
(* Instances of TransactionImpl for TLC: two wrappers, so that two views of one *)
(* slot, or an owner and a view, are alive at once.                             *)
EXTENDS TransactionImpl, TLC

CONSTANTS h1, h2, d1, d2, k1, k2

MCHandles == {h1, h2}
MCPayloads == {d1, d2}
MCAttributes == {0, 1}
Perms == Permutations(MCHandles)

AllRules == Rules
FreshAndSignOnce == {"fresh", "signonce"}
=============================================================================
