---------------------------- MODULE MCBlockHeader ----------------------------
(* Instances of BlockHeaderImpl for TLC: two wrappers, so that two of the same *)
(* block's header, or an owner and one of the block's, are alive at once.      *)
EXTENDS BlockHeaderImpl, TLC

CONSTANTS w1, w2, block, none, p1, p2, s1, s2

MCWrappers == {w1, w2}
Perms == Permutations(MCWrappers)

AllRules == Rules
=============================================================================
