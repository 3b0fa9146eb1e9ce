---------------------------- MODULE MCSharedObject ----------------------------
(* Instances of SharedObject for TLC: three threads and two wrappers, so that *)
(* two threads share a wrapper and a third has one over the same object.      *)
EXTENDS SharedObject, TLC

CONSTANTS t1, t2, t3, w1, w2

MCThreads == {t1, t2, t3}
MCWrappers == {w1, w2}
Perms == Permutations(MCThreads) \cup Permutations(MCWrappers)

AllRules == Rules
=============================================================================
