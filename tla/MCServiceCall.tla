----------------------------- MODULE MCServiceCall -----------------------------
(* Instances of ServiceCall for TLC. *)
EXTENDS ServiceCall, TLC

CONSTANTS c1, c2

TwoCalls == {c1, c2}
Perms == Permutations(TwoCalls)

AllRules == Rules
NoRules == {}
=============================================================================
