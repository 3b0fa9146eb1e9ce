-------------------------------- MODULE MCBlock --------------------------------
(* Instances of BlockImpl for TLC: vectors of up to two elements, so that one *)
(* may be longer than another by one or by two.                               *)
EXTENDS BlockImpl

AllRules == Rules
=============================================================================
