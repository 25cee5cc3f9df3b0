------------------------------ MODULE MCEngine ------------------------------
(***************************************************************************)
(* Instances of Engine for TLC: register a has two words, register b one.  *)
(***************************************************************************)
EXTENDS Engine

CONSTANTS a, b

MCSize == [r \in Regs |-> IF r = a THEN 2 ELSE 1]
============================================================================
