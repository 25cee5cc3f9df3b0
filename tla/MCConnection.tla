---------------------------- MODULE MCConnection ----------------------------
(***************************************************************************)
(* Instances of Connection for TLC: the ROM of the device at address A     *)
(* names register x, the one at B names nothing; record i names x, record  *)
(* j the ROM.                                                              *)
(***************************************************************************)
EXTENDS Connection

CONSTANTS hello, rom2, rom16, x, A, B, i, j

MCSize == [r \in Regs |-> 1]
MCDescribed == [a \in Address |-> IF a = A THEN {x} \cap Regs ELSE {}]
MCNamed == [k \in Interests |-> IF k = i THEN x ELSE rom2]
============================================================================
