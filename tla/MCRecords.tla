----------------------------- MODULE MCRecords -----------------------------
(***************************************************************************)
(* Instances of Records for TLC: register x has two words, register y one; *)
(* each record is of the kind its name says, and named for x.              *)
(***************************************************************************)
EXTENDS Records

CONSTANTS x, y, read, write, watch, watch2, sync, intr

MCSize == [r \in Regs |-> IF r = x THEN 2 ELSE 1]
MCKind == [i \in Interests |->
    CASE i = read -> "read" [] i = write -> "write" [] i \in {watch, watch2} -> "watch"
      [] i = sync -> "sync" [] i = intr -> "intr"]
MCNamed == [i \in Interests |-> IF x \in Regs THEN x ELSE y]
============================================================================
