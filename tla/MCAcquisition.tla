--------------------------- MODULE MCAcquisition ---------------------------
(***************************************************************************)
(* An instance of Acquisition for TLC: two channels and a few words, used  *)
(* by the IOC, or by two clients.  The size of a WF record was left at     *)
(* zero, or, of channel 1, below the register's.                           *)
(***************************************************************************)
EXTENDS Acquisition, TLC

MCMasks == {{1}, {0, 1}}
MCSizes == {[ch \in Channels |-> IF ch = 1 THEN 2 ELSE 0]}
Symmetric == Permutations(Clients)
MCMaxPuts == [ioc |-> 2, raw |-> 4]
MCMaxTags == [ioc |-> 2, raw |-> 4]
MCUnset == {[ch \in Channels |-> 0]}
============================================================================
