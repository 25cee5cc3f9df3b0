-------------------------- MODULE RegisterService --------------------------
(***************************************************************************)
(* What the driver promises to the records that use a register.  Words     *)
(* arrive one by one, in any order; a read may complete only when every    *)
(* word of the cache was sampled by the device after that read began, and  *)
(* a write only when the device has stored every word after that write     *)
(* began.  Engine.tla implements this specification.                       *)
(***************************************************************************)
EXTENDS Registers

Done(r, cache) ==
    \/ state[r] = "Reading" /\ \A o \in Offsets(r) : cache[o] = opSeq[r]
    \/ state[r] = "Writing" /\ Offsets(r) \subseteq devWritten[r]

\* One more word of a read arrives; the last one completes the operation.
Fetched(r, cache) ==
    /\ memRx' = [memRx EXCEPT ![r] = cache]
    /\ \/ UNCHANGED <<state, flagVars, listVars, records, opSeq, devWritten>>
       \/ Done(r, cache) /\ Finish(r)

Fetch(r) ==
    /\ state[r] = "Reading"
    /\ \E o \in Offsets(r) : Fetched(r, [memRx[r] EXCEPT ![o] = opSeq[r]])
    /\ UNCHANGED present

\* The device stores some words of the writes in progress.
Store ==
    /\ devWritten' \in [Regs -> SUBSET Nat]
    /\ \A r \in Regs :
          /\ devWritten[r] \subseteq devWritten'[r]
          /\ state[r] # "Writing" => devWritten'[r] = devWritten[r]
          /\ devWritten'[r] \ devWritten[r] \subseteq Offsets(r)
    /\ UNCHANGED <<present, state, flagVars, listVars, records, opSeq, memRx>>

\* A write completes.
Acknowledge(r) ==
    /\ state[r] = "Writing"
    /\ Done(r, memRx[r])
    /\ Finish(r)
    /\ UNCHANGED <<present, memRx>>

----------------------------------------------------------------------------
Init == RegistersInit

Next ==
    \/ \E r \in Regs, write \in BOOLEAN, i \in Interests \cup {NoInterest} : Queue(r, write, i)
    \/ \E r \in Regs : Fetch(r) \/ Acknowledge(r) \/ Cancel(r)
    \/ Store
    \/ Reset
    \/ \E named \in SUBSET Regs : Attach(named)
    \/ Swap

Spec == Init /\ [][Next]_svcVars
============================================================================
