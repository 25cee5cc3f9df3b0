-------------------------- MODULE Connection_proofs --------------------------
(***************************************************************************)
(* Theorems about Connection, for every number of registers, records and   *)
(* device addresses, and every number of calls and faults.                 *)
(***************************************************************************)
EXTENDS Connection, Registers_proofs

USE RegistersAssumption, ConnectionAssumption

\* Force Error has been served by a reset that left nothing behind: nothing is on
\* its way, so that no timeout can follow.
Halt ==
    halted /\ ~errorReq =>
        /\ current = "Error"
        /\ ~resetReq
        /\ \A r \in Regs : sentTo[r] = NoAddress

\* A reply that has been received comes from the device at the current address,
\* unless that has been set since, and then a reset is pending.
Replies ==
    \A q \in inbox : q.to \in Address /\ (~resetReq => q.to = peerAddr)

\* A bootstrap register is never written: if it is in sync it has been read.
BootRead ==
    \A r \in Boot :
        /\ state[r] # "Writing"
        /\ ~writeQueued[r]
        /\ state[r] = "InSync" => source[r] # NoAddress

\* While records are told that they are connected.
Telling ==
    pc = "Connected" => current = "Inspecting" /\ (~resetReq => owner = peerAddr)

\* Registers other than the bootstrap ones exist only once the ROM has been read,
\* and only registers that exist have operations.
Known ==
    /\ Boot \subseteq present
    /\ current = "Running" \/ pc = "Connected" \/ present = Boot
    /\ \A r \in Regs : InProgress(r) => r \in present

Inv == TypeOK /\ Halt /\ OneDevice /\ Replies /\ BootRead /\ Telling /\ Known

----------------------------------------------------------------------------
(***************************************************************************)
(* Each action keeps the variables typed.                                  *)
(***************************************************************************)

\* Reset keeps them typed, whatever the flag of a deleted register reads as.
LEMMA ResetDeviceTyped ==
    ASSUME TypeOK, NEW next \in {"Error", "Idle", "Searching"}, ResetDevice(next),
           calls' \in Nat, faults' \in Nat
    PROVE  TypeOK'
<1>1. RegistersTypeOK'  BY ResetTyped DEF TypeOK, ResetDevice
<1>2. regOf' \in [Interests -> Regs \cup {NoReg}] /\ spared' \subseteq Interests
    BY DEF TypeOK, ResetDevice, Detached
<1>3. /\ sentTo' \in [Regs -> Address \cup {Nowhere, NoAddress}]
      /\ source' \in [Regs -> Address \cup {NoAddress}]
      /\ owner' \in Address \cup {NoAddress}
      /\ pc' = "Send" /\ inbox' = {} /\ current' = next
      /\ resetReq' = FALSE /\ errorReq' = FALSE
      /\ UNCHANGED <<peerName, peerAddr, asked, halted>>
    BY DEF ResetDevice, peerVars
<1> QED  BY <1>1, <1>2, <1>3 DEF TypeOK

LEMMA ReadAllTyped ==
    ASSUME RegistersTypeOK, NEW S \in SUBSET Regs, ReadAll(S)
    PROVE  RegistersTypeOK'
<1>1. state' \in [Regs -> States]  BY DEF ReadAll, RegistersTypeOK, States
<1>2. opSeq' \in [Regs -> Nat]  BY DEF ReadAll, RegistersTypeOK
<1>3. UNCHANGED <<present, readQueued, writeQueued, recordsInprog, recordsWrite, recordsRead,
                  records, memRx, devWritten>>
    BY DEF ReadAll, flagVars, listVars
<1> QED  BY <1>1, <1>2, <1>3 DEF RegistersTypeOK

LEMMA SvcUnchanged ==
    ASSUME RegistersTypeOK, UNCHANGED svcVars
    PROVE  RegistersTypeOK' /\ state' = state /\ writeQueued' = writeQueued /\ present' = present
BY DEF RegistersTypeOK, svcVars, flagVars, listVars

LEMMA SendTyped == ASSUME TypeOK, Send PROVE TypeOK'
<1>1. RegistersTypeOK'
    BY DEF TypeOK, Send, Swap, RegistersTypeOK, flagVars, listVars
<1>2. sentTo' \in [Regs -> Address \cup {Nowhere, NoAddress}]
    BY DEF TypeOK, Send, Unsent
<1>3. asked' \subseteq [to : Address \cup {Nowhere}, reg : Regs, op : Nat]
    <2>1. \A r \in Unsent : [to |-> peerAddr, reg |-> r, op |-> opSeq[r]]
                              \in [to : Address \cup {Nowhere}, reg : Regs, op : Nat]
        BY DEF TypeOK, RegistersTypeOK, Unsent
    <2> QED  BY <2>1 DEF TypeOK, Send
<1>4. inbox' \subseteq asked'  BY DEF TypeOK, Send
<1>5. UNCHANGED <<current, resetReq, errorReq, peerName, peerAddr, regOf, spared, source, owner, halted,
                  calls, faults>>
      /\ pc' = "Unlocked"
    BY DEF Send, devVars, peerVars, boundVars
<1> QED  BY <1>1, <1>2, <1>3, <1>4, <1>5 DEF TypeOK

LEMMA ProcessTyped == ASSUME TypeOK, Replies, NEW q \in inbox, Process(q) PROVE TypeOK'
<1>0. q \in [to : Address \cup {Nowhere}, reg : Regs, op : Nat]  BY DEF TypeOK
<1>1. /\ inbox' \subseteq asked'
      /\ UNCHANGED <<current, resetReq, errorReq, peerName, peerAddr, regOf, spared, owner, pc, asked,
                     halted, calls, faults>>
    BY DEF TypeOK, Process, devVars, peerVars, boundVars
<1>2. CASE Expected(q)
    <2>1. memRx' = memRx
          \/ memRx' = [memRx EXCEPT ![q.reg] = [o \in Offsets(q.reg) |-> q.op]]
        BY <1>2 DEF Process
    <2>2. DOMAIN memRx' = Regs /\ \A r \in Regs : memRx'[r] \in [Offsets(r) -> Nat]
        <3>1. [o \in Offsets(q.reg) |-> q.op] \in [Offsets(q.reg) -> Nat]  BY <1>0
        <3> QED  BY <1>0, <2>1, <3>1 DEF TypeOK, RegistersTypeOK
    <2>3. RegistersTypeOK'
        BY <1>0, <1>2, <2>2, FinishTyped DEF TypeOK, Process
    <2>4. sentTo' \in [Regs -> Address \cup {Nowhere, NoAddress}]
        BY <1>0, <1>2 DEF TypeOK, Process
    <2>5. source' \in [Regs -> Address \cup {NoAddress}]
        BY <1>0, <1>2 DEF TypeOK, Process, Replies
    <2> QED  BY <1>1, <2>3, <2>4, <2>5 DEF TypeOK
<1>3. CASE ~Expected(q)
    <2>1. RegistersTypeOK' /\ UNCHANGED <<sentTo, source>>
        BY <1>3, SvcUnchanged DEF TypeOK, Process
    <2> QED  BY <1>1, <2>1 DEF TypeOK
<1> QED  BY <1>2, <1>3

LEMMA TimeoutTyped == ASSUME TypeOK, NEW r \in Regs, Timeout(r) PROVE TypeOK'
<1>1. RegistersTypeOK'  BY CancelTyped DEF TypeOK, Timeout
<1>2. sentTo' \in [Regs -> Address \cup {Nowhere, NoAddress}]  BY DEF TypeOK, Timeout
<1>3. faults' \in Nat  BY DEF TypeOK, Timeout
<1> QED  BY <1>1, <1>2, <1>3 DEF TypeOK, Timeout, peerVars

\* The steps of the worker that concern no other variable than pc and current.
LEMMA QuietTyped ==
    ASSUME TypeOK, Relock \/ ProcessDone \/ StateRunning \/ StateSame
    PROVE  TypeOK'
<1>1. UNCHANGED svcVars  BY DEF Relock, ProcessDone, StateRunning, StateSame
<1>2. RegistersTypeOK'  BY <1>1, SvcUnchanged DEF TypeOK
<1>3. UNCHANGED <<resetReq, errorReq, peerName, peerAddr, regOf, spared, sentTo, source, owner,
                  asked, inbox, halted, calls, faults>>
    BY DEF Relock, ProcessDone, StateRunning, StateSame, devVars, peerVars, regVars, boundVars
<1>4. /\ pc' \in {"Send", "Process", "State"}
      /\ current' \in {current, "Running"}
    BY DEF Relock, ProcessDone, StateRunning, StateSame, devVars
<1> QED  BY <1>2, <1>3, <1>4 DEF TypeOK

LEMMA ReceiveTyped == ASSUME TypeOK, NEW q \in asked, Receive(q) PROVE TypeOK'
<1>1. RegistersTypeOK'  BY SvcUnchanged DEF TypeOK, Receive
<1> QED  BY <1>1 DEF TypeOK, Receive, devVars, peerVars, regVars, boundVars

LEMMA HelloTyped == ASSUME TypeOK, StateHello PROVE TypeOK'
<1>1. RegistersTypeOK'  BY ReadAllTyped DEF TypeOK, StateHello, Roms
<1>2. current' \in {"Searching", "Inspecting"}  BY DEF StateHello
<1> QED  BY <1>1, <1>2 DEF TypeOK, StateHello, peerVars, regVars, boundVars

LEMMA InspectTyped == ASSUME TypeOK, StateInspect PROVE TypeOK'
<1>1. owner' \in Address  BY DEF StateInspect
<1>2. Described[owner'] \in SUBSET Regs  BY <1>1
<1>3. RegistersTypeOK'
    BY <1>2 DEF TypeOK, StateInspect, Attach, RegistersTypeOK, flagVars, listVars
<1>4. regOf' \in [Interests -> Regs \cup {NoReg}] /\ spared' \subseteq Interests
    BY <1>2 DEF TypeOK, StateInspect
<1> QED  BY <1>1, <1>3, <1>4 DEF TypeOK, StateInspect, devVars, peerVars, boundVars

LEMMA SetAddressTyped ==
    ASSUME TypeOK, NEW name \in Address \cup {NoAddress}, SetAddress(name)
    PROVE  TypeOK'
<1>1. RegistersTypeOK'  BY SvcUnchanged DEF TypeOK, SetAddress
<1>2. calls' \in Nat /\ faults' = faults /\ pc' = pc  BY DEF TypeOK, SetAddress, Call
<1>3. peerName' = name /\ peerAddr' \in Address \cup {Nowhere}  BY DEF SetAddress
<1> QED  BY <1>1, <1>2, <1>3 DEF TypeOK, SetAddress, regVars

LEMMA ForceErrorTyped == ASSUME TypeOK, ForceError PROVE TypeOK'
<1>1. RegistersTypeOK'  BY SvcUnchanged DEF TypeOK, ForceError
<1>2. calls' \in Nat /\ faults' = faults /\ pc' = pc  BY DEF TypeOK, ForceError, Call
<1> QED  BY <1>1, <1>2 DEF TypeOK, ForceError, peerVars, regVars

\* A record's register, if it may be read or written, is one that is known.
LEMMA RegisterTyped ==
    ASSUME TypeOK, NEW i \in Interests, NEW write \in BOOLEAN, regOf[i] \in Regs,
           Queue(regOf[i], write, i), calls' \in Nat,
           UNCHANGED <<devVars, peerVars, regVars, inbox, asked, halted, pc, faults>>
    PROVE  TypeOK'
<1>1. RegistersTypeOK'  BY QueueTyped DEF TypeOK
<1> QED  BY <1>1 DEF TypeOK, devVars, peerVars, regVars

----------------------------------------------------------------------------
(***************************************************************************)
(* Each action keeps the invariant.                                        *)
(***************************************************************************)

\* A reset leaves no operation, no reply and no register but the bootstrap ones;
\* it serves an address that was set, and Force Error before it.
LEMMA ResetDeviceSafe ==
    ASSUME Inv, NEW next \in {"Error", "Idle", "Searching"}, ResetDevice(next),
           halted => next = "Error",
           calls' \in Nat, faults' \in Nat
    PROVE  Inv'
<1> USE DEF Inv
<1>1. TypeOK'  BY ResetDeviceTyped
<1>2. /\ current' = next /\ resetReq' = FALSE /\ pc' = "Send" /\ inbox' = {}
      /\ sentTo' = [r \in Regs |-> NoAddress] /\ source' = [r \in Regs |-> NoAddress]
      /\ UNCHANGED <<peerName, peerAddr, halted>>
    BY DEF ResetDevice, peerVars
<1>3. /\ present' = Boot /\ state' = [r \in Regs |-> "Invalid"]
      /\ writeQueued' = [r \in Regs |-> FALSE]
    BY DEF ResetDevice, Reset
<1>4. Halt' /\ Replies' /\ Telling'  BY <1>2 DEF Halt, Replies, Telling
<1>5. OneDevice'  BY <1>2 DEF OneDevice
<1>6. BootRead' /\ Known'  BY <1>3 DEF BootRead, Known, InProgress
<1> QED  BY <1>1, <1>4, <1>5, <1>6

LEMMA StateResetStep == ASSUME Inv, StateReset PROVE Inv'
<1> USE DEF Inv
<1> DEFINE next == IF errorReq THEN "Error"
                   ELSE IF peerName = NoAddress THEN "Idle" ELSE "Searching"
<1>1. ResetDevice(next) /\ next \in {"Error", "Idle", "Searching"}  BY DEF StateReset
<1>2. halted => next = "Error"  BY DEF StateReset, Halt
<1>3. calls' \in Nat /\ faults' \in Nat  BY DEF StateReset, boundVars, TypeOK
<1> HIDE DEF next
<1> QED  BY <1>1, <1>2, <1>3, ResetDeviceSafe

LEMMA WorkerErrorStep == ASSUME Inv, WorkerError PROVE Inv'
<1>1. ResetDevice("Error")  BY DEF WorkerError
<1>2. calls' \in Nat /\ faults' \in Nat  BY DEF WorkerError, Inv, TypeOK
<1> QED  BY <1>1, <1>2, ResetDeviceSafe

\* What is sent goes to the present address.
LEMMA SendStep == ASSUME Inv, Send PROVE Inv'
<1> USE DEF Inv
<1>1. TypeOK'  BY SendTyped
<1>2. /\ pc = "Send" /\ pc' = "Unlocked"
      /\ UNCHANGED <<present, state, writeQueued, current, resetReq, errorReq, peerName, peerAddr,
                     source, owner, inbox, halted>>
    BY DEF Send, Swap, flagVars, devVars, peerVars
<1>3. current = "Error" => sentTo' = [r \in Regs |-> sentTo[r]]  BY DEF Send
<1>4. Halt'  BY <1>2, <1>3 DEF Halt
<1>5. OneDevice' /\ Replies' /\ BootRead' /\ Telling' /\ Known'
    BY <1>2 DEF OneDevice, Replies, BootRead, Telling, Known, InProgress
<1> QED  BY <1>1, <1>4, <1>5

LEMMA ReceiveStep == ASSUME Inv, NEW q \in asked, Receive(q) PROVE Inv'
<1> USE DEF Inv
<1>1. TypeOK'  BY ReceiveTyped
<1>2. UNCHANGED <<svcVars, current, resetReq, errorReq, peerAddr, sentTo, source, owner, pc, halted>>
    BY DEF Receive, devVars, peerVars, regVars
<1>3. Replies'  BY <1>2 DEF Receive, Replies
<1>4. Halt' /\ OneDevice' /\ Telling'
    BY <1>2 DEF Halt, OneDevice, Telling
<1>5. BootRead' /\ Known'
    BY <1>2, SvcUnchanged DEF TypeOK, BootRead, Known, InProgress
<1> QED  BY <1>1, <1>3, <1>4, <1>5

\* A reply fills the cache of its register with data of the device it came from.
LEMMA ProcessStep == ASSUME Inv, NEW q \in inbox, Process(q) PROVE Inv'
<1> USE DEF Inv
<1>0. q.reg \in Regs /\ q.to \in Address /\ (~resetReq => q.to = peerAddr)
    BY DEF TypeOK, Replies
<1>1. TypeOK'  BY ProcessTyped
<1>2. UNCHANGED <<current, resetReq, errorReq, peerAddr, owner, pc, halted>> /\ inbox' \subseteq inbox
    BY DEF Process, devVars, peerVars
<1>3. Replies' /\ Telling'  BY <1>2 DEF Replies, Telling
<1>4. CASE Expected(q)
    <2>1. Finish(q.reg) /\ present' = present /\ q.reg \in present
        BY <1>0, <1>4 DEF Process, Expected, Known
    <2>2. sentTo' = [sentTo EXCEPT ![q.reg] = NoAddress]  BY <1>4 DEF Process
    <2>3. source' = IF state[q.reg] = "Reading" THEN [source EXCEPT ![q.reg] = q.to] ELSE source
        BY <1>4 DEF Process
    <2>4. Halt'  BY <1>2, <2>2 DEF Halt, TypeOK
    <2>5. OneDevice'
        BY <1>0, <1>2, <2>3 DEF OneDevice, TypeOK
    <2>6. \A r \in Regs \ {q.reg} : state'[r] = state[r] /\ writeQueued'[r] = writeQueued[r]
        BY <1>0, <2>1, FinishEffect DEF TypeOK
    <2>7. Known'  BY <1>2, <2>1, <2>6 DEF Known, InProgress
    <2>8. BootRead'
        <3> SUFFICES ASSUME NEW r \in Boot
                     PROVE  /\ state'[r] # "Writing" /\ ~writeQueued'[r]
                            /\ state'[r] = "InSync" => source'[r] # NoAddress
            BY DEF BootRead
        <3>1. CASE r # q.reg
            BY <2>3, <2>6, <3>1 DEF BootRead, TypeOK
        <3>2. CASE r = q.reg
            <4>1. state'[r] \in {"Reading", "InSync"} /\ ~writeQueued'[r]
                BY <1>0, <2>1, <3>2, FinishEffect DEF TypeOK, BootRead
            <4>2. state[r] = "Reading"  BY <1>4, <3>2 DEF Expected, InProgress, BootRead
            <4>3. source'[r] = q.to  BY <1>0, <2>3, <3>2, <4>2 DEF TypeOK
            <4> QED  BY <1>0, <4>1, <4>3
        <3> QED  BY <3>1, <3>2
    <2> QED  BY <1>1, <1>3, <2>4, <2>5, <2>7, <2>8
<1>5. CASE ~Expected(q)
    <2>1. UNCHANGED <<svcVars, source, sentTo>>  BY <1>5 DEF Process
    <2>2. Halt' /\ OneDevice'  BY <1>2, <2>1 DEF Halt, OneDevice
    <2>3. BootRead' /\ Known'
        BY <1>2, <2>1, SvcUnchanged DEF TypeOK, BootRead, Known, InProgress
    <2> QED  BY <1>1, <1>3, <2>2, <2>3
<1> QED  BY <1>4, <1>5

LEMMA TimeoutStep == ASSUME Inv, NEW r \in Regs, Timeout(r) PROVE Inv'
<1> USE DEF Inv
<1>1. TypeOK'  BY TimeoutTyped
<1>2. /\ resetReq' /\ pc = "Process" /\ pc' = "State" /\ sentTo[r] # NoAddress
      /\ UNCHANGED <<current, errorReq, source, inbox, halted>>
    BY DEF Timeout
<1>3. Halt'  BY <1>2 DEF Halt
<1>4. OneDevice' /\ Replies' /\ Telling'  BY <1>2 DEF OneDevice, Replies, Telling
<1>5. present' = present /\ writeQueued' = writeQueued
      /\ state' = [state EXCEPT ![r] = "Invalid"]
    BY DEF Timeout, Cancel, flagVars
<1>6. BootRead' /\ Known'
    BY <1>2, <1>5 DEF BootRead, Known, InProgress, TypeOK, RegistersTypeOK
<1> QED  BY <1>1, <1>3, <1>4, <1>6

\* Only Connected leads to Running, and then the ROM was that of the device at
\* the present address, unless a reset is pending.
LEMMA QuietStep ==
    ASSUME Inv, Relock \/ ProcessDone \/ StateRunning \/ StateSame
    PROVE  Inv'
<1> USE DEF Inv
<1>1. TypeOK'  BY QuietTyped
<1>2. UNCHANGED <<svcVars, resetReq, errorReq, peerAddr, sentTo, source, owner, inbox, halted>>
    BY DEF Relock, ProcessDone, StateRunning, StateSame, devVars, peerVars, regVars
<1>3. /\ pc' # "Connected"
      /\ \/ current' = current /\ pc # "Connected"
         \/ current' = "Running" /\ pc = "Connected"
    BY DEF Relock, ProcessDone, StateRunning, StateSame, devVars, State
<1>4. Halt' /\ OneDevice' /\ Replies' /\ Telling'
    BY <1>2, <1>3 DEF Halt, OneDevice, Replies, Telling
<1>5. BootRead' /\ Known'
    BY <1>2, <1>3, SvcUnchanged DEF TypeOK, BootRead, Known, InProgress
<1> QED  BY <1>1, <1>4, <1>5

\* The hello register has been read, so its data is known to come from the device.
LEMMA StateHelloStep == ASSUME Inv, StateHello PROVE Inv'
<1> USE DEF Inv
<1>1. TypeOK'  BY HelloTyped
<1>2. /\ ~resetReq /\ ~errorReq /\ current = "Searching" /\ pc = "State" /\ pc' = "Send"
      /\ UNCHANGED <<resetReq, errorReq, peerAddr, sentTo, source, owner, inbox, halted>>
    BY DEF StateHello, State, peerVars, regVars
<1>3. PICK S \in SUBSET Boot : ReadAll(S)  BY DEF StateHello, Roms
<1>4. /\ present' = present /\ writeQueued' = writeQueued
      /\ state' = [r \in Regs |-> IF r \in S /\ ~InProgress(r) THEN "Reading" ELSE state[r]]
    BY <1>3 DEF ReadAll, flagVars
<1>5. /\ current' \in {"Searching", "Inspecting"}
      /\ current' = "Inspecting" => state[Hello] = "InSync"
    BY DEF StateHello
<1>6. current' = "Inspecting" => source[Hello] = peerAddr
    BY <1>2, <1>5 DEF BootRead, OneDevice
<1>7. Halt' /\ OneDevice' /\ Replies' /\ Telling'
    BY <1>2, <1>5, <1>6 DEF Halt, OneDevice, Replies, Telling
<1>8. BootRead'  BY <1>2, <1>4 DEF BootRead
<1>9. Known'  BY <1>2, <1>4 DEF Known, InProgress
<1> QED  BY <1>1, <1>7, <1>8, <1>9

\* The registers are those that the ROM of this device names.
LEMMA StateInspectStep == ASSUME Inv, StateInspect PROVE Inv'
<1> USE DEF Inv
<1>1. TypeOK'  BY InspectTyped
<1>2. /\ ~resetReq /\ ~errorReq /\ current = "Inspecting" /\ pc' = "Connected"
      /\ UNCHANGED <<current, resetReq, errorReq, peerAddr, sentTo, source, inbox, halted>>
    BY DEF StateInspect, State, devVars, peerVars
<1>3. owner' = peerAddr  BY <1>2 DEF StateInspect, Roms, OneDevice, ConnectionAssumption
<1>4. Halt' /\ OneDevice' /\ Replies' /\ Telling'
    BY <1>2, <1>3 DEF Halt, OneDevice, Replies, Telling
<1>5. present \subseteq present' /\ UNCHANGED <<state, writeQueued>>
    BY DEF StateInspect, Attach, flagVars
<1>6. BootRead' /\ Known'
    BY <1>2, <1>5 DEF BootRead, Known, InProgress
<1> QED  BY <1>1, <1>4, <1>6

----------------------------------------------------------------------------
LEMMA SetAddressStep ==
    ASSUME Inv, NEW name \in Address \cup {NoAddress}, SetAddress(name)
    PROVE  Inv'
<1> USE DEF Inv
<1>1. TypeOK'  BY SetAddressTyped
<1>2. /\ resetReq' /\ ~halted'
      /\ UNCHANGED <<svcVars, current, inbox, pc, source>>
    BY DEF SetAddress, Call, regVars
<1>3. Halt' /\ OneDevice' /\ Replies' /\ Telling'
    BY <1>2 DEF Halt, OneDevice, Replies, Telling
<1>4. BootRead' /\ Known'
    BY <1>2, SvcUnchanged DEF TypeOK, BootRead, Known, InProgress
<1> QED  BY <1>1, <1>3, <1>4

LEMMA ForceErrorStep == ASSUME Inv, ForceError PROVE Inv'
<1> USE DEF Inv
<1>1. TypeOK'  BY ForceErrorTyped
<1>2. errorReq' /\ UNCHANGED <<svcVars, current, resetReq, peerAddr, source, owner, inbox, pc>>
    BY DEF ForceError, Call, regVars, peerVars
<1>3. Halt' /\ OneDevice' /\ Replies' /\ Telling'
    BY <1>2 DEF Halt, OneDevice, Replies, Telling
<1>4. BootRead' /\ Known'
    BY <1>2, SvcUnchanged DEF TypeOK, BootRead, Known, InProgress
<1> QED  BY <1>1, <1>3, <1>4

LEMMA RegisterStep ==
    ASSUME Inv, NEW i \in Interests, ReadRegister(i) \/ WriteRegister(i)
    PROVE  Inv'
<1> USE DEF Inv
<1>1. PICK write \in BOOLEAN :
        /\ Queue(regOf[i], write, i)
        /\ write => regOf[i] \in Writable
    BY DEF ReadRegister, WriteRegister
<1>2. /\ calls' \in Nat
      /\ UNCHANGED <<devVars, peerVars, regVars, inbox, asked, halted, pc, faults>>
    <2>1. calls' \in Nat
        <3>1. calls' = calls + 1  BY DEF ReadRegister, WriteRegister, Call
        <3>2. calls \in Nat  BY DEF TypeOK
        <3> QED  BY <3>1, <3>2
    <2>2. UNCHANGED <<devVars, peerVars, regVars, inbox, asked, halted>>
        BY DEF ReadRegister, WriteRegister
    <2>3. UNCHANGED <<pc, faults>>  BY DEF ReadRegister, WriteRegister, Call
    <2> QED  BY <2>1, <2>2, <2>3
<1>3. regOf[i] \in Regs  BY <1>1 DEF Queue, TypeOK, RegistersTypeOK
<1>4. TypeOK'  BY <1>1, <1>2, <1>3, RegisterTyped
<1>5. Halt' /\ OneDevice' /\ Replies' /\ Telling'
    BY <1>2 DEF Halt, OneDevice, Replies, Telling, devVars, peerVars, regVars
<1>6. /\ regOf[i] \in present /\ present' = present
      /\ \A q \in Regs \ {regOf[i]} : state'[q] = state[q] /\ writeQueued'[q] = writeQueued[q]
      /\ ~write => /\ state'[regOf[i]] \in {"Reading", state[regOf[i]]}
                   /\ writeQueued'[regOf[i]] = writeQueued[regOf[i]]
    BY <1>1, <1>3, QueueEffect DEF TypeOK
<1>7. Known'  BY <1>2, <1>6 DEF Known, InProgress, devVars
<1>8. BootRead'
    BY <1>1, <1>2, <1>3, <1>6 DEF BootRead, regVars
<1> QED  BY <1>4, <1>5, <1>7, <1>8

----------------------------------------------------------------------------
LEMMA InitInv == Init => Inv
<1> SUFFICES ASSUME Init PROVE Inv  OBVIOUS
<1>1. RegistersTypeOK
    BY DEF Init, RegistersInit, RegistersTypeOK, NeverRead, States
<1>2. TypeOK
    <2>1. regOf \in [Interests -> Regs \cup {NoReg}] /\ spared \subseteq Interests  BY DEF Init
    <2>2. /\ sentTo \in [Regs -> Address \cup {Nowhere, NoAddress}]
          /\ source \in [Regs -> Address \cup {NoAddress}]
        BY DEF Init
    <2>3. /\ current \in {"Error", "Idle", "Searching", "Inspecting", "Running"}
          /\ peerName \in Address \cup {NoAddress}
          /\ peerAddr \in Address \cup {Nowhere}
          /\ owner \in Address \cup {NoAddress}
          /\ pc \in {"Send", "Unlocked", "Process", "State", "Connected"}
        BY DEF Init
    <2>4. {resetReq, errorReq, halted} \subseteq BOOLEAN  BY DEF Init
    <2>5. {calls, faults} \subseteq Nat /\ asked = {} /\ inbox = {}  BY DEF Init
    <2> QED  BY <1>1, <2>1, <2>2, <2>3, <2>4, <2>5 DEF TypeOK
<1>3. Halt /\ OneDevice /\ Replies /\ Telling
    BY DEF Init, Halt, OneDevice, Replies, Telling
<1>4. BootRead /\ Known
    BY DEF Init, RegistersInit, BootRead, Known, InProgress
<1> QED  BY <1>2, <1>3, <1>4 DEF Inv

LEMMA NextInv == Inv /\ [Next]_vars => Inv'
<1> SUFFICES ASSUME Inv, [Next]_vars PROVE Inv'  OBVIOUS
<1>1. CASE UNCHANGED vars
    <2>1. UNCHANGED <<svcVars, current, resetReq, errorReq, peerName, peerAddr, regOf, spared,
                      sentTo, source, owner, pc, inbox, asked, halted, calls, faults>>
        BY <1>1 DEF vars, devVars, peerVars, regVars, boundVars
    <2>2. TypeOK'  BY <2>1, SvcUnchanged DEF Inv, TypeOK
    <2>3. Halt' /\ OneDevice' /\ Replies' /\ Telling'
        BY <2>1 DEF Inv, Halt, OneDevice, Replies, Telling
    <2>4. BootRead' /\ Known'
        BY <2>1, SvcUnchanged DEF Inv, TypeOK, BootRead, Known, InProgress
    <2> QED  BY <2>2, <2>3, <2>4 DEF Inv
<1>2. CASE Worker
    <2>1. CASE \E q \in inbox : Process(q)  BY <2>1, ProcessStep
    <2> QED  BY <1>2, <2>1, SendStep, QuietStep, StateResetStep, StateHelloStep, StateInspectStep
             DEF Worker
<1>3. CASE \E q \in asked : Receive(q)  BY <1>3, ReceiveStep
<1>4. CASE \E r \in Regs : Timeout(r)  BY <1>4, TimeoutStep
<1>5. CASE WorkerError  BY <1>5, WorkerErrorStep
<1>6. CASE Record  BY <1>6, SetAddressStep, ForceErrorStep, RegisterStep DEF Record
<1> QED  BY <1>1, <1>2, <1>3, <1>4, <1>5, <1>6 DEF Next

\* The inductive invariant, from which the theorems below follow.
THEOREM ConnectionInv == Spec => []Inv
<1> QED  BY InitInv, NextInv, PTL DEF Spec

\* Every variable keeps its type.
THEOREM TypesHold == Spec => []TypeOK
<1>1. Inv => TypeOK  BY DEF Inv
<1> QED  BY <1>1, ConnectionInv, PTL

\* The driver never takes one device for another (Device::handle_process, which
\* looks at the sender of a reply only when it is received).
THEOREM NeverMistaken == Spec => []OneDevice
<1>1. Inv => OneDevice  BY DEF Inv
<1> QED  BY <1>1, ConnectionInv, PTL

\* Force Error holds until the address is set (force_error, handle_state).
THEOREM StaysHalted == Spec => []HaltedInError
<1>1. Inv => HaltedInError  BY DEF Inv, Halt, HaltedInError
<1> QED  BY <1>1, ConnectionInv, PTL

\* handle_send never sends to one device what the ROM of another has named.
THEOREM AskedOfOwner == Spec => SentToOwner
<1>1. Inv /\ [Next]_vars => [\A q \in asked' \ asked : q.reg \in Boot \/ resetReq \/ q.to = owner]_vars
    <2> SUFFICES ASSUME Inv, Next, NEW q \in asked' \ asked, q.reg \notin Boot, ~resetReq
                 PROVE  q.to = owner
        OBVIOUS
    <2>1. CASE Send
        <3>1. PICK r \in Unsent : q = [to |-> peerAddr, reg |-> r, op |-> opSeq[r]]
              /\ current \notin {"Error", "Idle"} /\ pc = "Send"
            BY <2>1 DEF Send
        <3>2. InProgress(r) /\ r \in Regs \ Boot  BY <3>1 DEF Unsent
        <3>3. current = "Running"  BY <3>1, <3>2 DEF Inv, Known
        <3> QED  BY <3>1, <3>3 DEF Inv, OneDevice
    <2>2. CASE ~Send
        BY <2>2 DEF Next, Worker, Record, Relock, Process, ProcessDone, StateReset, ResetDevice,
            StateHello, StateInspect, StateRunning, StateSame, Receive, Timeout, WorkerError,
            SetAddress, ForceError, ReadRegister, WriteRegister
    <2> QED  BY <2>1, <2>2
<1> QED  BY <1>1, ConnectionInv, PTL DEF Spec, SentToOwner

----------------------------------------------------------------------------
\* Reset detaches every record from the registers it deletes, but those it spares.
LEMMA ResetKeepsAssociated ==
    ASSUME Inv, Associated, NEW next \in {"Error", "Idle", "Searching"}, ResetDevice(next)
    PROVE  Associated'
<1>1. present' = Boot  BY DEF ResetDevice, Reset
<1>2. PICK freed \in [Interests -> BOOLEAN] :
        /\ regOf' = Detached(freed)
        /\ spared' = {i \in Interests : regOf[i] \notin Boot \cup {NoReg} /\ freed[i]}
    BY DEF ResetDevice
<1>3. Boot \subseteq present /\ NoReg \notin Regs  BY DEF Inv, Known
<1> SUFFICES ASSUME NEW i \in Interests
             PROVE  regOf'[i] = IF Named[i] \in Boot \/ i \in spared' THEN Named[i] ELSE NoReg
    BY <1>1 DEF Associated
<1>4. Named[i] \in Regs /\ Named[i] # NoReg  BY <1>3
<1>5. regOf[i] = IF Named[i] \in present \/ i \in spared THEN Named[i] ELSE NoReg  BY DEF Associated
<1>6. regOf'[i] = IF regOf[i] # NoReg /\ (regOf[i] \in Boot \/ freed[i]) THEN regOf[i] ELSE NoReg
    BY <1>2 DEF Detached
<1>7. CASE Named[i] \in Boot
    <2>1. regOf[i] = Named[i]  BY <1>3, <1>5, <1>7
    <2> QED  BY <1>4, <1>6, <1>7, <2>1
<1>8. CASE Named[i] \notin Boot
    <2>1. regOf[i] \in {Named[i], NoReg}  BY <1>5
    <2>2. i \in spared' <=> regOf[i] # NoReg /\ freed[i]  BY <1>2, <1>8, <2>1
    <2> QED  BY <1>6, <1>8, <2>1, <2>2
<1> QED  BY <1>7, <1>8

LEMMA NextAssociated == Inv /\ Associated /\ [Next]_vars => Associated'
<1> SUFFICES ASSUME Inv, Associated, [Next]_vars PROVE Associated'  OBVIOUS
<1>1. CASE StateReset
    BY <1>1, ResetKeepsAssociated DEF StateReset
<1>2. CASE WorkerError
    BY <1>2, ResetKeepsAssociated DEF WorkerError
<1>3. CASE StateInspect
    <2>1. /\ present' = present \cup Described[owner']
          /\ regOf' = [i \in Interests |-> IF Named[i] \in Described[owner'] THEN Named[i] ELSE regOf[i]]
          /\ spared' = {i \in spared : Named[i] \notin Described[owner']}
        BY <1>3 DEF StateInspect, Attach
    <2> QED  BY <2>1 DEF Associated
\* All other actions leave both the registers and the association alone.
<1>4. CASE \E i \in Interests : ReadRegister(i) \/ WriteRegister(i)
    <2>1. UNCHANGED <<present, regOf, spared>>
        BY <1>4 DEF ReadRegister, WriteRegister, Queue, regVars
    <2> QED  BY <2>1 DEF Associated
<1>5. CASE \E q \in inbox : Process(q)
    <2>1. UNCHANGED <<present, regOf, spared>>  BY <1>5 DEF Process, svcVars
    <2> QED  BY <2>1 DEF Associated
<1>6. CASE Send \/ Relock \/ ProcessDone \/ StateHello \/ StateRunning \/ StateSame
    <2>1. UNCHANGED <<present, regOf, spared>>
        BY <1>6 DEF Send, Swap, Relock, ProcessDone, StateHello, ReadAll, StateRunning, StateSame,
            regVars, svcVars
    <2> QED  BY <2>1 DEF Associated
<1>7. CASE \/ \E q \in asked : Receive(q)
          \/ \E r \in Regs : Timeout(r)
          \/ \E name \in Address \cup {NoAddress} : SetAddress(name)
          \/ ForceError
          \/ UNCHANGED vars
    <2>1. UNCHANGED <<present, regOf, spared>>
        BY <1>7 DEF Receive, Timeout, Cancel, SetAddress, ForceError, vars, regVars, svcVars
    <2> QED  BY <2>1 DEF Associated
<1> QED  BY <1>1, <1>2, <1>3, <1>4, <1>5, <1>6, <1>7 DEF Next, Worker, Record

\* Through any number of resets a record is associated with the register of the
\* name in its link exactly when there is one (handle_inspect), or when reset read
\* the flag of the one it had deleted as that of a bootstrap register.
THEOREM StaysAssociated == Spec => []Associated
<1>1. Init => Associated  BY DEF Init, RegistersInit, Associated
<1> QED  BY <1>1, NextAssociated, ConnectionInv, PTL DEF Spec
=============================================================================
