----------------------------- MODULE Connection -----------------------------
(***************************************************************************)
(* The life of a connection: Device::current, the requests records make of *)
(* it (Set Address, Force Error), Device::reset, the reading of the        *)
(* device's ROM, and the association of records with the registers the ROM *)
(* names.                                                                  *)
(*                                                                         *)
(* Engine.tla shows how the words of a register travel; here a register is *)
(* one request and one reply, and what matters is which address the        *)
(* request went to and which device answered.                              *)
(***************************************************************************)
EXTENDS Registers

CONSTANTS
    Hello,        \* the bootstrap register polled to find the device
    Address,      \* device addresses
    NoAddress,    \* an empty peer_name
    Nowhere,      \* an address where nobody answers
    NoReg,        \* a record that is not associated with a register
    Described,    \* Described[a]: the registers named by the ROM of the device at a
    Named,        \* Named[i]: the register named by record i's link (reg=)
    MaxCalls,     \* bound: calls made by records
    MaxFaults     \* bound: timeouts and errors

ASSUME ConnectionAssumption ==
    /\ Hello \in Boot
    /\ Boot \subseteq Readable
    /\ Boot \cap Writable = {}
    /\ {NoAddress, Nowhere} \cap Address = {}
    /\ NoAddress # Nowhere
    /\ NoReg \notin Regs
    /\ Described \in [Address -> SUBSET (Regs \ Boot)]
    /\ Named \in [Interests -> Regs]

Roms == Boot \ {Hello}

VARIABLES
    current,      \* Device::current
    peerName,     \* peer_name, NoAddress if empty
    peerAddr,     \* peer_addr
    resetReq,     \* reset_requested
    errorReq,     \* error_requested
    regOf,        \* RegInterest::reg
    spared,       \* records that reset left with a register it had deleted (history)
    sentTo,       \* where the request of the operation in progress was sent
    source,       \* the device whose data the receive cache of a register holds
    owner,        \* the device whose ROM named the registers
    pc,           \* where in run() the worker is
    inbox,        \* replies received in this iteration
    asked,        \* every request sent
    halted,       \* was Force Error processed since the address was last set?
    calls, faults \* to bound them

devVars  == <<current, resetReq, errorReq>>
peerVars == <<peerName, peerAddr>>
regVars  == <<regOf, spared, sentTo, source, owner>>
boundVars == <<calls, faults>>
vars == <<svcVars, devVars, peerVars, regVars, pc, inbox, asked, halted, boundVars>>

Active == current \notin {"Error", "Idle", "Searching"}

Unsent == {r \in Regs : InProgress(r) /\ sentTo[r] = NoAddress}

----------------------------------------------------------------------------
\* Device::handle_send; then the worker unlocks and calls records back.
Send ==
    /\ pc = "Send"
    /\ pc' = "Unlocked"
    /\ LET new == IF current \in {"Error", "Idle"} THEN {} ELSE Unsent
       IN  /\ sentTo' = [r \in Regs |-> IF r \in new THEN peerAddr ELSE sentTo[r]]
           /\ asked' = asked \cup {[to |-> peerAddr, reg |-> r, op |-> opSeq[r]] : r \in new}
    /\ Swap
    /\ UNCHANGED <<devVars, peerVars, regOf, spared, source, owner, inbox, halted, boundVars>>

\* A reply arrives, late or in time; it is ignored unless it comes from peer_addr.
Receive(q) ==
    /\ pc = "Unlocked"
    /\ q.to = peerAddr /\ q.to \in Address
    /\ q \notin inbox
    /\ inbox' = inbox \cup {q}
    /\ UNCHANGED <<svcVars, devVars, peerVars, regVars, pc, asked, halted, boundVars>>

Relock ==
    /\ pc = "Unlocked"
    /\ pc' = "Process"
    /\ UNCHANGED <<svcVars, devVars, peerVars, regVars, inbox, asked, halted, boundVars>>

\* Device::handle_process: the reply completes the operation that waits for it.
Expected(q) == InProgress(q.reg) /\ sentTo[q.reg] # NoAddress /\ q.op = opSeq[q.reg]

Process(q) ==
    /\ pc = "Process"
    /\ inbox' = inbox \ {q}
    /\ IF Expected(q)
       THEN /\ Finish(q.reg)
            /\ IF state[q.reg] = "Reading"
               THEN /\ memRx' = [memRx EXCEPT ![q.reg] = [o \in Offsets(q.reg) |-> q.op]]
                    /\ source' = [source EXCEPT ![q.reg] = q.to]
               ELSE UNCHANGED <<memRx, source>>
            /\ sentTo' = [sentTo EXCEPT ![q.reg] = NoAddress]
            /\ UNCHANGED present
       ELSE UNCHANGED <<svcVars, source, sentTo>>
    /\ UNCHANGED <<devVars, peerVars, regOf, spared, owner, pc, asked, halted, boundVars>>

\* Device::handle_timeout: any timeout asks for a reset.
Timeout(r) ==
    /\ pc = "Process" /\ inbox = {}
    /\ InProgress(r) /\ sentTo[r] # NoAddress
    /\ faults < MaxFaults /\ faults' = faults + 1
    /\ Cancel(r)
    /\ sentTo' = [sentTo EXCEPT ![r] = NoAddress]
    /\ resetReq' = TRUE
    /\ pc' = "State"
    /\ UNCHANGED <<current, errorReq, peerVars, regOf, spared, source, owner, inbox, asked, halted,
                   calls>>

ProcessDone ==
    /\ pc = "Process" /\ inbox = {}
    /\ pc' = "State"
    /\ UNCHANGED <<svcVars, devVars, peerVars, regVars, inbox, asked, halted, boundVars>>

----------------------------------------------------------------------------
Detached_All(freed) == [i \in Interests |-> NoReg]

\* Device::reset: to find the records to detach, the bootstrap flag of each one's
\* register is read, of one that has just been deleted too, where it may read as
\* anything.  (What is done with a register after that is not modelled: Queue takes
\* one that is present.)
Detached(freed) ==
    [i \in Interests |-> IF regOf[i] # NoReg /\ (regOf[i] \in Boot \/ freed[i])
                         THEN regOf[i] ELSE NoReg]

ResetDevice(next) ==
    /\ Reset
    /\ current' = next
    /\ resetReq' = FALSE /\ errorReq' = FALSE
    /\ \E freed \in [Interests -> BOOLEAN] :
           /\ regOf' = Detached(freed)
           /\ spared' = {i \in Interests : regOf[i] \notin Boot \cup {NoReg} /\ freed[i]}
    /\ sentTo' = [r \in Regs |-> NoAddress]
    /\ source' = [r \in Regs |-> NoAddress]
    /\ owner' = NoAddress
    /\ pc' = "Send"
    /\ inbox' = {}
    /\ UNCHANGED <<peerVars, asked, halted>>

State_IgnoresError == pc = "State" /\ ~resetReq

\* Device::handle_state.
State == pc = "State" /\ ~resetReq /\ ~errorReq

StateReset_PeerFirst ==
    /\ pc = "State"
    /\ resetReq \/ errorReq
    /\ ResetDevice(IF peerName = NoAddress THEN "Idle"
                   ELSE IF errorReq THEN "Error" ELSE "Searching")
    /\ UNCHANGED boundVars

StateReset ==
    /\ pc = "State"
    /\ resetReq \/ errorReq
    /\ ResetDevice(IF errorReq THEN "Error"
                   ELSE IF peerName = NoAddress THEN "Idle" ELSE "Searching")
    /\ UNCHANGED boundVars

\* It reads bootstrap registers for itself.
ReadAll(S) ==
    LET idle == {r \in S : ~InProgress(r)}
    IN  /\ state' = [r \in Regs |-> IF r \in idle THEN "Reading" ELSE state[r]]
        /\ opSeq' = [r \in Regs |-> IF r \in idle THEN opSeq[r] + 1 ELSE opSeq[r]]
        /\ UNCHANGED <<present, flagVars, listVars, records, memRx, devWritten>>

StateHello_OneRom ==
    /\ State /\ current = "Searching"
    /\ ~InProgress(Hello)
    /\ IF state[Hello] = "InSync"
       THEN ReadAll({CHOOSE r \in Roms : TRUE}) /\ current' = "Inspecting"
       ELSE ReadAll({Hello}) /\ UNCHANGED current
    /\ pc' = "Send"
    /\ UNCHANGED <<resetReq, errorReq, peerVars, regVars, inbox, asked, halted, boundVars>>

StateHello ==
    /\ State /\ current = "Searching"
    /\ ~InProgress(Hello)
    /\ IF state[Hello] = "InSync"
       THEN ReadAll(Roms) /\ current' = "Inspecting"
       ELSE ReadAll({Hello}) /\ UNCHANGED current
    /\ pc' = "Send"
    /\ UNCHANGED <<resetReq, errorReq, peerVars, regVars, inbox, asked, halted, boundVars>>

RomsRead == \A r \in Roms : state[r] = "InSync"

\* Device::handle_inspect: one of the ROMs names the registers.  Records are
\* told that they are connected with the worker unlocked.
StateInspect ==
    /\ State /\ current = "Inspecting" /\ RomsRead
    /\ \E r \in Roms : source[r] \in Address /\ owner' = source[r]
    /\ Attach(Described[owner'])
    /\ regOf' = [i \in Interests |-> IF Named[i] \in Described[owner']
                                     THEN Named[i] ELSE regOf[i]]
    /\ spared' = {i \in spared : Named[i] \notin Described[owner']}
    /\ pc' = "Connected"
    /\ UNCHANGED <<devVars, peerVars, sentTo, source, inbox, asked, halted, boundVars>>

StateRunning ==
    /\ pc = "Connected"
    /\ current' = "Running"
    /\ pc' = "Send"
    /\ UNCHANGED <<svcVars, resetReq, errorReq, peerVars, regVars, inbox, asked, halted, boundVars>>

\* Nothing to do.  (The code leaves Idle when peer_name is set, but a reset, which
\* write_address asks for, has always done so before.)
StateSame ==
    /\ State
    /\ \/ current \in {"Error", "Running"}
       \/ current = "Idle" /\ peerName = NoAddress
       \/ current = "Searching" /\ InProgress(Hello)
       \/ current = "Inspecting" /\ ~RomsRead
    /\ pc' = "Send"
    /\ UNCHANGED <<svcVars, devVars, peerVars, regVars, inbox, asked, halted, boundVars>>

\* The catch of Device::run: a socket fails, or the ROM is of no use.
WorkerError ==
    /\ \/ pc = "Send" /\ current \notin {"Error", "Idle"} /\ Unsent # {}
       \/ pc = "Unlocked"
       \/ State /\ current = "Inspecting" /\ RomsRead
    /\ faults < MaxFaults /\ faults' = faults + 1
    /\ ResetDevice("Error")
    /\ UNCHANGED calls

Worker ==
    \/ Send \/ Relock
    \/ \E q \in inbox : Process(q)
    \/ ProcessDone
    \/ StateReset \/ StateHello \/ StateInspect \/ StateRunning \/ StateSame

----------------------------------------------------------------------------
\* Records act while the worker is unlocked.
Call ==
    /\ pc \in {"Unlocked", "Connected"}
    /\ calls < MaxCalls /\ calls' = calls + 1
    /\ UNCHANGED <<pc, faults>>

SetAddress_UnlessActive(name) ==
    /\ Call
    /\ resetReq' = (resetReq \/ ~Active)
    /\ halted' = FALSE
    /\ peerName' = name
    /\ peerAddr' \in IF name = NoAddress THEN Address \cup {Nowhere} ELSE {name}
    /\ UNCHANGED <<svcVars, current, errorReq, regVars, inbox, asked>>

SetAddress_UnlessInspecting(name) ==
    /\ Call
    /\ resetReq' = (resetReq \/ current # "Inspecting")
    /\ halted' = FALSE
    /\ peerName' = name
    /\ peerAddr' \in IF name = NoAddress THEN Address \cup {Nowhere} ELSE {name}
    /\ UNCHANGED <<svcVars, current, errorReq, regVars, inbox, asked>>

SetAddress_NameOnly(name) ==
    /\ Call
    /\ resetReq' = TRUE
    /\ halted' = FALSE
    /\ peerName' = name
    /\ peerAddr' = name
    /\ UNCHANGED <<svcVars, current, errorReq, regVars, inbox, asked>>

\* write_address.  For an empty name, addr is copied uninitialized.
SetAddress(name) ==
    /\ Call
    /\ resetReq' = TRUE
    /\ halted' = FALSE
    /\ peerName' = name
    /\ peerAddr' \in IF name = NoAddress THEN Address \cup {Nowhere} ELSE {name}
    /\ UNCHANGED <<svcVars, current, errorReq, regVars, inbox, asked>>

ForceError ==
    /\ Call
    /\ errorReq' = TRUE
    /\ halted' = TRUE
    /\ UNCHANGED <<svcVars, current, resetReq, peerVars, regVars, inbox, asked>>

Waiting(i) ==
    \E r \in Regs : i \in recordsInprog[r] \cup recordsWrite[r] \cup recordsRead[r]

ReadRegister(i) ==
    /\ Call
    /\ Active /\ regOf[i] \in Readable /\ ~Waiting(i)
    /\ Queue(regOf[i], FALSE, i)
    /\ UNCHANGED <<devVars, peerVars, regVars, inbox, asked, halted>>

WriteRegister(i) ==
    /\ Call
    /\ regOf[i] \in Writable /\ ~Waiting(i)
    /\ Queue(regOf[i], TRUE, i)
    /\ UNCHANGED <<devVars, peerVars, regVars, inbox, asked, halted>>

Record ==
    \/ \E name \in Address \cup {NoAddress} : SetAddress(name)
    \/ ForceError
    \/ \E i \in Interests : ReadRegister(i) \/ WriteRegister(i)

----------------------------------------------------------------------------
Init ==
    /\ RegistersInit
    /\ current = "Idle"
    /\ peerName = NoAddress
    /\ peerAddr = Nowhere
    /\ resetReq = FALSE
    /\ errorReq = FALSE
    /\ regOf = [i \in Interests |-> IF Named[i] \in Boot THEN Named[i] ELSE NoReg]
    /\ spared = {}
    /\ sentTo = [r \in Regs |-> NoAddress]
    /\ source = [r \in Regs |-> NoAddress]
    /\ owner = NoAddress
    /\ pc = "Send"
    /\ inbox = {}
    /\ asked = {}
    /\ halted = FALSE
    /\ calls = 0
    /\ faults = 0

Next ==
    \/ Worker
    \/ \E q \in asked : Receive(q)
    \/ \E r \in Regs : Timeout(r)
    \/ WorkerError
    \/ Record

Spec == Init /\ [][Next]_vars

(***************************************************************************)
(* The worker's loop never stops, and once the MaxFaults faults are over   *)
(* the device answers what it is asked.                                    *)
(***************************************************************************)
FairSpec ==
    /\ Spec
    /\ WF_vars(Worker)
    /\ SF_vars(\E q \in asked : Expected(q) /\ Receive(q))

----------------------------------------------------------------------------
TypeOK ==
    /\ RegistersTypeOK
    /\ current \in {"Error", "Idle", "Searching", "Inspecting", "Running"}
    /\ peerName \in Address \cup {NoAddress}
    /\ peerAddr \in Address \cup {Nowhere}
    /\ {resetReq, errorReq, halted} \subseteq BOOLEAN
    /\ regOf \in [Interests -> Regs \cup {NoReg}]
    /\ spared \subseteq Interests
    /\ sentTo \in [Regs -> Address \cup {Nowhere, NoAddress}]
    /\ source \in [Regs -> Address \cup {NoAddress}]
    /\ owner \in Address \cup {NoAddress}
    /\ pc \in {"Send", "Unlocked", "Process", "State", "Connected"}
    /\ asked \subseteq [to : Address \cup {Nowhere}, reg : Regs, op : Nat]
    /\ inbox \subseteq asked
    /\ {calls, faults} \subseteq Nat

\* The driver never takes one device for another: while no reset is pending,
\* everything it has read, the ROM that named the registers included, comes from
\* the device at the current address.
OneDevice ==
    ~resetReq =>
        /\ \A r \in Regs : source[r] \in {NoAddress, peerAddr}
        /\ current = "Running" => owner = peerAddr
        /\ current \in {"Inspecting", "Running"} => source[Hello] = peerAddr

\* A request for a register is sent only to the device whose ROM named it, unless
\* a new address has been set since the worker last checked.
SentToOwner ==
    [][\A q \in asked' \ asked : q.reg \in Boot \/ resetReq \/ q.to = owner]_vars

\* Through any number of resets, a record is associated with the register of the
\* name in its link when there is one, and with none when there is not, unless
\* reset mistook the one it had deleted for a bootstrap register.
Associated ==
    \A i \in Interests :
        regOf[i] = IF Named[i] \in present \/ i \in spared THEN Named[i] ELSE NoReg

\* Force Error stops the device, whatever else happens, until the address is set.
HaltedInError == halted /\ ~errorReq => current = "Error"

\* Force Error is heeded.
ErrorForced == errorReq ~> current = "Error"

\* A device that answers is connected: the driver does not poll, or read the ROM,
\* for ever.
Connects == <>[](current \in {"Running", "Error"} \/ peerName = NoAddress)

\* No record is associated with a register that has been deleted.
NoDangling == \A i \in Interests : regOf[i] \in present \cup {NoReg}
============================================================================
