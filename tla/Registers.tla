----------------------------- MODULE Registers -----------------------------
(***************************************************************************)
(* The registers of a FEED device (DevReg): which operation each is in,    *)
(* which is queued behind it, and which records wait for which.            *)
(*                                                                         *)
(* A record asks for a read or a write of a whole register (DevReg::queue) *)
(* and is handed back, through Device::records, when the operation it      *)
(* waits for has completed or has been cancelled.  These operators are     *)
(* shared by RegisterService.tla, which says what a register promises, and *)
(* Engine.tla, which also says how its words travel.                       *)
(*                                                                         *)
(* Data.  What matters about a word read from the device is when it was    *)
(* sampled, so memRx holds, for each word, the number of the operation     *)
(* during which the device sampled it (0: never read).  devWritten is the  *)
(* set of words the device has stored for the write in progress.           *)
(*                                                                         *)
(* Lists.  The order of the records of one list is left out (all of them   *)
(* are called back, one after the other, in one iteration of the worker):  *)
(* a list is a set, and Device::records a set of pairs <<register,         *)
(* record>>, since one record may wait for several registers (FEED Sync).  *)
(***************************************************************************)
EXTENDS Naturals

CONSTANTS
    Regs,         \* the registers the driver can know about
    Boot,         \* those it always knows: HELLO and the two ROM apertures
    Size,         \* Size[r]: the number of words of register r
    Readable,     \* registers with info.readable
    Writable,     \* registers with info.writable
    Interests,    \* the records (RegInterest) that may wait for an operation
    NoInterest    \* the null RegInterest of an operation nobody waits for

ASSUME RegistersAssumption ==
    /\ Boot \subseteq Regs
    /\ Size \in [Regs -> Nat \ {0}]
    /\ NoInterest \notin Interests

VARIABLES
    present,        \* registers that exist (Device::reg_by_name)
    state,          \* DevReg::state
    readQueued,     \* DevReg::read_queued
    writeQueued,    \* DevReg::write_queued
    recordsInprog,  \* records waiting for the operation in progress
    recordsWrite,   \* records waiting for the queued write
    recordsRead,    \* records waiting for the queued read
    records,        \* Device::records, to be completed by the worker
    opSeq,          \* number of operations begun on each register
    memRx,          \* the operation that sampled each cached word
    devWritten      \* words the device stored for the write in progress

flagVars == <<readQueued, writeQueued>>
listVars == <<recordsInprog, recordsWrite, recordsRead>>
svcVars  == <<present, state, flagVars, listVars, records, opSeq, memRx, devWritten>>

Offsets(r) == 0 .. Size[r] - 1

States == {"Invalid", "InSync", "Reading", "Writing"}

InProgress(r) == state[r] \in {"Reading", "Writing"}

Supported(r, write) == r \in IF write THEN Writable ELSE Readable

\* The records DevReg::queue adds to a list: its action, if it has one.
Action(i) == {i} \ {NoInterest}

NeverRead(r) == [o \in Offsets(r) |-> 0]

----------------------------------------------------------------------------
\* The part of DevReg::queue that makes an operation the one in progress.
Begin(r, write) ==
    /\ state' = [state EXCEPT ![r] = IF write THEN "Writing" ELSE "Reading"]
    /\ opSeq' = [opSeq EXCEPT ![r] = @ + 1]
    /\ devWritten' = [devWritten EXCEPT ![r] = {}]

QueueIdle(r, write, i) ==
    /\ ~InProgress(r)
    /\ Supported(r, write)
    /\ Begin(r, write)
    /\ recordsInprog' = [recordsInprog EXCEPT ![r] = @ \cup Action(i)]
    /\ UNCHANGED <<flagVars, recordsWrite, recordsRead>>

QueueWriteLater_Merged(r, write, i) ==
    /\ InProgress(r)
    /\ write
    /\ IF state[r] = "Writing"
       THEN /\ recordsInprog' = [recordsInprog EXCEPT ![r] = @ \cup Action(i)]
            /\ UNCHANGED <<writeQueued, recordsWrite>>
       ELSE /\ writeQueued' = [writeQueued EXCEPT ![r] = TRUE]
            /\ recordsWrite' = [recordsWrite EXCEPT ![r] = @ \cup Action(i)]
            /\ UNCHANGED recordsInprog
    /\ UNCHANGED <<readQueued, recordsRead, state, opSeq, devWritten>>

\* A write asked for while an operation is in progress is queued behind it.
QueueWriteLater(r, write, i) ==
    /\ InProgress(r)
    /\ write
    /\ writeQueued' = [writeQueued EXCEPT ![r] = TRUE]
    /\ recordsWrite' = [recordsWrite EXCEPT ![r] = @ \cup Action(i)]
    /\ UNCHANGED <<readQueued, recordsInprog, recordsRead, state, opSeq, devWritten>>

MergeRead_Any(r, write, i) ==
    /\ InProgress(r)
    /\ ~write
    /\ recordsInprog' = [recordsInprog EXCEPT ![r] = @ \cup Action(i)]
    /\ UNCHANGED <<flagVars, recordsWrite, recordsRead, state, opSeq, devWritten>>

\* A read asked for during a write is queued behind it ...
QueueReadLater(r, write, i) ==
    /\ state[r] = "Writing"
    /\ ~write
    /\ readQueued' = [readQueued EXCEPT ![r] = TRUE]
    /\ recordsRead' = [recordsRead EXCEPT ![r] = @ \cup Action(i)]
    /\ UNCHANGED <<writeQueued, recordsInprog, recordsWrite, state, opSeq, devWritten>>

\* ... and one asked for during a read is merged with it.
MergeRead(r, write, i) ==
    /\ state[r] = "Reading"
    /\ ~write
    /\ recordsInprog' = [recordsInprog EXCEPT ![r] = @ \cup Action(i)]
    /\ UNCHANGED <<flagVars, recordsWrite, recordsRead, state, opSeq, devWritten>>

\* DevReg::queue, called with the device locked.
Queue(r, write, i) ==
    /\ r \in present
    /\ \/ QueueIdle(r, write, i)
       \/ QueueWriteLater(r, write, i)
       \/ QueueReadLater(r, write, i)
       \/ MergeRead(r, write, i)
    /\ UNCHANGED <<present, records, memRx>>

----------------------------------------------------------------------------
\* DevReg::process(false): the records of the operation that completed.
Handed(r) == {r} \X recordsInprog[r]

Cancelled_InProgress(r) == {r} \X recordsInprog[r]

\* DevReg::process(true): those of the queued operations as well.
Cancelled(r) == {r} \X (recordsInprog[r] \cup recordsWrite[r] \cup recordsRead[r])

\* The end of Device::handle_process once every word of r has been received:
\* hand the records back, then start the queued write or else the queued read.
StartQueuedWrite(r) ==
    /\ writeQueued[r]
    /\ writeQueued' = [writeQueued EXCEPT ![r] = FALSE]
    /\ recordsInprog' = [recordsInprog EXCEPT ![r] = recordsWrite[r]]
    /\ recordsWrite' = [recordsWrite EXCEPT ![r] = {}]
    /\ Begin(r, TRUE)
    /\ UNCHANGED <<readQueued, recordsRead>>

StartQueuedRead_KeepsRecords(r) ==
    /\ ~writeQueued[r]
    /\ readQueued[r]
    /\ readQueued' = [readQueued EXCEPT ![r] = FALSE]
    /\ recordsInprog' = [recordsInprog EXCEPT ![r] = recordsRead[r]]
    /\ Begin(r, FALSE)
    /\ UNCHANGED <<writeQueued, recordsWrite, recordsRead>>

StartQueuedRead(r) ==
    /\ ~writeQueued[r]
    /\ readQueued[r]
    /\ readQueued' = [readQueued EXCEPT ![r] = FALSE]
    /\ recordsInprog' = [recordsInprog EXCEPT ![r] = recordsRead[r]]
    /\ recordsRead' = [recordsRead EXCEPT ![r] = {}]
    /\ Begin(r, FALSE)
    /\ UNCHANGED <<writeQueued, recordsWrite>>

StartNothing(r) ==
    /\ ~writeQueued[r]
    /\ ~readQueued[r]
    /\ recordsInprog' = [recordsInprog EXCEPT ![r] = {}]
    /\ state' = [state EXCEPT ![r] = "InSync"]
    /\ UNCHANGED <<flagVars, recordsWrite, recordsRead, opSeq, devWritten>>

Finish(r) ==
    /\ records' = records \cup Handed(r)
    /\ StartQueuedWrite(r) \/ StartQueuedRead(r) \/ StartNothing(r)

\* Device::do_timeout for the register of the request that was not answered.
\* The queued flags survive until the reset that follows.
Cancel(r) ==
    /\ state' = [state EXCEPT ![r] = "Invalid"]
    /\ records' = records \cup Cancelled(r)
    /\ recordsInprog' = [recordsInprog EXCEPT ![r] = {}]
    /\ recordsWrite' = [recordsWrite EXCEPT ![r] = {}]
    /\ recordsRead' = [recordsRead EXCEPT ![r] = {}]
    /\ UNCHANGED <<present, flagVars, opSeq, memRx, devWritten>>

\* The registers' part of Device::reset: every operation is cancelled, every
\* cache zeroed, and only the bootstrap registers remain.
Reset ==
    /\ present' = Boot
    /\ state' = [r \in Regs |-> "Invalid"]
    /\ readQueued' = [r \in Regs |-> FALSE]
    /\ writeQueued' = [r \in Regs |-> FALSE]
    /\ records' = records \cup UNION {Cancelled(r) : r \in Regs}
    /\ recordsInprog' = [r \in Regs |-> {}]
    /\ recordsWrite' = [r \in Regs |-> {}]
    /\ recordsRead' = [r \in Regs |-> {}]
    /\ memRx' = [r \in Regs |-> NeverRead(r)]
    /\ UNCHANGED <<opSeq, devWritten>>

\* Device::handle_inspect creates the registers the device's ROM names.
Attach(named) ==
    /\ present' = present \cup named
    /\ UNCHANGED <<state, flagVars, listVars, records, opSeq, memRx, devWritten>>

\* Device::run takes the completion list before it calls the records back.
Swap ==
    /\ records' = {}
    /\ UNCHANGED <<present, state, flagVars, listVars, opSeq, memRx, devWritten>>

----------------------------------------------------------------------------
RegistersInit ==
    /\ present = Boot
    /\ state = [r \in Regs |-> "Invalid"]
    /\ readQueued = [r \in Regs |-> FALSE]
    /\ writeQueued = [r \in Regs |-> FALSE]
    /\ recordsInprog = [r \in Regs |-> {}]
    /\ recordsWrite = [r \in Regs |-> {}]
    /\ recordsRead = [r \in Regs |-> {}]
    /\ records = {}
    /\ opSeq = [r \in Regs |-> 0]
    /\ memRx = [r \in Regs |-> NeverRead(r)]
    /\ devWritten = [r \in Regs |-> {}]

RegistersTypeOK ==
    /\ present \in SUBSET Regs
    /\ state \in [Regs -> States]
    /\ readQueued \in [Regs -> BOOLEAN]
    /\ writeQueued \in [Regs -> BOOLEAN]
    /\ recordsInprog \in [Regs -> SUBSET Interests]
    /\ recordsWrite \in [Regs -> SUBSET Interests]
    /\ recordsRead \in [Regs -> SUBSET Interests]
    /\ records \in SUBSET (Regs \X Interests)
    /\ opSeq \in [Regs -> Nat]
    /\ DOMAIN memRx = Regs /\ \A r \in Regs : memRx[r] \in [Offsets(r) -> Nat]
    /\ devWritten \in [Regs -> SUBSET Nat]
============================================================================
