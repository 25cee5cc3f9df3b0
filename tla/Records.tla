------------------------------ MODULE Records ------------------------------
(***************************************************************************)
(* Device support: what EPICS records do while they wait for the driver.   *)
(*                                                                         *)
(* Processing a record (Process) either completes at once, or asks for an  *)
(* operation and leaves the record busy (PACT).  The worker calls          *)
(* RegInterest::complete (Complete) when the operation is over, which      *)
(* processes the busy record a second time.  A Watch reads its register    *)
(* again and again, a Sync waits for several registers, and an I/O Intr    *)
(* record is processed when its register changes.                          *)
(*                                                                         *)
(* How an operation travels is Engine.tla, and how a connection begins and *)
(* ends is Connection.tla: here operations are received word by word, or   *)
(* time out, and of Device::current only what records can tell apart is    *)
(* kept (Idle and the polling of bootstrap registers are left out).        *)
(***************************************************************************)
EXTENDS Registers, Sequences, FiniteSets

CONSTANTS
    Kind,          \* Kind[i]: the device support of record i
    Named,         \* Named[i]: the register named by its link (reg=)
    MaxCalls,      \* bound: calls made by records and by timers
    MaxFaults      \* bound: timeouts and errors

ASSUME RecordsAssumption ==
    /\ Kind \in [Interests -> {"read", "write", "watch", "sync", "intr"}]
    /\ Named \in [Interests -> Regs]
    /\ Boot \cap Writable = {}  \* the bootstrap registers of device.cpp are read-only
    /\ {MaxCalls, MaxFaults} \subseteq Nat
    /\ IsFiniteSet(Regs)

VARIABLES
    \* Device
    current,       \* Device::current
    resetReq,      \* reset_requested
    errorReq,      \* error_requested
    afterReset,    \* after_reset
    regSend,       \* reg_send: registers with words to send
    partly,        \* has its front been sent in part?
    valid,         \* is DevReg::sevr clear?
    match,         \* does the watched word read last match mask and value?
    \* the worker
    pc,            \* where in run() it is
    completed,     \* the completion list taken by this iteration
    toTell,        \* records to be told that they are connected
    \* records
    pact,          \* is the record busy?
    alarm,         \* was it left with an INVALID alarm?
    timer,         \* WaitInfo: is the callback of a Watch pending?
    waitFor,       \* SyncInfo::wait_for
    scan,          \* is an I/O Intr scan pending?
    got,           \* the words an I/O Intr record holds
    \* history
    awaits,        \* the operations a busy record waits for, and whether they
                   \* had words still to be sent when it was processed
    done, wrote,   \* the last operation, and write, that completed
    overtaken,     \* write records that were told that they are connected when
                   \* another thread had made them busy already
    calls, faults  \* to bound them

devVars  == <<current, resetReq, errorReq, afterReset>>
sendVars == <<regSend, partly>>
runVars  == <<pc, completed, toTell, overtaken>>
pactVars == <<pact, alarm, awaits>>
intrVars == <<scan, got>>
recVars  == <<pactVars, timer, waitFor, intrVars>>
opVars   == <<valid, match, done, wrote>>
boundVars == <<calls, faults>>
vars == <<svcVars, devVars, sendVars, runVars, recVars, opVars, boundVars>>

Active == current \in {"Inspecting", "Running"}

Sending == {regSend[k] : k \in 1 .. Len(regSend)}

OfKind(k) == {i \in Interests : Kind[i] = k}

----------------------------------------------------------------------------
\* DevReg::queue
QueueReg(r, write, i) ==
    /\ Queue(r, write, i)
    /\ regSend' = IF InProgress(r) THEN regSend ELSE Append(regSend, r)
    /\ UNCHANGED partly

\* The operation that a request made now will be part of.
Joins(r, write) ==
    [reg |-> r, unsent |-> TRUE,
     op |-> IF state[r] = "Reading" /\ ~write THEN opSeq[r] ELSE opSeq[r] + 1]

\* A record asks for an operation, and is busy ...
Ask(i, write, busy) ==
    /\ QueueReg(Named[i], write, i)
    /\ pact' = [pact EXCEPT ![i] = busy]
    /\ awaits' = [awaits EXCEPT ![i] = {Joins(Named[i], write)}]
    /\ UNCHANGED alarm

\* ... until it is processed again, or at once.
End(i, bad) ==
    /\ pact' = [pact EXCEPT ![i] = FALSE]
    /\ alarm' = [alarm EXCEPT ![i] = bad]
    /\ awaits' = [awaits EXCEPT ![i] = {}]
    /\ UNCHANGED <<svcVars, sendVars>>

\* The register is there, and supports what the record does.
Usable(i) ==
    /\ Named[i] \in present
    /\ Supported(Named[i], Kind[i] = "write")

\* cleanup() and an alarm.
Refuse(i) ==
    /\ Kind[i] # "sync"
    /\ ~Usable(i)
    /\ End(i, TRUE)
    /\ timer' = [timer EXCEPT ![i] = FALSE]
    /\ UNCHANGED waitFor

ProcessRead(i) ==
    /\ Kind[i] \in {"read", "intr"} /\ Usable(i)
    /\ IF Kind[i] = "intr" \/ pact[i] \/ ~Active
       THEN End(i, ~valid[Named[i]])
       ELSE Ask(i, FALSE, TRUE)
    /\ UNCHANGED <<timer, waitFor>>

ProcessWrite(i) ==
    /\ Kind[i] = "write" /\ Usable(i)
    /\ IF pact[i] THEN End(i, FALSE) ELSE Ask(i, TRUE, Active)
    /\ UNCHANGED <<timer, waitFor>>

ProcessWatch(i) ==
    /\ Kind[i] = "watch" /\ Usable(i)
    /\ IF pact[i] THEN End(i, FALSE) ELSE Ask(i, FALSE, TRUE)
    /\ UNCHANGED <<timer, waitFor>>

SyncBegin_CountsAll(i) ==
    /\ Kind[i] = "sync" /\ ~pact[i] /\ Active
    /\ recordsInprog' = [r \in Regs |-> IF r \in Sending THEN recordsInprog[r] \cup {i}
                                        ELSE recordsInprog[r]]
    /\ waitFor' = [waitFor EXCEPT ![i] = Cardinality({r \in Regs : InProgress(r)})]
    /\ pact' = [pact EXCEPT ![i] = Sending # {}]
    /\ UNCHANGED <<present, state, flagVars, recordsWrite, recordsRead, records, opSeq,
                   memRx, devWritten, sendVars, alarm, awaits, timer>>

\* read_sync: wait for the registers in reg_send.
SyncBegin(i) ==
    /\ Kind[i] = "sync" /\ ~pact[i] /\ Active
    /\ recordsInprog' = [r \in Regs |-> IF r \in Sending THEN recordsInprog[r] \cup {i}
                                        ELSE recordsInprog[r]]
    /\ waitFor' = [waitFor EXCEPT ![i] = Cardinality(Sending)]
    /\ pact' = [pact EXCEPT ![i] = Sending # {}]
    /\ awaits' = [awaits EXCEPT ![i] =
                     {[reg |-> r, unsent |-> r \in Sending, op |-> opSeq[r]]
                        : r \in {s \in Regs : InProgress(s)}}]
    /\ UNCHANGED <<present, state, flagVars, recordsWrite, recordsRead, records, opSeq,
                   memRx, devWritten, sendVars, alarm, timer>>

SyncEnd(i, left) ==
    /\ Kind[i] = "sync" /\ (pact[i] \/ ~Active)
    /\ waitFor' = [waitFor EXCEPT ![i] = 0]
    /\ End(i, current # "Running" \/ left # 0)
    /\ UNCHANGED timer

\* The device support of a record, called when it is processed.
Process(i) ==
    \/ Refuse(i)
    \/ ProcessRead(i) \/ ProcessWrite(i) \/ ProcessWatch(i)
    \/ SyncBegin(i) \/ SyncEnd(i, waitFor[i])

\* RecInfo::complete: process the record, if it is busy.
Again(i) ==
    IF pact[i] THEN Process(i)
    ELSE UNCHANGED <<svcVars, sendVars, pactVars, timer, waitFor>>

CompleteWatch_NotDone(i) ==
    /\ Kind[i] = "watch"
    /\ timer' = [timer EXCEPT ![i] = Usable(i) /\ state[Named[i]] = "InSync" /\ ~match[Named[i]]]
    /\ IF pact[i] /\ Usable(i) THEN End(i, FALSE) /\ UNCHANGED waitFor
       ELSE UNCHANGED <<svcVars, sendVars, pactVars, waitFor>>

\* WaitInfo::complete: try again later if the word read does not match.
CompleteWatch(i) ==
    /\ Kind[i] = "watch"
    /\ IF Usable(i) /\ state[Named[i]] = "InSync" /\ ~match[Named[i]]
       THEN /\ timer' = [timer EXCEPT ![i] = TRUE]
            /\ UNCHANGED <<svcVars, sendVars, pactVars, waitFor>>
       ELSE Again(i)

CompleteSync_Unchecked(i) ==
    /\ Kind[i] = "sync"
    /\ IF waitFor[i] # 1
       THEN /\ waitFor' = [waitFor EXCEPT ![i] = @ - 1]
            /\ UNCHANGED <<svcVars, sendVars, pactVars, timer>>
       ELSE Again(i)

CompleteSync_First(i) ==
    /\ Kind[i] = "sync"
    /\ IF pact[i] THEN SyncEnd(i, 0)
       ELSE UNCHANGED <<svcVars, sendVars, pactVars, timer, waitFor>>

\* SyncInfo::complete: only the last register completes the record.
CompleteSync(i) ==
    /\ Kind[i] = "sync"
    /\ IF waitFor[i] > 1
       THEN /\ waitFor' = [waitFor EXCEPT ![i] = @ - 1]
            /\ UNCHANGED <<svcVars, sendVars, pactVars, timer>>
       ELSE IF pact[i] THEN SyncEnd(i, 0)
       ELSE /\ waitFor' = [waitFor EXCEPT ![i] = 0]
            /\ UNCHANGED <<svcVars, sendVars, pactVars, timer>>

Complete(i) ==
    \/ CompleteWatch(i)
    \/ CompleteSync(i)
    \/ Kind[i] \notin {"watch", "sync"} /\ Again(i)

----------------------------------------------------------------------------
(***************************************************************************)
(* The worker.                                                             *)
(***************************************************************************)

\* Device::handle_send puts the registers at the front of reg_send in messages,
\* and the last of these perhaps in part.  Then the worker unlocks, and completes
\* the records in its list; or, once in the Error state, every record.
SendSome ==
    \E n \in 0 .. Len(regSend) :
       /\ regSend' = SubSeq(regSend, n + 1, Len(regSend))
       /\ partly' \in {p \in BOOLEAN : IF n < Len(regSend) THEN n = 0 /\ partly => p ELSE ~p}

Send ==
    /\ pc = "Send"
    /\ pc' = "Unlocked"
    /\ IF current = "Error" THEN UNCHANGED sendVars ELSE SendSome
    /\ LET all == current = "Error" /\ records = {} /\ afterReset
       IN  /\ completed' = IF all THEN {<<Named[i], i>> : i \in Interests} ELSE records
           /\ afterReset' = (afterReset /\ ~all)
    /\ Swap
    /\ UNCHANGED <<current, resetReq, errorReq, toTell, overtaken, recVars, opVars, boundVars>>

CompleteRecord ==
    /\ pc = "Unlocked"
    /\ \E c \in completed : completed' = completed \ {c} /\ Complete(c[2])
    /\ UNCHANGED <<devVars, pc, toTell, overtaken, intrVars, opVars, boundVars>>

Poll ==
    /\ pc = "Unlocked" /\ completed = {}
    /\ pc' = "Receive"
    /\ UNCHANGED <<svcVars, devVars, sendVars, completed, toTell, overtaken, recVars, opVars, boundVars>>

\* Device::handle_process: the last word of an operation completes it.
Completed(r) ==
    /\ r \notin Sending
    /\ Finish(r)
    /\ valid' = [valid EXCEPT ![r] = TRUE]
    /\ regSend' = IF writeQueued[r] \/ readQueued[r] THEN Append(regSend, r) ELSE regSend
    /\ done' = [done EXCEPT ![r] = opSeq[r]]
    /\ wrote' = IF state[r] = "Writing" THEN [wrote EXCEPT ![r] = opSeq[r]] ELSE wrote
    /\ scan' = [i \in Interests |-> scan[i] \/ (Kind[i] = "intr" /\ Named[i] = r)]
    /\ UNCHANGED <<partly, got>>

ReceiveWord(r) ==
    /\ pc = "Receive"
    /\ state[r] = "Reading"
    /\ r \in Sending => partly /\ r = Head(regSend)
    /\ \E o \in Offsets(r) :
       /\ memRx[r][o] # opSeq[r]
       /\ memRx' = [memRx EXCEPT ![r][o] = opSeq[r]]
       /\ IF \A p \in Offsets(r) \ {o} : memRx[r][p] = opSeq[r]
          THEN Completed(r) /\ UNCHANGED present
          ELSE UNCHANGED <<present, state, flagVars, listVars, records, opSeq, devWritten,
                           sendVars, intrVars, valid, done, wrote>>
    /\ \E b \in IF OfKind("watch") = {} THEN {FALSE} ELSE BOOLEAN :
          match' = [match EXCEPT ![r] = b]
    /\ UNCHANGED <<devVars, runVars, pactVars, timer, waitFor, boundVars>>

\* The words of a write are of no interest to records.
ReceiveWritten(r) ==
    /\ pc = "Receive"
    /\ state[r] = "Writing"
    /\ Completed(r)
    /\ UNCHANGED <<present, memRx, match, devVars, runVars, pactVars, timer, waitFor, boundVars>>

ReceiveDone ==
    /\ pc = "Receive"
    /\ pc' = "State"
    /\ UNCHANGED <<svcVars, devVars, sendVars, completed, toTell, overtaken, recVars, opVars, boundVars>>

Timeout(r) ==
    /\ pc = "Receive"
    /\ faults < MaxFaults /\ faults' = faults + 1
    /\ InProgress(r)
    /\ r \in Sending => partly /\ r = Head(regSend)
    /\ Cancel(r)
    /\ valid' = [valid EXCEPT ![r] = FALSE]
    /\ scan' = [i \in Interests |-> scan[i] \/ (Kind[i] = "intr" /\ Named[i] = r)]
    /\ regSend' = IF r \in Sending THEN Tail(regSend) ELSE regSend
    /\ partly' = (partly /\ r \notin Sending)
    /\ resetReq' = TRUE
    /\ pc' = "State"
    /\ UNCHANGED <<current, errorReq, afterReset, completed, toTell, overtaken, pactVars, timer, waitFor,
                   got, match, done, wrote, calls>>

ResetDevice_NoScan(next) ==
    /\ Reset
    /\ current' = next
    /\ resetReq' = FALSE /\ errorReq' = FALSE
    /\ afterReset' = TRUE
    /\ regSend' = <<>> /\ partly' = FALSE
    /\ valid' = [r \in Regs |-> FALSE]
    /\ match' = [r \in Regs |-> FALSE]
    /\ pc' = "Send"
    /\ UNCHANGED <<completed, toTell, overtaken, pactVars, timer, waitFor, intrVars, done, wrote>>

\* Device::reset
ResetDevice(next) ==
    /\ Reset
    /\ current' = next
    /\ resetReq' = FALSE /\ errorReq' = FALSE
    /\ afterReset' = TRUE
    /\ regSend' = <<>> /\ partly' = FALSE
    /\ valid' = [r \in Regs |-> FALSE]
    /\ match' = [r \in Regs |-> FALSE]
    /\ scan' = [i \in Interests |-> scan[i] \/ (Kind[i] = "intr" /\ Named[i] \notin Boot)]
    /\ pc' = "Send"
    /\ UNCHANGED <<completed, toTell, overtaken, pactVars, timer, waitFor, got, done, wrote>>

StateReset ==
    /\ pc = "State"
    /\ resetReq \/ errorReq
    /\ ResetDevice(IF errorReq THEN "Error" ELSE "Searching")
    /\ UNCHANGED boundVars

\* Device::handle_inspect, when the ROM has been read.
StateConnect ==
    /\ pc = "State" /\ ~resetReq /\ ~errorReq
    /\ current = "Searching"
    /\ current' = "Inspecting"
    /\ Attach(Regs)
    /\ toTell' = Interests
    /\ overtaken' = {}
    /\ pc' = "Connected"
    /\ UNCHANGED <<resetReq, errorReq, afterReset, sendVars, completed, recVars, opVars, boundVars>>

\* RecRegInfo::connected, with the worker unlocked: a write record is processed,
\* without a request (persistSettings).  That ends one that is busy already, and
\* does nothing that matters here if it is not, or if its value is undefined (udf).
Tell(i) ==
    /\ pc = "Connected" /\ i \in toTell
    /\ toTell' = toTell \ {i}
    /\ \/ /\ Kind[i] = "write" /\ pact[i]
          /\ End(i, FALSE)
          /\ overtaken' = overtaken \cup {i}
       \/ UNCHANGED <<svcVars, sendVars, pactVars, overtaken>>
    /\ UNCHANGED <<devVars, pc, completed, timer, waitFor, intrVars, opVars, boundVars>>

StateRunning ==
    /\ pc = "Connected" /\ toTell = {}
    /\ current' = "Running"
    /\ pc' = "Send"
    /\ UNCHANGED <<svcVars, resetReq, errorReq, afterReset, sendVars, completed, toTell, overtaken,
                   recVars, opVars, boundVars>>

StateSame ==
    /\ pc = "State" /\ ~resetReq /\ ~errorReq
    /\ pc' = "Send"
    /\ UNCHANGED <<svcVars, devVars, sendVars, completed, toTell, overtaken, recVars, opVars, boundVars>>

\* The catch of Device::run.
WorkerError ==
    /\ faults < MaxFaults /\ faults' = faults + 1
    /\ \/ pc = "Send" /\ current # "Error" /\ regSend # <<>>
       \/ pc = "Unlocked" /\ completed = {}
    /\ ResetDevice("Error")
    /\ UNCHANGED calls

Worker ==
    \/ Send \/ CompleteRecord \/ Poll
    \/ \E r \in Regs : ReceiveWord(r) \/ ReceiveWritten(r)
    \/ ReceiveDone
    \/ StateReset \/ StateConnect \/ \E i \in Interests : Tell(i)
    \/ StateRunning \/ StateSame

----------------------------------------------------------------------------
(***************************************************************************)
(* Other threads.  Only a Sync does not take the lock of the device.       *)
(***************************************************************************)
Unlocked == pc \in {"Unlocked", "Connected"}

Call ==
    /\ calls < MaxCalls /\ calls' = calls + 1
    /\ UNCHANGED <<runVars, intrVars, opVars, faults>>

\* A record is processed, unless it is busy.
ProcessRecord(i) ==
    /\ Call
    /\ Unlocked \/ Kind[i] = "sync"
    /\ Kind[i] # "intr"
    /\ ~pact[i]
    /\ Process(i)
    /\ UNCHANGED devVars

\* A record with wait=false asks for a write.
WriteNoWait(r) ==
    /\ Call
    /\ Unlocked
    /\ r \in Writable
    /\ QueueReg(r, TRUE, NoInterest)
    /\ UNCHANGED <<devVars, pactVars, timer, waitFor>>

SetAddress ==
    /\ Call
    /\ Unlocked
    /\ resetReq' = TRUE
    /\ UNCHANGED <<svcVars, current, errorReq, afterReset, sendVars, pactVars, timer, waitFor>>

ForceError ==
    /\ Call
    /\ Unlocked
    /\ errorReq' = TRUE
    /\ UNCHANGED <<svcVars, current, resetReq, afterReset, sendVars, pactVars, timer, waitFor>>

\* An I/O Intr scan.
ScanIntr(i) ==
    /\ Unlocked
    /\ scan[i]
    /\ scan' = [scan EXCEPT ![i] = FALSE]
    /\ got' = [got EXCEPT ![i] = IF Usable(i) THEN memRx[Named[i]] ELSE @]
    /\ Process(i)
    /\ UNCHANGED <<devVars, runVars, opVars, boundVars>>

\* WaitInfo::expire: the callback of a Watch reads the register again.
Expire(i) ==
    /\ Unlocked
    /\ timer[i]
    /\ calls < MaxCalls /\ calls' = calls + 1
    /\ timer' = [timer EXCEPT ![i] = FALSE]
    /\ IF Named[i] \in present
       THEN QueueReg(Named[i], FALSE, i)
       ELSE UNCHANGED <<svcVars, sendVars>>
    /\ UNCHANGED <<devVars, runVars, pactVars, waitFor, intrVars, opVars, faults>>

Record ==
    \/ \E i \in Interests : ProcessRecord(i) \/ ScanIntr(i) \/ Expire(i)
    \/ \E r \in Regs : WriteNoWait(r)
    \/ SetAddress \/ ForceError

----------------------------------------------------------------------------
Init ==
    /\ RegistersInit
    /\ current = "Searching"
    /\ resetReq = FALSE
    /\ errorReq = FALSE
    /\ afterReset = FALSE
    /\ regSend = <<>>
    /\ partly = FALSE
    /\ valid = [r \in Regs |-> FALSE]
    /\ match = [r \in Regs |-> FALSE]
    /\ pc = "Send"
    /\ completed = {}
    /\ toTell = {}
    /\ pact = [i \in Interests |-> FALSE]
    /\ alarm = [i \in Interests |-> TRUE]
    /\ timer = [i \in Interests |-> FALSE]
    /\ waitFor = [i \in Interests |-> 0]
    /\ scan = [i \in Interests |-> FALSE]
    /\ got = [i \in OfKind("intr") |-> NeverRead(Named[i])]
    /\ awaits = [i \in Interests |-> {}]
    /\ done = [r \in Regs |-> 0]
    /\ wrote = [r \in Regs |-> 0]
    /\ overtaken = {}
    /\ calls = 0
    /\ faults = 0

Next ==
    \/ Worker
    \/ \E r \in Regs : Timeout(r)
    \/ WorkerError
    \/ Record

Spec == Init /\ [][Next]_vars

(***************************************************************************)
(* The worker's loop never stops; what is queued is sent, once earlier     *)
(* messages are answered, and what is sent is answered, after the          *)
(* MaxFaults faults (Engine.tla shows that each of them ends in a reset).  *)
(***************************************************************************)
FairSpec ==
    /\ Spec
    /\ WF_vars(Worker)
    /\ SF_vars(Send /\ Sending' = {})
    /\ \A r \in Regs : SF_vars(ReceiveWord(r) \/ ReceiveWritten(r))

----------------------------------------------------------------------------
TypeOK ==
    /\ RegistersTypeOK
    /\ current \in {"Error", "Searching", "Inspecting", "Running"}
    /\ {resetReq, errorReq, afterReset, partly} \subseteq BOOLEAN
    /\ regSend \in Seq(Regs)
    /\ partly => regSend # <<>>
    /\ {valid, match} \subseteq [Regs -> BOOLEAN]
    /\ pc \in {"Send", "Unlocked", "Receive", "State", "Connected"}
    /\ completed \in SUBSET (Regs \X Interests)
    /\ {toTell, overtaken} \subseteq SUBSET Interests
    /\ {pact, alarm, timer, scan} \subseteq [Interests -> BOOLEAN]
    /\ waitFor \in [Interests -> 0 .. Cardinality(Regs)]
    /\ \A i \in OfKind("intr") : got[i] \in [Offsets(Named[i]) -> Nat]
    /\ \A i \in Interests : \A a \in awaits[i] : a.reg \in Regs /\ a.op \in Nat
    /\ {done, wrote} \subseteq [Regs -> Nat]
    /\ {calls, faults} \subseteq Nat

Waits(i) ==
    {r \in Regs : i \in recordsInprog[r]} \cup {c[1] : c \in {d \in records \cup completed : d[2] = i}}

Queued(i) ==
    {r \in Regs : i \in recordsWrite[r] \cup recordsRead[r]}

\* A busy record is on some list, so that something will complete it.
NobodyForgotten ==
    \A i \in Interests : pact[i] /\ Kind[i] # "watch" => Waits(i) \cup Queued(i) # {}

\* A busy Sync waits for exactly as many completions as will come.
SyncCounts ==
    \A i \in OfKind("sync") : pact[i] => waitFor[i] = Cardinality(Waits(i))

\* A record is left without an alarm.
Succeeds(i) == pact[i] /\ ~pact'[i] /\ ~alarm'[i]

\* A read record succeeds only with words that were all read by one operation: the
\* one it joined, or one that began later.
ReadFresh ==
    [][\A i \in OfKind("read") : Succeeds(i) =>
          \A a \in awaits[i] : \E n \in a.op .. opSeq[a.reg] :
              \A o \in Offsets(a.reg) : memRx[a.reg][o] = n]_vars

\* A write record succeeds only after a write that began when it was processed,
\* or later, has completed: unless, since the device was connected, the record was
\* told so (persistSettings) when another thread had made it busy already.
WriteDone ==
    [][\A i \in OfKind("write") \ overtaken' :
          Succeeds(i) => \A a \in awaits[i] : wrote[a.reg] >= a.op]_vars

\* A Sync succeeds only after every operation that had words to be sent has
\* completed.
SyncWaits ==
    [][\A i \in OfKind("sync") : Succeeds(i) =>
          \A a \in awaits[i] : a.unsent => done[a.reg] >= a.op]_vars

\* No change is lost on an I/O Intr record: unless a scan of it is pending, it has
\* an alarm exactly if its register is not valid, and its words are those of the
\* cache, once nothing is in progress.
IntrUpToDate ==
    \A i \in OfKind("intr") : ~scan[i] /\ Named[i] \in present =>
        /\ alarm[i] = ~valid[Named[i]]
        /\ state[Named[i]] = "InSync" => got[i] = memRx[Named[i]]

\* A busy record is completed, whatever is lost.
Returned == \A i \in Interests : pact[i] /\ Kind[i] # "watch" ~> ~pact[i]

\* FEED Sync completes after every operation in progress.
SyncWaitsAll ==
    [][\A i \in OfKind("sync") : Succeeds(i) =>
          \A a \in awaits[i] : done[a.reg] >= a.op]_vars

\* A Watch polls its register as long as it is busy.
Polled ==
    \A i \in OfKind("watch") : pact[i] => timer[i] \/ Waits(i) \cup Queued(i) # {}

\* The words of a Watch were all received since it was processed, and what ends it
\* with success is a match, or else an operation that something else asked for.
WatchReads ==
    [][\A i \in OfKind("watch") : Named[i] \notin Boot /\ Succeeds(i) =>
          \A a \in awaits[i] :
             /\ \A o \in Offsets(a.reg) : memRx[a.reg][o] >= a.op
             /\ \/ match[a.reg]
                \/ InProgress(a.reg) /\ i \notin recordsInprog[a.reg] /\ a.reg \notin Queued(i)]_vars

\* Once initiated, a Watch polls until success.
WatchMatches ==
    [][\A i \in OfKind("watch") : Succeeds(i) => match[Named[i]]]_vars

\* With wait=true a record waits for the write of its register to complete.
WriteWaits ==
    [][\A i \in OfKind("write") : Succeeds(i) => \A a \in awaits[i] : wrote[a.reg] >= a.op]_vars
=============================================================================
