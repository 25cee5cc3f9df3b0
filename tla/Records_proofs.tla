--------------------------- MODULE Records_proofs ---------------------------
(***************************************************************************)
(* Theorems about Records, for every number of registers and records of    *)
(* each kind, and every number of calls and faults.                        *)
(***************************************************************************)
EXTENDS Records, Registers_proofs, FiniteSetTheorems, SequenceTheorems

USE RegistersAssumption, RecordsAssumption

Flags == [Interests -> BOOLEAN]

\* The variables that the processing of a record may change.
RecTyped ==
    /\ RegistersTypeOK
    /\ regSend \in Seq(Regs)
    /\ partly \in BOOLEAN
    /\ partly => regSend # <<>>
    /\ pact \in Flags /\ alarm \in Flags /\ timer \in Flags
    /\ waitFor \in [Interests -> Nat]
    /\ DOMAIN awaits = Interests
    /\ \A i \in Interests : \A a \in awaits[i] : a.reg \in Regs /\ a.op \in Nat

IntrTyped ==
    /\ scan \in Flags
    /\ DOMAIN got = OfKind("intr")
    /\ \A i \in OfKind("intr") : got[i] \in [Offsets(Named[i]) -> Nat]

\* Those of the worker.
RunTyped ==
    /\ current \in {"Error", "Searching", "Inspecting", "Running"}
    /\ resetReq \in BOOLEAN /\ errorReq \in BOOLEAN /\ afterReset \in BOOLEAN
    /\ valid \in [Regs -> BOOLEAN] /\ match \in [Regs -> BOOLEAN]
    /\ pc \in {"Send", "Unlocked", "Receive", "State", "Connected"}
    /\ completed \in SUBSET (Regs \X Interests)
    /\ toTell \in SUBSET Interests /\ overtaken \in SUBSET Interests
    /\ done \in [Regs -> Nat] /\ wrote \in [Regs -> Nat]
    /\ calls \in Nat /\ faults \in Nat

Typed == RecTyped /\ IntrTyped /\ RunTyped

procVars == <<svcVars, sendVars, pactVars, timer, waitFor>>
restVars == <<devVars, runVars, intrVars, opVars, boundVars>>

----------------------------------------------------------------------------
(***************************************************************************)
(* Types.                                                                  *)
(***************************************************************************)

LEMMA SvcStays ==
    ASSUME RegistersTypeOK, UNCHANGED svcVars
    PROVE  /\ RegistersTypeOK'
           /\ UNCHANGED <<present, state, writeQueued, recordsInprog, recordsWrite, recordsRead,
                          records, opSeq, memRx>>
BY DEF RegistersTypeOK, svcVars, flagVars, listVars

LEMMA RecStays == ASSUME RecTyped, UNCHANGED procVars PROVE RecTyped'
<1>1. RegistersTypeOK'  BY SvcStays DEF RecTyped, procVars
<1> QED  BY <1>1 DEF RecTyped, procVars, sendVars, pactVars

LEMMA RestStays == ASSUME IntrTyped, RunTyped, UNCHANGED restVars PROVE IntrTyped' /\ RunTyped'
<1>1. IntrTyped'  BY DEF IntrTyped, restVars, intrVars
<1>2. UNCHANGED <<current, resetReq, errorReq, afterReset, valid, match, pc, completed, toTell, overtaken,
                  done, wrote, calls, faults>>
    BY DEF restVars, devVars, runVars, opVars, boundVars
<1> QED  BY <1>1, <1>2 DEF RunTyped

\* A queued operation is one more in reg_send, or none.
LEMMA QueueRegTyped ==
    ASSUME RecTyped, NEW r \in Regs, NEW write \in BOOLEAN, NEW i \in Interests \cup {NoInterest},
           QueueReg(r, write, i)
    PROVE  /\ RegistersTypeOK' /\ regSend' \in Seq(Regs) /\ partly' = partly
           /\ partly => regSend' # <<>>
<1>1. RegistersTypeOK'  BY QueueTyped DEF RecTyped, QueueReg
<1>2. regSend \in Seq(Regs)  BY DEF RecTyped
<1>3. Append(regSend, r) \in Seq(Regs) /\ Append(regSend, r) # <<>>
    BY <1>2, AppendProperties
<1> QED  BY <1>1, <1>2, <1>3 DEF RecTyped, QueueReg

LEMMA AskTyped ==
    ASSUME RecTyped, NEW i \in Interests, NEW write \in BOOLEAN, NEW busy \in BOOLEAN,
           Ask(i, write, busy), UNCHANGED <<timer, waitFor>>
    PROVE  RecTyped'
<1>1. /\ RegistersTypeOK' /\ regSend' \in Seq(Regs) /\ partly' = partly
      /\ partly => regSend' # <<>>
    BY QueueRegTyped DEF Ask
<1>2. pact' \in Flags  BY DEF RecTyped, Ask, Flags
<1>3. /\ DOMAIN awaits' = Interests
      /\ \A j \in Interests : \A a \in awaits'[j] : a.reg \in Regs /\ a.op \in Nat
    BY DEF RecTyped, RegistersTypeOK, Ask, Joins
<1> QED  BY <1>1, <1>2, <1>3 DEF RecTyped, Ask

LEMMA EndTyped ==
    ASSUME RecTyped, NEW i \in Interests, NEW bad \in BOOLEAN, End(i, bad),
           timer' \in Flags, waitFor' \in [Interests -> Nat]
    PROVE  RecTyped'
<1>1. RegistersTypeOK'  BY SvcStays DEF RecTyped, End
<1>2. pact' \in Flags /\ alarm' \in Flags  BY DEF RecTyped, End, Flags
<1>3. /\ DOMAIN awaits' = Interests
      /\ \A j \in Interests : \A a \in awaits'[j] : a.reg \in Regs /\ a.op \in Nat
    BY DEF RecTyped, End
<1> QED  BY <1>1, <1>2, <1>3 DEF RecTyped, End, sendVars

LEMMA SyncBeginTyped ==
    ASSUME RecTyped, NEW i \in Interests, SyncBegin(i)
    PROVE  RecTyped'
<1>1. RegistersTypeOK'
    BY DEF RecTyped, RegistersTypeOK, SyncBegin, flagVars
<1>2. Sending \subseteq Regs  BY DEF Sending, RecTyped
<1>3. Cardinality(Sending) \in Nat  BY <1>2, FS_Subset, FS_CardinalityType
<1>4. waitFor' \in [Interests -> Nat]  BY <1>3 DEF RecTyped, SyncBegin
<1>5. pact' \in Flags  BY DEF RecTyped, SyncBegin, Flags
<1>6. /\ DOMAIN awaits' = Interests
      /\ \A j \in Interests : \A a \in awaits'[j] : a.reg \in Regs /\ a.op \in Nat
    BY DEF RecTyped, RegistersTypeOK, SyncBegin
<1> QED  BY <1>1, <1>4, <1>5, <1>6 DEF RecTyped, SyncBegin, sendVars

\* The processing of a record keeps the variables typed.
LEMMA ProcessTyped ==
    ASSUME RecTyped, RunTyped, NEW i \in Interests, Process(i)
    PROVE  RecTyped'
<1>1. valid[Named[i]] \in BOOLEAN  BY DEF RunTyped
<1>2. CASE Refuse(i)
    BY <1>2, EndTyped DEF Refuse, RecTyped, Flags
<1>3. CASE ProcessRead(i)
    <2>1. CASE End(i, ~valid[Named[i]])
        BY <1>1, <1>3, <2>1, EndTyped DEF ProcessRead, RecTyped
    <2>2. CASE Ask(i, FALSE, TRUE)
        BY <1>3, <2>2, AskTyped DEF ProcessRead
    <2> QED  BY <1>3, <2>1, <2>2 DEF ProcessRead
<1>4. CASE ProcessWrite(i)
    <2>1. Active \in BOOLEAN  BY DEF Active
    <2>2. CASE End(i, FALSE)
        BY <1>4, <2>2, EndTyped DEF ProcessWrite, RecTyped
    <2>3. CASE Ask(i, TRUE, Active)
        BY <1>4, <2>1, <2>3, AskTyped DEF ProcessWrite
    <2> QED  BY <1>4, <2>2, <2>3 DEF ProcessWrite
<1>5. CASE ProcessWatch(i)
    <2>1. CASE End(i, FALSE)
        BY <1>5, <2>1, EndTyped DEF ProcessWatch, RecTyped
    <2>2. CASE Ask(i, FALSE, TRUE)
        BY <1>5, <2>2, AskTyped DEF ProcessWatch
    <2> QED  BY <1>5, <2>1, <2>2 DEF ProcessWatch
<1>6. CASE SyncBegin(i)  BY <1>6, SyncBeginTyped
<1>7. CASE SyncEnd(i, waitFor[i])
    <2>1. (current # "Running" \/ waitFor[i] # 0) \in BOOLEAN  OBVIOUS
    <2>2. timer' \in Flags /\ waitFor' \in [Interests -> Nat]
        BY <1>7 DEF SyncEnd, RecTyped
    <2> QED  BY <1>7, <2>1, <2>2, EndTyped DEF SyncEnd
<1> QED  BY <1>2, <1>3, <1>4, <1>5, <1>6, <1>7 DEF Process

LEMMA CompleteTyped ==
    ASSUME RecTyped, RunTyped, NEW i \in Interests, Complete(i)
    PROVE  RecTyped'
<1>1. ASSUME Again(i) PROVE RecTyped'
    BY <1>1, ProcessTyped, RecStays DEF Again, procVars
<1>2. CASE CompleteWatch(i)
    <2>1. CASE /\ timer' = [timer EXCEPT ![i] = TRUE]
               /\ UNCHANGED <<svcVars, sendVars, pactVars, waitFor>>
        <3>1. RegistersTypeOK'  BY <2>1, SvcStays DEF RecTyped
        <3> QED  BY <2>1, <3>1 DEF RecTyped, sendVars, pactVars, Flags
    <2> QED  BY <1>1, <1>2, <2>1 DEF CompleteWatch
<1>3. CASE CompleteSync(i)
    <2>1. CASE SyncEnd(i, 0)
        <3>1. (current # "Running" \/ 0 # 0) \in BOOLEAN  OBVIOUS
        <3>2. timer' \in Flags /\ waitFor' \in [Interests -> Nat]
            BY <2>1 DEF SyncEnd, RecTyped
        <3> QED  BY <2>1, <3>1, <3>2, EndTyped DEF SyncEnd
    <2>2. CASE /\ \/ waitFor' = [waitFor EXCEPT ![i] = 0]
                  \/ waitFor[i] > 1 /\ waitFor' = [waitFor EXCEPT ![i] = @ - 1]
               /\ UNCHANGED <<svcVars, sendVars, pactVars, timer>>
        <3>1. RegistersTypeOK'  BY <2>2, SvcStays DEF RecTyped
        <3>2. waitFor' \in [Interests -> Nat]  BY <2>2 DEF RecTyped
        <3> QED  BY <2>2, <3>1, <3>2 DEF RecTyped, sendVars, pactVars
    <2> QED  BY <1>3, <2>1, <2>2 DEF CompleteSync
<1> QED  BY <1>1, <1>2, <1>3 DEF Complete

LEMMA SendTyped == ASSUME Typed, Send PROVE Typed'
<1> USE DEF Typed
<1>1. regSend \in Seq(Regs) /\ Len(regSend) \in Nat  BY LenProperties DEF RecTyped
<1>2. /\ regSend' \in Seq(Regs) /\ partly' \in BOOLEAN
      /\ partly' => regSend' # <<>>
    <2>1. CASE UNCHANGED sendVars
        BY <2>1 DEF RecTyped, sendVars
    <2>2. CASE SendSome
        <3>1. PICK n \in 0 .. Len(regSend) :
                /\ regSend' = SubSeq(regSend, n + 1, Len(regSend))
                /\ partly' \in BOOLEAN
                /\ partly' => n < Len(regSend)
            BY <2>2 DEF SendSome
        <3>2. /\ regSend' \in Seq(Regs)
              /\ n < Len(regSend) => Len(regSend') = Len(regSend) - n
            BY <1>1, <3>1, SubSeqProperties
        <3>3. n < Len(regSend) => regSend' # <<>>  BY <1>1, <3>2, EmptySeq
        <3> QED  BY <3>1, <3>2, <3>3
    <2> QED  BY <2>1, <2>2 DEF Send
<1>3. RegistersTypeOK'
    BY DEF RecTyped, RegistersTypeOK, Send, Swap, flagVars, listVars
<1>4. RecTyped'
    BY <1>2, <1>3 DEF RecTyped, Send, recVars, pactVars
<1>5. completed' \in SUBSET (Regs \X Interests)
    <2>1. {<<Named[i], i>> : i \in Interests} \in SUBSET (Regs \X Interests)  OBVIOUS
    <2> QED  BY <2>1 DEF Send, RecTyped, RegistersTypeOK
<1>6. /\ afterReset' \in BOOLEAN /\ pc' = "Unlocked"
      /\ UNCHANGED <<current, resetReq, errorReq, toTell, overtaken, valid, match, done, wrote, calls, faults>>
    BY DEF Send, RunTyped, opVars, boundVars
<1>7. RunTyped'  BY <1>5, <1>6 DEF RunTyped
<1>8. IntrTyped'  BY DEF IntrTyped, Send, recVars, intrVars
<1> QED  BY <1>4, <1>7, <1>8

LEMMA CompleteRecordTyped == ASSUME Typed, CompleteRecord PROVE Typed'
<1> USE DEF Typed
<1>1. PICK c \in completed : completed' = completed \ {c} /\ Complete(c[2])
    BY DEF CompleteRecord
<1>2. c[2] \in Interests  BY DEF RunTyped
<1>3. RecTyped'  BY <1>1, <1>2, CompleteTyped
<1>4. IntrTyped'  BY DEF IntrTyped, CompleteRecord, intrVars
<1>5. UNCHANGED <<current, resetReq, errorReq, afterReset, pc, toTell, overtaken, valid, match, done, wrote,
                  calls, faults>>
    BY DEF CompleteRecord, devVars, opVars, boundVars
<1>6. RunTyped'  BY <1>1, <1>5 DEF RunTyped
<1> QED  BY <1>3, <1>4, <1>6

\* The steps of the worker that only go on.
Moves == Poll \/ ReceiveDone \/ StateSame \/ StateRunning

LEMMA MovesEffect ==
    ASSUME Moves
    PROVE  /\ UNCHANGED <<procVars, resetReq, errorReq, afterReset, completed, toTell, overtaken, timer,
                          intrVars, opVars, boundVars>>
           /\ \/ pc = "Unlocked" /\ completed = {} /\ pc' = "Receive" /\ current' = current
              \/ pc = "Receive" /\ pc' = "State" /\ current' = current
              \/ pc = "State" /\ pc' = "Send" /\ current' = current
              \/ pc = "Connected" /\ pc' = "Send" /\ current' = "Running"
BY DEF Moves, Poll, ReceiveDone, StateSame, StateRunning, procVars, devVars, recVars, runVars

LEMMA MovesTyped == ASSUME Typed, Moves PROVE Typed'
<1> USE DEF Typed
<1>1. RecTyped'  BY MovesEffect, RecStays
<1>2. IntrTyped'  BY MovesEffect DEF IntrTyped, intrVars
<1>3. UNCHANGED <<resetReq, errorReq, afterReset, completed, toTell, overtaken, valid, match, done, wrote,
                  calls, faults>>
      /\ current' \in {current, "Running"} /\ pc' \in {"Receive", "State", "Send"}
    BY MovesEffect DEF opVars, boundVars
<1>4. RunTyped'  BY <1>3 DEF RunTyped
<1> QED  BY <1>1, <1>2, <1>4

\* The end of an operation.
LEMMA CompletedTyped ==
    ASSUME Typed, NEW r \in Regs, Completed(r), UNCHANGED present,
           DOMAIN memRx' = Regs /\ \A q \in Regs : memRx'[q] \in [Offsets(q) -> Nat],
           UNCHANGED <<pactVars, timer, waitFor>>
    PROVE  /\ RecTyped' /\ IntrTyped'
           /\ valid' \in [Regs -> BOOLEAN] /\ done' \in [Regs -> Nat] /\ wrote' \in [Regs -> Nat]
<1> USE DEF Typed
<1>1. RegistersTypeOK'  BY FinishTyped DEF Completed, RecTyped
<1>2. regSend \in Seq(Regs)  BY DEF RecTyped
<1>3. Append(regSend, r) \in Seq(Regs) /\ Append(regSend, r) # <<>>
    BY <1>2, AppendProperties
<1>4. RecTyped'
    BY <1>1, <1>2, <1>3 DEF RecTyped, Completed, pactVars
<1>5. opSeq[r] \in Nat  BY DEF RecTyped, RegistersTypeOK
<1>6. /\ valid' \in [Regs -> BOOLEAN] /\ done' \in [Regs -> Nat] /\ wrote' \in [Regs -> Nat]
    BY <1>5 DEF RunTyped, Completed
<1>7. IntrTyped'
    <2>1. scan' \in Flags  BY DEF IntrTyped, Completed, Flags
    <2> QED  BY <2>1 DEF IntrTyped, Completed
<1> QED  BY <1>4, <1>6, <1>7

LEMMA ReceiveWordTyped == ASSUME Typed, NEW r \in Regs, ReceiveWord(r) PROVE Typed'
<1> USE DEF Typed
<1>1. PICK o \in Offsets(r) :
        /\ memRx' = [memRx EXCEPT ![r][o] = opSeq[r]]
        /\ \/ Completed(r) /\ UNCHANGED present
           \/ UNCHANGED <<present, state, flagVars, listVars, records, opSeq, devWritten,
                          sendVars, intrVars, valid, done, wrote>>
    BY DEF ReceiveWord
<1>2. UNCHANGED <<current, resetReq, errorReq, afterReset, pc, completed, toTell, overtaken, pactVars,
                  timer, waitFor, calls, faults>>
    BY DEF ReceiveWord, devVars, runVars, boundVars
<1>3. DOMAIN memRx' = Regs /\ \A q \in Regs : memRx'[q] \in [Offsets(q) -> Nat]
    BY <1>1 DEF RecTyped, RegistersTypeOK
<1>4. match' \in [Regs -> BOOLEAN]
    <2>1. PICK b \in BOOLEAN : match' = [match EXCEPT ![r] = b]  BY DEF ReceiveWord
    <2> QED  BY <2>1 DEF RunTyped
<1>5. CASE Completed(r) /\ UNCHANGED present
    BY <1>2, <1>3, <1>4, <1>5, CompletedTyped DEF RunTyped
<1>6. CASE UNCHANGED <<present, state, flagVars, listVars, records, opSeq, devWritten,
                       sendVars, intrVars, valid, done, wrote>>
    <2>1. RegistersTypeOK'
        BY <1>3, <1>6 DEF RecTyped, RegistersTypeOK, flagVars, listVars
    <2>2. RecTyped'  BY <1>2, <1>6, <2>1 DEF RecTyped, sendVars, pactVars
    <2>3. IntrTyped'  BY <1>6 DEF IntrTyped, intrVars
    <2>4. RunTyped'  BY <1>2, <1>4, <1>6 DEF RunTyped
    <2> QED  BY <2>2, <2>3, <2>4
<1> QED  BY <1>1, <1>5, <1>6

LEMMA ReceiveWrittenTyped == ASSUME Typed, NEW r \in Regs, ReceiveWritten(r) PROVE Typed'
<1> USE DEF Typed
<1>1. /\ Completed(r)
      /\ UNCHANGED <<present, memRx, match, current, resetReq, errorReq, afterReset, pc, completed,
                     toTell, overtaken, pactVars, timer, waitFor, calls, faults>>
    BY DEF ReceiveWritten, devVars, runVars, boundVars
<1>2. DOMAIN memRx' = Regs /\ \A q \in Regs : memRx'[q] \in [Offsets(q) -> Nat]
    BY <1>1 DEF RecTyped, RegistersTypeOK
<1> QED  BY <1>1, <1>2, CompletedTyped DEF RunTyped

LEMMA TimeoutTyped == ASSUME Typed, NEW r \in Regs, Timeout(r) PROVE Typed'
<1> USE DEF Typed
<1>1. RegistersTypeOK'  BY CancelTyped DEF Timeout, RecTyped
<1>2. regSend \in Seq(Regs)  BY DEF RecTyped
<1>3. r \in Sending => regSend # <<>>  BY <1>2, EmptySeq DEF Sending
<1>4. regSend' \in Seq(Regs)  BY <1>2, <1>3, HeadTailProperties DEF Timeout
<1>5. partly' \in BOOLEAN /\ (partly' => regSend' # <<>>)  BY DEF Timeout, RecTyped
<1>6. RecTyped'  BY <1>1, <1>4, <1>5 DEF RecTyped, Timeout, pactVars
<1>7. IntrTyped'
    <2>1. scan' \in Flags  BY DEF IntrTyped, Timeout, Flags
    <2> QED  BY <2>1 DEF IntrTyped, Timeout
<1>8. valid' \in [Regs -> BOOLEAN] /\ faults' \in Nat  BY DEF RunTyped, Timeout
<1>9. UNCHANGED <<current, errorReq, afterReset, completed, toTell, overtaken, match, done, wrote, calls>>
      /\ resetReq' = TRUE /\ pc' = "State"
    BY DEF Timeout
<1>10. RunTyped'  BY <1>8, <1>9 DEF RunTyped
<1> QED  BY <1>6, <1>7, <1>10

LEMMA ResetDeviceTyped ==
    ASSUME Typed, NEW next \in {"Error", "Searching"}, ResetDevice(next),
           calls' \in Nat, faults' \in Nat
    PROVE  Typed'
<1> USE DEF Typed
<1>1. RegistersTypeOK'  BY ResetTyped DEF ResetDevice, RecTyped
<1>2. regSend' \in Seq(Regs) /\ partly' = FALSE  BY DEF ResetDevice
<1>3. RecTyped'  BY <1>1, <1>2 DEF RecTyped, ResetDevice, pactVars
<1>4. IntrTyped'
    <2>1. scan' \in Flags  BY DEF IntrTyped, ResetDevice, Flags
    <2> QED  BY <2>1 DEF IntrTyped, ResetDevice
<1>5. valid' \in [Regs -> BOOLEAN] /\ match' \in [Regs -> BOOLEAN]  BY DEF ResetDevice
<1>6. /\ current' = next /\ resetReq' = FALSE /\ errorReq' = FALSE /\ afterReset' = TRUE
      /\ pc' = "Send" /\ UNCHANGED <<completed, toTell, overtaken, done, wrote>>
    BY DEF ResetDevice
<1>7. RunTyped'  BY <1>5, <1>6 DEF RunTyped
<1> QED  BY <1>3, <1>4, <1>7

LEMMA StateConnectTyped == ASSUME Typed, StateConnect PROVE Typed'
<1> USE DEF Typed
<1>1. RegistersTypeOK'
    BY DEF StateConnect, Attach, RecTyped, RegistersTypeOK, flagVars, listVars
<1>2. UNCHANGED <<regSend, partly, pact, alarm, awaits, timer, waitFor, scan, got, resetReq,
                  errorReq, afterReset, completed, valid, match, done, wrote, calls, faults>>
      /\ toTell' = Interests /\ overtaken' = {} /\ pc' = "Connected" /\ current' = "Inspecting"
    BY DEF StateConnect, sendVars, recVars, pactVars, intrVars, opVars, boundVars
<1>3. RecTyped'  BY <1>1, <1>2 DEF RecTyped
<1>4. IntrTyped'  BY <1>2 DEF IntrTyped
<1>5. RunTyped'  BY <1>2 DEF RunTyped
<1> QED  BY <1>3, <1>4, <1>5

LEMMA TellTyped == ASSUME Typed, NEW i \in Interests, Tell(i) PROVE Typed'
<1> USE DEF Typed
<1>1. RecTyped'
    <2>1. timer' \in Flags /\ waitFor' \in [Interests -> Nat]  BY DEF Tell, RecTyped
    <2>2. CASE End(i, FALSE)  BY <2>1, <2>2, EndTyped
    <2>3. CASE UNCHANGED <<svcVars, sendVars, pactVars>>
        BY <2>3, RecStays DEF Tell, procVars
    <2> QED  BY <2>2, <2>3 DEF Tell
<1>2. IntrTyped'  BY DEF IntrTyped, Tell, intrVars
<1>3. UNCHANGED <<current, resetReq, errorReq, afterReset, pc, completed, valid, match, done,
                  wrote, calls, faults>>
      /\ toTell' \in SUBSET Interests /\ overtaken' \in SUBSET Interests
    BY DEF RunTyped, Tell, devVars, opVars, boundVars
<1>4. RunTyped'  BY <1>3 DEF RunTyped
<1> QED  BY <1>1, <1>2, <1>4

\* The steps of other threads.
LEMMA CallRest ==
    ASSUME Typed, Call, current' = current, afterReset' = afterReset,
           resetReq' \in BOOLEAN, errorReq' \in BOOLEAN
    PROVE  IntrTyped' /\ RunTyped'
<1> USE DEF Typed
<1>1. calls' \in Nat  BY DEF Call, RunTyped
<1>2. UNCHANGED <<scan, got, pc, completed, toTell, overtaken, valid, match, done, wrote, faults>>
    BY DEF Call, runVars, intrVars, opVars
<1>3. IntrTyped'  BY <1>2 DEF IntrTyped
<1>4. RunTyped'  BY <1>1, <1>2 DEF RunTyped
<1> QED  BY <1>3, <1>4

LEMMA ProcessRecordTyped == ASSUME Typed, NEW i \in Interests, ProcessRecord(i) PROVE Typed'
<1>1. RecTyped'  BY ProcessTyped DEF ProcessRecord, Typed
<1>2. IntrTyped' /\ RunTyped'  BY CallRest DEF ProcessRecord, devVars, Typed, RunTyped
<1> QED  BY <1>1, <1>2 DEF Typed

LEMMA WriteNoWaitTyped == ASSUME Typed, NEW r \in Regs, WriteNoWait(r) PROVE Typed'
<1>1. /\ RegistersTypeOK' /\ regSend' \in Seq(Regs) /\ partly' = partly
      /\ partly => regSend' # <<>>
    BY QueueRegTyped DEF WriteNoWait, Typed
<1>2. RecTyped'  BY <1>1 DEF WriteNoWait, Typed, RecTyped, pactVars
<1>3. IntrTyped' /\ RunTyped'  BY CallRest DEF WriteNoWait, devVars, Typed, RunTyped
<1> QED  BY <1>2, <1>3 DEF Typed

LEMMA RequestTyped == ASSUME Typed, SetAddress \/ ForceError PROVE Typed'
<1>1. UNCHANGED procVars  BY DEF SetAddress, ForceError, procVars
<1>2. /\ current' = current /\ afterReset' = afterReset
      /\ resetReq' \in BOOLEAN /\ errorReq' \in BOOLEAN /\ Call
    BY DEF SetAddress, ForceError, Typed, RunTyped
<1>3. IntrTyped' /\ RunTyped'  BY <1>2, CallRest
<1> QED  BY <1>1, <1>3, RecStays DEF Typed

LEMMA ScanIntrTyped == ASSUME Typed, NEW i \in OfKind("intr"), ScanIntr(i) PROVE Typed'
<1> USE DEF Typed
<1>1. i \in Interests  BY DEF OfKind
<1>2. RecTyped'  BY <1>1, ProcessTyped DEF ScanIntr
<1>3. UNCHANGED <<current, resetReq, errorReq, afterReset, pc, completed, toTell, overtaken, valid, match,
                  done, wrote, calls, faults>>
    BY DEF ScanIntr, devVars, runVars, opVars, boundVars
<1>4. RunTyped'  BY <1>3 DEF RunTyped
<1>5. memRx[Named[i]] \in [Offsets(Named[i]) -> Nat]
    BY <1>1 DEF RecTyped, RegistersTypeOK
<1>6. scan' \in Flags  BY DEF IntrTyped, ScanIntr, Flags
<1>7. IntrTyped'  BY <1>5, <1>6 DEF IntrTyped, ScanIntr
<1> QED  BY <1>2, <1>4, <1>7

LEMMA ExpireTyped == ASSUME Typed, NEW i \in Interests, Expire(i) PROVE Typed'
<1> USE DEF Typed
<1>1. /\ RegistersTypeOK' /\ regSend' \in Seq(Regs) /\ partly' = partly
      /\ partly => regSend' # <<>>
    <2>1. CASE QueueReg(Named[i], FALSE, i)  BY <2>1, QueueRegTyped
    <2>2. CASE UNCHANGED <<svcVars, sendVars>>
        BY <2>2, SvcStays DEF RecTyped, sendVars
    <2> QED  BY <2>1, <2>2 DEF Expire
<1>2. timer' \in Flags  BY DEF Expire, RecTyped, Flags
<1>3. RecTyped'  BY <1>1, <1>2 DEF Expire, RecTyped, pactVars
<1>4. IntrTyped'  BY DEF Expire, IntrTyped, intrVars
<1>5. UNCHANGED <<current, resetReq, errorReq, afterReset, pc, completed, toTell, overtaken, valid, match,
                  done, wrote, faults>>
      /\ calls' \in Nat
    BY DEF Expire, devVars, runVars, opVars, RunTyped
<1>6. RunTyped'  BY <1>5 DEF RunTyped
<1> QED  BY <1>3, <1>4, <1>6

----------------------------------------------------------------------------
(***************************************************************************)
(* I/O Intr records: no change is lost.                                    *)
(***************************************************************************)

\* The link of an I/O Intr record names a register of the ROM, that can be read.
IntrOfRom == \A i \in OfKind("intr") : Named[i] \in Readable \ Boot

\* Only I/O Intr records are scanned, and they are never busy.
Scanned ==
    /\ \A i \in Interests : scan[i] => Kind[i] = "intr"
    /\ \A i \in OfKind("intr") : ~pact[i]

\* A register that does not exist has no operation and no valid words.
Unknown == \A r \in Regs \ present : ~valid[r] /\ state[r] = "Invalid"

\* IntrUpToDate, through resets as well.
UpToDate ==
    \A i \in OfKind("intr") : ~scan[i] =>
        /\ alarm[i] = ~valid[Named[i]]
        /\ state[Named[i]] = "InSync" => got[i] = memRx[Named[i]]

IntrInv == Typed /\ Scanned /\ Unknown /\ UpToDate

\* No register becomes in sync, or valid, but by the end of an operation.
Begun ==
    /\ present' = present /\ memRx' = memRx
    /\ \A r \in Regs : state'[r] = state[r] \/ (state'[r] \in {"Reading", "Writing"} /\ r \in present)

LEMMA QueueRegBegun ==
    ASSUME RecTyped, NEW r \in Regs, NEW write \in BOOLEAN, NEW i \in Interests \cup {NoInterest},
           QueueReg(r, write, i)
    PROVE  Begun
<1>1. r \in present /\ present' = present /\ memRx' = memRx  BY DEF QueueReg, Queue
<1>2. state' = state \/ \E to \in {"Reading", "Writing"} : state' = [state EXCEPT ![r] = to]
    BY DEF QueueReg, Queue, QueueIdle, QueueWriteLater, QueueReadLater, MergeRead, Begin
<1> QED  BY <1>1, <1>2 DEF Begun, RecTyped, RegistersTypeOK

\* The processing of a record ends it, or begins an operation, and leaves other
\* records alone.
LEMMA ProcessBegun ==
    ASSUME RecTyped, NEW i \in Interests, Process(i)
    PROVE  /\ Begun
           /\ \A j \in Interests \ {i} : pact'[j] = pact[j] /\ alarm'[j] = alarm[j]
<1>1. ASSUME NEW bad, End(i, bad)
      PROVE  Begun /\ \A j \in Interests \ {i} : pact'[j] = pact[j] /\ alarm'[j] = alarm[j]
    BY <1>1 DEF End, svcVars, Begun, RecTyped, Flags
<1>2. ASSUME NEW write \in BOOLEAN, NEW busy, Ask(i, write, busy)
      PROVE  Begun /\ \A j \in Interests \ {i} : pact'[j] = pact[j] /\ alarm'[j] = alarm[j]
    <2>1. Begun  BY <1>2, QueueRegBegun DEF Ask
    <2> QED  BY <1>2, <2>1 DEF Ask, RecTyped, Flags
<1>3. CASE SyncBegin(i)
    BY <1>3 DEF SyncBegin, Begun, RecTyped, Flags
<1>4. CASE Refuse(i) \/ ProcessRead(i) \/ ProcessWrite(i) \/ ProcessWatch(i)
    BY <1>1, <1>2, <1>4 DEF Refuse, ProcessRead, ProcessWrite, ProcessWatch
<1>5. CASE SyncEnd(i, waitFor[i])
    BY <1>1, <1>5 DEF SyncEnd
<1> QED  BY <1>3, <1>4, <1>5 DEF Process

LEMMA CompleteBegun ==
    ASSUME RecTyped, NEW i \in Interests, Complete(i)
    PROVE  /\ Begun
           /\ \A j \in Interests \ {i} : pact'[j] = pact[j] /\ alarm'[j] = alarm[j]
           /\ Kind[i] = "intr" /\ ~pact[i] => pact' = pact /\ alarm' = alarm
<1>1. CASE UNCHANGED <<svcVars, sendVars, pactVars>>
    BY <1>1 DEF svcVars, pactVars, Begun
<1>2. CASE pact[i] /\ Process(i)
    BY <1>2, ProcessBegun
<1>3. CASE SyncEnd(i, 0) /\ Kind[i] = "sync"
    <2>1. PICK bad : End(i, bad)  BY <1>3 DEF SyncEnd
    <2> QED  BY <1>3, <2>1 DEF End, svcVars, Begun, RecTyped, Flags
<1> QED  BY <1>1, <1>2, <1>3 DEF Complete, CompleteWatch, CompleteSync, Again

\* What begins an operation, or leaves registers alone, keeps the records true.
LEMMA BegunKeeps ==
    ASSUME IntrInv, IntrOfRom, Begun,
           \A i \in OfKind("intr") : pact'[i] = pact[i] /\ alarm'[i] = alarm[i],
           UNCHANGED <<scan, got, valid>>
    PROVE  Scanned' /\ Unknown' /\ UpToDate'
<1> USE DEF IntrInv
<1>1. Scanned'  BY DEF Scanned, OfKind
<1>2. Unknown'  BY DEF Begun, Unknown
<1>3. \A i \in OfKind("intr") : Named[i] \in Regs  BY DEF OfKind
<1>4. UpToDate'  BY <1>3 DEF UpToDate, Begun
<1> QED  BY <1>1, <1>2, <1>4

\* The end of an operation asks for a scan of each record of the register.
LEMMA CompletedKeeps ==
    ASSUME IntrInv, IntrOfRom, NEW r \in Regs, InProgress(r), Completed(r), present' = present,
           \A q \in Regs \ {r} : memRx'[q] = memRx[q],
           UNCHANGED pactVars
    PROVE  Scanned' /\ Unknown' /\ UpToDate'
<1> USE DEF IntrInv
<1>1. scan' = [i \in Interests |-> scan[i] \/ (Kind[i] = "intr" /\ Named[i] = r)]
    BY DEF Completed
<1>2. \A q \in Regs \ {r} : state'[q] = state[q] /\ valid'[q] = valid[q]
    BY FinishEffect DEF Completed, Typed, RecTyped, RunTyped
<1>3. r \in present  BY DEF InProgress, Unknown
<1>4. got' = got /\ pact' = pact /\ alarm' = alarm  BY DEF Completed, pactVars
<1>5. Scanned'  BY <1>1, <1>4 DEF Scanned, OfKind
<1>6. Unknown'  BY <1>2, <1>3 DEF Unknown
<1>7. UpToDate'
    <2> SUFFICES ASSUME NEW i \in OfKind("intr"), ~scan'[i]
                 PROVE  /\ alarm'[i] = ~valid'[Named[i]]
                        /\ state'[Named[i]] = "InSync" => got'[i] = memRx'[Named[i]]
        BY DEF UpToDate
    <2>1. Named[i] \in Regs \ {r} /\ ~scan[i]  BY <1>1 DEF OfKind
    <2> QED  BY <1>2, <1>4, <2>1 DEF UpToDate
<1> QED  BY <1>5, <1>6, <1>7

LEMMA ReceiveWordIntr ==
    ASSUME IntrInv, IntrOfRom, NEW r \in Regs, ReceiveWord(r)
    PROVE  Scanned' /\ Unknown' /\ UpToDate'
<1> USE DEF IntrInv
<1>1. PICK o \in Offsets(r) :
        /\ memRx' = [memRx EXCEPT ![r][o] = opSeq[r]]
        /\ \/ Completed(r) /\ UNCHANGED present
           \/ UNCHANGED <<present, state, flagVars, listVars, records, opSeq, devWritten,
                          sendVars, intrVars, valid, done, wrote>>
    BY DEF ReceiveWord
<1>2. state[r] = "Reading" /\ UNCHANGED pactVars  BY DEF ReceiveWord
<1>3. \A q \in Regs \ {r} : memRx'[q] = memRx[q]
    BY <1>1 DEF Typed, RecTyped, RegistersTypeOK
<1>4. CASE Completed(r) /\ UNCHANGED present
    BY <1>2, <1>3, <1>4, CompletedKeeps DEF InProgress
<1>5. CASE UNCHANGED <<present, state, flagVars, listVars, records, opSeq, devWritten,
                       sendVars, intrVars, valid, done, wrote>>
    <2>1. UNCHANGED <<present, state, scan, got, valid, pact, alarm>>
        BY <1>2, <1>5 DEF intrVars, pactVars
    <2>2. Scanned' /\ Unknown'  BY <2>1 DEF Scanned, Unknown
    <2>3. \A i \in OfKind("intr") : Named[i] \in Regs  BY DEF OfKind
    <2>4. UpToDate'  BY <1>2, <1>3, <2>1, <2>3 DEF UpToDate
    <2> QED  BY <2>2, <2>4
<1> QED  BY <1>1, <1>4, <1>5

LEMMA ReceiveWrittenIntr ==
    ASSUME IntrInv, IntrOfRom, NEW r \in Regs, ReceiveWritten(r)
    PROVE  Scanned' /\ Unknown' /\ UpToDate'
<1>1. InProgress(r) /\ Completed(r) /\ UNCHANGED <<present, memRx, pactVars>>
    BY DEF ReceiveWritten, InProgress
<1> QED  BY <1>1, CompletedKeeps

LEMMA TimeoutIntr ==
    ASSUME IntrInv, IntrOfRom, NEW r \in Regs, Timeout(r)
    PROVE  Scanned' /\ Unknown' /\ UpToDate'
<1> USE DEF IntrInv
<1>1. /\ state' = [state EXCEPT ![r] = "Invalid"] /\ valid' = [valid EXCEPT ![r] = FALSE]
      /\ scan' = [i \in Interests |-> scan[i] \/ (Kind[i] = "intr" /\ Named[i] = r)]
      /\ UNCHANGED <<present, memRx, got, pact, alarm>>
    BY DEF Timeout, Cancel, pactVars
<1>2. Scanned'  BY <1>1 DEF Scanned, OfKind
<1>3. Unknown'  BY <1>1 DEF Unknown, Typed, RecTyped, RegistersTypeOK, RunTyped
<1>4. \A q \in Regs \ {r} : state'[q] = state[q] /\ valid'[q] = valid[q]
    BY <1>1 DEF Typed, RecTyped, RegistersTypeOK, RunTyped
<1>5. UpToDate'
    <2> SUFFICES ASSUME NEW i \in OfKind("intr"), ~scan'[i]
                 PROVE  /\ alarm'[i] = ~valid'[Named[i]]
                        /\ state'[Named[i]] = "InSync" => got'[i] = memRx'[Named[i]]
        BY DEF UpToDate
    <2>1. Named[i] \in Regs \ {r} /\ ~scan[i]  BY <1>1 DEF OfKind
    <2> QED  BY <1>1, <1>4, <2>1 DEF UpToDate
<1> QED  BY <1>2, <1>3, <1>5

\* A reset invalidates every register, and asks for a scan of every record.
LEMMA ResetDeviceIntr ==
    ASSUME IntrInv, IntrOfRom, NEW next, ResetDevice(next)
    PROVE  Scanned' /\ Unknown' /\ UpToDate'
<1> USE DEF IntrInv
<1>1. /\ state' = [r \in Regs |-> "Invalid"] /\ valid' = [r \in Regs |-> FALSE]
      /\ scan' = [i \in Interests |-> scan[i] \/ (Kind[i] = "intr" /\ Named[i] \notin Boot)]
      /\ UNCHANGED <<pact, alarm>>
    BY DEF ResetDevice, Reset, pactVars
<1>2. Scanned'  BY <1>1 DEF Scanned, OfKind
<1>3. Unknown'  BY <1>1 DEF Unknown
<1>4. UpToDate'  BY <1>1 DEF UpToDate, OfKind, IntrOfRom
<1> QED  BY <1>2, <1>3, <1>4

\* A scan copies what the register holds at that time.
LEMMA ScanIntrIntr ==
    ASSUME IntrInv, IntrOfRom, NEW i \in Interests, ScanIntr(i)
    PROVE  Scanned' /\ Unknown' /\ UpToDate'
<1> USE DEF IntrInv
<1>1. Kind[i] = "intr" /\ i \in OfKind("intr") /\ Named[i] \in Readable \cap Regs
    BY DEF Scanned, ScanIntr, OfKind, IntrOfRom
<1>2. scan' = [scan EXCEPT ![i] = FALSE] /\ valid' = valid
      /\ got' = [got EXCEPT ![i] = IF Usable(i) THEN memRx[Named[i]] ELSE @]
    BY DEF ScanIntr, opVars
<1>3. Begun /\ \A j \in Interests \ {i} : pact'[j] = pact[j] /\ alarm'[j] = alarm[j]
    BY ProcessBegun DEF ScanIntr, Typed
<1>4. Usable(i) <=> Named[i] \in present
    BY <1>1 DEF Usable, Supported
<1>5. /\ ~pact'[i] /\ state' = state
      /\ Usable(i) => alarm'[i] = ~valid[Named[i]]
      /\ ~Usable(i) => alarm'[i] = TRUE
    <2>1. Refuse(i) \/ ProcessRead(i)
        BY <1>1 DEF ScanIntr, Process, ProcessWrite, ProcessWatch, SyncBegin, SyncEnd
    <2>2. End(i, IF Usable(i) THEN ~valid[Named[i]] ELSE TRUE)
        BY <1>1, <2>1 DEF Refuse, ProcessRead
    <2> QED  BY <2>2 DEF End, svcVars, Typed, RecTyped, Flags
<1>6. Scanned'
    BY <1>1, <1>2, <1>3, <1>5 DEF Scanned, OfKind, Typed, IntrTyped, Flags
<1>7. Unknown'  BY <1>2, <1>3, <1>5 DEF Unknown, Begun
<1>8. UpToDate'
    <2> SUFFICES ASSUME NEW j \in OfKind("intr"), ~scan'[j]
                 PROVE  /\ alarm'[j] = ~valid'[Named[j]]
                        /\ state'[Named[j]] = "InSync" => got'[j] = memRx'[Named[j]]
        BY DEF UpToDate
    <2>1. CASE j # i
        <3>1. ~scan[j] /\ got'[j] = got[j] /\ alarm'[j] = alarm[j]
            BY <1>2, <1>3, <2>1 DEF OfKind, Typed, IntrTyped, Flags
        <3> QED  BY <1>2, <1>3, <1>5, <3>1 DEF UpToDate, Begun
    <2>2. CASE j = i /\ Usable(i)
        <3>1. got'[i] = memRx[Named[i]]  BY <1>1, <1>2, <2>2 DEF Typed, IntrTyped
        <3> QED  BY <1>2, <1>3, <1>5, <2>2, <3>1 DEF Begun
    <2>3. CASE j = i /\ ~Usable(i)
        BY <1>1, <1>2, <1>4, <1>5, <2>3 DEF Unknown
    <2> QED  BY <2>1, <2>2, <2>3
<1> QED  BY <1>6, <1>7, <1>8

\* The steps that leave registers alone, or begin an operation.
Calm == Send \/ CompleteRecord \/ Moves \/ \E i \in Interests : Tell(i)

LEMMA CalmIntr ==
    ASSUME IntrInv, IntrOfRom, Calm
    PROVE  Scanned' /\ Unknown' /\ UpToDate'
<1> USE DEF IntrInv
<1>1. CASE Send
    <2>1. UNCHANGED <<present, memRx, state, pact, alarm, scan, got, valid>>
        BY <1>1 DEF Send, Swap, recVars, pactVars, intrVars, opVars
    <2> QED  BY <2>1, BegunKeeps DEF Begun
<1>2. CASE CompleteRecord
    <2>1. PICK c \in completed : Complete(c[2])  BY <1>2 DEF CompleteRecord
    <2>2. c[2] \in Interests  BY DEF Typed, RunTyped
    <2>3. /\ Begun
          /\ \A j \in Interests \ {c[2]} : pact'[j] = pact[j] /\ alarm'[j] = alarm[j]
          /\ Kind[c[2]] = "intr" /\ ~pact[c[2]] => pact' = pact /\ alarm' = alarm
        BY <2>1, <2>2, CompleteBegun DEF Typed
    <2>4. \A i \in OfKind("intr") : pact'[i] = pact[i] /\ alarm'[i] = alarm[i]
        BY <2>3 DEF Scanned, OfKind
    <2>5. UNCHANGED <<scan, got, valid>>  BY <1>2 DEF CompleteRecord, intrVars, opVars
    <2> QED  BY <2>3, <2>4, <2>5, BegunKeeps
<1>3. CASE Moves
    <2>1. UNCHANGED <<present, memRx, state, pact, alarm, scan, got, valid>>
        BY <1>3, MovesEffect DEF procVars, svcVars, pactVars, intrVars, opVars
    <2> QED  BY <2>1, BegunKeeps DEF Begun
<1>4. ASSUME NEW i \in Interests, Tell(i) PROVE Scanned' /\ Unknown' /\ UpToDate'
    <2>1. UNCHANGED <<present, memRx, state, scan, got, valid>>
        BY <1>4 DEF Tell, End, svcVars, intrVars, opVars
    <2>2. \A j \in OfKind("intr") : pact'[j] = pact[j] /\ alarm'[j] = alarm[j]
        <3>1. CASE Kind[i] = "write" /\ End(i, FALSE)
            BY <3>1 DEF End, OfKind, Typed, RecTyped, Flags
        <3>2. CASE UNCHANGED pactVars  BY <3>2 DEF pactVars
        <3> QED  BY <1>4, <3>1, <3>2 DEF Tell
    <2> QED  BY <2>1, <2>2, BegunKeeps DEF Begun
<1> QED  BY <1>1, <1>2, <1>3, <1>4 DEF Calm

\* Attach creates registers with no valid words.
LEMMA StateConnectIntr ==
    ASSUME IntrInv, StateConnect
    PROVE  Scanned' /\ Unknown' /\ UpToDate'
<1>1. /\ present' = Regs
      /\ UNCHANGED <<state, memRx, pact, alarm, scan, got, valid>>
    BY DEF StateConnect, Attach, recVars, pactVars, intrVars, opVars, IntrInv, Typed, RecTyped,
           RegistersTypeOK
<1> QED  BY <1>1 DEF IntrInv, Scanned, Unknown, UpToDate

\* What other threads do to records that are not scanned.
LEMMA OthersIntr ==
    ASSUME IntrInv, IntrOfRom,
           \/ \E i \in Interests : ProcessRecord(i) \/ Expire(i)
           \/ \E r \in Regs : WriteNoWait(r)
           \/ SetAddress \/ ForceError
    PROVE  Scanned' /\ Unknown' /\ UpToDate'
<1> USE DEF IntrInv
<1>1. ASSUME NEW i \in Interests, ProcessRecord(i) PROVE Scanned' /\ Unknown' /\ UpToDate'
    <2>1. Begun /\ \A j \in Interests \ {i} : pact'[j] = pact[j] /\ alarm'[j] = alarm[j]
        BY <1>1, ProcessBegun DEF ProcessRecord, Typed
    <2>2. i \notin OfKind("intr") /\ UNCHANGED <<scan, got, valid>>
        BY <1>1 DEF ProcessRecord, Call, OfKind, intrVars, opVars
    <2>3. OfKind("intr") \subseteq Interests  BY DEF OfKind
    <2> QED  BY <2>1, <2>2, <2>3, BegunKeeps
<1>2. ASSUME NEW i \in Interests, Expire(i) PROVE Scanned' /\ Unknown' /\ UpToDate'
    <2>1. ASSUME QueueReg(Named[i], FALSE, i) PROVE Begun
        BY <2>1, QueueRegBegun DEF Typed
    <2>2. ASSUME UNCHANGED svcVars PROVE Begun  BY <2>2 DEF svcVars, Begun
    <2>3. Begun  BY <1>2, <2>1, <2>2 DEF Expire
    <2>4. UNCHANGED <<pact, alarm, scan, got, valid>>
        BY <1>2 DEF Expire, pactVars, intrVars, opVars
    <2> QED  BY <2>3, <2>4, BegunKeeps
<1>3. ASSUME NEW r \in Regs, WriteNoWait(r) PROVE Scanned' /\ Unknown' /\ UpToDate'
    <2>1. Begun  BY <1>3, QueueRegBegun DEF WriteNoWait, Typed
    <2>2. UNCHANGED <<pact, alarm, scan, got, valid>>
        BY <1>3 DEF WriteNoWait, Call, pactVars, intrVars, opVars
    <2> QED  BY <2>1, <2>2, BegunKeeps
<1>4. CASE SetAddress \/ ForceError
    <2>1. UNCHANGED <<present, memRx, state, pact, alarm, scan, got, valid>>
        BY <1>4 DEF SetAddress, ForceError, Call, svcVars, pactVars, intrVars, opVars
    <2> QED  BY <2>1, BegunKeeps DEF Begun
<1> QED  BY <1>1, <1>2, <1>3, <1>4

----------------------------------------------------------------------------
LEMMA InitTyped == Init => Typed
<1> SUFFICES ASSUME Init PROVE Typed
    OBVIOUS
<1>1. RegistersTypeOK  BY DEF Init, RegistersInit, RegistersTypeOK, NeverRead, States
<1>2. regSend \in Seq(Regs)  BY DEF Init
<1>3. RecTyped  BY <1>1, <1>2 DEF Init, RecTyped, Flags
<1>4. \A r \in Regs : NeverRead(r) \in [Offsets(r) -> Nat]  BY DEF NeverRead
<1>5. IntrTyped  BY <1>4 DEF Init, IntrTyped, Flags, OfKind
<1>6. RunTyped  BY DEF Init, RunTyped
<1> QED  BY <1>3, <1>5, <1>6 DEF Typed

\* The kinds of steps, for both invariants.
LEMMA NextCases ==
    ASSUME Next
    PROVE  \/ Send
           \/ CompleteRecord
           \/ Moves
           \/ \E r \in Regs : ReceiveWord(r) \/ ReceiveWritten(r) \/ Timeout(r)
           \/ StateReset \/ WorkerError
           \/ StateConnect
           \/ \E i \in Interests : Tell(i)
           \/ \E i \in Interests : ProcessRecord(i)
           \/ \E i \in Interests : ScanIntr(i)
           \/ \E i \in Interests : Expire(i)
           \/ \E r \in Regs : WriteNoWait(r)
           \/ SetAddress \/ ForceError
BY DEF Next, Worker, Record, Moves

\* A reset, asked for or after an exception.
LEMMA ResetCases ==
    ASSUME Typed, StateReset \/ WorkerError
    PROVE  \E next \in {"Error", "Searching"} : ResetDevice(next) /\ calls' \in Nat /\ faults' \in Nat
<1>1. CASE StateReset  BY <1>1 DEF StateReset, boundVars, Typed, RunTyped
<1>2. CASE WorkerError  BY <1>2 DEF WorkerError, Typed, RunTyped
<1> QED  BY <1>1, <1>2

LEMMA InitIntr == Init => IntrInv
<1> SUFFICES ASSUME Init PROVE IntrInv
    OBVIOUS
<1>1. Typed  BY InitTyped
<1>2. Scanned /\ Unknown  BY DEF Init, RegistersInit, Scanned, Unknown, OfKind
<1>3. UpToDate  BY DEF Init, RegistersInit, UpToDate, OfKind
<1> QED  BY <1>1, <1>2, <1>3 DEF IntrInv

LEMMA NextTyped ==
    ASSUME Typed, Scanned, Next PROVE Typed'
<1>1. CASE Send \/ CompleteRecord \/ Moves
    BY <1>1, SendTyped, CompleteRecordTyped, MovesTyped
<1>2. CASE \E r \in Regs : ReceiveWord(r) \/ ReceiveWritten(r) \/ Timeout(r)
    BY <1>2, ReceiveWordTyped, ReceiveWrittenTyped, TimeoutTyped
<1>3. CASE StateReset \/ WorkerError
    BY <1>3, ResetCases, ResetDeviceTyped
<1>4. CASE StateConnect \/ \E i \in Interests : Tell(i)
    BY <1>4, StateConnectTyped, TellTyped
<1>5. CASE \E i \in Interests : ScanIntr(i)
    <2>1. PICK i \in Interests : ScanIntr(i)  BY <1>5
    <2>2. i \in OfKind("intr")  BY <2>1 DEF ScanIntr, Scanned, OfKind
    <2> QED  BY <2>1, <2>2, ScanIntrTyped
<1>6. CASE \/ \E i \in Interests : ProcessRecord(i) \/ Expire(i)
           \/ \E r \in Regs : WriteNoWait(r)
           \/ SetAddress \/ ForceError
    BY <1>6, ProcessRecordTyped, ExpireTyped, WriteNoWaitTyped, RequestTyped
<1> QED  BY <1>1, <1>2, <1>3, <1>4, <1>5, <1>6, NextCases

LEMMA StutterTyped == ASSUME Typed, UNCHANGED vars PROVE Typed'
<1>1. UNCHANGED <<procVars, restVars>>
    BY DEF vars, procVars, restVars, recVars
<1> QED  BY <1>1, RecStays, RestStays DEF Typed

LEMMA NextIntr ==
    ASSUME IntrInv, IntrOfRom, [Next]_vars PROVE IntrInv'
<1>1. CASE Next
    <2>1. Typed'  BY <1>1, NextTyped DEF IntrInv
    <2>2. Scanned' /\ Unknown' /\ UpToDate'
        <3>1. CASE Calm  BY <3>1, CalmIntr
        <3>2. CASE \E r \in Regs : ReceiveWord(r) \/ ReceiveWritten(r) \/ Timeout(r)
            BY <3>2, ReceiveWordIntr, ReceiveWrittenIntr, TimeoutIntr
        <3>3. CASE StateReset \/ WorkerError
            BY <3>3, ResetCases, ResetDeviceIntr DEF IntrInv
        <3>4. CASE StateConnect  BY <3>4, StateConnectIntr
        <3>5. CASE \E i \in Interests : ScanIntr(i)  BY <3>5, ScanIntrIntr
        <3>6. CASE \/ \E i \in Interests : ProcessRecord(i) \/ Expire(i)
                   \/ \E r \in Regs : WriteNoWait(r)
                   \/ SetAddress \/ ForceError
            BY <3>6, OthersIntr
        <3> QED  BY <1>1, <3>1, <3>2, <3>3, <3>4, <3>5, <3>6, NextCases DEF Calm
    <2> QED  BY <2>1, <2>2 DEF IntrInv
<1>2. CASE UNCHANGED vars
    <2>1. Typed'  BY <1>2, StutterTyped DEF IntrInv
    <2>2. UNCHANGED <<present, state, memRx, valid, pact, alarm, scan, got>>
        BY <1>2 DEF vars, svcVars, opVars, recVars, pactVars, intrVars
    <2>3. Scanned' /\ Unknown' /\ UpToDate'
        BY <2>2 DEF IntrInv, Scanned, Unknown, UpToDate
    <2> QED  BY <2>1, <2>3 DEF IntrInv
<1> QED  BY <1>1, <1>2

\* No change of a register is lost on an I/O Intr record: while no scan of it is
\* pending, it has an alarm exactly if its register is not valid, and holds the
\* words of the cache once no operation is in progress.
THEOREM ChangesSeen ==
    ASSUME IntrOfRom PROVE Spec => []IntrUpToDate
<1>1. Init => IntrInv  BY InitIntr
<1>2. IntrInv /\ [Next]_vars => IntrInv'  BY NextIntr
<1>3. IntrInv => IntrUpToDate  BY DEF IntrInv, UpToDate, IntrUpToDate
<1> QED  BY <1>1, <1>2, <1>3, PTL DEF Spec

----------------------------------------------------------------------------
(***************************************************************************)
(* Busy records: none is forgotten, and a Sync counts right.               *)
(***************************************************************************)

\* Where a record may be: to be completed, or queued behind an operation.
Here(r, i) == i \in recordsInprog[r] \/ <<r, i>> \in records \/ <<r, i>> \in completed

Queuing(r, i) == i \in recordsWrite[r] \/ i \in recordsRead[r]

Holding(i) == {r \in Regs : Here(r, i)}

\* It is in one place at most.
Once(r, i) ==
    /\ i \in recordsInprog[r] => <<r, i>> \notin records /\ <<r, i>> \notin completed
    /\ <<r, i>> \in records => <<r, i>> \notin completed

SyncOK(i) ==
    /\ \A r \in Regs : Once(r, i) /\ ~Queuing(r, i)
    /\ ~Active => \A r \in Regs : i \notin recordsInprog[r]
    /\ pact[i] => Holding(i) # {} /\ waitFor[i] = Cardinality(Holding(i))
    /\ ~pact[i] => /\ waitFor[i] = 0
                   /\ \A r \in Regs : Here(r, i) => <<r, i>> \in completed /\ current = "Error"

RecOK(i) ==
    /\ Kind[i] = "sync" => SyncOK(i)
    /\ Kind[i] \in {"read", "write"} /\ pact[i] => \E r \in Regs : Here(r, i) \/ Queuing(r, i)
    /\ timer[i] => Kind[i] = "watch"
    /\ Kind[i] # "sync" => waitFor[i] = 0

\* The completion list is empty but while the worker completes its records.
Taken == pc # "Unlocked" => completed = {}

BusyInv == Typed /\ Scanned /\ Taken /\ \A i \in Interests : RecOK(i)

\* A step that does not concern a record.
SameLists(j) ==
    \A q \in Regs : /\ j \in recordsInprog'[q] <=> j \in recordsInprog[q]
                    /\ j \in recordsWrite'[q] <=> j \in recordsWrite[q]
                    /\ j \in recordsRead'[q] <=> j \in recordsRead[q]
                    /\ <<q, j>> \in records' <=> <<q, j>> \in records

Same(j) == SameLists(j) /\ pact'[j] = pact[j] /\ waitFor'[j] = waitFor[j] /\ timer'[j] = timer[j]

LEMMA SameKeeps ==
    ASSUME NEW j \in Interests, RecOK(j), Same(j), current' = current,
           \A q \in Regs : <<q, j>> \in completed' <=> <<q, j>> \in completed
    PROVE  RecOK(j)'
<1>1. \A q \in Regs : /\ Here(q, j)' <=> Here(q, j)
                      /\ Queuing(q, j)' <=> Queuing(q, j)
                      /\ Once(q, j)' <=> Once(q, j)
    BY DEF Same, SameLists, Here, Queuing, Once
<1>2. Holding(j)' = Holding(j)  BY <1>1 DEF Holding
<1>3. Active' <=> Active  BY DEF Active
<1>4. ASSUME SyncOK(j) PROVE SyncOK(j)'
    BY <1>1, <1>2, <1>3, <1>4 DEF SyncOK, Same, SameLists
<1> QED  BY <1>1, <1>4 DEF RecOK, Same

\* DevReg::queue concerns the record that asks.
LEMMA QueueRegSame ==
    ASSUME RecTyped, NEW r \in Regs, NEW write \in BOOLEAN, NEW i \in Interests \cup {NoInterest},
           QueueReg(r, write, i)
    PROVE  /\ \A j \in Interests \ {i} : SameLists(j)
           /\ i \in Interests => \E q \in Regs : Here(q, i)' \/ Queuing(q, i)'
<1>1. Queue(r, write, i) /\ RegistersTypeOK  BY DEF QueueReg, RecTyped
<1> QED  BY <1>1, QueueLists DEF SameLists, Here, Queuing

LEMMA EndSame ==
    ASSUME RecTyped, NEW i \in Interests, NEW bad, End(i, bad)
    PROVE  /\ \A j \in Interests : SameLists(j)
           /\ \A j \in Interests \ {i} : pact'[j] = pact[j]
           /\ ~pact'[i]
BY DEF End, SameLists, svcVars, listVars, RecTyped, Flags

\* The processing of a record concerns no other.
LEMMA ProcessSame ==
    ASSUME RecTyped, NEW i \in Interests, Process(i)
    PROVE  \A j \in Interests \ {i} : Same(j)
<1>1. CASE SyncBegin(i)
    BY <1>1 DEF SyncBegin, Same, SameLists, RecTyped, RegistersTypeOK, Flags
<1>2. ASSUME NEW bad, End(i, bad) PROVE \A j \in Interests \ {i} : SameLists(j) /\ pact'[j] = pact[j]
    BY <1>2, EndSame
<1>3. ASSUME NEW write \in BOOLEAN, NEW busy, Ask(i, write, busy)
      PROVE  \A j \in Interests \ {i} : SameLists(j) /\ pact'[j] = pact[j]
    BY <1>3, QueueRegSame DEF Ask, RecTyped, Flags
<1>4. CASE Refuse(i) \/ ProcessRead(i) \/ ProcessWrite(i) \/ ProcessWatch(i)
    <2>1. \A j \in Interests \ {i} : SameLists(j) /\ pact'[j] = pact[j]
        BY <1>2, <1>3, <1>4 DEF Refuse, ProcessRead, ProcessWrite, ProcessWatch
    <2>2. \A j \in Interests \ {i} : waitFor'[j] = waitFor[j] /\ timer'[j] = timer[j]
        BY <1>4 DEF Refuse, ProcessRead, ProcessWrite, ProcessWatch, RecTyped, Flags
    <2> QED  BY <2>1, <2>2 DEF Same
<1>5. CASE SyncEnd(i, waitFor[i])
    <2>1. \A j \in Interests \ {i} : SameLists(j) /\ pact'[j] = pact[j]
        BY <1>2, <1>5 DEF SyncEnd
    <2> QED  BY <1>5, <2>1 DEF Same, SyncEnd, RecTyped
<1> QED  BY <1>1, <1>4, <1>5 DEF Process

LEMMA UntouchedSame ==
    ASSUME NEW j \in Interests, UNCHANGED svcVars, pact'[j] = pact[j], waitFor'[j] = waitFor[j],
           timer'[j] = timer[j]
    PROVE  Same(j)
BY DEF svcVars, listVars, Same, SameLists

LEMMA CompleteSame ==
    ASSUME RecTyped, NEW i \in Interests, Complete(i)
    PROVE  \A j \in Interests \ {i} : Same(j)
<1>1. ASSUME Again(i) PROVE \A j \in Interests \ {i} : Same(j)
    BY <1>1, ProcessSame, UntouchedSame DEF Again, pactVars
<1>2. CASE CompleteWatch(i)
    <2>1. CASE /\ timer' = [timer EXCEPT ![i] = TRUE]
               /\ UNCHANGED <<svcVars, sendVars, pactVars, waitFor>>
        BY <2>1, UntouchedSame DEF pactVars, RecTyped, Flags
    <2> QED  BY <1>1, <1>2, <2>1 DEF CompleteWatch
<1>3. CASE CompleteSync(i)
    <2>1. CASE SyncEnd(i, 0)
        <3>1. \A j \in Interests \ {i} : SameLists(j) /\ pact'[j] = pact[j]
            BY <2>1, EndSame DEF SyncEnd
        <3> QED  BY <2>1, <3>1 DEF Same, SyncEnd, RecTyped
    <2>2. CASE /\ \/ waitFor' = [waitFor EXCEPT ![i] = 0]
                  \/ waitFor' = [waitFor EXCEPT ![i] = @ - 1]
               /\ UNCHANGED <<svcVars, sendVars, pactVars, timer>>
        BY <2>2, UntouchedSame DEF pactVars, RecTyped
    <2> QED  BY <1>3, <2>1, <2>2 DEF CompleteSync
<1> QED  BY <1>1, <1>2, <1>3 DEF Complete

\* The record that is processed itself, unless it is a Sync: it is no longer
\* busy, or has been queued.
LEMMA ProcessOwn ==
    ASSUME RecTyped, NEW i \in Interests, Process(i), Kind[i] # "sync", RecOK(i)
    PROVE  /\ RecOK(i)'
           /\ pact[i] => ~pact'[i]
<1>1. waitFor'[i] = waitFor[i] /\ (timer'[i] => timer[i])
    BY DEF Process, Refuse, ProcessRead, ProcessWrite, ProcessWatch, SyncBegin, SyncEnd, RecTyped, Flags
<1>2. ~pact'[i] \/ (~pact[i] /\ \E q \in Regs : Here(q, i)' \/ Queuing(q, i)')
    <2>1. ASSUME NEW bad, End(i, bad) PROVE ~pact'[i]  BY <2>1, EndSame
    <2>2. ASSUME NEW write \in BOOLEAN, NEW busy, Ask(i, write, busy)
          PROVE  \E q \in Regs : Here(q, i)' \/ Queuing(q, i)'
        BY <2>2, QueueRegSame DEF Ask
    <2> QED
        BY <2>1, <2>2 DEF Process, Refuse, ProcessRead, ProcessWrite, ProcessWatch, SyncBegin, SyncEnd
<1> QED  BY <1>1, <1>2 DEF RecOK

\* A Sync that begins waits for the registers in reg_send.
LEMMA SyncBeginOwn ==
    ASSUME RecTyped, NEW i \in Interests, SyncBegin(i), SyncOK(i), UNCHANGED <<current, completed>>
    PROVE  SyncOK(i)'
<1>1. \A r \in Regs : ~Here(r, i)
    BY DEF SyncBegin, SyncOK, Active
<1>2. \A r \in Regs : i \in recordsInprog'[r] <=> r \in Sending
    BY <1>1 DEF SyncBegin, RecTyped, RegistersTypeOK, Here
<1>3. \A r \in Regs : Here(r, i)' <=> r \in Sending
    BY <1>1, <1>2 DEF SyncBegin, Here
<1>4. Sending \subseteq Regs  BY DEF Sending, RecTyped
<1>5. Holding(i)' = Sending  BY <1>3, <1>4 DEF Holding
<1>6. /\ waitFor'[i] = Cardinality(Sending)
      /\ pact'[i] <=> Sending # {}
    BY DEF SyncBegin, RecTyped, Flags
<1>7. Sending = {} => Cardinality(Sending) = 0  BY FS_EmptySet
<1>8. \A r \in Regs : Once(r, i)' /\ ~Queuing(r, i)'
    BY <1>1 DEF SyncBegin, SyncOK, Once, Queuing, Here
<1>9. Active'  BY DEF SyncBegin, Active
<1>10. pact'[i] => Holding(i)' # {} /\ waitFor'[i] = Cardinality(Holding(i)')
    BY <1>5, <1>6
<1>11. ~pact'[i] => waitFor'[i] = 0 /\ \A r \in Regs : ~Here(r, i)'
    BY <1>3, <1>6, <1>7
<1> QED  BY <1>8, <1>9, <1>10, <1>11 DEF SyncOK

\* A record is processed by another thread, or by a scan.
LEMMA ProcessBusy ==
    ASSUME BusyInv, NEW i \in Interests, Process(i), ~pact[i], UNCHANGED <<current, completed>>
    PROVE  \A j \in Interests : RecOK(j)'
<1>1. RecTyped /\ RecOK(i)  BY DEF BusyInv, Typed
<1>2. ASSUME NEW j \in Interests \ {i} PROVE RecOK(j)'
    BY <1>1, <1>2, ProcessSame, SameKeeps DEF BusyInv
<1>3. CASE Kind[i] # "sync"
    BY <1>1, <1>2, <1>3, ProcessOwn
<1>4. CASE Kind[i] = "sync"
    <2>1. SyncOK(i) /\ ~timer[i]  BY <1>1, <1>4 DEF RecOK
    <2>2. CASE SyncBegin(i)
        <3>1. ~timer'[i]  BY <2>1, <2>2 DEF SyncBegin
        <3>2. SyncOK(i)'  BY <1>1, <2>1, <2>2, SyncBeginOwn
        <3> QED  BY <1>2, <1>4, <3>1, <3>2 DEF RecOK
    <2>3. CASE SyncEnd(i, waitFor[i])
        <3>1. SameLists(i)  BY <1>1, <2>3, EndSame DEF SyncEnd
        <3>2. waitFor'[i] = 0 /\ timer'[i] = timer[i] /\ waitFor[i] = 0
            BY <1>1, <2>1, <2>3 DEF SyncEnd, SyncOK, RecTyped
        <3>3. pact'[i] = FALSE /\ pact[i] = FALSE
            BY <1>1, <2>3 DEF SyncEnd, End, RecTyped, Flags
        <3>4. Same(i)  BY <3>1, <3>2, <3>3 DEF Same
        <3> QED  BY <1>1, <1>2, <3>4, SameKeeps
    <2> QED
        BY <1>4, <2>2, <2>3 DEF Process, Refuse, ProcessRead, ProcessWrite, ProcessWatch
<1> QED  BY <1>3, <1>4

\* SyncInfo::complete takes one register from those a Sync waits for, and
\* ends with the last.
LEMMA CompleteSyncOwn ==
    ASSUME BusyInv, NEW i \in Interests, CompleteSync(i), NEW r \in Regs, <<r, i>> \in completed,
           completed' = completed \ {<<r, i>>}, current' = current
    PROVE  RecOK(i)'
<1>1. RecTyped /\ RecOK(i) /\ SyncOK(i)  BY DEF BusyInv, Typed, RecOK, CompleteSync
<1>2. r \in Holding(i) /\ IsFiniteSet(Holding(i))
    BY FS_Subset DEF Holding, Here
<1>3. /\ IsFiniteSet(Holding(i) \ {r})
      /\ Cardinality(Holding(i) \ {r}) = Cardinality(Holding(i)) - 1
      /\ Cardinality(Holding(i)) \in Nat /\ Cardinality(Holding(i) \ {r}) \in Nat
    BY <1>2, FS_RemoveElement, FS_CardinalityType
<1>4. SameLists(i) /\ timer'[i] = timer[i]
    <2>1. CASE SyncEnd(i, 0)
        BY <1>1, <2>1, EndSame DEF SyncEnd
    <2>2. CASE UNCHANGED <<svcVars, timer>>
        BY <2>2 DEF svcVars, listVars, SameLists
    <2> QED  BY <2>1, <2>2 DEF CompleteSync
<1>5. \A q \in Regs : /\ Here(q, i)' <=> Here(q, i) /\ q # r
                      /\ ~Queuing(q, i)' /\ Once(q, i)'
    BY <1>1, <1>4 DEF SyncOK, SameLists, Here, Queuing, Once
<1>6. Holding(i)' = Holding(i) \ {r}  BY <1>5 DEF Holding
<1>7. ~Active' => \A q \in Regs : i \notin recordsInprog'[q]
    BY <1>1, <1>4 DEF SyncOK, SameLists, Active
<1>8. CASE pact[i] /\ waitFor[i] > 1
    <2>1. pact'[i] /\ waitFor'[i] = waitFor[i] - 1
        BY <1>1, <1>8 DEF CompleteSync, RecTyped, pactVars
    <2>2. Cardinality(Holding(i) \ {r}) # 0  BY <1>1, <1>3, <1>8 DEF SyncOK
    <2>3. Holding(i) \ {r} # {}  BY <2>2, FS_EmptySet
    <2>4. waitFor'[i] = Cardinality(Holding(i)')
        BY <1>1, <1>3, <1>6, <1>8, <2>1 DEF SyncOK
    <2>5. SyncOK(i)'  BY <1>5, <1>6, <1>7, <2>1, <2>3, <2>4 DEF SyncOK
    <2> QED  BY <1>1, <1>4, <2>5 DEF RecOK, CompleteSync
<1>9. CASE pact[i] /\ ~(waitFor[i] > 1)
    <2>1. SyncEnd(i, 0)  BY <1>9 DEF CompleteSync
    <2>2. ~pact'[i] /\ waitFor'[i] = 0
        BY <1>1, <2>1, EndSame DEF SyncEnd, RecTyped
    <2>3. Cardinality(Holding(i)) <= 1
        BY <1>1, <1>3, <1>9 DEF SyncOK
    <2>4. Cardinality(Holding(i) \ {r}) = 0  BY <1>3, <2>3
    <2>5. Holding(i) \ {r} = {}  BY <1>3, <2>4, FS_EmptySet
    <2>6. \A q \in Regs : ~Here(q, i)'  BY <1>6, <2>5 DEF Holding
    <2>7. SyncOK(i)'  BY <1>5, <1>7, <2>2, <2>6 DEF SyncOK
    <2> QED  BY <1>1, <1>4, <2>7 DEF RecOK, CompleteSync
<1>10. CASE ~pact[i]
    <2>1. ~pact'[i] /\ waitFor'[i] = 0
        BY <1>1, <1>10 DEF SyncOK, CompleteSync, RecTyped, pactVars
    <2>2. \A q \in Regs : Here(q, i)' => <<q, i>> \in completed' /\ current' = "Error"
        BY <1>1, <1>5, <1>10 DEF SyncOK
    <2>3. SyncOK(i)'  BY <1>5, <1>7, <2>1, <2>2 DEF SyncOK
    <2> QED  BY <1>1, <1>4, <2>3 DEF RecOK, CompleteSync
<1> QED  BY <1>8, <1>9, <1>10

LEMMA CompleteRecordBusy ==
    ASSUME BusyInv, CompleteRecord
    PROVE  \A j \in Interests : RecOK(j)'
<1>1. PICK c \in completed : completed' = completed \ {c} /\ Complete(c[2])
    BY DEF CompleteRecord
<1>2. completed \subseteq Regs \X Interests /\ RecTyped  BY DEF BusyInv, Typed, RunTyped
<1>3. PICK r \in Regs, i \in Interests : c = <<r, i>>  BY <1>2
<1>4. RecOK(i) /\ Complete(i) /\ current' = current
    BY <1>1, <1>3 DEF BusyInv, CompleteRecord, devVars
<1>5. ASSUME NEW j \in Interests \ {i} PROVE RecOK(j)'
    <2>1. Same(j)  BY <1>2, <1>4, CompleteSame
    <2>2. \A q \in Regs : <<q, j>> \in completed' <=> <<q, j>> \in completed
        BY <1>1, <1>3
    <2>3. RecOK(j)  BY DEF BusyInv
    <2> QED  BY <1>4, <2>1, <2>2, <2>3, SameKeeps
<1>6. ASSUME Again(i), Kind[i] # "sync" PROVE RecOK(i)'
    <2>1. CASE pact[i]
        BY <1>2, <1>4, <1>6, <2>1, ProcessOwn DEF Again
    <2>2. CASE ~pact[i]
        BY <1>4, <1>6, <2>2 DEF Again, pactVars, RecOK
    <2> QED  BY <2>1, <2>2
<1>7. ASSUME CompleteWatch(i) PROVE RecOK(i)'
    <2>1. CASE /\ timer' = [timer EXCEPT ![i] = TRUE]
               /\ UNCHANGED <<svcVars, sendVars, pactVars, waitFor>>
        BY <1>4, <1>7, <2>1 DEF CompleteWatch, RecOK
    <2> QED  BY <1>6, <1>7, <2>1 DEF CompleteWatch
<1>8. ASSUME CompleteSync(i) PROVE RecOK(i)'
    BY <1>1, <1>3, <1>4, <1>8, CompleteSyncOwn
<1>9. RecOK(i)'
    BY <1>4, <1>6, <1>7, <1>8 DEF Complete
<1> QED  BY <1>5, <1>9

\* A step that moves records from a list to another, while no completion list
\* is being gone through.
Moved(j) ==
    \A q \in Regs :
       /\ Here(q, j) \/ Queuing(q, j) => Here(q, j)' \/ Queuing(q, j)'
       /\ SyncOK(j) => /\ Here(q, j)' <=> Here(q, j)
                       /\ Once(q, j)' /\ ~Queuing(q, j)'
                       /\ ~Active' => j \notin recordsInprog'[q]

LEMMA MovedKeeps ==
    ASSUME NEW j \in Interests, RecOK(j), Moved(j), completed = {},
           pact'[j] = pact[j], waitFor'[j] = waitFor[j], timer'[j] = timer[j]
    PROVE  RecOK(j)'
<1>1. ASSUME SyncOK(j) PROVE SyncOK(j)'
    <2>1. Holding(j)' = Holding(j)  BY <1>1 DEF Moved, Holding
    <2>2. ~pact[j] => \A q \in Regs : ~Here(q, j)'  BY <1>1 DEF Moved, SyncOK
    <2> QED  BY <1>1, <2>1, <2>2 DEF Moved, SyncOK
<1>2. \A q \in Regs : Here(q, j) \/ Queuing(q, j) => Here(q, j)' \/ Queuing(q, j)'
    BY DEF Moved
<1> QED  BY <1>1, <1>2 DEF RecOK

\* The end of an operation moves its records to the completion list.
LEMMA FinishMoved ==
    ASSUME RegistersTypeOK, NEW r \in Regs, Finish(r), UNCHANGED <<current, completed>>,
           NEW j \in Interests
    PROVE  Moved(j)
<1> SUFFICES ASSUME NEW q \in Regs
             PROVE  /\ Here(q, j) \/ Queuing(q, j) => Here(q, j)' \/ Queuing(q, j)'
                    /\ SyncOK(j) => /\ Here(q, j)' <=> Here(q, j)
                                    /\ Once(q, j)' /\ ~Queuing(q, j)'
                                    /\ ~Active' => j \notin recordsInprog'[q]
    BY DEF Moved
<1>1. <<q, j>> \in records' <=> <<q, j>> \in records \/ (q = r /\ j \in recordsInprog[r])
    BY FinishLists DEF Handed
<1>2. CASE q = r
    <2>1. j \in recordsInprog'[q] \/ Queuing(q, j)' <=> Queuing(q, j)
        BY <1>2, FinishLists DEF Queuing
    <2> QED  BY <1>1, <1>2, <2>1 DEF Here, Once, Queuing, SyncOK
<1>3. CASE q # r
    <2>1. /\ j \in recordsInprog'[q] <=> j \in recordsInprog[q]
          /\ Queuing(q, j)' <=> Queuing(q, j)
        BY <1>3, FinishLists DEF Queuing
    <2> QED  BY <1>1, <1>3, <2>1 DEF Here, Once, SyncOK, Active
<1> QED  BY <1>2, <1>3

LEMMA CancelMoved ==
    ASSUME RegistersTypeOK, NEW r \in Regs, Cancel(r), UNCHANGED <<current, completed>>,
           NEW j \in Interests
    PROVE  Moved(j)
<1> SUFFICES ASSUME NEW q \in Regs
             PROVE  /\ Here(q, j) \/ Queuing(q, j) => Here(q, j)' \/ Queuing(q, j)'
                    /\ SyncOK(j) => /\ Here(q, j)' <=> Here(q, j)
                                    /\ Once(q, j)' /\ ~Queuing(q, j)'
                                    /\ ~Active' => j \notin recordsInprog'[q]
    BY DEF Moved
<1>1. <<q, j>> \in records' <=> <<q, j>> \in records
                                \/ (q = r /\ (j \in recordsInprog[r] \/ Queuing(r, j)))
    BY DEF Cancel, Cancelled, Queuing
<1>2. CASE q = r
    <2>1. j \notin recordsInprog'[q] /\ ~Queuing(q, j)'
        BY <1>2 DEF Cancel, Queuing, RegistersTypeOK
    <2> QED  BY <1>1, <1>2, <2>1 DEF Here, Once, SyncOK
<1>3. CASE q # r
    <2>1. /\ j \in recordsInprog'[q] <=> j \in recordsInprog[q]
          /\ Queuing(q, j)' <=> Queuing(q, j)
        BY <1>3 DEF Cancel, Queuing, RegistersTypeOK
    <2> QED  BY <1>1, <1>3, <2>1 DEF Here, Once, SyncOK, Active
<1> QED  BY <1>2, <1>3

LEMMA ResetMoved ==
    ASSUME RegistersTypeOK, Reset, UNCHANGED completed, NEW j \in Interests
    PROVE  Moved(j)
<1> SUFFICES ASSUME NEW q \in Regs
             PROVE  /\ Here(q, j) \/ Queuing(q, j) => Here(q, j)' \/ Queuing(q, j)'
                    /\ SyncOK(j) => /\ Here(q, j)' <=> Here(q, j)
                                    /\ Once(q, j)' /\ ~Queuing(q, j)'
                                    /\ ~Active' => j \notin recordsInprog'[q]
    BY DEF Moved
<1>1. <<q, j>> \in records' <=> <<q, j>> \in records \/ j \in recordsInprog[q] \/ Queuing(q, j)
    BY DEF Reset, Cancelled, Queuing
<1>2. j \notin recordsInprog'[q] /\ ~Queuing(q, j)'
    BY DEF Reset, Queuing
<1> QED  BY <1>1, <1>2 DEF Here, Once, SyncOK

\* The steps of the worker.
LEMMA SendBusy ==
    ASSUME BusyInv, Send
    PROVE  \A j \in Interests : RecOK(j)'
<1> TAKE j \in Interests
<1>1. RecOK(j) /\ completed = {}  BY DEF BusyInv, Send, Taken
<1>2. /\ records' = {} /\ current' = current
      /\ UNCHANGED <<recordsInprog, recordsWrite, recordsRead, pact, timer, waitFor>>
    BY DEF Send, Swap, listVars, recVars, pactVars
<1>3. CASE completed' = records
    <2>1. Moved(j)
        BY <1>1, <1>2, <1>3 DEF Moved, Here, Queuing, Once, SyncOK, Active
    <2> QED  BY <1>1, <1>2, <2>1, MovedKeeps
<1>4. CASE /\ current = "Error" /\ records = {}
           /\ completed' = {<<Named[i], i>> : i \in Interests}
    <2>1. ASSUME SyncOK(j) PROVE SyncOK(j)'
        <3>1. \A q \in Regs : ~Here(q, j)
            BY <1>1, <1>4, <2>1 DEF SyncOK, Here, Active
        <3>2. ~pact[j] /\ waitFor[j] = 0
            BY <2>1, <3>1 DEF SyncOK, Holding
        <3>3. \A q \in Regs : /\ Once(q, j)' /\ ~Queuing(q, j)' /\ j \notin recordsInprog'[q]
                              /\ Here(q, j)' => <<q, j>> \in completed'
            BY <1>2, <2>1, <3>1 DEF Once, Queuing, Here, SyncOK
        <3> QED  BY <1>2, <1>4, <3>2, <3>3 DEF SyncOK
    <2>2. Here(Named[j], j)'  BY <1>4 DEF Here
    <2> QED  BY <1>1, <1>2, <2>1, <2>2 DEF RecOK
<1> QED  BY <1>3, <1>4 DEF Send

LEMMA ReceiveBusy ==
    ASSUME BusyInv, NEW r \in Regs, ReceiveWord(r) \/ ReceiveWritten(r) \/ Timeout(r)
    PROVE  \A j \in Interests : RecOK(j)'
<1> TAKE j \in Interests
<1>1. RecOK(j) /\ completed = {} /\ RegistersTypeOK
    BY DEF BusyInv, ReceiveWord, ReceiveWritten, Timeout, Taken, Typed, RecTyped
<1>2. UNCHANGED <<completed, current, pact, waitFor, timer>>
    BY DEF ReceiveWord, ReceiveWritten, Timeout, devVars, runVars, pactVars
<1>3. \/ Finish(r) \/ Cancel(r)
      \/ UNCHANGED <<state, listVars, records>>
    BY DEF ReceiveWord, ReceiveWritten, Timeout, Completed
<1>4. CASE Finish(r) \/ Cancel(r)
    BY <1>1, <1>2, <1>4, FinishMoved, CancelMoved, MovedKeeps
<1>5. CASE UNCHANGED <<state, listVars, records>>
    <2>1. Same(j)  BY <1>2, <1>5 DEF Same, SameLists, listVars
    <2> QED  BY <1>1, <1>2, <2>1, SameKeeps
<1> QED  BY <1>3, <1>4, <1>5

LEMMA ResetBusy ==
    ASSUME BusyInv, StateReset \/ WorkerError
    PROVE  \A j \in Interests : RecOK(j)'
<1> TAKE j \in Interests
<1>1. RecOK(j) /\ completed = {} /\ RegistersTypeOK
    BY DEF BusyInv, StateReset, WorkerError, Taken, Typed, RecTyped
<1>2. Reset /\ UNCHANGED <<completed, pact, waitFor, timer>>
    BY DEF StateReset, WorkerError, ResetDevice, pactVars
<1> QED  BY <1>1, <1>2, ResetMoved, MovedKeeps

\* The steps that leave the lists alone.
LEMMA QuietBusy ==
    ASSUME BusyInv, Moves \/ StateConnect \/ \E i \in Interests : Tell(i)
    PROVE  \A j \in Interests : RecOK(j)'
<1> TAKE j \in Interests
<1>1. RecOK(j) /\ RecTyped  BY DEF BusyInv, Typed
<1>2. UNCHANGED <<completed, recordsInprog, recordsWrite, recordsRead, records, waitFor, timer>>
    <2>1. CASE Moves
        BY <2>1, MovesEffect DEF procVars, svcVars, listVars
    <2>2. CASE StateConnect
        BY <2>2 DEF StateConnect, Attach, listVars, recVars
    <2>3. CASE \E i \in Interests : Tell(i)
        BY <2>3 DEF Tell, End, svcVars, listVars
    <2> QED  BY <2>1, <2>2, <2>3
<1>3. SameLists(j)  BY <1>2 DEF SameLists
<1>4. CASE Moves \/ StateConnect
    <2>1. pact' = pact
        BY <1>4, MovesEffect DEF procVars, pactVars, StateConnect, recVars
    <2>2. CASE current' = current
        BY <1>1, <1>2, <1>3, <2>1, <2>2, SameKeeps DEF Same
    <2>3. CASE completed = {} /\ current' \in {"Running", "Inspecting"}
        <3>1. Moved(j)
            BY <1>2, <2>3 DEF Moved, Here, Queuing, Once, SyncOK, Active
        <3> QED  BY <1>1, <1>2, <2>1, <2>3, <3>1, MovedKeeps
    <2> QED
        BY <1>4, <2>2, <2>3, MovesEffect DEF StateConnect, BusyInv, Taken
<1>5. CASE \E i \in Interests : Tell(i)
    <2>1. PICK i \in Interests : Tell(i)  BY <1>5
    <2>2. current' = current  BY <2>1 DEF Tell, devVars
    <2>3. CASE pact'[j] = pact[j]
        BY <1>1, <1>2, <1>3, <2>2, <2>3, SameKeeps DEF Same
    <2>4. CASE Kind[j] = "write" /\ ~pact'[j]
        BY <1>1, <1>2, <2>4 DEF RecOK
    <2>5. pact'[j] = pact[j] \/ (Kind[j] = "write" /\ ~pact'[j])
        BY <1>1, <2>1 DEF Tell, End, RecTyped, Flags, pactVars
    <2> QED  BY <2>3, <2>4, <2>5
<1> QED  BY <1>4, <1>5

\* The steps of other threads.
LEMMA OthersBusy ==
    ASSUME BusyInv,
           \/ \E i \in Interests : ProcessRecord(i) \/ ScanIntr(i) \/ Expire(i)
           \/ \E r \in Regs : WriteNoWait(r)
           \/ SetAddress \/ ForceError
    PROVE  \A j \in Interests : RecOK(j)'
<1>1. ASSUME NEW i \in Interests, ProcessRecord(i) \/ ScanIntr(i)
      PROVE  \A j \in Interests : RecOK(j)'
    <2>1. Process(i) /\ UNCHANGED <<current, completed>>
        BY <1>1 DEF ProcessRecord, ScanIntr, Call, devVars, runVars
    <2>2. ~pact[i]
        BY <1>1 DEF ProcessRecord, ScanIntr, BusyInv, Scanned, OfKind
    <2> QED  BY <2>1, <2>2, ProcessBusy
<1>2. ASSUME NEW i \in Interests, Expire(i) PROVE \A j \in Interests : RecOK(j)'
    <2> TAKE j \in Interests
    <2>1. RecOK(i) /\ RecOK(j) /\ Kind[i] = "watch" /\ RecTyped
        BY <1>2 DEF BusyInv, RecOK, Expire, Typed
    <2>2. UNCHANGED <<current, completed, pact, waitFor>> /\ timer' = [timer EXCEPT ![i] = FALSE]
        BY <1>2 DEF Expire, devVars, runVars, pactVars
    <2>3. CASE j = i
        BY <2>1, <2>2, <2>3 DEF RecOK
    <2>4. CASE j # i
        <3>1. ASSUME UNCHANGED svcVars PROVE SameLists(j)
            BY <3>1 DEF svcVars, listVars, SameLists
        <3>2. SameLists(j)  BY <1>2, <2>1, <2>4, <3>1, QueueRegSame DEF Expire
        <3>3. Same(j)  BY <2>1, <2>2, <2>4, <3>2 DEF Same, RecTyped, Flags
        <3> QED  BY <2>1, <2>2, <3>3, SameKeeps
    <2> QED  BY <2>3, <2>4
<1>3. ASSUME NEW r \in Regs, WriteNoWait(r) PROVE \A j \in Interests : RecOK(j)'
    <2> TAKE j \in Interests
    <2>1. RecOK(j) /\ RecTyped  BY DEF BusyInv, Typed
    <2>2. j # NoInterest  BY RegistersAssumption
    <2>3. SameLists(j)  BY <1>3, <2>1, <2>2, QueueRegSame DEF WriteNoWait
    <2>4. UNCHANGED <<current, completed, pact, waitFor, timer>>
        BY <1>3 DEF WriteNoWait, Call, devVars, runVars, pactVars
    <2> QED  BY <2>1, <2>3, <2>4, SameKeeps DEF Same
<1>4. ASSUME SetAddress \/ ForceError PROVE \A j \in Interests : RecOK(j)'
    <2> TAKE j \in Interests
    <2>1. UNCHANGED <<svcVars, current, completed, pact, waitFor, timer>>
        BY <1>4 DEF SetAddress, ForceError, Call, runVars, pactVars
    <2>2. RecOK(j)  BY DEF BusyInv
    <2> QED  BY <2>1, <2>2, UntouchedSame, SameKeeps
<1> QED  BY <1>1, <1>2, <1>3, <1>4

\* Only the completion of records goes on with a list that is not empty.
LEMMA NextTaken == ASSUME Taken, Next PROVE Taken'
<1>1. CASE Moves
    <2>1. completed' = completed /\ (pc # "Unlocked" \/ completed = {})
        BY <1>1, MovesEffect
    <2> QED  BY <2>1 DEF Taken
<1>2. CASE Send \/ CompleteRecord  BY <1>2 DEF Send, CompleteRecord, Taken
<1>3. CASE \E r \in Regs : ReceiveWord(r) \/ ReceiveWritten(r) \/ Timeout(r)
    BY <1>3 DEF ReceiveWord, ReceiveWritten, Timeout, runVars, Taken
<1>4. CASE StateReset \/ WorkerError \/ StateConnect
    BY <1>4 DEF StateReset, WorkerError, ResetDevice, StateConnect, Taken
<1>5. CASE \E i \in Interests : Tell(i) \/ ProcessRecord(i) \/ ScanIntr(i) \/ Expire(i)
    BY <1>5 DEF Tell, ProcessRecord, ScanIntr, Expire, Call, runVars, Taken
<1>6. CASE (\E r \in Regs : WriteNoWait(r)) \/ SetAddress \/ ForceError
    BY <1>6 DEF WriteNoWait, SetAddress, ForceError, Call, runVars, Taken
<1> QED  BY <1>1, <1>2, <1>3, <1>4, <1>5, <1>6, NextCases

\* I/O Intr records are never busy.
LEMMA NextScanned == ASSUME Typed, Scanned, Next PROVE Scanned'
<1>1. ASSUME pact' = pact, scan' = scan PROVE Scanned'
    BY <1>1 DEF Scanned
<1>2. ASSUME NEW i \in Interests, Kind[i] # "intr", Process(i) \/ Complete(i) \/ End(i, FALSE), scan' = scan
      PROVE  Scanned'
    <2>1. \A j \in Interests \ {i} : pact'[j] = pact[j]
        BY <1>2, ProcessBegun, CompleteBegun, EndSame DEF Typed
    <2> QED  BY <1>2, <2>1 DEF Scanned, OfKind
<1>3. ASSUME NEW i \in Interests, Kind[i] = "intr", Complete(i), scan' = scan
      PROVE  Scanned'
    BY <1>1, <1>3, CompleteBegun DEF Scanned, OfKind, Typed
<1>4. ASSUME pact' = pact,
             NEW S, scan' = [i \in Interests |-> scan[i] \/ (Kind[i] = "intr" /\ Named[i] \in S)]
      PROVE  Scanned'
    BY <1>4 DEF Scanned
<1>5. CASE Send \/ Moves \/ StateConnect
    <2>1. pact' = pact /\ scan' = scan
        BY <1>5, MovesEffect DEF Send, procVars, StateConnect, recVars, pactVars, intrVars
    <2> QED  BY <1>1, <2>1
<1>6. CASE CompleteRecord
    <2>1. PICK c \in completed : Complete(c[2])  BY <1>6 DEF CompleteRecord
    <2>2. c[2] \in Interests  BY DEF Typed, RunTyped
    <2>3. scan' = scan  BY <1>6 DEF CompleteRecord, intrVars
    <2> QED  BY <1>2, <1>3, <2>1, <2>2, <2>3
<1>7. CASE \E r \in Regs : ReceiveWord(r) \/ ReceiveWritten(r) \/ Timeout(r)
    <2>1. PICK r \in Regs : ReceiveWord(r) \/ ReceiveWritten(r) \/ Timeout(r)  BY <1>7
    <2>2. pact' = pact  BY <2>1 DEF ReceiveWord, ReceiveWritten, Timeout, pactVars
    <2>3. \/ scan' = scan
          \/ scan' = [i \in Interests |-> scan[i] \/ (Kind[i] = "intr" /\ Named[i] = r)]
        BY <2>1 DEF ReceiveWord, ReceiveWritten, Timeout, Completed, intrVars
    <2> QED  BY <2>2, <2>3 DEF Scanned
<1>8. CASE StateReset \/ WorkerError
    <2>1. /\ pact' = pact
          /\ scan' = [i \in Interests |-> scan[i] \/ (Kind[i] = "intr" /\ Named[i] \notin Boot)]
        BY <1>8 DEF StateReset, WorkerError, ResetDevice, pactVars
    <2> QED  BY <2>1 DEF Scanned
<1>9. CASE \E i \in Interests : Tell(i)
    <2>1. PICK i \in Interests : Tell(i)  BY <1>9
    <2>2. scan' = scan  BY <2>1 DEF Tell, intrVars
    <2>3. CASE Kind[i] = "write" /\ End(i, FALSE)  BY <1>2, <2>2, <2>3
    <2>4. CASE UNCHANGED pactVars  BY <1>1, <2>2, <2>4 DEF pactVars
    <2> QED  BY <2>1, <2>3, <2>4 DEF Tell
<1>10. CASE \E i \in Interests : ProcessRecord(i)
    BY <1>2, <1>10 DEF ProcessRecord, Call, intrVars
<1>11. CASE \E i \in Interests : ScanIntr(i)
    <2>1. PICK i \in Interests : ScanIntr(i)  BY <1>11
    <2>2. Kind[i] = "intr" /\ ~pact[i]  BY <2>1 DEF Scanned, ScanIntr, OfKind
    <2>3. /\ ~pact'[i]
          /\ \A j \in Interests \ {i} : pact'[j] = pact[j]
        <3>1. Refuse(i) \/ ProcessRead(i)
            BY <2>1, <2>2 DEF ScanIntr, Process, ProcessWrite, ProcessWatch, SyncBegin, SyncEnd
        <3>2. PICK bad : End(i, bad)  BY <2>2, <3>1 DEF Refuse, ProcessRead
        <3> QED  BY <3>2, EndSame DEF Typed
    <2>4. scan' = [scan EXCEPT ![i] = FALSE]  BY <2>1 DEF ScanIntr
    <2> QED  BY <2>2, <2>3, <2>4 DEF Scanned, OfKind, Typed, IntrTyped, Flags
<1>12. CASE \/ \E i \in Interests : Expire(i)
            \/ \E r \in Regs : WriteNoWait(r)
            \/ SetAddress \/ ForceError
    <2>1. pact' = pact /\ scan' = scan
        BY <1>12 DEF Expire, WriteNoWait, SetAddress, ForceError, Call, pactVars, intrVars
    <2> QED  BY <1>1, <2>1
<1> QED  BY <1>5, <1>6, <1>7, <1>8, <1>9, <1>10, <1>11, <1>12, NextCases

LEMMA InitBusy == Init => BusyInv
<1> SUFFICES ASSUME Init PROVE BusyInv
    OBVIOUS
<1>1. Typed  BY InitTyped
<1>2. Scanned /\ Taken  BY DEF Init, Scanned, Taken, OfKind
<1>3. ASSUME NEW i \in Interests PROVE RecOK(i)
    <2>1. \A r \in Regs : ~Here(r, i) /\ ~Queuing(r, i) /\ Once(r, i)
        BY DEF Init, RegistersInit, Here, Queuing, Once
    <2>2. SyncOK(i)  BY <2>1 DEF Init, SyncOK, Here
    <2> QED  BY <2>2 DEF Init, RecOK
<1> QED  BY <1>1, <1>2, <1>3 DEF BusyInv

LEMMA NextBusy == ASSUME BusyInv, [Next]_vars PROVE BusyInv'
<1>1. CASE Next
    <2>1. Typed' /\ Scanned' /\ Taken'
        BY <1>1, NextTyped, NextScanned, NextTaken DEF BusyInv
    <2>2. \A j \in Interests : RecOK(j)'
        <3>1. CASE Send \/ CompleteRecord  BY <3>1, SendBusy, CompleteRecordBusy
        <3>2. CASE \E r \in Regs : ReceiveWord(r) \/ ReceiveWritten(r) \/ Timeout(r)
            BY <3>2, ReceiveBusy
        <3>3. CASE StateReset \/ WorkerError  BY <3>3, ResetBusy
        <3>4. CASE Moves \/ StateConnect \/ \E i \in Interests : Tell(i)  BY <3>4, QuietBusy
        <3>5. CASE \/ \E i \in Interests : ProcessRecord(i) \/ ScanIntr(i) \/ Expire(i)
                   \/ \E r \in Regs : WriteNoWait(r)
                   \/ SetAddress \/ ForceError
            BY <3>5, OthersBusy
        <3> QED  BY <1>1, <3>1, <3>2, <3>3, <3>4, <3>5, NextCases
    <2> QED  BY <2>1, <2>2 DEF BusyInv
<1>2. CASE UNCHANGED vars
    <2>1. Typed'  BY <1>2, StutterTyped DEF BusyInv
    <2>2. UNCHANGED <<svcVars, scan, pact, waitFor, timer, current, pc, completed>>
        BY <1>2 DEF vars, devVars, runVars, recVars, pactVars, intrVars
    <2>3. Scanned' /\ Taken'  BY <2>2 DEF BusyInv, Scanned, Taken
    <2>4. \A j \in Interests : RecOK(j)'
        BY <2>2, UntouchedSame, SameKeeps DEF BusyInv
    <2> QED  BY <2>1, <2>3, <2>4 DEF BusyInv
<1> QED  BY <1>1, <1>2

\* The registers a record waits for, as NobodyForgotten and SyncCounts count them.
LEMMA WaitsHere == ASSUME Typed, NEW i \in Interests PROVE Waits(i) = Holding(i)
<1>1. records \cup completed \subseteq Regs \X Interests
    BY DEF Typed, RecTyped, RunTyped, RegistersTypeOK
<1> QED  BY <1>1 DEF Waits, Holding, Here

LEMMA BusyImplies == BusyInv => TypeOK /\ SyncCounts /\ NobodyForgotten
<1> SUFFICES ASSUME BusyInv PROVE TypeOK /\ SyncCounts /\ NobodyForgotten
    OBVIOUS
<1>1. SyncCounts  BY WaitsHere DEF BusyInv, SyncCounts, RecOK, SyncOK, OfKind
<1>2. NobodyForgotten
    <2> SUFFICES ASSUME NEW i \in Interests, pact[i], Kind[i] # "watch"
                 PROVE  Waits(i) \cup Queued(i) # {}
        BY DEF NobodyForgotten
    <2>1. Waits(i) = Holding(i)  BY WaitsHere DEF BusyInv
    <2>2. Kind[i] # "intr"  BY DEF BusyInv, Scanned, OfKind
    <2>3. CASE Kind[i] = "sync"  BY <2>1, <2>3 DEF BusyInv, RecOK, SyncOK
    <2>4. CASE Kind[i] \in {"read", "write"}
        BY <2>1, <2>4 DEF BusyInv, RecOK, Holding, Queued, Queuing
    <2> QED  BY <2>2, <2>3, <2>4
<1>3. \A i \in Interests : waitFor[i] \in 0 .. Cardinality(Regs)
    <2> TAKE i \in Interests
    <2>1. Cardinality(Regs) \in Nat  BY FS_CardinalityType
    <2>2. Holding(i) \subseteq Regs  BY DEF Holding
    <2>3. Cardinality(Holding(i)) \in Nat /\ Cardinality(Holding(i)) <= Cardinality(Regs)
        BY <2>2, FS_Subset, FS_CardinalityType
    <2>4. waitFor[i] \in {0, Cardinality(Holding(i))}  BY DEF BusyInv, RecOK, SyncOK
    <2> QED  BY <2>1, <2>3, <2>4
<1>4. waitFor \in [Interests -> 0 .. Cardinality(Regs)]
    BY <1>3 DEF BusyInv, Typed, RecTyped
<1>5. TypeOK
    <2>1. /\ RegistersTypeOK /\ regSend \in Seq(Regs) /\ (partly => regSend # <<>>)
          /\ \A i \in Interests : \A a \in awaits[i] : a.reg \in Regs /\ a.op \in Nat
          /\ {pact, alarm, timer, scan} \subseteq [Interests -> BOOLEAN]
        BY DEF BusyInv, Typed, RecTyped, IntrTyped, Flags
    <2>2. \A i \in OfKind("intr") : got[i] \in [Offsets(Named[i]) -> Nat]
        BY DEF BusyInv, Typed, IntrTyped
    <2>3. /\ current \in {"Error", "Searching", "Inspecting", "Running"}
          /\ {resetReq, errorReq, afterReset, partly} \subseteq BOOLEAN
          /\ {valid, match} \subseteq [Regs -> BOOLEAN]
          /\ pc \in {"Send", "Unlocked", "Receive", "State", "Connected"}
          /\ completed \in SUBSET (Regs \X Interests)
          /\ {toTell, overtaken} \subseteq SUBSET Interests
          /\ {done, wrote} \subseteq [Regs -> Nat]
          /\ {calls, faults} \subseteq Nat
        BY DEF BusyInv, Typed, RecTyped, RunTyped
    <2> QED  BY <1>4, <2>1, <2>2, <2>3 DEF TypeOK
<1> QED  BY <1>1, <1>2, <1>5

\* BusyInv holds in every reachable state.
THEOREM BusyHolds == Spec => []BusyInv
<1> QED  BY InitBusy, NextBusy, PTL DEF Spec

\* Every variable of the records and of the worker keeps its type; in particular
\* a Sync never waits for more completions than there are registers.
THEOREM TypesHold == Spec => []TypeOK
<1> QED  BY BusyHolds, BusyImplies, PTL

\* A busy Sync waits for exactly as many completions as will come, whatever the
\* order in which operations end, time out, or are cancelled by a reset.
THEOREM CountsRight == Spec => []SyncCounts
<1> QED  BY BusyHolds, BusyImplies, PTL

\* A busy record is on some list, so that the end of an operation, a timeout or a
\* reset will complete it.
THEOREM NoneForgotten == Spec => []NobodyForgotten
<1> QED  BY BusyHolds, BusyImplies, PTL

----------------------------------------------------------------------------
(***************************************************************************)
(* What a record that succeeds has waited for.                             *)
(***************************************************************************)

\* A read record, or a write record that was not processed by another thread before
\* it was told that it is connected (persistSettings).
Careful(i) == Kind[i] = "read" \/ (Kind[i] = "write" /\ i \notin overtaken)

\* The connection is lost, or the next step is a reset.
Fallen == ~Active \/ (pc = "State" /\ resetReq)

\* What completes was begun, and the worker's list is the only one while records
\* are completed; without a connection there are only bootstrap registers.
Counted ==
    /\ \A q \in Regs : done[q] <= opSeq[q] /\ wrote[q] <= opSeq[q]
    /\ pc = "Unlocked" => records = {}
    /\ ~Active => present = Boot
    /\ pc = "Connected" => current = "Inspecting"

\* Without a connection a record waits only to be completed, and not for long.
Early(i) ==
    ~Active => \A q \in Regs :
        /\ i \notin recordsInprog[q] /\ ~Queuing(q, i)
        /\ pc \notin {"Send", "Unlocked"} => <<q, i>> \notin records

\* A record is on one list at most, of the register it names, unless it is not
\* busy: then it is on none, but for the sweep of the Error state.
Placed(i) ==
    /\ \A q \in Regs \ {Named[i]} : ~Here(q, i) /\ ~Queuing(q, i)
    /\ IF Kind[i] = "read" THEN i \notin recordsWrite[Named[i]] ELSE i \notin recordsRead[Named[i]]
    /\ Once(Named[i], i)
    /\ Queuing(Named[i], i) => ~Here(Named[i], i)
    /\ \A a \in awaits[i] : a.reg = Named[i]
    /\ ~pact[i] =>
          /\ awaits[i] = {}
          /\ ~Queuing(Named[i], i)
          /\ Here(Named[i], i) => <<Named[i], i>> \in completed /\ current = "Error"

\* An operation a Sync waits for has completed, or will complete it.
SyncDone(i) ==
    pact[i] /\ ~Fallen => \A a \in awaits[i] : a.unsent =>
        \/ done[a.reg] >= a.op
        \/ opSeq[a.reg] = a.op /\ InProgress(a.reg) /\ i \in recordsInprog[a.reg]

\* Where a write record is says which write will complete it, or has.
WriteOK(i) ==
    \A a \in awaits[i] :
        /\ i \in recordsWrite[Named[i]] => a.op <= opSeq[Named[i]] + 1
        /\ i \in recordsInprog[Named[i]] =>
              state[Named[i]] = "Writing" /\ a.op <= opSeq[Named[i]]
        /\ <<Named[i], i>> \in records \/ <<Named[i], i>> \in completed =>
              wrote[Named[i]] >= a.op \/ Fallen

\* All words of register r were read by one operation, not before the n-th.
ReadSince(r, n) == \E m \in n .. opSeq[r] : \A o \in Offsets(r) : memRx[r][o] = m

\* The same for a read record; while it waits to be completed, no word is received.
ReadOK(i) ==
    /\ \A a \in awaits[i] :
          /\ i \in recordsRead[Named[i]] => a.op <= opSeq[Named[i]] + 1
          /\ i \in recordsInprog[Named[i]] =>
                state[Named[i]] = "Reading" /\ a.op <= opSeq[Named[i]]
          /\ valid[Named[i]] /\ (<<Named[i], i>> \in records \/ <<Named[i], i>> \in completed) =>
                ReadSince(Named[i], a.op)
    /\ pc = "Receive" /\ <<Named[i], i>> \in records /\ InProgress(Named[i]) =>
          Named[i] \in Sending /\ ~(partly /\ Named[i] = Head(regSend))

Served(i) ==
    /\ Kind[i] \in {"read", "write", "sync"} => Early(i)
    /\ Kind[i] = "write" /\ ~pact[i] => awaits[i] = {}
    /\ Kind[i] = "sync" => SyncDone(i)
    /\ Careful(i) => Placed(i)
    /\ Careful(i) /\ Kind[i] = "write" => WriteOK(i)
    /\ Kind[i] = "read" => ReadOK(i)

ServedInv == BusyInv /\ Counted /\ \A i \in Interests : Served(i)

\* A step that begins no second operation on a register.
Quiet ==
    \A q \in Regs : /\ opSeq'[q] \in Nat /\ opSeq'[q] >= opSeq[q]
                    /\ InProgress(q) => state'[q] = state[q] /\ opSeq'[q] = opSeq[q]

\* A step that does not concern record j.
Spared(j) ==
    /\ SameLists(j) /\ pact'[j] = pact[j] /\ awaits'[j] = awaits[j]
    /\ \A q \in Regs : <<q, j>> \in completed' <=> <<q, j>> \in completed

\* The worker goes no further than records allow.
Onwards ==
    /\ Active' <=> Active
    /\ overtaken \subseteq overtaken'
    /\ current = "Error" => current' = "Error"
    /\ Fallen => Fallen'
    /\ pc' = "Connected" => pc = "Connected"
    /\ pc' \notin {"Send", "Unlocked"} => records = {} \/ pc \notin {"Send", "Unlocked"}
    /\ pc' = "Receive" => records = {} \/ (pc = "Receive" /\ UNCHANGED <<state, sendVars>>)

LEMMA SparedKeeps ==
    ASSUME Typed, NEW j \in Interests, Served(j), Spared(j), Quiet, Onwards,
           UNCHANGED <<done, wrote, valid, memRx>>
    PROVE  Served(j)'
<1> DEFINE r == Named[j]
<1>1. r \in Regs  OBVIOUS
<1>2. /\ \A q \in Regs : Here(q, j)' <=> Here(q, j)
      /\ \A q \in Regs : Queuing(q, j)' <=> Queuing(q, j)
      /\ \A q \in Regs : Once(q, j)' <=> Once(q, j)
    BY DEF Spared, SameLists, Here, Queuing, Once
<1>3. \A q \in Regs : opSeq[q] \in Nat /\ opSeq'[q] \in Nat /\ opSeq'[q] >= opSeq[q]
    BY DEF Quiet, Typed, RecTyped, RegistersTypeOK
<1>4. \A a \in awaits[j] : a.op \in Nat /\ a.reg \in Regs
    BY DEF Typed, RecTyped
<1>5. ASSUME Early(j) PROVE Early(j)'
    BY <1>2, <1>5 DEF Early, Onwards, Spared, SameLists
<1>6. ASSUME Placed(j) PROVE Placed(j)'
    BY <1>1, <1>2, <1>6 DEF Placed, Onwards, Spared, SameLists
<1>7. ASSUME SyncDone(j) PROVE SyncDone(j)'
    <2> SUFFICES ASSUME pact[j], ~Fallen, NEW a \in awaits[j], a.unsent
                 PROVE  \/ done[a.reg] >= a.op
                        \/ opSeq'[a.reg] = a.op /\ InProgress(a.reg)' /\ j \in recordsInprog'[a.reg]
        BY DEF SyncDone, Spared, Onwards
    <2>1. a.reg \in Regs  BY <1>4
    <2>2. \/ done[a.reg] >= a.op
          \/ opSeq[a.reg] = a.op /\ InProgress(a.reg) /\ j \in recordsInprog[a.reg]
        BY <1>7 DEF SyncDone
    <2> QED  BY <2>1, <2>2 DEF Quiet, InProgress, Spared, SameLists
<1>8. ASSUME WriteOK(j) PROVE WriteOK(j)'
    <2> SUFFICES ASSUME NEW a \in awaits[j]
                 PROVE  /\ j \in recordsWrite'[r] => a.op <= opSeq'[r] + 1
                        /\ j \in recordsInprog'[r] => state'[r] = "Writing" /\ a.op <= opSeq'[r]
                        /\ <<r, j>> \in records' \/ <<r, j>> \in completed' =>
                              wrote[r] >= a.op \/ Fallen'
        BY DEF WriteOK, Spared
    <2>1. /\ j \in recordsWrite[r] => a.op <= opSeq[r] + 1
          /\ j \in recordsInprog[r] => state[r] = "Writing" /\ a.op <= opSeq[r]
          /\ <<r, j>> \in records \/ <<r, j>> \in completed => wrote[r] >= a.op \/ Fallen
        BY <1>8 DEF WriteOK
    <2>2. a.op \in Nat /\ opSeq[r] \in Nat /\ opSeq'[r] \in Nat /\ opSeq'[r] >= opSeq[r]
        BY <1>1, <1>3, <1>4
    <2>3. /\ j \in recordsWrite'[r] <=> j \in recordsWrite[r]
          /\ j \in recordsInprog'[r] <=> j \in recordsInprog[r]
          /\ <<r, j>> \in records' <=> <<r, j>> \in records
          /\ <<r, j>> \in completed' <=> <<r, j>> \in completed
        BY <1>1 DEF Spared, SameLists
    <2>4. state[r] = "Writing" => state'[r] = "Writing"
        BY <1>1 DEF Quiet, InProgress
    <2> QED  BY <2>1, <2>2, <2>3, <2>4 DEF Onwards
<1>9. ASSUME ReadOK(j) PROVE ReadOK(j)'
    <2>1. ASSUME NEW a \in awaits[j]
          PROVE  /\ j \in recordsRead'[r] => a.op <= opSeq'[r] + 1
                 /\ j \in recordsInprog'[r] => state'[r] = "Reading" /\ a.op <= opSeq'[r]
                 /\ valid'[r] /\ (<<r, j>> \in records' \/ <<r, j>> \in completed') =>
                       ReadSince(r, a.op)'
        <3>1. /\ j \in recordsRead[r] => a.op <= opSeq[r] + 1
              /\ j \in recordsInprog[r] => state[r] = "Reading" /\ a.op <= opSeq[r]
              /\ valid[r] /\ (<<r, j>> \in records \/ <<r, j>> \in completed) =>
                    ReadSince(r, a.op)
            BY <1>9 DEF ReadOK
        <3>2. a.op \in Nat /\ opSeq[r] \in Nat /\ opSeq'[r] \in Nat /\ opSeq'[r] >= opSeq[r]
            BY <1>1, <1>3, <1>4
        <3>3. /\ j \in recordsRead'[r] <=> j \in recordsRead[r]
              /\ j \in recordsInprog'[r] <=> j \in recordsInprog[r]
              /\ <<r, j>> \in records' <=> <<r, j>> \in records
              /\ <<r, j>> \in completed' <=> <<r, j>> \in completed
            BY <1>1 DEF Spared, SameLists
        <3>4. state[r] = "Reading" => state'[r] = "Reading"
            BY <1>1 DEF Quiet, InProgress
        <3>5. ReadSince(r, a.op) => ReadSince(r, a.op)'
            BY <3>2 DEF ReadSince
        <3> QED  BY <3>1, <3>2, <3>3, <3>4, <3>5
    <2>2. pc' = "Receive" /\ <<r, j>> \in records' /\ InProgress(r)' =>
             r \in Sending' /\ ~(partly' /\ r = Head(regSend'))
        <3> SUFFICES ASSUME pc' = "Receive", <<r, j>> \in records', InProgress(r)'
                     PROVE  r \in Sending' /\ ~(partly' /\ r = Head(regSend'))
            OBVIOUS
        <3>1. <<r, j>> \in records  BY <1>1 DEF Spared, SameLists
        <3>2. pc = "Receive" /\ UNCHANGED <<state, regSend, partly>>
            BY <3>1 DEF Onwards, sendVars
        <3>3. InProgress(r)  BY <3>2 DEF InProgress
        <3>4. r \in Sending /\ ~(partly /\ r = Head(regSend))
            BY <1>9, <3>1, <3>2, <3>3 DEF ReadOK
        <3> QED  BY <3>2, <3>4 DEF Sending
    <2> QED  BY <2>1, <2>2 DEF ReadOK, Spared
<1> QED  BY <1>5, <1>6, <1>7, <1>8, <1>9 DEF Served, Careful, Spared, Onwards

\* DevReg::queue begins an operation only on a register that has none.
LEMMA QueueQuiet ==
    ASSUME RegistersTypeOK, NEW r \in Regs, NEW write \in BOOLEAN,
           NEW i \in Interests \cup {NoInterest}, Queue(r, write, i)
    PROVE  Quiet /\ UNCHANGED <<present, memRx>>
<1>1. UNCHANGED <<present, memRx>>  BY DEF Queue
<1>2. CASE QueueIdle(r, write, i)
    BY <1>1, <1>2 DEF RegistersTypeOK, QueueIdle, Begin, Quiet
<1>3. CASE QueueWriteLater(r, write, i)
    BY <1>1, <1>3 DEF RegistersTypeOK, QueueWriteLater, Quiet
<1>4. CASE QueueReadLater(r, write, i)
    BY <1>1, <1>4 DEF RegistersTypeOK, QueueReadLater, Quiet
<1>5. CASE MergeRead(r, write, i)
    BY <1>1, <1>5 DEF RegistersTypeOK, MergeRead, Quiet
<1> QED  BY <1>2, <1>3, <1>4, <1>5, <1>1 DEF Queue

\* A record that is on no list is put on one, which says which operation it waits for.
LEMMA QueuePlaces ==
    ASSUME RegistersTypeOK, NEW r \in Regs, NEW write \in BOOLEAN, NEW i \in Interests,
           Queue(r, write, i), \A q \in Regs : i \notin recordsInprog[q] /\ ~Queuing(q, i)
    PROVE  /\ records' = records
           /\ \A q \in Regs \ {r} : i \notin recordsInprog'[q] /\ ~Queuing(q, i)'
           /\ IF write THEN i \notin recordsRead'[r] ELSE i \notin recordsWrite'[r]
           /\ i \in recordsInprog'[r] <=> ~Queuing(r, i)'
           /\ Queuing(r, i)' => Joins(r, write).op = opSeq'[r] + 1
           /\ i \in recordsInprog'[r] =>
                 /\ Joins(r, write).op = opSeq'[r]
                 /\ state'[r] = IF write THEN "Writing" ELSE "Reading"
<1>1. Action(i) = {i}  BY RegistersAssumption DEF Action
<1>2. records' = records  BY DEF Queue
<1>3. CASE QueueIdle(r, write, i)
    BY <1>1, <1>2, <1>3 DEF RegistersTypeOK, QueueIdle, Begin, InProgress, Joins, Queuing
<1>4. CASE QueueWriteLater(r, write, i)
    BY <1>1, <1>2, <1>4 DEF RegistersTypeOK, QueueWriteLater, Joins, Queuing
<1>5. CASE QueueReadLater(r, write, i)
    BY <1>1, <1>2, <1>5 DEF RegistersTypeOK, QueueReadLater, Joins, Queuing
<1>6. CASE MergeRead(r, write, i)
    BY <1>1, <1>2, <1>6 DEF RegistersTypeOK, MergeRead, Joins, Queuing
<1> QED  BY <1>3, <1>4, <1>5, <1>6 DEF Queue

\* The end of an operation begins the queued write, or else the queued read.
LEMMA FinishBegins ==
    ASSUME RegistersTypeOK, NEW r \in Regs, Finish(r), NEW i \in Interests
    PROVE  /\ \A q \in Regs \ {r} : opSeq'[q] = opSeq[q] /\ state'[q] = state[q]
           /\ opSeq'[r] \in {opSeq[r], opSeq[r] + 1}
           /\ i \in recordsWrite'[r] => i \in recordsWrite[r]
           /\ i \in recordsRead'[r] => i \in recordsRead[r]
           /\ i \in recordsInprog'[r] =>
                 /\ opSeq'[r] = opSeq[r] + 1
                 /\ \/ /\ i \in recordsWrite[r] /\ i \notin recordsWrite'[r]
                       /\ state'[r] = "Writing"
                    \/ /\ i \in recordsRead[r] /\ i \notin recordsRead'[r]
                       /\ state'[r] = "Reading"
           /\ InProgress(r)' <=> writeQueued[r] \/ readQueued[r]
<1>1. CASE StartQueuedWrite(r)
    BY <1>1 DEF RegistersTypeOK, StartQueuedWrite, Begin, InProgress
<1>2. CASE StartQueuedRead(r)
    BY <1>2 DEF RegistersTypeOK, StartQueuedRead, Begin, InProgress
<1>3. CASE StartNothing(r)
    BY <1>3 DEF RegistersTypeOK, StartNothing, InProgress
<1> QED  BY <1>1, <1>2, <1>3 DEF Finish

\* Served claims nothing of a Watch, nor of an I/O Intr record.
LEMMA RestOfKinds == ASSUME NEW i \in Interests, Kind[i] \in {"watch", "intr"} PROVE Served(i) /\ Served(i)'
BY DEF Served, Careful

LEMMA BusyTyped ==
    ASSUME BusyInv
    PROVE  /\ RegistersTypeOK /\ RecTyped /\ RunTyped /\ Typed
           /\ \A q \in Regs : opSeq[q] \in Nat /\ done[q] \in Nat /\ wrote[q] \in Nat
           /\ \A i \in Interests : \A a \in awaits[i] : a.op \in Nat /\ a.reg \in Regs
BY DEF BusyInv, Typed, RecTyped, RunTyped, RegistersTypeOK

----------------------------------------------------------------------------
\* The processing of a record that is not busy.
LEMMA ProcessServed ==
    ASSUME ServedInv, NEW i \in Interests, ~pact[i], Process(i),
           Kind[i] # "sync" => Unlocked,
           UNCHANGED <<current, resetReq, pc, completed, overtaken, opVars>>
    PROVE  \A j \in Interests : Served(j)'
<1>1. /\ BusyInv /\ Counted /\ Served(i) /\ RegistersTypeOK /\ RecTyped /\ RunTyped /\ Typed
      /\ UNCHANGED <<valid, match, done, wrote, overtaken>>
    BY BusyTyped DEF ServedInv, opVars
<1>2. Quiet /\ UNCHANGED <<present, memRx, records>>
    <2>1. ASSUME NEW bad, End(i, bad) PROVE Quiet /\ UNCHANGED <<present, memRx, records>>
        BY <1>1, <2>1 DEF End, svcVars, Quiet, RegistersTypeOK
    <2>2. ASSUME NEW write \in BOOLEAN, NEW busy, Ask(i, write, busy)
          PROVE  Quiet /\ UNCHANGED <<present, memRx, records>>
        BY <1>1, <2>2, QueueQuiet DEF Ask, QueueReg, Queue
    <2>3. CASE SyncBegin(i)
        BY <1>1, <2>3 DEF SyncBegin, Quiet, RegistersTypeOK
    <2> QED
        BY <2>1, <2>2, <2>3 DEF Process, Refuse, ProcessRead, ProcessWrite, ProcessWatch, SyncEnd
<1>3. Onwards
    <2>1. CASE Kind[i] = "sync"
        BY <1>1, <2>1 DEF Onwards, Active, Fallen, Process, Refuse, ProcessRead, ProcessWrite,
                          ProcessWatch, SyncBegin, SyncEnd, End, svcVars, sendVars
    <2>2. CASE Kind[i] # "sync"
        <3>1. pc \in {"Unlocked", "Connected"}  BY <2>2 DEF Unlocked
        <3> QED  BY <1>1, <1>2, <3>1 DEF Onwards, Active, Fallen, Counted
    <2> QED  BY <2>1, <2>2
<1>4. ASSUME NEW j \in Interests, j # i PROVE Served(j)'
    <2>1. Same(j)  BY <1>1, <1>4, ProcessSame
    <2>2. awaits'[j] = awaits[j]
        BY <1>1, <1>4 DEF Process, Refuse, ProcessRead, ProcessWrite, ProcessWatch, SyncBegin,
                          SyncEnd, Ask, End, RecTyped
    <2>3. Spared(j)  BY <2>1, <2>2 DEF Same, Spared
    <2> QED  BY <1>1, <1>2, <1>3, <2>3, SparedKeeps DEF ServedInv
\* The record is refused, or ends, at once.
<1>5. ASSUME NEW bad, End(i, bad) PROVE Served(i)'
    <2>1. /\ SameLists(i) /\ pact'[i] = pact[i] /\ awaits'[i] = {}
        BY <1>1, <1>5, EndSame DEF End, RecTyped, Flags
    <2>2. CASE awaits[i] = {}
        BY <1>1, <1>2, <1>3, <2>1, <2>2, SparedKeeps DEF Spared
    <2>3. CASE awaits[i] # {} /\ Kind[i] = "sync"
        <3>1. Early(i)'
            BY <1>1, <1>3, <2>1, <2>3 DEF Served, Early, Onwards, SameLists, Queuing
        <3>2. SyncDone(i)'  BY <2>1 DEF SyncDone
        <3> QED  BY <2>3, <3>1, <3>2 DEF Served, Careful
    <2>4. CASE awaits[i] # {} /\ Kind[i] # "sync"
        <3>1. Kind[i] \in {"watch", "intr"}  BY <1>1, <2>4 DEF Served, Careful, Placed
        <3> QED  BY <3>1, RestOfKinds
    <2> QED  BY <2>2, <2>3, <2>4
\* It asks for an operation.
<1>6. ASSUME NEW write \in BOOLEAN, NEW busy \in BOOLEAN, Ask(i, write, busy), Careful(i), Active, busy,
             IF write THEN Kind[i] = "write" ELSE Kind[i] = "read"
      PROVE  Served(i)'
    <2> DEFINE r == Named[i]
    <2>1. Placed(i) /\ current # "Error"  BY <1>1, <1>6 DEF Served, Active
    <2>2. \A q \in Regs : ~Here(q, i) /\ ~Queuing(q, i)
        BY <2>1 DEF Placed
    <2>3. \A q \in Regs : i \notin recordsInprog[q] /\ <<q, i>> \notin records /\ <<q, i>> \notin completed
        BY <2>2 DEF Here
    <2>4. r \in Regs /\ Queue(r, write, i)  BY <1>6 DEF Ask, QueueReg
    <2>5. /\ records' = records
          /\ \A q \in Regs \ {r} : i \notin recordsInprog'[q] /\ ~Queuing(q, i)'
          /\ IF write THEN i \notin recordsRead'[r] ELSE i \notin recordsWrite'[r]
          /\ i \in recordsInprog'[r] <=> ~Queuing(r, i)'
          /\ Queuing(r, i)' => Joins(r, write).op = opSeq'[r] + 1
          /\ i \in recordsInprog'[r] =>
                /\ Joins(r, write).op = opSeq'[r]
                /\ state'[r] = IF write THEN "Writing" ELSE "Reading"
        <3>1. \A q \in Regs : i \notin recordsInprog[q] /\ ~Queuing(q, i)
            BY <2>2, <2>3
        <3> QED  BY ONLY <1>1, <1>6, <2>4, <3>1, QueuePlaces, i \in Interests
    <2>6. pact'[i] /\ awaits'[i] = {Joins(r, write)}
        BY <1>1, <1>6 DEF Ask, RecTyped, Flags
    <2>7. \A a \in awaits'[i] : a.op = Joins(r, write).op /\ a.reg = r
        BY <2>6 DEF Joins
    <2>8. Active' /\ pc' = pc  BY <1>6 DEF Active
    <2>9. Early(i)'  BY <2>8 DEF Early
    <2>10. Placed(i)'
        <3>1. \A q \in Regs : <<q, i>> \notin records' /\ <<q, i>> \notin completed'
            BY <2>3, <2>5
        <3>2. \A q \in Regs \ {r} : ~Here(q, i)' /\ ~Queuing(q, i)'
            BY <2>5, <3>1 DEF Here
        <3>3. Once(r, i)'  BY <2>4, <3>1 DEF Once
        <3>4. Queuing(r, i)' => ~Here(r, i)'  BY <2>4, <2>5, <3>1 DEF Here
        <3> QED  BY <1>6, <2>5, <2>6, <2>7, <3>2, <3>3, <3>4 DEF Placed
    <2>11. opSeq'[r] \in Nat  BY <1>2, <2>4 DEF Quiet
    <2>12. Kind[i] = "write" => WriteOK(i)'
        BY <1>6, <2>3, <2>4, <2>5, <2>7, <2>11 DEF WriteOK, Queuing
    <2>13. Kind[i] = "read" => ReadOK(i)'
        BY <1>6, <2>3, <2>4, <2>5, <2>7, <2>11 DEF ReadOK, Queuing
    <2> QED  BY <1>6, <2>6, <2>9, <2>10, <2>12, <2>13 DEF Served
<1>7. ASSUME SyncBegin(i) PROVE Served(i)'
    <2>1. Kind[i] = "sync" /\ Active'  BY <1>7 DEF SyncBegin, Active
    <2>2. Early(i)'  BY <2>1 DEF Early
    <2>3. SyncDone(i)'
        <3> SUFFICES ASSUME NEW a \in awaits'[i], a.unsent
                     PROVE  /\ opSeq'[a.reg] = a.op /\ InProgress(a.reg)'
                            /\ i \in recordsInprog'[a.reg]
            BY DEF SyncDone
        <3>1. PICK q \in Regs : InProgress(q) /\ a = [reg |-> q, unsent |-> q \in Sending, op |-> opSeq[q]]
            BY <1>1, <1>7 DEF SyncBegin, RecTyped
        <3> QED  BY <1>7, <3>1 DEF SyncBegin, InProgress
    <2> QED  BY <2>1, <2>2, <2>3 DEF Served, Careful
<1>8. Served(i)'
    <2>1. CASE Refuse(i) \/ SyncEnd(i, waitFor[i])
        BY <1>5, <2>1 DEF Refuse, SyncEnd
    <2>2. CASE ProcessRead(i) /\ Kind[i] = "read"
        BY <1>1, <1>5, <1>6, <2>2 DEF ProcessRead, Careful
    <2>3. CASE ProcessWrite(i)
        <3>1. Active /\ Active' /\ Kind[i] = "write"
            BY <1>1, <2>3 DEF ProcessWrite, Usable, Supported, Counted, Active
        <3>2. Ask(i, TRUE, TRUE)  BY <2>3, <3>1 DEF ProcessWrite
        <3>3. CASE Careful(i)  BY <1>6, <3>1, <3>2, <3>3
        <3>4. CASE ~Careful(i)
            <4>1. ~Careful(i)' /\ pact'[i]
                BY <1>1, <3>2, <3>4 DEF Careful, Ask, RecTyped, Flags
            <4> QED  BY <3>1, <4>1 DEF Served, Early
        <3> QED  BY <3>3, <3>4
    <2>4. CASE Kind[i] \in {"watch", "intr"}  BY <2>4, RestOfKinds
    <2> QED
        BY <1>7, <2>1, <2>2, <2>3, <2>4 DEF Process, ProcessRead, ProcessWatch
<1> QED  BY <1>4, <1>8

\* What RecInfo::complete does to a record, if anything, is to end it.
LEMMA CompleteEnds ==
    ASSUME NEW i \in Interests, Complete(i)
    PROVE  /\ UNCHANGED <<svcVars, sendVars>>
           /\ \/ UNCHANGED pactVars /\ (Kind[i] \in {"read", "write"} => ~pact[i])
              \/ \E bad : End(i, bad)
<1>1. ASSUME pact[i], Process(i) PROVE \E bad : End(i, bad)
    BY <1>1 DEF Process, Refuse, ProcessRead, ProcessWrite, ProcessWatch, SyncBegin, SyncEnd
<1>2. ASSUME NEW bad, End(i, bad) PROVE UNCHANGED <<svcVars, sendVars>>
    BY <1>2 DEF End
<1>3. ASSUME Again(i)
      PROVE  \/ UNCHANGED <<svcVars, sendVars, pactVars>> /\ ~pact[i]
             \/ \E bad : End(i, bad)
    BY <1>1, <1>3 DEF Again
<1>4. CASE CompleteWatch(i)
    BY <1>2, <1>3, <1>4 DEF CompleteWatch
<1>5. CASE CompleteSync(i)
    BY <1>2, <1>5 DEF CompleteSync, SyncEnd
<1>6. CASE Kind[i] \notin {"watch", "sync"} /\ Again(i)
    BY <1>2, <1>3, <1>6
<1> QED  BY <1>4, <1>5, <1>6 DEF Complete

LEMMA CompleteServed ==
    ASSUME ServedInv, CompleteRecord
    PROVE  \A j \in Interests : Served(j)'
<1>1. /\ BusyInv /\ Counted /\ RegistersTypeOK /\ RecTyped /\ RunTyped /\ Typed
    BY BusyTyped DEF ServedInv
<1>2. PICK c \in completed : completed' = completed \ {c} /\ Complete(c[2])
    BY DEF CompleteRecord
<1>3. PICK r \in Regs, i \in Interests : c = <<r, i>>  BY <1>1 DEF RunTyped
<1>4. Complete(i) /\ completed' = completed \ {<<r, i>>} /\ <<r, i>> \in completed
    BY <1>2, <1>3
<1>5. /\ pc = "Unlocked" /\ pc' = pc /\ records = {}
      /\ UNCHANGED <<current, resetReq, overtaken, valid, done, wrote>>
    BY <1>1 DEF CompleteRecord, Counted, devVars, opVars
<1>6. UNCHANGED <<svcVars, sendVars>>  BY <1>4, CompleteEnds
<1>7. Quiet /\ UNCHANGED <<memRx, records>>
    BY <1>1, <1>6 DEF svcVars, Quiet, RegistersTypeOK
<1>8. Onwards  BY <1>5 DEF Onwards, Active, Fallen
<1>9. \A j \in Interests : SameLists(j)
    BY <1>6 DEF svcVars, listVars, SameLists
<1>10. ASSUME NEW j \in Interests, j # i PROVE Served(j)'
    <2>1. pact'[j] = pact[j] /\ awaits'[j] = awaits[j]
        <3>1. CASE UNCHANGED pactVars  BY <3>1 DEF pactVars
        <3>2. ASSUME NEW bad, End(i, bad) PROVE pact'[j] = pact[j] /\ awaits'[j] = awaits[j]
            BY <1>1, <1>10, <3>2 DEF End, RecTyped
        <3> QED  BY <1>4, <3>1, <3>2, CompleteEnds
    <2>2. \A q \in Regs : <<q, j>> \in completed' <=> <<q, j>> \in completed
        BY <1>4, <1>10
    <2>3. Spared(j)  BY <1>9, <2>1, <2>2 DEF Spared
    <2> QED  BY <1>1, <1>5, <1>7, <1>8, <2>3, SparedKeeps DEF ServedInv
<1>11. Early(i) => Early(i)'
    BY <1>5, <1>9 DEF Early, Active, SameLists, Queuing
<1>12. Served(i)'
    <2>1. CASE Kind[i] = "sync"
        <3>1. SyncDone(i) /\ Early(i)  BY <2>1 DEF ServedInv, Served
        <3>2. CASE UNCHANGED pactVars
            <4>1. UNCHANGED <<awaits, pact, state, opSeq, done, recordsInprog, current, pc, resetReq>>
                BY <1>5, <1>6, <3>2 DEF pactVars, svcVars, listVars
            <4>2. SyncDone(i)'  BY <3>1, <4>1 DEF SyncDone, Fallen, Active, InProgress
            <4> QED  BY <1>11, <2>1, <3>1, <4>2 DEF Served, Careful
        <3>3. ASSUME NEW bad, End(i, bad) PROVE Served(i)'
            <4>1. ~pact'[i]  BY <1>1, <3>3, EndSame
            <4>2. SyncDone(i)'  BY <4>1 DEF SyncDone
            <4> QED  BY <1>11, <2>1, <3>1, <4>2 DEF Served, Careful
        <3> QED  BY <1>4, <3>2, <3>3, CompleteEnds
    <2>2. CASE Careful(i)
        <3>1. Placed(i) /\ Early(i) /\ Kind[i] \in {"read", "write"}
            BY <2>2 DEF ServedInv, Served, Careful
        <3>2. r = Named[i]  BY <1>4, <3>1 DEF Placed, Here
        <3>3. \A q \in Regs : ~Here(q, i)' /\ ~Queuing(q, i)'
            <4> SUFFICES ASSUME NEW q \in Regs PROVE ~Here(q, i)' /\ ~Queuing(q, i)'
                OBVIOUS
            <4>1. CASE q # r
                BY <1>4, <1>9, <3>1, <3>2, <4>1 DEF Placed, Here, Queuing, SameLists
            <4>2. CASE q = r
                BY <1>4, <1>9, <3>1, <3>2, <4>2 DEF Placed, Here, Queuing, SameLists, Once
            <4> QED  BY <4>1, <4>2
        <3>4. ~pact'[i] /\ awaits'[i] = {}
            <4>1. CASE UNCHANGED pactVars /\ ~pact[i]
                BY <3>1, <4>1 DEF pactVars, Placed
            <4>2. ASSUME NEW bad, End(i, bad) PROVE ~pact'[i] /\ awaits'[i] = {}
                BY <1>1, <4>2 DEF End, RecTyped, Flags
            <4> QED  BY <1>4, <3>1, <4>1, <4>2, CompleteEnds
        <3>5. Named[i] \in Regs  OBVIOUS
        <3>6. Placed(i)'
            BY <3>3, <3>4, <3>5 DEF Placed, Here, Queuing, Once
        <3>7. WriteOK(i)'  BY <3>4 DEF WriteOK
        <3>8. ReadOK(i)'  BY <3>3, <3>4, <3>5 DEF ReadOK, Here
        <3> QED  BY <1>5, <1>11, <3>1, <3>4, <3>6, <3>7, <3>8 DEF ServedInv, Served, Careful
    <2>3. CASE Kind[i] = "write" /\ ~Careful(i)
        <3>1. ~pact'[i] => awaits'[i] = {}
            <4>1. CASE UNCHANGED pactVars
                BY <2>3, <4>1 DEF pactVars, ServedInv, Served
            <4>2. ASSUME NEW bad, End(i, bad) PROVE awaits'[i] = {}
                BY <1>1, <4>2 DEF End, RecTyped
            <4> QED  BY <1>4, <4>1, <4>2, CompleteEnds
        <3>2. ~Careful(i)'  BY <1>5, <2>3 DEF Careful
        <3> QED  BY <1>11, <2>3, <3>1, <3>2 DEF ServedInv, Served
    <2>4. CASE Kind[i] \in {"watch", "intr"}  BY <2>4, RestOfKinds
    <2> QED  BY <2>1, <2>2, <2>3, <2>4 DEF Careful
<1> QED  BY <1>10, <1>12

\* The worker takes the completion list; or it completes every record, none of
\* which is busy, in the Error state.
LEMMA SendServed ==
    ASSUME ServedInv, Send
    PROVE  \A j \in Interests : Served(j)'
<1> TAKE i \in Interests
<1>1. /\ BusyInv /\ Served(i) /\ RegistersTypeOK /\ RecTyped /\ RunTyped /\ Typed /\ RecOK(i)
    BY BusyTyped DEF ServedInv, BusyInv
<1>2. /\ pc = "Send" /\ pc' = "Unlocked" /\ records' = {} /\ completed = {}
      /\ UNCHANGED <<present, state, recordsInprog, recordsWrite, recordsRead, opSeq, memRx, current,
                     resetReq, overtaken, pact, awaits, valid, done, wrote>>
    BY <1>1 DEF Send, Swap, listVars, recVars, pactVars, opVars, BusyInv, Taken
<1>3. \/ completed' = records
      \/ current = "Error" /\ records = {} /\ completed' = {<<Named[j], j>> : j \in Interests}
    BY DEF Send
<1>4. Fallen' <=> Fallen  BY <1>2 DEF Fallen, Active
<1>5. Early(i) => Early(i)'  BY <1>2 DEF Early, Active, Queuing
<1>6. SyncDone(i) => SyncDone(i)'
    BY <1>2, <1>4 DEF SyncDone, InProgress
<1>7. ASSUME Careful(i) PROVE Placed(i)' /\ (Kind[i] = "write" => WriteOK(i)') /\ (Kind[i] = "read" => ReadOK(i)')
    <2> DEFINE r == Named[i]
    <2>1. /\ Placed(i) /\ Early(i) /\ r \in Regs /\ Kind[i] \in {"read", "write"}
          /\ (Kind[i] = "write" => WriteOK(i)) /\ (Kind[i] = "read" => ReadOK(i))
        BY <1>1, <1>7 DEF Served, Careful
    <2>2. CASE completed' = records
        <3>1. \A q \in Regs : Queuing(q, i)' <=> Queuing(q, i)  BY <1>2 DEF Queuing
        <3>2. \A q \in Regs : Here(q, i)' <=> Here(q, i)  BY <1>2, <2>2 DEF Here
        <3>3. Once(r, i)'  BY <1>2, <2>1, <2>2 DEF Placed, Once
        <3>4. ~pact[i] => ~Here(r, i)  BY <1>2, <2>1 DEF Placed
        <3>5. Placed(i)'  BY <1>2, <2>1, <3>1, <3>2, <3>3, <3>4 DEF Placed
        <3>6. Kind[i] = "write" => WriteOK(i)'
            BY <1>2, <1>4, <2>1, <2>2 DEF WriteOK
        <3>7. Kind[i] = "read" => ReadOK(i)'
            BY <1>2, <2>1, <2>2 DEF ReadOK, ReadSince
        <3> QED  BY <3>5, <3>6, <3>7
    <2>3. CASE current = "Error" /\ records = {} /\ completed' = {<<Named[j], j>> : j \in Interests}
        <3>1. ~Active  BY <2>3 DEF Active
        <3>2. \A q \in Regs : i \notin recordsInprog[q] /\ ~Queuing(q, i)
            BY <2>1, <3>1 DEF Early
        <3>3. ~pact[i]  BY <1>1, <1>2, <2>1, <2>3, <3>2 DEF RecOK, Here
        <3>4. awaits[i] = {}  BY <2>1, <3>3 DEF Placed
        <3>5. \A q \in Regs : <<q, i>> \in completed' <=> q = r
            BY <2>3
        <3>6. \A q \in Regs : ~Queuing(q, i)' /\ i \notin recordsInprog'[q] /\ <<q, i>> \notin records'
            BY <1>2, <3>2 DEF Queuing
        <3>7. \A q \in Regs \ {r} : ~Here(q, i)'  BY <3>5, <3>6 DEF Here
        <3>8. Placed(i)'
            BY <1>2, <2>1, <2>3, <3>3, <3>4, <3>5, <3>6, <3>7 DEF Placed, Once, Queuing
        <3>9. awaits'[i] = {}  BY <1>2, <3>4
        <3> QED  BY <1>2, <3>8, <3>9 DEF WriteOK, ReadOK
    <2> QED  BY <1>3, <2>2, <2>3
<1> QED  BY <1>1, <1>2, <1>5, <1>6, <1>7 DEF Served, Careful

\* What is added to reg_send leaves its front as it was.
LEMMA QueuedMore ==
    ASSUME regSend \in Seq(Regs), NEW r \in Regs, NEW more \in BOOLEAN,
           regSend' = IF more THEN Append(regSend, r) ELSE regSend
    PROVE  /\ Sending' = IF more THEN Sending \cup {r} ELSE Sending
           /\ regSend # <<>> => Head(regSend') = Head(regSend) /\ Head(regSend) \in Sending
<1>1. Len(regSend) \in Nat  BY LenProperties
<1>2. regSend # <<>> => Len(regSend) >= 1 /\ Head(regSend) = regSend[1]
    BY <1>1, EmptySeq, HeadTailProperties
<1>3. regSend # <<>> => Head(regSend) \in Sending  BY <1>1, <1>2 DEF Sending
<1>4. CASE ~more  BY <1>3, <1>4 DEF Sending
<1>5. CASE more
    <2>1. /\ regSend' \in Seq(Regs) /\ Len(regSend') = Len(regSend) + 1 /\ regSend' # <<>>
          /\ \A k \in 1 .. Len(regSend) : regSend'[k] = regSend[k]
          /\ regSend'[Len(regSend) + 1] = r
        <3>1. regSend' = Append(regSend, r)  BY <1>5
        <3>2. /\ Append(regSend, r) \in Seq(Regs) /\ Append(regSend, r) # <<>>
              /\ Len(Append(regSend, r)) = Len(regSend) + 1
              /\ \A k \in 1 .. Len(regSend) : Append(regSend, r)[k] = regSend[k]
              /\ Append(regSend, r)[Len(regSend) + 1] = r
            BY AppendProperties
        <3> QED  BY <3>1, <3>2
    <2>2. Head(regSend') = regSend'[1]  BY <2>1, HeadTailProperties
    <2>3. Sending' = Sending \cup {r}
        BY <1>1, <2>1 DEF Sending
    <2> QED  BY <1>1, <1>2, <1>3, <1>5, <2>1, <2>2, <2>3
<1> QED  BY <1>4, <1>5

\* The end of an operation moves its records to the completion list, and begins the
\* one queued behind it.
LEMMA FinishServed ==
    ASSUME ServedInv, NEW r \in Regs, Completed(r), InProgress(r),
           pc = "Receive", pc' = "Receive",
           state[r] = "Reading" => \A o \in Offsets(r) : memRx'[r][o] = opSeq[r],
           \A q \in Regs \ {r} : memRx'[q] = memRx[q],
           UNCHANGED <<present, current, resetReq, completed, overtaken, pactVars>>
    PROVE  \A j \in Interests : Served(j)'
<1> TAKE i \in Interests
<1>1. /\ BusyInv /\ Counted /\ Served(i) /\ RegistersTypeOK /\ RecTyped /\ RunTyped /\ Typed
      /\ \A q \in Regs : opSeq[q] \in Nat /\ done[q] \in Nat /\ wrote[q] \in Nat
      /\ \A a \in awaits[i] : a.op \in Nat /\ a.reg \in Regs
    BY BusyTyped DEF ServedInv
<1>2. completed = {} /\ completed' = {}  BY <1>1 DEF BusyInv, Taken
<1>3. pact'[i] = pact[i] /\ awaits'[i] = awaits[i]  BY DEF pactVars
<1>4. Finish(r) /\ r \notin Sending /\ partly' = partly
    BY DEF Completed
<1>5. /\ \A q \in Regs \ {r} : opSeq'[q] = opSeq[q] /\ state'[q] = state[q]
      /\ opSeq'[r] \in {opSeq[r], opSeq[r] + 1}
      /\ i \in recordsWrite'[r] => i \in recordsWrite[r]
      /\ i \in recordsRead'[r] => i \in recordsRead[r]
      /\ i \in recordsInprog'[r] =>
            /\ opSeq'[r] = opSeq[r] + 1
            /\ \/ i \in recordsWrite[r] /\ i \notin recordsWrite'[r] /\ state'[r] = "Writing"
               \/ i \in recordsRead[r] /\ i \notin recordsRead'[r] /\ state'[r] = "Reading"
      /\ InProgress(r)' <=> writeQueued[r] \/ readQueued[r]
    BY <1>1, <1>4, FinishBegins
<1>6. /\ \A q \in Regs \ {r} : /\ i \in recordsInprog'[q] <=> i \in recordsInprog[q]
                               /\ i \in recordsWrite'[q] <=> i \in recordsWrite[q]
                               /\ i \in recordsRead'[q] <=> i \in recordsRead[q]
                               /\ <<q, i>> \in records' <=> <<q, i>> \in records
      /\ <<r, i>> \in records' <=> <<r, i>> \in records \/ i \in recordsInprog[r]
    BY <1>1, <1>4, FinishLists DEF Handed
<1>7. /\ \A q \in Regs \ {r} : done'[q] = done[q] /\ wrote'[q] = wrote[q] /\ valid'[q] = valid[q]
      /\ done'[r] = opSeq[r] /\ valid'[r]
      /\ wrote'[r] = IF state[r] = "Writing" THEN opSeq[r] ELSE wrote[r]
    BY <1>1 DEF Completed, RunTyped
<1>8. Fallen' <=> Fallen  BY DEF Fallen, Active
<1>9. \A q \in Regs \ {r} : /\ Here(q, i)' <=> Here(q, i)
                            /\ Queuing(q, i)' <=> Queuing(q, i)
                            /\ Once(q, i)' <=> Once(q, i)
    BY <1>2, <1>6 DEF Here, Queuing, Once
<1>10. ASSUME Early(i) PROVE Early(i)'
    <2> SUFFICES ASSUME ~Active, NEW q \in Regs
                 PROVE  i \notin recordsInprog'[q] /\ ~Queuing(q, i)' /\ <<q, i>> \notin records'
        BY DEF Early, Active
    <2>1. i \notin recordsInprog[q] /\ ~Queuing(q, i) /\ <<q, i>> \notin records
        BY <1>10 DEF Early
    <2> QED  BY <1>5, <1>6, <2>1 DEF Queuing
<1>11. ASSUME SyncDone(i) PROVE SyncDone(i)'
    <2> SUFFICES ASSUME pact[i], ~Fallen, NEW a \in awaits[i], a.unsent
                 PROVE  \/ done'[a.reg] >= a.op
                        \/ opSeq'[a.reg] = a.op /\ InProgress(a.reg)' /\ i \in recordsInprog'[a.reg]
        BY <1>3, <1>8 DEF SyncDone
    <2>1. \/ done[a.reg] >= a.op
          \/ opSeq[a.reg] = a.op /\ InProgress(a.reg) /\ i \in recordsInprog[a.reg]
        BY <1>11 DEF SyncDone
    <2>2. CASE a.reg # r
        BY <1>1, <1>5, <1>6, <1>7, <2>1, <2>2 DEF InProgress
    <2>3. CASE a.reg = r
        BY <1>1, <1>7, <2>1, <2>3 DEF Counted
    <2> QED  BY <2>2, <2>3
<1>12. ASSUME Careful(i) PROVE Placed(i)'
    <2>1. Placed(i) /\ Named[i] \in Regs  BY <1>1, <1>12 DEF Served
    <2>2. CASE Named[i] # r
        <3>1. ~Here(r, i) /\ ~Queuing(r, i)  BY <2>1, <2>2 DEF Placed
        <3>2. ~Here(r, i)' /\ ~Queuing(r, i)'
            BY <1>2, <1>5, <1>6, <3>1 DEF Here, Queuing
        <3>3. \A q \in Regs \ {Named[i]} : ~Here(q, i)' /\ ~Queuing(q, i)'
            BY <1>9, <2>1, <3>2 DEF Placed
        <3> QED  BY <1>2, <1>3, <1>6, <1>9, <2>1, <2>2, <3>3 DEF Placed
    <2>3. CASE Named[i] = r
        <3>1. \A q \in Regs \ {r} : ~Here(q, i)' /\ ~Queuing(q, i)'
            BY <1>9, <2>1, <2>3 DEF Placed
        <3>2. /\ Kind[i] = "read" => i \notin recordsWrite'[r]
              /\ Kind[i] # "read" => i \notin recordsRead'[r]
            BY <1>5, <2>1, <2>3 DEF Placed
        <3>3. /\ i \in recordsInprog'[r] => Queuing(r, i)
              /\ Queuing(r, i)' => Queuing(r, i)
            BY <1>5 DEF Queuing
        <3>4. Once(r, i)'
            BY <1>2, <1>6, <2>1, <2>3, <3>3 DEF Placed, Once, Here
        <3>5. Queuing(r, i)' => ~Here(r, i)'
            BY <1>2, <1>5, <1>6, <2>1, <2>3, <3>2 DEF Placed, Here, Queuing
        <3>6. ~pact[i] => ~Here(r, i)' /\ ~Queuing(r, i)' /\ awaits'[i] = {}
            BY <1>2, <1>3, <1>6, <2>1, <2>3, <3>3 DEF Placed, Here
        <3> QED  BY <1>3, <2>1, <2>3, <3>1, <3>2, <3>4, <3>5, <3>6 DEF Placed
    <2> QED  BY <2>2, <2>3
<1>13. ASSUME Careful(i), Kind[i] = "write" PROVE WriteOK(i)'
    <2>1. Placed(i) /\ WriteOK(i) /\ Named[i] \in Regs  BY <1>1, <1>13 DEF Served
    <2> SUFFICES ASSUME NEW a \in awaits[i]
                 PROVE  /\ i \in recordsWrite'[Named[i]] => a.op <= opSeq'[Named[i]] + 1
                        /\ i \in recordsInprog'[Named[i]] =>
                              state'[Named[i]] = "Writing" /\ a.op <= opSeq'[Named[i]]
                        /\ <<Named[i], i>> \in records' => wrote'[Named[i]] >= a.op \/ Fallen'
        BY <1>2, <1>3 DEF WriteOK
    <2>2. /\ i \in recordsWrite[Named[i]] => a.op <= opSeq[Named[i]] + 1
          /\ i \in recordsInprog[Named[i]] => state[Named[i]] = "Writing" /\ a.op <= opSeq[Named[i]]
          /\ <<Named[i], i>> \in records => wrote[Named[i]] >= a.op \/ Fallen
          /\ i \notin recordsRead[Named[i]]
        BY <1>13, <2>1 DEF WriteOK, Placed
    <2>3. CASE Named[i] # r
        BY <1>5, <1>6, <1>7, <1>8, <2>1, <2>2, <2>3
    <2>4. CASE Named[i] = r
        BY <1>1, <1>5, <1>6, <1>7, <1>8, <2>1, <2>2, <2>4 DEF Counted
    <2> QED  BY <2>3, <2>4
<1>14. ASSUME Kind[i] = "read" PROVE ReadOK(i)'
    <2>1. Placed(i) /\ ReadOK(i) /\ Named[i] \in Regs  BY <1>1, <1>14 DEF Served, Careful
    <2>2. ASSUME NEW a \in awaits[i]
          PROVE  /\ i \in recordsRead'[Named[i]] => a.op <= opSeq'[Named[i]] + 1
                 /\ i \in recordsInprog'[Named[i]] =>
                       state'[Named[i]] = "Reading" /\ a.op <= opSeq'[Named[i]]
                 /\ valid'[Named[i]] /\ <<Named[i], i>> \in records' => ReadSince(Named[i], a.op)'
        <3>1. /\ i \in recordsRead[Named[i]] => a.op <= opSeq[Named[i]] + 1
              /\ i \in recordsInprog[Named[i]] =>
                    state[Named[i]] = "Reading" /\ a.op <= opSeq[Named[i]]
              /\ valid[Named[i]] /\ <<Named[i], i>> \in records => ReadSince(Named[i], a.op)
              /\ i \notin recordsWrite[Named[i]]
            BY <1>14, <2>1 DEF ReadOK, Placed
        <3>2. CASE Named[i] # r
            <4>1. ReadSince(Named[i], a.op)' <=> ReadSince(Named[i], a.op)
                BY <1>5, <2>1, <3>2 DEF ReadSince
            <4> QED  BY <1>5, <1>6, <1>7, <2>1, <3>1, <3>2, <4>1
        <3>3. CASE Named[i] = r
            <4>1. <<r, i>> \notin records
                BY <1>4, <2>1, <3>3 DEF ReadOK
            <4>2. i \in recordsInprog[r] => ReadSince(r, a.op)'
                BY <1>1, <1>5, <3>1, <3>3 DEF ReadSince
            <4> QED  BY <1>1, <1>5, <1>6, <3>1, <3>3, <4>1, <4>2
        <3> QED  BY <3>2, <3>3
    <2>3. <<Named[i], i>> \in records' /\ InProgress(Named[i])' =>
             Named[i] \in Sending' /\ ~(partly' /\ Named[i] = Head(regSend'))
        <3> SUFFICES ASSUME <<Named[i], i>> \in records', InProgress(Named[i])'
                     PROVE  Named[i] \in Sending' /\ ~(partly' /\ Named[i] = Head(regSend'))
            OBVIOUS
        <3>1. regSend' = IF writeQueued[r] \/ readQueued[r] THEN Append(regSend, r) ELSE regSend
            BY DEF Completed
        <3>2. /\ regSend \in Seq(Regs) /\ (partly => regSend # <<>>)
            BY <1>1 DEF RecTyped
        <3>3. /\ Sending' = IF writeQueued[r] \/ readQueued[r] THEN Sending \cup {r} ELSE Sending
              /\ partly => /\ Head(regSend') = Head(regSend)
                           /\ Head(regSend) \in Sending
            BY <3>1, <3>2, QueuedMore
        <3>4. CASE Named[i] = r
            BY <1>4, <1>5, <3>3, <3>4
        <3>5. CASE Named[i] # r
            <4>1. <<Named[i], i>> \in records /\ InProgress(Named[i])
                BY <1>5, <1>6, <2>1, <3>5 DEF InProgress
            <4>2. Named[i] \in Sending /\ ~(partly /\ Named[i] = Head(regSend))
                BY <2>1, <4>1 DEF ReadOK
            <4> QED  BY <1>4, <3>3, <4>2
        <3> QED  BY <3>4, <3>5
    <2> QED  BY <1>2, <1>3, <2>2, <2>3 DEF ReadOK
<1> QED  BY <1>1, <1>3, <1>10, <1>11, <1>12, <1>13, <1>14 DEF Served, Careful

\* A word that is not the last one of an operation concerns the words of a register
\* that no read record waits to be completed with.
LEMMA WordServed ==
    ASSUME ServedInv, NEW r \in Regs, pc = "Receive", pc' = pc, state[r] = "Reading",
           r \in Sending => partly /\ r = Head(regSend),
           \A q \in Regs \ {r} : memRx'[q] = memRx[q],
           UNCHANGED <<present, state, flagVars, listVars, records, opSeq, sendVars, valid, done, wrote,
                       current, resetReq, completed, overtaken, pactVars>>
    PROVE  \A j \in Interests : Served(j)'
<1> TAKE i \in Interests
<1>1. /\ BusyInv /\ Served(i) /\ completed = {} /\ completed' = {}
      /\ \A a \in awaits[i] : a.op \in Nat /\ a.reg \in Regs
    BY BusyTyped DEF ServedInv, BusyInv, Taken
<1>2. UNCHANGED <<state, recordsInprog, recordsWrite, recordsRead, records, opSeq, regSend, partly,
                  valid, done, wrote, current, resetReq, pact, awaits>>
    BY DEF listVars, sendVars, pactVars
<1>3. /\ \A q \in Regs : Here(q, i)' <=> Here(q, i)
      /\ \A q \in Regs : Queuing(q, i)' <=> Queuing(q, i)
      /\ \A q \in Regs : Once(q, i)' <=> Once(q, i)
    BY <1>1, <1>2 DEF Here, Queuing, Once
<1>4. Early(i) => Early(i)'  BY <1>2, <1>3 DEF Early, Active
<1>5. SyncDone(i) => SyncDone(i)'
    BY <1>2 DEF SyncDone, Fallen, Active, InProgress
<1>6. Named[i] \in Regs  OBVIOUS
<1>7. Placed(i) => Placed(i)'  BY <1>1, <1>2, <1>3, <1>6 DEF Placed
<1>8. WriteOK(i) => WriteOK(i)'
    BY <1>1, <1>2 DEF WriteOK, Fallen, Active
<1>9. ReadOK(i) => ReadOK(i)'
    <2> SUFFICES ASSUME ReadOK(i) PROVE ReadOK(i)'
        OBVIOUS
    <2>1. <<r, i>> \in records => Named[i] # r
        BY DEF ReadOK, InProgress
    <2>2. ASSUME NEW a \in awaits[i], <<Named[i], i>> \in records
          PROVE  ReadSince(Named[i], a.op)' <=> ReadSince(Named[i], a.op)
        <3>1. memRx'[Named[i]] = memRx[Named[i]]  BY <1>6, <2>1, <2>2
        <3> QED  BY <1>2, <3>1 DEF ReadSince
    <2>3. ASSUME NEW a \in awaits[i]
          PROVE  /\ i \in recordsRead'[Named[i]] => a.op <= opSeq'[Named[i]] + 1
                 /\ i \in recordsInprog'[Named[i]] =>
                       state'[Named[i]] = "Reading" /\ a.op <= opSeq'[Named[i]]
                 /\ valid'[Named[i]] /\ <<Named[i], i>> \in records' => ReadSince(Named[i], a.op)'
        BY <1>2, <2>2 DEF ReadOK
    <2>4. <<Named[i], i>> \in records' /\ InProgress(Named[i])' =>
             Named[i] \in Sending' /\ ~(partly' /\ Named[i] = Head(regSend'))
        BY <1>2 DEF ReadOK, InProgress, Sending
    <2> QED  BY <1>1, <1>2, <2>3, <2>4 DEF ReadOK
<1> QED  BY <1>1, <1>2, <1>4, <1>5, <1>7, <1>8, <1>9 DEF Served, Careful

LEMMA ReceiveServed ==
    ASSUME ServedInv, NEW r \in Regs, ReceiveWord(r) \/ ReceiveWritten(r)
    PROVE  \A j \in Interests : Served(j)'
<1>1. RegistersTypeOK  BY BusyTyped DEF ServedInv
<1>2. /\ pc = "Receive" /\ pc' = pc /\ InProgress(r)
      /\ UNCHANGED <<current, resetReq, completed, overtaken, pactVars>>
    BY DEF ReceiveWord, ReceiveWritten, InProgress, devVars, runVars
<1>3. CASE ReceiveWritten(r)
    <2>1. /\ Completed(r) /\ state[r] # "Reading" /\ present' = present
          /\ \A q \in Regs \ {r} : memRx'[q] = memRx[q]
        BY <1>3 DEF ReceiveWritten
    <2> QED  BY <1>2, <2>1, FinishServed
<1>4. CASE ReceiveWord(r)
    <2>1. state[r] = "Reading" /\ (r \in Sending => partly /\ r = Head(regSend))
        BY <1>4 DEF ReceiveWord
    <2>2. PICK o \in Offsets(r) :
            /\ memRx' = [memRx EXCEPT ![r][o] = opSeq[r]]
            /\ IF \A p \in Offsets(r) \ {o} : memRx[r][p] = opSeq[r]
               THEN Completed(r) /\ UNCHANGED present
               ELSE UNCHANGED <<present, state, flagVars, listVars, records, opSeq, devWritten,
                                sendVars, intrVars, valid, done, wrote>>
        BY <1>4 DEF ReceiveWord
    <2>3. \A q \in Regs \ {r} : memRx'[q] = memRx[q]
        BY <1>1, <2>2 DEF RegistersTypeOK
    <2>4. CASE \A p \in Offsets(r) \ {o} : memRx[r][p] = opSeq[r]
        <3>1. \A p \in Offsets(r) : memRx'[r][p] = opSeq[r]
            BY <1>1, <2>2, <2>4 DEF RegistersTypeOK
        <3>2. Completed(r) /\ present' = present  BY <2>2, <2>4
        <3> QED  BY <1>2, <2>3, <3>1, <3>2, FinishServed
    <2>5. CASE ~(\A p \in Offsets(r) \ {o} : memRx[r][p] = opSeq[r])
        <3>1. UNCHANGED <<present, state, flagVars, listVars, records, opSeq, sendVars, valid, done, wrote>>
            BY <2>2, <2>5
        <3> QED  BY <1>2, <2>1, <2>3, <3>1, WordServed
    <2> QED  BY <2>4, <2>5
<1> QED  BY <1>3, <1>4

\* A timeout moves the records of one register to the completion list, and a reset
\* those of every register: no Sync succeeds any more, and no word is valid.
LEMMA TimeoutServed ==
    ASSUME ServedInv, NEW r \in Regs, Timeout(r)
    PROVE  \A j \in Interests : Served(j)'
<1> TAKE i \in Interests
<1>1. /\ BusyInv /\ Served(i) /\ RegistersTypeOK /\ RunTyped /\ Named[i] \in Regs
    BY BusyTyped DEF ServedInv
<1>2. /\ pc = "Receive" /\ pc' = "State" /\ resetReq' = TRUE /\ completed = {} /\ completed' = {}
      /\ UNCHANGED <<current, overtaken, pact, awaits, wrote, opSeq, memRx>>
    BY <1>1 DEF Timeout, Cancel, pactVars, BusyInv, Taken
<1>3. /\ recordsInprog'[r] = {} /\ recordsWrite'[r] = {} /\ recordsRead'[r] = {} /\ ~valid'[r]
      /\ \A q \in Regs \ {r} : /\ recordsInprog'[q] = recordsInprog[q]
                               /\ recordsWrite'[q] = recordsWrite[q]
                               /\ recordsRead'[q] = recordsRead[q]
                               /\ state'[q] = state[q] /\ valid'[q] = valid[q]
    BY <1>1 DEF Timeout, Cancel, RegistersTypeOK, RunTyped
<1>4. \A q \in Regs : <<q, i>> \in records' <=>
         <<q, i>> \in records \/ (q = r /\ (i \in recordsInprog[r] \/ Queuing(r, i)))
    BY DEF Timeout, Cancel, Cancelled, Queuing
<1>5. Fallen'  BY <1>2 DEF Fallen
<1>6. \A q \in Regs : /\ Here(q, i)' <=> Here(q, i) \/ (q = r /\ Queuing(q, i))
                      /\ Queuing(q, i)' <=> q # r /\ Queuing(q, i)
                      /\ Once(q, i) => Once(q, i)'
    BY <1>2, <1>3, <1>4 DEF Here, Queuing, Once
<1>7. Early(i) => Early(i)'
    BY <1>2, <1>3, <1>4, <1>6 DEF Early, Active
<1>8. SyncDone(i)'  BY <1>5 DEF SyncDone
<1>9. Placed(i) => Placed(i)'
    <2> SUFFICES ASSUME Placed(i) PROVE Placed(i)'
        OBVIOUS
    <2>1. \A q \in Regs \ {Named[i]} : ~Here(q, i)' /\ ~Queuing(q, i)'
        BY <1>6 DEF Placed
    <2>2. IF Kind[i] = "read" THEN i \notin recordsWrite'[Named[i]] ELSE i \notin recordsRead'[Named[i]]
        BY <1>1, <1>3 DEF Placed
    <2>3. Queuing(Named[i], i)' => ~Here(Named[i], i)'
        BY <1>1, <1>6 DEF Placed
    <2>4. ~pact[i] => awaits[i] = {} /\ ~Queuing(Named[i], i)' /\ ~Here(Named[i], i)'
        BY <1>1, <1>2, <1>6 DEF Placed
    <2> QED  BY <1>1, <1>2, <1>6, <2>1, <2>2, <2>3, <2>4 DEF Placed
<1>10. WriteOK(i) => WriteOK(i)'
    BY <1>1, <1>2, <1>3, <1>5 DEF WriteOK
<1>11. Placed(i) /\ ReadOK(i) => ReadOK(i)'
    <2> SUFFICES ASSUME Placed(i), ReadOK(i), NEW a \in awaits[i]
                 PROVE  /\ i \in recordsRead'[Named[i]] => a.op <= opSeq'[Named[i]] + 1
                        /\ i \in recordsInprog'[Named[i]] =>
                              state'[Named[i]] = "Reading" /\ a.op <= opSeq'[Named[i]]
                        /\ valid'[Named[i]] /\ <<Named[i], i>> \in records' =>
                              ReadSince(Named[i], a.op)'
        BY <1>2 DEF ReadOK
    <2>1. CASE Named[i] = r  BY <1>3, <2>1
    <2>2. CASE Named[i] # r
        <3>1. ReadSince(Named[i], a.op)' <=> ReadSince(Named[i], a.op)
            BY <1>2 DEF ReadSince
        <3> QED  BY <1>1, <1>2, <1>3, <1>4, <2>2, <3>1 DEF ReadOK
    <2> QED  BY <2>1, <2>2
<1> QED  BY <1>1, <1>2, <1>7, <1>8, <1>9, <1>10, <1>11 DEF Served, Careful

LEMMA ResetServed ==
    ASSUME ServedInv, StateReset \/ WorkerError
    PROVE  (\A j \in Interests : Served(j)') /\ Counted'
<1>1. /\ BusyInv /\ Counted /\ completed = {} /\ RunTyped
      /\ \A q \in Regs : opSeq[q] \in Nat /\ done[q] \in Nat /\ wrote[q] \in Nat
    BY BusyTyped DEF ServedInv, BusyInv, Taken, StateReset, WorkerError
<1>2. /\ pc' = "Send" /\ current' \in {"Error", "Searching"} /\ completed' = {}
      /\ UNCHANGED <<overtaken, pact, awaits, done, wrote, opSeq>> /\ present' = Boot
      /\ \A q \in Regs : /\ recordsInprog'[q] = {} /\ recordsWrite'[q] = {} /\ recordsRead'[q] = {}
                         /\ ~valid'[q]
    BY <1>1 DEF StateReset, WorkerError, ResetDevice, Reset, pactVars
<1>3. ~Active' /\ Fallen'  BY <1>2 DEF Active, Fallen
<1>4. Counted'  BY <1>1, <1>2 DEF Counted
<1>5. ASSUME NEW i \in Interests PROVE Served(i)'
    <2>1. Served(i) /\ Named[i] \in Regs  BY DEF ServedInv
    <2>2. \A q \in Regs : <<q, i>> \in records' <=>
             <<q, i>> \in records \/ i \in recordsInprog[q] \/ Queuing(q, i)
        BY DEF StateReset, WorkerError, ResetDevice, Reset, Cancelled, Queuing
    <2>3. \A q \in Regs : /\ Here(q, i)' <=> Here(q, i) \/ Queuing(q, i)
                          /\ ~Queuing(q, i)'
                          /\ Once(q, i)'
        BY <1>1, <1>2, <2>2 DEF Here, Queuing, Once
    <2>4. Early(i)'  BY <1>2, <2>3 DEF Early
    <2>5. SyncDone(i)'  BY <1>3 DEF SyncDone
    <2>6. Placed(i) => Placed(i)'
        BY <1>1, <1>2, <2>1, <2>3 DEF Placed
    <2>7. WriteOK(i)'  BY <1>2, <1>3, <2>1 DEF WriteOK
    <2>8. ReadOK(i)'  BY <1>2, <2>1 DEF ReadOK
    <2> QED  BY <1>2, <2>1, <2>4, <2>5, <2>6, <2>7, <2>8 DEF Served, Careful
<1> QED  BY <1>4, <1>5

\* A connection begins with no record waiting.
LEMMA ConnectServed ==
    ASSUME ServedInv, StateConnect
    PROVE  \A j \in Interests : Served(j)'
<1> TAKE i \in Interests
<1>1. /\ BusyInv /\ Served(i) /\ RecOK(i) /\ completed = {} /\ Named[i] \in Regs
    BY DEF ServedInv, BusyInv, Taken, StateConnect
<1>2. /\ pc = "State" /\ ~Active /\ Active' /\ pc' = "Connected" /\ completed' = {}
      /\ UNCHANGED <<recordsInprog, recordsWrite, recordsRead, records, pact, awaits>>
    BY <1>1 DEF StateConnect, Attach, listVars, recVars, pactVars, Active
<1>3. ASSUME Kind[i] \in {"read", "write", "sync"}
      PROVE  /\ \A q \in Regs : ~Here(q, i) /\ ~Queuing(q, i) /\ ~Here(q, i)' /\ ~Queuing(q, i)'
             /\ ~pact[i]
    <2>1. \A q \in Regs : ~Here(q, i) /\ ~Queuing(q, i)
        BY <1>1, <1>2, <1>3 DEF Served, Early, Here
    <2>2. \A q \in Regs : ~Here(q, i)' /\ ~Queuing(q, i)'
        BY <1>1, <1>2, <2>1 DEF Here, Queuing
    <2>3. ~pact[i]  BY <1>1, <1>3, <2>1 DEF RecOK, SyncOK, Holding
    <2> QED  BY <2>1, <2>2, <2>3
<1>4. Early(i)'  BY <1>2 DEF Early
<1>5. CASE Kind[i] = "sync"
    <2>1. ~pact'[i]  BY <1>1, <1>2, <1>3, <1>5 DEF Served
    <2>2. SyncDone(i)'  BY <2>1 DEF SyncDone
    <2> QED  BY <1>4, <1>5, <2>2 DEF Served, Careful
<1>6. CASE Kind[i] \in {"read", "write"}
    <2>1. /\ \A q \in Regs : ~Here(q, i)' /\ ~Queuing(q, i)'
          /\ ~pact[i] /\ awaits[i] = {} /\ ~pact'[i] /\ awaits'[i] = {}
        BY <1>1, <1>2, <1>3, <1>6 DEF Served, Careful, Placed
    <2>2. Placed(i)'  BY <1>1, <2>1 DEF Placed, Here, Queuing, Once
    <2>3. WriteOK(i)'  BY <2>1 DEF WriteOK
    <2>4. ReadOK(i)'  BY <1>1, <1>2, <2>1 DEF ReadOK
    <2> QED  BY <1>4, <1>6, <2>1, <2>2, <2>3, <2>4 DEF Served
<1>7. CASE Kind[i] \in {"watch", "intr"}  BY <1>7, RestOfKinds
<1> QED  BY <1>5, <1>6, <1>7

\* The steps that leave the lists alone, but for a record that asks for an operation
\* nobody waits for.
LEMMA SparedServed ==
    ASSUME ServedInv, Moves \/ SetAddress \/ ForceError
                      \/ (\E r \in Regs : WriteNoWait(r)) \/ UNCHANGED vars
    PROVE  \A j \in Interests : Served(j)'
<1>1. BusyInv /\ Counted /\ RegistersTypeOK /\ RecTyped /\ Typed  BY BusyTyped DEF ServedInv
<1>2. UNCHANGED <<pact, awaits, done, wrote, valid, completed>>
    <2>1. CASE Moves
        BY <2>1, MovesEffect DEF procVars, pactVars, opVars
    <2>2. CASE UNCHANGED vars
        BY <2>2 DEF vars, recVars, pactVars, opVars, runVars
    <2>3. CASE SetAddress \/ ForceError \/ \E r \in Regs : WriteNoWait(r)
        BY <2>3 DEF SetAddress, ForceError, WriteNoWait, Call, pactVars, opVars, runVars
    <2> QED  BY <2>1, <2>2, <2>3
<1>3. Onwards
    <2>1. CASE Poll
        BY <1>1, <2>1 DEF Poll, Onwards, Active, Fallen, Counted, devVars
    <2>2. CASE ReceiveDone
        BY <2>2 DEF ReceiveDone, Onwards, Active, Fallen, devVars
    <2>3. CASE StateSame
        BY <2>3 DEF StateSame, Onwards, Active, Fallen, devVars
    <2>4. CASE StateRunning
        BY <1>1, <2>4 DEF StateRunning, Onwards, Active, Fallen, Counted
    <2>5. CASE SetAddress \/ ForceError
        BY <2>5 DEF SetAddress, ForceError, Call, Unlocked, Onwards, Active, Fallen, runVars
    <2>6. CASE \E r \in Regs : WriteNoWait(r)
        BY <2>6 DEF WriteNoWait, Call, Unlocked, Onwards, Active, Fallen, runVars, devVars
    <2>7. CASE UNCHANGED vars
        BY <2>7 DEF vars, runVars, devVars, svcVars, Onwards, Active, Fallen
    <2> QED  BY <2>1, <2>2, <2>3, <2>4, <2>5, <2>6, <2>7 DEF Moves
<1>4. /\ Quiet /\ UNCHANGED <<present, memRx, records>>
      /\ \A j \in Interests : SameLists(j)
    <2>1. CASE UNCHANGED svcVars
        BY <1>1, <2>1 DEF svcVars, listVars, Quiet, SameLists, RegistersTypeOK
    <2>2. ASSUME NEW r \in Regs, WriteNoWait(r)
          PROVE  /\ Quiet /\ UNCHANGED <<present, memRx, records>>
                 /\ \A j \in Interests : SameLists(j)
        <3>1. QueueReg(r, TRUE, NoInterest) /\ Queue(r, TRUE, NoInterest)
            BY <2>2 DEF WriteNoWait, QueueReg
        <3>2. Quiet /\ UNCHANGED <<present, memRx, records>>
            BY <1>1, <3>1, QueueQuiet DEF Queue
        <3>3. Interests \ {NoInterest} = Interests  OBVIOUS
        <3> QED  BY <1>1, <3>1, <3>2, <3>3, QueueRegSame
    <2>3. Moves \/ SetAddress \/ ForceError \/ UNCHANGED vars => UNCHANGED svcVars
        BY MovesEffect DEF procVars, SetAddress, ForceError, vars
    <2> QED  BY <2>1, <2>2, <2>3
<1>5. ASSUME NEW j \in Interests PROVE Served(j)'
    <2>1. Spared(j)  BY <1>2, <1>4 DEF Spared
    <2> QED  BY <1>1, <1>2, <1>3, <1>4, <2>1, SparedKeeps DEF ServedInv
<1> QED  BY <1>5

\* A write record that is busy as it is told that it is connected is Careful no more.
LEMMA TellServed ==
    ASSUME ServedInv, NEW i \in Interests, Tell(i)
    PROVE  \A j \in Interests : Served(j)'
<1>1. BusyInv /\ Counted /\ RegistersTypeOK /\ RecTyped /\ Typed  BY BusyTyped DEF ServedInv
<1>2. /\ pc = "Connected" /\ pc' = pc
      /\ UNCHANGED <<svcVars, sendVars, current, resetReq, completed, done, wrote, valid>>
    BY DEF Tell, End, devVars, opVars
<1>3. Quiet /\ UNCHANGED memRx /\ \A j \in Interests : SameLists(j)
    BY <1>1, <1>2 DEF svcVars, listVars, Quiet, SameLists, RegistersTypeOK
<1>4. Onwards  BY <1>2 DEF Onwards, Active, Fallen, Tell
<1>5. ASSUME NEW j \in Interests, pact'[j] = pact[j], awaits'[j] = awaits[j] PROVE Served(j)'
    <2>1. Spared(j)  BY <1>2, <1>3, <1>5 DEF Spared
    <2> QED  BY <1>1, <1>2, <1>3, <1>4, <2>1, SparedKeeps DEF ServedInv
<1>6. CASE Kind[i] = "write" /\ pact[i] /\ End(i, FALSE) /\ overtaken' = overtaken \cup {i}
    <2>1. \A j \in Interests \ {i} : pact'[j] = pact[j] /\ awaits'[j] = awaits[j]
        BY <1>1, <1>6 DEF End, RecTyped, Flags
    <2>2. ~Careful(i)' /\ awaits'[i] = {}  BY <1>1, <1>6 DEF Careful, End, RecTyped
    <2>3. Active' /\ Kind[i] = "write"  BY <1>1, <1>2, <1>6 DEF Counted, Active
    <2>4. Served(i)'  BY <2>2, <2>3 DEF Served, Early
    <2> QED  BY <1>5, <2>1, <2>4
<1>7. CASE UNCHANGED pactVars
    BY <1>5, <1>7 DEF pactVars
<1> QED  BY <1>6, <1>7 DEF Tell

LEMMA ExpireServed ==
    ASSUME ServedInv, NEW i \in Interests, Expire(i)
    PROVE  \A j \in Interests : Served(j)'
<1>1. BusyInv /\ Counted /\ RegistersTypeOK /\ RecTyped /\ Typed  BY BusyTyped DEF ServedInv
<1>2. UNCHANGED <<current, resetReq, pc, completed, overtaken, pact, awaits, done, wrote, valid>>
    BY DEF Expire, devVars, runVars, pactVars, opVars
<1>3. Kind[i] = "watch"  BY <1>1 DEF BusyInv, RecOK, Expire
<1>4. Onwards
    BY <1>2 DEF Onwards, Active, Fallen, Expire, Unlocked
<1>5. /\ Quiet /\ memRx' = memRx
      /\ \A j \in Interests \ {i} : SameLists(j)
    <2>1. CASE QueueReg(Named[i], FALSE, i)
        BY <1>1, <2>1, QueueRegSame, QueueQuiet DEF QueueReg
    <2>2. CASE UNCHANGED svcVars
        BY <1>1, <2>2 DEF svcVars, listVars, Quiet, SameLists, RegistersTypeOK
    <2> QED  BY <2>1, <2>2 DEF Expire
<1>6. ASSUME NEW j \in Interests, j # i PROVE Served(j)'
    <2>1. Spared(j)  BY <1>2, <1>5, <1>6 DEF Spared
    <2> QED  BY <1>1, <1>2, <1>4, <1>5, <2>1, SparedKeeps DEF ServedInv
<1> QED  BY <1>3, <1>6, RestOfKinds

LEMMA OthersServed ==
    ASSUME ServedInv, NEW i \in Interests, ProcessRecord(i) \/ ScanIntr(i)
    PROVE  \A j \in Interests : Served(j)'
<1>1. /\ Process(i) /\ UNCHANGED <<current, resetReq, pc, completed, overtaken, opVars>>
      /\ Kind[i] # "sync" => Unlocked
    BY DEF ProcessRecord, ScanIntr, Call, devVars, runVars
<1>2. ~pact[i]
    BY DEF ProcessRecord, ScanIntr, ServedInv, BusyInv, Scanned, OfKind
<1> QED  BY <1>1, <1>2, ProcessServed

----------------------------------------------------------------------------
\* What a step does to the numbers of the operations, but for the one that ends.
LEMMA CountedStays ==
    ASSUME ServedInv, Quiet, Active' <=> Active, UNCHANGED <<present, done, wrote>>,
           pc' = "Unlocked" => records' = {},
           pc' = "Connected" => current' = "Inspecting"
    PROVE  Counted'
<1>1. \A q \in Regs : opSeq[q] \in Nat /\ done[q] \in Nat /\ wrote[q] \in Nat
    BY BusyTyped DEF ServedInv
<1> QED  BY <1>1 DEF ServedInv, Counted, Quiet

LEMMA NextCounted == ASSUME ServedInv, [Next]_vars PROVE Counted'
<1>1. /\ BusyInv /\ Counted /\ RegistersTypeOK /\ RecTyped /\ RunTyped
      /\ \A q \in Regs : opSeq[q] \in Nat /\ done[q] \in Nat /\ wrote[q] \in Nat
    BY BusyTyped DEF ServedInv
<1>2. ASSUME UNCHANGED svcVars PROVE Quiet /\ UNCHANGED <<present, records>>
    BY <1>1, <1>2 DEF svcVars, Quiet, RegistersTypeOK
<1>3. CASE Send
    <2>1. Quiet  BY <1>1, <1>3 DEF Send, Swap, Quiet, RegistersTypeOK
    <2>2. /\ pc' = "Unlocked" /\ records' = {}
          /\ UNCHANGED <<present, done, wrote, current>>
        BY <1>3 DEF Send, Swap, opVars
    <2> QED  BY <2>1, <2>2, CountedStays DEF Active
<1>4. CASE CompleteRecord \/ \E i \in Interests : Tell(i)
    <2>1. UNCHANGED <<svcVars, pc, current, done, wrote>>
        <3>1. CASE CompleteRecord
            <4>1. PICK c \in completed : Complete(c[2])  BY <3>1 DEF CompleteRecord
            <4>2. c[2] \in Interests  BY <1>1 DEF RunTyped
            <4> QED  BY <3>1, <4>1, <4>2, CompleteEnds DEF CompleteRecord, devVars, opVars
        <3>2. CASE \E i \in Interests : Tell(i)
            BY <3>2 DEF Tell, End, devVars, opVars
        <3> QED  BY <1>4, <3>1, <3>2
    <2> QED  BY <1>1, <1>2, <2>1, CountedStays DEF Active, Counted
<1>5. CASE Moves
    <2>1. /\ UNCHANGED <<svcVars, done, wrote>> /\ pc' \notin {"Unlocked", "Connected"}
          /\ current' = current \/ (pc = "Connected" /\ current' = "Running")
        BY <1>5, MovesEffect DEF procVars, opVars
    <2> QED  BY <1>1, <1>2, <2>1, CountedStays DEF Active, Counted
<1>6. CASE \E r \in Regs : ReceiveWord(r) \/ ReceiveWritten(r)
    <2>1. PICK r \in Regs : ReceiveWord(r) \/ ReceiveWritten(r)  BY <1>6
    <2>2. /\ pc' = "Receive" /\ UNCHANGED <<current, present>>
        BY <2>1 DEF ReceiveWord, ReceiveWritten, devVars, runVars
    <2>3. \/ Completed(r)
          \/ UNCHANGED <<opSeq, done, wrote>>
        BY <2>1 DEF ReceiveWord, ReceiveWritten
    <2>4. CASE Completed(r)
        <3>1. /\ \A q \in Regs \ {r} : opSeq'[q] = opSeq[q]
              /\ opSeq'[r] \in {opSeq[r], opSeq[r] + 1}
            <4>1. CASE Interests = {}
                BY <1>1, <2>4 DEF Completed, Finish, StartQueuedWrite, StartQueuedRead, StartNothing,
                                  Begin, RegistersTypeOK
            <4>2. CASE Interests # {}
                BY <1>1, <2>4, <4>2, FinishBegins DEF Completed
            <4> QED  BY <4>1, <4>2
        <3>2. /\ \A q \in Regs \ {r} : done'[q] = done[q] /\ wrote'[q] = wrote[q]
              /\ done'[r] = opSeq[r] /\ wrote'[r] \in {wrote[r], opSeq[r]}
            BY <1>1, <2>4 DEF Completed, RunTyped
        <3>3. \A q \in Regs : done'[q] <= opSeq'[q] /\ wrote'[q] <= opSeq'[q]
            <4> TAKE q \in Regs
            <4>1. CASE q = r  BY <1>1, <3>1, <3>2, <4>1 DEF Counted
            <4>2. CASE q # r  BY <1>1, <3>1, <3>2, <4>2 DEF Counted
            <4> QED  BY <4>1, <4>2
        <3> QED  BY <1>1, <2>2, <3>3 DEF Counted, Active
    <2>5. CASE UNCHANGED <<opSeq, done, wrote>>
        BY <1>1, <2>2, <2>5 DEF Counted, Active
    <2> QED  BY <2>3, <2>4, <2>5
<1>7. CASE \E r \in Regs : Timeout(r)
    BY <1>1, <1>7 DEF Timeout, Cancel, Counted, Active
<1>8. CASE StateReset \/ WorkerError
    BY <1>8, ResetServed
<1>9. CASE StateConnect
    BY <1>1, <1>9 DEF StateConnect, Attach, opVars, Counted, Active
<1>10. CASE \/ \E i \in Interests : ProcessRecord(i) \/ ScanIntr(i) \/ Expire(i)
            \/ \E r \in Regs : WriteNoWait(r)
            \/ SetAddress \/ ForceError \/ UNCHANGED vars
    <2>1. UNCHANGED <<pc, current, done, wrote>>
        BY <1>10 DEF ProcessRecord, ScanIntr, Expire, WriteNoWait, SetAddress, ForceError, Call,
                     vars, runVars, devVars, opVars
    <2>2. ASSUME NEW r \in Regs, NEW write \in BOOLEAN, NEW i \in Interests \cup {NoInterest},
                 QueueReg(r, write, i)
          PROVE  Quiet /\ UNCHANGED <<present, records>>
        BY <1>1, <2>2, QueueQuiet DEF QueueReg, Queue
    <2>3. ASSUME NEW i \in Interests, Process(i) PROVE Quiet /\ UNCHANGED <<present, records>>
        <3>1. CASE SyncBegin(i)
            BY <1>1, <3>1 DEF SyncBegin, Quiet, RegistersTypeOK
        <3> QED
            BY <1>2, <2>2, <2>3, <3>1 DEF Process, Refuse, ProcessRead, ProcessWrite, ProcessWatch,
                                         SyncEnd, End, Ask
    <2>4. Quiet /\ UNCHANGED <<present, records>>
        BY <1>2, <1>10, <2>2, <2>3 DEF ProcessRecord, ScanIntr, Expire, WriteNoWait, SetAddress,
                                       ForceError, vars
    <2> QED  BY <1>1, <2>1, <2>4, CountedStays DEF Active, Counted
<1> QED  BY <1>3, <1>4, <1>5, <1>6, <1>7, <1>8, <1>9, <1>10, NextCases

LEMMA InitServed == Init => ServedInv
<1> SUFFICES ASSUME Init PROVE ServedInv
    OBVIOUS
<1>1. BusyInv  BY InitBusy
<1>2. Counted  BY DEF Init, RegistersInit, Counted
<1>3. ASSUME NEW i \in Interests PROVE Served(i)
    <2>1. /\ \A q \in Regs : ~Here(q, i) /\ ~Queuing(q, i) /\ Once(q, i)
          /\ \A q \in Regs : i \notin recordsInprog[q] /\ <<q, i>> \notin records
          /\ awaits[i] = {} /\ ~pact[i] /\ pc = "Send"
        BY DEF Init, RegistersInit, Here, Queuing, Once
    <2>2. Early(i) /\ SyncDone(i) /\ WriteOK(i) /\ ReadOK(i)
        BY <2>1 DEF Early, SyncDone, WriteOK, ReadOK
    <2>3. Placed(i)
        <3>1. Named[i] \in Regs /\ (IF Kind[i] = "read" THEN i \notin recordsWrite[Named[i]]
                                    ELSE i \notin recordsRead[Named[i]])
            BY <2>1 DEF Queuing
        <3> QED  BY <2>1, <3>1 DEF Placed
    <2> QED  BY <2>1, <2>2, <2>3 DEF Served
<1> QED  BY <1>1, <1>2, <1>3 DEF ServedInv

LEMMA NextServed == ASSUME ServedInv, [Next]_vars PROVE ServedInv'
<1>1. BusyInv' /\ Counted'  BY NextBusy, NextCounted DEF ServedInv
<1>2. \A j \in Interests : Served(j)'
    <2>1. CASE Send \/ CompleteRecord  BY <2>1, SendServed, CompleteServed
    <2>2. CASE \E r \in Regs : ReceiveWord(r) \/ ReceiveWritten(r) \/ Timeout(r)
        BY <2>2, ReceiveServed, TimeoutServed
    <2>3. CASE StateReset \/ WorkerError  BY <2>3, ResetServed
    <2>4. CASE StateConnect  BY <2>4, ConnectServed
    <2>5. CASE \E i \in Interests : Tell(i)  BY <2>5, TellServed
    <2>6. CASE \E i \in Interests : ProcessRecord(i) \/ ScanIntr(i)  BY <2>6, OthersServed
    <2>7. CASE \E i \in Interests : Expire(i)  BY <2>7, ExpireServed
    <2>8. CASE Moves \/ SetAddress \/ ForceError
               \/ (\E r \in Regs : WriteNoWait(r)) \/ UNCHANGED vars
        BY <2>8, SparedServed
    <2> QED  BY <2>1, <2>2, <2>3, <2>4, <2>5, <2>6, <2>7, <2>8, NextCases
<1> QED  BY <1>1, <1>2 DEF ServedInv

\* ServedInv holds in every reachable state.
THEOREM ServedHolds == Spec => []ServedInv
<1> QED  BY InitServed, NextServed, PTL DEF Spec

\* A record that waits is processed again by the worker's completion, or as it is
\* told that it is connected.
LEMMA EndsBy ==
    ASSUME BusyInv, [Next]_vars, NEW i \in Interests, Kind[i] # "intr",
           pact[i], ~pact'[i]
    PROVE  \/ /\ pc = "Unlocked" /\ Complete(i) /\ overtaken' = overtaken
              /\ \E r \in Regs : <<r, i>> \in completed
           \/ Kind[i] = "write" /\ i \in overtaken'
<1>1. RecTyped /\ RunTyped /\ Scanned  BY BusyTyped DEF BusyInv
<1>2. CASE CompleteRecord
    <2>1. PICK c \in completed : Complete(c[2])  BY <1>2 DEF CompleteRecord
    <2>2. PICK r \in Regs, j \in Interests : c = <<r, j>>  BY <1>1 DEF RunTyped
    <2>3. Complete(j)  BY <2>1, <2>2
    <2>4. j = i  BY <1>1, <2>3, CompleteSame DEF Same
    <2> QED  BY <1>2, <2>2, <2>3, <2>4 DEF CompleteRecord
<1>3. CASE \E j \in Interests : Tell(j)
    <2>1. PICK j \in Interests : Tell(j)  BY <1>3
    <2>2. CASE UNCHANGED pactVars  BY <2>2 DEF pactVars
    <2>3. CASE Kind[j] = "write" /\ End(j, FALSE) /\ overtaken' = overtaken \cup {j}
        <3>1. j = i  BY <1>1, <2>3 DEF End, RecTyped, Flags
        <3> QED  BY <2>1, <2>3, <3>1 DEF Tell
    <2> QED  BY <2>1, <2>2, <2>3 DEF Tell
<1>4. CASE \E j \in Interests : ProcessRecord(j) \/ ScanIntr(j)
    <2>1. PICK j \in Interests : ProcessRecord(j) \/ ScanIntr(j)  BY <1>4
    <2>2. Process(j) /\ j # i
        BY <1>1, <2>1 DEF ProcessRecord, ScanIntr, Scanned
    <2> QED  BY <1>1, <2>2, ProcessSame DEF Same
<1>5. CASE \/ Send \/ Moves \/ StateReset \/ WorkerError \/ StateConnect \/ UNCHANGED vars
    BY <1>5, MovesEffect DEF Send, procVars, StateReset, WorkerError, ResetDevice, StateConnect,
                             vars, recVars, pactVars
<1>6. CASE \/ \E r \in Regs : ReceiveWord(r) \/ ReceiveWritten(r) \/ Timeout(r) \/ WriteNoWait(r)
           \/ \E j \in Interests : Expire(j)
           \/ SetAddress \/ ForceError
    BY <1>6 DEF ReceiveWord, ReceiveWritten, Timeout, WriteNoWait, Expire, SetAddress, ForceError,
                pactVars
<1> QED  BY <1>2, <1>3, <1>4, <1>5, <1>6, NextCases

\* A read or write record that succeeds was completed by the operation it waited for.
LEMMA SucceedsBy ==
    ASSUME ServedInv, [Next]_vars, NEW i \in Interests, Succeeds(i),
           Kind[i] = "read" \/ (Kind[i] = "write" /\ i \notin overtaken')
    PROVE  /\ pc = "Unlocked" /\ Usable(i) /\ <<Named[i], i>> \in completed /\ Careful(i)
           /\ Kind[i] = "read" => valid[Named[i]]
           /\ \A a \in awaits[i] : a.reg = Named[i]
<1>1. BusyInv /\ RecTyped /\ pact[i] /\ ~pact'[i] /\ ~alarm'[i]
    BY BusyTyped DEF ServedInv, Succeeds
<1>2. /\ pc = "Unlocked" /\ Complete(i) /\ overtaken' = overtaken
      /\ \E r \in Regs : <<r, i>> \in completed
    BY <1>1, EndsBy
<1>3. pc = "Unlocked" /\ Complete(i) /\ Placed(i) /\ Careful(i) /\ \E r \in Regs : <<r, i>> \in completed
    BY <1>2 DEF ServedInv, Served, Careful
<1>4. <<Named[i], i>> \in completed
    BY <1>3 DEF Placed, Here
<1>5. Process(i)
    BY <1>1, <1>3 DEF Complete, CompleteWatch, CompleteSync, Again
<1>6. ~Refuse(i)
    BY <1>1 DEF Refuse, End, RecTyped, Flags
<1>7. CASE Kind[i] = "read"
    <2>1. Usable(i) /\ End(i, ~valid[Named[i]])
        BY <1>1, <1>5, <1>6, <1>7 DEF Process, ProcessRead, ProcessWrite, ProcessWatch, SyncBegin,
                                      SyncEnd
    <2>2. valid[Named[i]]  BY <1>1, <2>1 DEF End, RecTyped, Flags
    <2> QED  BY <1>1, <1>3, <1>4, <2>1, <2>2 DEF Placed
<1>8. CASE Kind[i] = "write"
    <2>1. Usable(i)
        BY <1>5, <1>6, <1>8 DEF Process, ProcessRead, ProcessWrite, ProcessWatch, SyncBegin, SyncEnd
    <2> QED  BY <1>1, <1>3, <1>4, <1>8, <2>1 DEF Placed
<1> QED  BY <1>7, <1>8

\* A Sync (FEED Sync) succeeds only after every operation that had words to be sent
\* when it was processed has completed, whatever was queued, timed out or reset since.
THEOREM SyncsLast == Spec => SyncWaits
<1>1. ASSUME ServedInv, [Next]_vars, NEW i \in OfKind("sync"), Succeeds(i), NEW a \in awaits[i], a.unsent
      PROVE  done[a.reg] >= a.op
    <2>1. /\ i \in Interests /\ Kind[i] = "sync" /\ BusyInv /\ RecTyped /\ SyncOK(i) /\ SyncDone(i)
          /\ pact[i] /\ ~pact'[i] /\ ~alarm'[i] /\ a.reg \in Regs
        BY <1>1, BusyTyped DEF OfKind, ServedInv, Served, Succeeds, BusyInv, RecOK
    <2>2. /\ pc = "Unlocked" /\ Complete(i)
          /\ \E r \in Regs : <<r, i>> \in completed
        BY <1>1, <2>1, EndsBy
    <2>3. PICK r \in Regs : <<r, i>> \in completed  BY <2>2
    <2>4. ~(waitFor[i] > 1) /\ SyncEnd(i, 0)
        BY <2>1, <2>2 DEF Complete, CompleteWatch, CompleteSync, pactVars
    <2>5. current = "Running"
        BY <2>1, <2>4 DEF SyncEnd, End, RecTyped, Flags
    <2>6. ~Fallen  BY <2>2, <2>5 DEF Fallen, Active
    <2>7. i \notin recordsInprog[a.reg]
        <3> SUFFICES ASSUME i \in recordsInprog[a.reg] PROVE FALSE
            OBVIOUS
        <3>1. a.reg # r  BY <2>1, <2>3 DEF SyncOK, Once
        <3>2. r \in Holding(i) /\ a.reg \in Holding(i) \ {r} /\ IsFiniteSet(Holding(i))
            BY <2>1, <2>3, <3>1, FS_Subset DEF Holding, Here
        <3>3. /\ Cardinality(Holding(i)) \in Nat /\ Cardinality(Holding(i) \ {r}) \in Nat
              /\ Cardinality(Holding(i) \ {r}) = Cardinality(Holding(i)) - 1
              /\ IsFiniteSet(Holding(i) \ {r})
            BY <3>2, FS_RemoveElement, FS_CardinalityType
        <3>4. Cardinality(Holding(i)) <= 1  BY <2>1, <2>4, <3>3 DEF SyncOK
        <3>5. Cardinality(Holding(i) \ {r}) = 0  BY <3>3, <3>4
        <3>6. Holding(i) \ {r} = {}  BY <3>3, <3>5, FS_EmptySet
        <3> QED  BY <3>2, <3>6
    <2> QED  BY <1>1, <2>1, <2>6, <2>7 DEF SyncDone
<1>2. ServedInv /\ [Next]_vars =>
        [\A i \in OfKind("sync") : Succeeds(i) =>
            \A a \in awaits[i] : a.unsent => done[a.reg] >= a.op]_vars
    BY <1>1
<1> QED  BY <1>2, ServedHolds, PTL DEF Spec, SyncWaits

\* A write record succeeds only after a write that began when it was processed, or
\* later, has completed, whatever was queued, timed out or reset since; but for one
\* that another thread has processed before the worker tells it that the device is
\* connected, until the next connection (persistSettings).
THEOREM WritesDone == Spec => WriteDone
<1>1. ASSUME ServedInv, [Next]_vars, NEW i \in OfKind("write") \ overtaken', Succeeds(i),
             NEW a \in awaits[i]
      PROVE  wrote[a.reg] >= a.op
    <2>1. /\ i \in Interests /\ Kind[i] = "write" /\ Careful(i)
        BY <1>1, SucceedsBy DEF OfKind
    <2>2. WriteOK(i) /\ Counted  BY <1>1, <2>1 DEF ServedInv, Served
    <2>3. pc = "Unlocked" /\ Usable(i) /\ <<Named[i], i>> \in completed /\ a.reg = Named[i]
        BY <1>1, <2>1, SucceedsBy
    <2>4. Active  BY <2>1, <2>2, <2>3 DEF Counted, Usable, Supported
    <2>5. ~Fallen  BY <2>3, <2>4 DEF Fallen
    <2> QED  BY <1>1, <2>2, <2>3, <2>5 DEF WriteOK
<1>2. ServedInv /\ [Next]_vars =>
        [\A i \in OfKind("write") \ overtaken' :
            Succeeds(i) => \A a \in awaits[i] : wrote[a.reg] >= a.op]_vars
    BY <1>1
<1> QED  BY <1>2, ServedHolds, PTL DEF Spec, WriteDone

\* A read record succeeds only with words that were all read by one operation: the
\* one it joined, or one that began later.
THEOREM ReadsFresh == Spec => ReadFresh
<1>1. ASSUME ServedInv, [Next]_vars, NEW i \in OfKind("read"), Succeeds(i), NEW a \in awaits[i]
      PROVE  \E n \in a.op .. opSeq[a.reg] : \A o \in Offsets(a.reg) : memRx[a.reg][o] = n
    <2>1. i \in Interests /\ Kind[i] = "read" /\ Careful(i)
        BY DEF OfKind, Careful
    <2>2. ReadOK(i)  BY <1>1, <2>1 DEF ServedInv, Served
    <2>3. valid[Named[i]] /\ <<Named[i], i>> \in completed /\ a.reg = Named[i]
        BY <1>1, <2>1, SucceedsBy
    <2>4. ReadSince(Named[i], a.op)  BY <1>1, <2>2, <2>3 DEF ReadOK
    <2> QED  BY <2>3, <2>4 DEF ReadSince
<1>2. ServedInv /\ [Next]_vars =>
        [\A i \in OfKind("read") : Succeeds(i) =>
            \A a \in awaits[i] : \E n \in a.op .. opSeq[a.reg] :
                \A o \in Offsets(a.reg) : memRx[a.reg][o] = n]_vars
    BY <1>1
<1> QED  BY <1>2, ServedHolds, PTL DEF Spec, ReadFresh

----------------------------------------------------------------------------
(***************************************************************************)
(* A Watch, on a register that others read, write and watch as well.       *)
(***************************************************************************)

\* A Watch on a register of the ROM: the bootstrap registers outlive a connection.
Watched(i) == Kind[i] = "watch" /\ Named[i] \notin Boot

\* All words of register r were received in the n-th operation, or later.
WordsSince(r, n) == \A o \in Offsets(r) : memRx[r][o] >= n

\* The next step of the worker is a reset.
Doomed == pc = "State" /\ resetReq

\* It waits for its timer, or for one read of its register, or to be completed by
\* one; and for nothing without a connection, but to be completed before there is a
\* new one.
WatchPlace(i) ==
    /\ \A q \in Regs \ {Named[i]} : ~Here(q, i) /\ ~Queuing(q, i)
    /\ i \notin recordsWrite[Named[i]]
    /\ Once(Named[i], i)
    /\ Queuing(Named[i], i) => ~Here(Named[i], i)
    /\ timer[i] => pact[i]
    /\ Named[i] \in present =>
          (Here(Named[i], i) \/ Queuing(Named[i], i) => pact[i] /\ ~timer[i])
    /\ Named[i] \notin present =>
          /\ i \notin recordsInprog[Named[i]] /\ ~Queuing(Named[i], i)
          /\ pc \notin {"Send", "Unlocked"} => <<Named[i], i>> \notin records

\* Where it is says which operation will read, or has read, the words it looks at.
WatchWords(i) ==
    \A a \in awaits[i] :
        /\ a.reg = Named[i]
        /\ timer[i] => a.op <= opSeq[Named[i]]
        /\ Named[i] \in present =>
              /\ i \in recordsRead[Named[i]] => a.op <= opSeq[Named[i]] + 1
              /\ i \in recordsInprog[Named[i]] =>
                    state[Named[i]] = "Reading" /\ a.op <= opSeq[Named[i]]
              /\ <<Named[i], i>> \in records \/ <<Named[i], i>> \in completed =>
                    Doomed \/ /\ a.op <= opSeq[Named[i]] /\ WordsSince(Named[i], a.op)
                              /\ state[Named[i]] # "Invalid"

WatchOK(i) == WatchPlace(i) /\ WatchWords(i)

WatchInv == ServedInv /\ \A i \in Interests : Watched(i) => WatchOK(i)

\* A step after which register r is still there, and has lost nothing that was read.
Further(r) ==
    /\ r \in present' <=> r \in present
    /\ opSeq'[r] \in Nat /\ opSeq'[r] >= opSeq[r]
    /\ state[r] = "Reading" => state'[r] = "Reading"
    /\ state[r] # "Invalid" => state'[r] # "Invalid"
    /\ \A n \in Nat : n <= opSeq[r] /\ WordsSince(r, n) => WordsSince(r, n)'

\* A step that does not concern a Watch.
LEMMA WatchKeeps ==
    ASSUME Typed, NEW i \in Interests, WatchOK(i), Spared(i), timer'[i] = timer[i],
           Further(Named[i]),
           pc' \notin {"Send", "Unlocked"} => records = {} \/ pc \notin {"Send", "Unlocked"},
           Doomed => Doomed'
    PROVE  WatchOK(i)'
<1> DEFINE r == Named[i]
<1>1. \A q \in Regs : /\ Here(q, i)' <=> Here(q, i)
                      /\ Queuing(q, i)' <=> Queuing(q, i)
                      /\ Once(q, i)' <=> Once(q, i)
    BY DEF Spared, SameLists, Here, Queuing, Once
<1>2. r \in Regs  OBVIOUS
<1>3. /\ i \in recordsInprog'[r] <=> i \in recordsInprog[r]
      /\ i \in recordsWrite'[r] <=> i \in recordsWrite[r]
      /\ i \in recordsRead'[r] <=> i \in recordsRead[r]
      /\ <<r, i>> \in records' <=> <<r, i>> \in records
      /\ <<r, i>> \in completed' <=> <<r, i>> \in completed
      /\ pact'[i] = pact[i] /\ awaits'[i] = awaits[i]
    BY <1>2 DEF Spared, SameLists
<1>4. WatchPlace(i)'
    BY <1>1, <1>2, <1>3 DEF WatchOK, WatchPlace, Further
<1>5. WatchWords(i)'
    <2> SUFFICES ASSUME NEW a \in awaits[i]
                 PROVE  /\ a.reg = r
                        /\ timer'[i] => a.op <= opSeq'[r]
                        /\ r \in present' =>
                             /\ i \in recordsRead'[r] => a.op <= opSeq'[r] + 1
                             /\ i \in recordsInprog'[r] => state'[r] = "Reading" /\ a.op <= opSeq'[r]
                             /\ <<r, i>> \in records' \/ <<r, i>> \in completed' =>
                                  Doomed' \/ /\ a.op <= opSeq'[r] /\ WordsSince(r, a.op)'
                                             /\ state'[r] # "Invalid"
        BY <1>3 DEF WatchWords
    <2>1. a.op \in Nat /\ opSeq[r] \in Nat /\ opSeq'[r] \in Nat /\ opSeq'[r] >= opSeq[r]
        BY <1>2 DEF Typed, RecTyped, RegistersTypeOK, Further
    <2>2. /\ a.reg = r
          /\ timer[i] => a.op <= opSeq[r]
          /\ r \in present =>
               /\ i \in recordsRead[r] => a.op <= opSeq[r] + 1
               /\ i \in recordsInprog[r] => state[r] = "Reading" /\ a.op <= opSeq[r]
               /\ <<r, i>> \in records \/ <<r, i>> \in completed =>
                    Doomed \/ (a.op <= opSeq[r] /\ WordsSince(r, a.op) /\ state[r] # "Invalid")
        BY DEF WatchOK, WatchWords
    <2>3. /\ r \in present' <=> r \in present
          /\ state[r] = "Reading" => state'[r] = "Reading"
          /\ state[r] # "Invalid" => state'[r] # "Invalid"
          /\ a.op <= opSeq[r] /\ WordsSince(r, a.op) => WordsSince(r, a.op)'
        BY <2>1 DEF Further
    <2> QED  BY <1>3, <2>1, <2>2, <2>3
<1> QED  BY <1>4, <1>5 DEF WatchOK

LEMMA SameFurther ==
    ASSUME RegistersTypeOK, UNCHANGED <<present, state, opSeq, memRx>>, NEW r \in Regs
    PROVE  Further(r)
BY DEF Further, RegistersTypeOK, WordsSince

\* What is asked of a register while a Watch waits takes nothing from it.
LEMMA QueueFurther ==
    ASSUME RegistersTypeOK, NEW r \in Regs, NEW write \in BOOLEAN,
           NEW i \in Interests \cup {NoInterest}, Queue(r, write, i)
    PROVE  \A q \in Regs : Further(q)
<1> TAKE q \in Regs
<1>1. Quiet /\ UNCHANGED <<present, memRx>>  BY QueueQuiet
<1>2. state[q] \in States /\ opSeq[q] \in Nat  BY DEF RegistersTypeOK
<1>3. state[q] # "Invalid" => state'[q] # "Invalid"
    <2>1. CASE InProgress(q)  BY <1>1, <2>1 DEF Quiet, InProgress
    <2>2. CASE QueueIdle(r, write, i)
        BY <2>2 DEF QueueIdle, Begin, RegistersTypeOK
    <2>3. CASE state' = state  BY <2>3
    <2> QED
        BY <2>1, <2>2, <2>3 DEF Queue, QueueWriteLater, QueueReadLater, MergeRead
<1> QED  BY <1>1, <1>2, <1>3 DEF Further, Quiet, InProgress, WordsSince

LEMMA ProcessFurther ==
    ASSUME RecTyped, NEW j \in Interests, Process(j)
    PROVE  \A q \in Regs : Further(q)
<1>1. RegistersTypeOK  BY DEF RecTyped
<1>2. ASSUME NEW bad, End(j, bad) PROVE \A q \in Regs : Further(q)
    BY <1>1, <1>2, SameFurther DEF End, svcVars
<1>3. ASSUME NEW write \in BOOLEAN, NEW busy, Ask(j, write, busy) PROVE \A q \in Regs : Further(q)
    BY <1>1, <1>3, QueueFurther DEF Ask, QueueReg
<1>4. CASE SyncBegin(j)
    BY <1>1, <1>4, SameFurther DEF SyncBegin
<1> QED
    BY <1>2, <1>3, <1>4 DEF Process, Refuse, ProcessRead, ProcessWrite, ProcessWatch, SyncEnd

\* A Watch on no list that reads its register waits for the read in progress, or for
\* one that is queued behind a write.
LEMMA WatchAsks ==
    ASSUME RegistersTypeOK, NEW i \in Interests, Watched(i), WatchPlace(i), Named[i] \in present,
           ~Here(Named[i], i), ~Queuing(Named[i], i),
           Queue(Named[i], FALSE, i), completed' = completed, pact'[i], ~timer'[i],
           \A a \in awaits'[i] : a.reg = Named[i] /\ a.op \in Nat /\ a.op <= Joins(Named[i], FALSE).op
    PROVE  WatchOK(i)'
<1> DEFINE r == Named[i]
<1>1. r \in Regs /\ FALSE \in BOOLEAN  OBVIOUS
<1>2. \A q \in Regs : ~Here(q, i) /\ ~Queuing(q, i)  BY DEF WatchPlace
<1>3. \A q \in Regs : i \notin recordsInprog[q] /\ ~Queuing(q, i)  BY <1>2 DEF Here
<1>4. /\ records' = records
      /\ \A q \in Regs \ {r} : i \notin recordsInprog'[q] /\ ~Queuing(q, i)'
      /\ i \notin recordsWrite'[r]
      /\ i \in recordsInprog'[r] <=> ~Queuing(r, i)'
      /\ Queuing(r, i)' => Joins(r, FALSE).op = opSeq'[r] + 1
      /\ i \in recordsInprog'[r] => Joins(r, FALSE).op = opSeq'[r] /\ state'[r] = "Reading"
    BY <1>1, <1>3, QueuePlaces
<1>5. \A q \in Regs : <<q, i>> \notin records' /\ <<q, i>> \notin completed'
    BY <1>2, <1>4 DEF Here
<1>6. present' = present  BY DEF Queue
<1>7. WatchPlace(i)'
    BY <1>1, <1>4, <1>5, <1>6 DEF WatchPlace, Here, Once
<1>8. WatchWords(i)'
    <2>1. i \in recordsRead'[r] => Queuing(r, i)'  BY DEF Queuing
    <2> QED  BY <1>1, <1>4, <1>5, <2>1 DEF WatchWords
<1> QED  BY <1>7, <1>8 DEF WatchOK

LEMMA ProcessRecordWatch ==
    ASSUME WatchInv, NEW i \in Interests, Watched(i), NEW j \in Interests,
           ProcessRecord(j) \/ ScanIntr(j)
    PROVE  WatchOK(i)'
<1>1. /\ WatchOK(i) /\ WatchPlace(i) /\ Typed /\ RecTyped /\ RegistersTypeOK /\ Scanned /\ Counted
      /\ Named[i] \in Regs
    BY BusyTyped DEF WatchInv, WatchOK, ServedInv, BusyInv
<1>2. Process(j) /\ UNCHANGED <<completed, pc, resetReq>>
    BY DEF ProcessRecord, ScanIntr, Call, runVars, devVars
<1>3. Doomed => Doomed'  BY <1>2 DEF Doomed
<1>4. CASE j # i
    <2>1. Same(i)  BY <1>1, <1>2, <1>4, ProcessSame
    <2>2. awaits'[i] = awaits[i]
        BY <1>1, <1>2, <1>4 DEF Process, Refuse, ProcessRead, ProcessWrite, ProcessWatch, SyncBegin,
                                SyncEnd, Ask, End, RecTyped
    <2>3. Spared(i) /\ timer'[i] = timer[i]  BY <1>2, <2>1, <2>2 DEF Same, Spared
    <2>4. Further(Named[i])  BY <1>1, <1>2, ProcessFurther
    <2> QED  BY <1>1, <1>2, <1>3, <2>3, <2>4, WatchKeeps
<1>5. CASE j = i
    <2>1. ~pact[i] /\ ~timer[i] /\ Kind[i] = "watch"
        BY <1>1, <1>5 DEF ProcessRecord, ScanIntr, Scanned, WatchPlace, Watched
    <2>2. Refuse(i) \/ ProcessWatch(i)
        BY <1>2, <1>5, <2>1 DEF Process, ProcessRead, ProcessWrite, SyncBegin, SyncEnd
    <2>3. CASE Refuse(i)
        <3>1. /\ UNCHANGED svcVars /\ ~pact'[i] /\ ~timer'[i] /\ awaits'[i] = {}
            BY <1>1, <2>1, <2>3 DEF Refuse, End, RecTyped, Flags
        <3>2. \A q \in Regs : /\ Here(q, i)' <=> Here(q, i)
                              /\ Queuing(q, i)' <=> Queuing(q, i)
                              /\ Once(q, i)' <=> Once(q, i)
            BY <1>2, <3>1 DEF svcVars, listVars, Here, Queuing, Once
        <3>3. WatchPlace(i)'
            BY <1>1, <1>2, <2>1, <3>1, <3>2 DEF WatchPlace, svcVars, listVars
        <3> QED  BY <3>1, <3>3 DEF WatchOK, WatchWords
    <2>4. CASE ProcessWatch(i)
        <3>1. Named[i] \in present /\ Ask(i, FALSE, TRUE) /\ timer' = timer
            BY <2>1, <2>4 DEF ProcessWatch, Usable
        <3>2. pact'[i] /\ Queue(Named[i], FALSE, i) /\ awaits'[i] = {Joins(Named[i], FALSE)}
            BY <1>1, <3>1 DEF Ask, QueueReg, RecTyped, Flags
        <3>3. ~Here(Named[i], i) /\ ~Queuing(Named[i], i)
            BY <1>1, <2>1, <3>1 DEF WatchPlace
        <3>4. Joins(Named[i], FALSE).reg = Named[i] /\ Joins(Named[i], FALSE).op \in Nat
            BY <1>1 DEF Joins, RegistersTypeOK
        <3>5. ASSUME NEW a \in awaits'[i]
              PROVE  a.reg = Named[i] /\ a.op \in Nat /\ a.op <= Joins(Named[i], FALSE).op
            <4>1. a = Joins(Named[i], FALSE)  BY <3>2
            <4>2. a.op \in Nat  BY <3>4, <4>1
            <4>3. a.op <= a.op  BY <4>2
            <4> QED  BY <3>4, <4>1, <4>3
        <3>6. ~timer'[i]  BY <2>1, <3>1
        <3> QED  BY <1>1, <1>2, <3>1, <3>2, <3>3, <3>5, <3>6, WatchAsks
    <2> QED  BY <2>2, <2>3, <2>4
<1> QED  BY <1>4, <1>5

\* The timer of a Watch reads its register again, if it is there.
LEMMA ExpireWatch ==
    ASSUME WatchInv, NEW i \in Interests, Watched(i), NEW j \in Interests, Expire(j)
    PROVE  WatchOK(i)'
<1>1. /\ WatchOK(i) /\ WatchPlace(i) /\ WatchWords(i) /\ Typed /\ RecTyped /\ RegistersTypeOK
      /\ Named[i] \in Regs
    BY BusyTyped DEF WatchInv, WatchOK, ServedInv
<1>2. /\ UNCHANGED <<completed, pc, resetReq, pact, awaits>> /\ timer[j]
      /\ timer' = [timer EXCEPT ![j] = FALSE]
    BY DEF Expire, runVars, devVars, pactVars
<1>3. Doomed => Doomed'  BY <1>2 DEF Doomed
<1>4. CASE j # i
    <2>1. SameLists(i) /\ Further(Named[i])
        <3>1. CASE UNCHANGED svcVars
            BY <1>1, <3>1, SameFurther DEF svcVars, listVars, SameLists
        <3>2. CASE QueueReg(Named[j], FALSE, j)
            <4>1. Named[j] \in Regs /\ FALSE \in BOOLEAN  OBVIOUS
            <4> QED  BY <1>1, <1>4, <3>2, <4>1, QueueRegSame, QueueFurther DEF QueueReg
        <3> QED  BY <3>1, <3>2 DEF Expire
    <2>2. Spared(i) /\ timer'[i] = timer[i]
        BY <1>1, <1>2, <1>4, <2>1 DEF Spared, RecTyped, Flags
    <2> QED  BY <1>1, <1>2, <1>3, <2>1, <2>2, WatchKeeps
<1>5. CASE j = i
    <2>1. pact'[i] /\ ~timer'[i]
        BY <1>1, <1>2, <1>5 DEF WatchPlace, RecTyped, Flags
    <2>2. CASE Named[i] \in present
        <3>1. Queue(Named[i], FALSE, i)  BY <1>5, <2>2 DEF Expire, QueueReg
        <3>2. ~Here(Named[i], i) /\ ~Queuing(Named[i], i)
            BY <1>1, <1>2, <1>5, <2>2 DEF WatchPlace
        <3>3. ASSUME NEW a \in awaits'[i]
              PROVE  a.reg = Named[i] /\ a.op \in Nat /\ a.op <= Joins(Named[i], FALSE).op
            <4>1. a \in awaits[i] /\ opSeq[Named[i]] \in Nat  BY <1>1, <1>2 DEF RegistersTypeOK
            <4>2. a.reg = Named[i] /\ a.op <= opSeq[Named[i]] /\ a.op \in Nat
                BY <1>1, <1>2, <1>5, <4>1 DEF WatchWords, RecTyped
            <4> QED  BY <4>1, <4>2 DEF Joins
        <3> QED  BY <1>1, <1>2, <2>1, <2>2, <3>1, <3>2, <3>3, WatchAsks
    <2>3. CASE Named[i] \notin present
        <3>1. UNCHANGED svcVars  BY <1>5, <2>3 DEF Expire
        <3>2. \A q \in Regs : /\ Here(q, i)' <=> Here(q, i)
                              /\ Queuing(q, i)' <=> Queuing(q, i)
                              /\ Once(q, i)' <=> Once(q, i)
            BY <1>2, <3>1 DEF svcVars, listVars, Here, Queuing, Once
        <3>3. WatchPlace(i)'
            BY <1>1, <1>2, <2>1, <2>3, <3>1, <3>2 DEF WatchPlace, svcVars, listVars
        <3>4. WatchWords(i)'
            BY <1>1, <1>2, <2>1, <2>3, <3>1 DEF WatchWords, svcVars
        <3> QED  BY <3>3, <3>4 DEF WatchOK
    <2> QED  BY <2>2, <2>3
<1> QED  BY <1>4, <1>5

\* The completion of a Watch sets its timer or ends it.
LEMMA CompleteRecordWatch ==
    ASSUME WatchInv, NEW i \in Interests, Watched(i), CompleteRecord
    PROVE  WatchOK(i)'
<1>1. /\ WatchOK(i) /\ WatchPlace(i) /\ WatchWords(i) /\ Typed /\ RecTyped /\ RunTyped
      /\ RegistersTypeOK /\ Named[i] \in Regs /\ records = {} /\ pc = "Unlocked"
    BY BusyTyped DEF WatchInv, WatchOK, ServedInv, CompleteRecord, Counted
<1>2. PICK c \in completed : completed' = completed \ {c} /\ Complete(c[2])
    BY DEF CompleteRecord
<1>3. PICK r \in Regs, j \in Interests : c = <<r, j>>  BY <1>1, <1>2 DEF RunTyped
<1>4. Complete(j) /\ UNCHANGED <<svcVars, pc, resetReq>>
    BY <1>2, <1>3, CompleteEnds DEF CompleteRecord, devVars
<1>5. Further(Named[i])  BY <1>1, <1>4, SameFurther DEF svcVars
<1>6. CASE j # i
    <2>1. Same(i)  BY <1>1, <1>4, <1>6, CompleteSame
    <2>2. \A q \in Regs : <<q, i>> \in completed' <=> <<q, i>> \in completed
        BY <1>2, <1>3, <1>6
    <2>3. awaits'[i] = awaits[i]
        BY <1>1, <1>4, <1>6, CompleteEnds DEF End, RecTyped, pactVars
    <2>4. Spared(i) /\ timer'[i] = timer[i]  BY <2>1, <2>2, <2>3 DEF Same, Spared
    <2> QED  BY <1>1, <1>4, <1>5, <2>4, WatchKeeps DEF Doomed
<1>7. CASE j = i
    <2>1. r = Named[i] /\ Here(Named[i], i) /\ <<Named[i], i>> \in completed
        BY <1>1, <1>2, <1>3, <1>7 DEF WatchPlace, Here
    <2>2. /\ UNCHANGED <<present, state, opSeq, recordsInprog, recordsWrite, recordsRead, records>>
        BY <1>4 DEF svcVars, listVars
    <2>3. \A q \in Regs : ~Here(q, i)' /\ ~Queuing(q, i)' /\ Once(q, i)'
        BY <1>1, <1>2, <1>3, <1>7, <2>1, <2>2 DEF WatchPlace, Here, Queuing, Once
    <2>4. \/ /\ timer' = [timer EXCEPT ![i] = TRUE] /\ Named[i] \in present
             /\ UNCHANGED <<pact, awaits>>
          \/ UNCHANGED <<pact, awaits, timer>> /\ ~pact[i]
          \/ ~timer'[i] /\ awaits'[i] = {} /\ ~pact'[i]
        <3>1. CASE CompleteWatch(i) /\ ~Again(i)
            BY <3>1 DEF CompleteWatch, Usable, pactVars
        <3>2. CASE Again(i) /\ ~pact[i]
            BY <3>2 DEF Again, pactVars
        <3>3. CASE pact[i] /\ Refuse(i)
            BY <1>1, <3>3 DEF Refuse, End, RecTyped, Flags
        <3>4. CASE pact[i] /\ ProcessWatch(i)
            <4>1. ~timer[i]  BY <1>1, <2>1, <3>4 DEF ProcessWatch, Usable, WatchPlace
            <4> QED  BY <1>1, <3>4, <4>1 DEF ProcessWatch, End, RecTyped, Flags
        <3> QED
            BY <1>4, <1>7, <3>1, <3>2, <3>3, <3>4
            DEF Complete, CompleteSync, Watched, Again, Process, ProcessRead, ProcessWrite,
                SyncBegin, SyncEnd
    <2>5. timer'[i] => pact'[i]
        BY <1>1, <2>1, <2>4 DEF WatchPlace
    <2>6. WatchPlace(i)'
        BY <1>1, <2>2, <2>3, <2>5 DEF WatchPlace, Here, Queuing
    <2>7. WatchWords(i)'
        <3>1. \A q \in Regs : i \notin recordsRead'[q] /\ i \notin recordsInprog'[q]
                              /\ <<q, i>> \notin records' /\ <<q, i>> \notin completed'
            BY <2>3 DEF Here, Queuing
        <3>2. ASSUME NEW a \in awaits'[i]
              PROVE  a.reg = Named[i] /\ (timer'[i] => a.op <= opSeq[Named[i]])
            <4>1. a \in awaits[i]  BY <2>4, <3>2
            <4>2. timer'[i] => Named[i] \in present \/ timer[i]  BY <2>4, <3>2
            <4>3. ~Doomed  BY <1>1 DEF Doomed
            <4> QED  BY <1>1, <2>1, <4>1, <4>2, <4>3 DEF WatchWords
        <3> QED  BY <1>1, <2>2, <3>1, <3>2 DEF WatchWords
    <2> QED  BY <2>6, <2>7 DEF WatchOK
<1> QED  BY <1>6, <1>7

LEMMA SendWatch ==
    ASSUME WatchInv, NEW i \in Interests, Watched(i), Send
    PROVE  WatchOK(i)'
<1>1. /\ WatchOK(i) /\ WatchPlace(i) /\ WatchWords(i) /\ Counted /\ completed = {}
      /\ Named[i] \in Regs /\ pc = "Send"
    BY DEF WatchInv, WatchOK, ServedInv, BusyInv, Taken, Send
<1>2. /\ UNCHANGED <<present, state, recordsInprog, recordsWrite, recordsRead, opSeq, memRx,
                     pact, awaits, timer>>
      /\ records' = {} /\ pc' = "Unlocked"
    BY DEF Send, Swap, listVars, recVars, pactVars
<1>3. \A q \in Regs : Queuing(q, i)' <=> Queuing(q, i)  BY <1>2 DEF Queuing
<1>4. CASE completed' = records
    <2>1. \A q \in Regs : /\ Here(q, i)' <=> Here(q, i)
                          /\ <<q, i>> \in completed' <=> <<q, i>> \in records
        BY <1>1, <1>2, <1>4 DEF Here
    <2>2. Once(Named[i], i)'  BY <1>1, <1>2, <2>1 DEF WatchPlace, Once
    <2>3. WatchPlace(i)'  BY <1>1, <1>2, <1>3, <2>1, <2>2 DEF WatchPlace
    <2>4. WatchWords(i)'  BY <1>1, <1>2, <2>1 DEF WatchWords, WordsSince, Doomed
    <2> QED  BY <2>3, <2>4 DEF WatchOK
<1>5. CASE /\ current = "Error"
           /\ completed' = {<<Named[j], j>> : j \in Interests}
    <2>1. Named[i] \notin present  BY <1>1, <1>5 DEF Counted, Active, Watched
    <2>2. \A q \in Regs \ {Named[i]} : ~Here(q, i)'
        BY <1>1, <1>2, <1>5 DEF WatchPlace, Here
    <2>3. Once(Named[i], i)' /\ ~Queuing(Named[i], i)'
        BY <1>1, <1>2, <1>3, <2>1 DEF WatchPlace, Once
    <2>4. WatchPlace(i)'  BY <1>1, <1>2, <1>3, <2>1, <2>2, <2>3 DEF WatchPlace
    <2>5. WatchWords(i)'  BY <1>1, <1>2, <2>1 DEF WatchWords
    <2> QED  BY <2>4, <2>5 DEF WatchOK
<1> QED  BY <1>4, <1>5 DEF Send

\* Operations on other registers leave a Watch and its register alone.
LEMMA FinishElsewhere ==
    ASSUME RegistersTypeOK, NEW i \in Interests, WatchPlace(i), NEW r \in Regs \ {Named[i]},
           Finish(r) \/ Cancel(r), completed' = completed, pact'[i] = pact[i], awaits'[i] = awaits[i]
    PROVE  /\ Spared(i)
           /\ state'[Named[i]] = state[Named[i]] /\ opSeq'[Named[i]] = opSeq[Named[i]]
<1>1. i \notin recordsInprog[r] /\ ~Queuing(r, i) /\ Named[i] \in Regs
    BY DEF WatchPlace, Here
<1>2. CASE Finish(r)
    <2>1. \A q \in Regs : <<q, i>> \in records' <=> <<q, i>> \in records
        BY <1>1, <1>2, FinishLists DEF Handed
    <2>2. SameLists(i)
        BY <1>1, <1>2, <2>1, FinishLists DEF SameLists, Queuing
    <2> QED  BY <1>1, <1>2, <2>2, FinishBegins DEF Spared
<1>3. CASE Cancel(r)
    <2>1. \A q \in Regs : <<q, i>> \in records' <=> <<q, i>> \in records
        BY <1>1, <1>3 DEF Cancel, Cancelled, Queuing
    <2>2. SameLists(i)
        BY <1>1, <1>3, <2>1 DEF Cancel, SameLists, Queuing, RegistersTypeOK
    <2> QED  BY <1>1, <1>3, <2>2 DEF Spared, Cancel, RegistersTypeOK
<1> QED  BY <1>2, <1>3

\* The last word of an operation on the register of a Watch: if it was a read, all
\* words are those of this read.
LEMMA FinishWatch ==
    ASSUME RegistersTypeOK, RecTyped, NEW i \in Interests, WatchOK(i), Finish(Named[i]),
           completed = {}, pc' \in {"Receive", "State"}, pc = "Receive",
           UNCHANGED <<completed, present, pact, awaits, timer>>,
           IF state[Named[i]] = "Reading"
           THEN \A o \in Offsets(Named[i]) : memRx'[Named[i]][o] = opSeq[Named[i]]
           ELSE memRx'[Named[i]] = memRx[Named[i]]
    PROVE  WatchOK(i)'
<1> DEFINE r == Named[i]
<1>1. WatchPlace(i) /\ WatchWords(i) /\ r \in Regs /\ ~Doomed /\ opSeq[r] \in Nat
    BY DEF WatchOK, Doomed, RegistersTypeOK
<1>2. /\ opSeq'[r] \in {opSeq[r], opSeq[r] + 1}
      /\ i \in recordsWrite'[r] => i \in recordsWrite[r]
      /\ i \in recordsRead'[r] => i \in recordsRead[r]
      /\ i \in recordsInprog'[r] =>
            /\ opSeq'[r] = opSeq[r] + 1
            /\ \/ i \in recordsWrite[r] /\ i \notin recordsWrite'[r] /\ state'[r] = "Writing"
               \/ i \in recordsRead[r] /\ i \notin recordsRead'[r] /\ state'[r] = "Reading"
    BY <1>1, FinishBegins
<1>3. state'[r] # "Invalid"
    BY <1>1 DEF Finish, StartQueuedWrite, StartQueuedRead, StartNothing, Begin, RegistersTypeOK
<1>4. /\ \A q \in Regs \ {r} : /\ recordsInprog'[q] = recordsInprog[q]
                               /\ recordsWrite'[q] = recordsWrite[q]
                               /\ recordsRead'[q] = recordsRead[q]
                               /\ <<q, i>> \in records' <=> <<q, i>> \in records
      /\ <<r, i>> \in records' <=> <<r, i>> \in records \/ i \in recordsInprog[r]
      /\ i \in recordsInprog'[r] \/ Queuing(r, i)' => Queuing(r, i)
    BY <1>1, FinishLists DEF Handed, Queuing
<1>5. WatchPlace(i)'
    BY <1>1, <1>2, <1>4 DEF WatchPlace, Here, Queuing, Once
<1>6. WatchWords(i)'
    <2> SUFFICES ASSUME NEW a \in awaits[i]
                 PROVE  /\ a.reg = r
                        /\ timer[i] => a.op <= opSeq'[r]
                        /\ r \in present =>
                             /\ i \in recordsRead'[r] => a.op <= opSeq'[r] + 1
                             /\ i \in recordsInprog'[r] => state'[r] = "Reading" /\ a.op <= opSeq'[r]
                             /\ <<r, i>> \in records' \/ <<r, i>> \in completed' =>
                                  /\ a.op <= opSeq'[r] /\ WordsSince(r, a.op)'
                                  /\ state'[r] # "Invalid"
        BY DEF WatchWords
    <2>1. a.op \in Nat /\ opSeq'[r] \in Nat /\ opSeq'[r] >= opSeq[r]
        BY <1>1, <1>2 DEF RecTyped
    <2>2. /\ a.reg = r
          /\ timer[i] => a.op <= opSeq[r]
          /\ r \in present =>
               /\ i \in recordsRead[r] => a.op <= opSeq[r] + 1
               /\ i \in recordsInprog[r] => state[r] = "Reading" /\ a.op <= opSeq[r]
               /\ <<r, i>> \in records => a.op <= opSeq[r] /\ WordsSince(r, a.op)
        BY <1>1 DEF WatchWords
    <2>3. i \in recordsInprog'[r] => i \in recordsRead[r] /\ state'[r] = "Reading" /\ opSeq'[r] = opSeq[r] + 1
        BY <1>1, <1>2 DEF WatchPlace
    <2>4. r \in present /\ <<r, i>> \in records' => a.op <= opSeq[r] /\ WordsSince(r, a.op)'
        <3>1. CASE state[r] = "Reading"
            <4>1. a.op <= opSeq[r] => WordsSince(r, a.op)'  BY <1>1, <2>1, <3>1 DEF WordsSince
            <4> QED  BY <1>4, <2>2, <4>1
        <3>2. CASE state[r] # "Reading"
            <4>1. WordsSince(r, a.op) => WordsSince(r, a.op)'  BY <3>2 DEF WordsSince
            <4> QED  BY <1>4, <2>2, <3>2, <4>1
        <3> QED  BY <3>1, <3>2
    <2> QED  BY <1>1, <1>2, <1>3, <2>1, <2>2, <2>3, <2>4
<1> QED  BY <1>5, <1>6 DEF WatchOK

LEMMA ReceiveWatch ==
    ASSUME WatchInv, NEW i \in Interests, Watched(i), NEW r \in Regs,
           ReceiveWord(r) \/ ReceiveWritten(r)
    PROVE  WatchOK(i)'
<1>1. /\ WatchOK(i) /\ WatchPlace(i) /\ Typed /\ RecTyped /\ RegistersTypeOK /\ Named[i] \in Regs
      /\ completed = {} /\ pc = "Receive" /\ ~Doomed
    BY BusyTyped DEF WatchInv, WatchOK, ServedInv, BusyInv, Taken, ReceiveWord, ReceiveWritten, Doomed
<1>2. UNCHANGED <<completed, present, pact, awaits, timer, pc>>
    BY DEF ReceiveWord, ReceiveWritten, runVars, pactVars
<1>3. \A q \in Regs \ {r} : memRx'[q] = memRx[q]
    BY <1>1 DEF ReceiveWord, ReceiveWritten, RegistersTypeOK
<1>4. CASE Finish(r) /\ r # Named[i]
    <2>1. /\ Spared(i) /\ timer'[i] = timer[i]
          /\ state'[Named[i]] = state[Named[i]] /\ opSeq'[Named[i]] = opSeq[Named[i]]
        BY <1>1, <1>2, <1>4, FinishElsewhere
    <2>2. Further(Named[i])
        BY <1>1, <1>2, <1>3, <1>4, <2>1 DEF Further, WordsSince, RegistersTypeOK
    <2> QED  BY <1>1, <1>2, <2>1, <2>2, WatchKeeps
<1>5. CASE ReceiveWritten(r) /\ r = Named[i]
    <2>1. Finish(r) /\ state[r] = "Writing" /\ memRx' = memRx
        BY <1>5 DEF ReceiveWritten, Completed
    <2> QED  BY <1>1, <1>2, <1>5, <2>1, FinishWatch
<1>6. CASE ReceiveWord(r) /\ r = Named[i]
    <2>1. state[r] = "Reading" /\ opSeq[r] \in Nat  BY <1>1, <1>6 DEF ReceiveWord, RegistersTypeOK
    <2>2. PICK o \in Offsets(r) :
            /\ memRx' = [memRx EXCEPT ![r][o] = opSeq[r]]
            /\ IF \A p \in Offsets(r) \ {o} : memRx[r][p] = opSeq[r]
               THEN Completed(r) /\ UNCHANGED present
               ELSE UNCHANGED <<present, state, flagVars, listVars, records, opSeq, devWritten,
                                sendVars, intrVars, valid, done, wrote>>
        BY <1>6 DEF ReceiveWord
    <2>3. \A p \in Offsets(r) : memRx'[r][p] = IF p = o THEN opSeq[r] ELSE memRx[r][p]
        BY <1>1, <2>2 DEF RegistersTypeOK
    <2>4. CASE \A p \in Offsets(r) \ {o} : memRx[r][p] = opSeq[r]
        <3>1. \A p \in Offsets(r) : memRx'[r][p] = opSeq[r]  BY <2>3, <2>4
        <3>2. Finish(r)  BY <2>2, <2>4 DEF Completed
        <3> QED  BY <1>1, <1>2, <1>6, <2>1, <3>1, <3>2, FinishWatch
    <2>5. CASE ~(\A p \in Offsets(r) \ {o} : memRx[r][p] = opSeq[r])
        <3>1. UNCHANGED <<present, state, listVars, records, opSeq>>  BY <2>2, <2>5
        <3>2. Spared(i) /\ timer'[i] = timer[i]
            BY <1>2, <3>1 DEF Spared, SameLists, listVars
        <3>3. ASSUME NEW n \in Nat, n <= opSeq[r], WordsSince(r, n) PROVE WordsSince(r, n)'
            BY <2>1, <2>3, <3>3 DEF WordsSince
        <3>4. Further(Named[i])
            BY <1>6, <2>1, <3>1, <3>3 DEF Further
        <3> QED  BY <1>1, <1>2, <3>2, <3>4, WatchKeeps
    <2> QED  BY <2>4, <2>5
<1>7. CASE ReceiveWord(r) /\ ~Finish(r) /\ r # Named[i]
    <2>1. UNCHANGED <<present, state, listVars, records, opSeq>>
        BY <1>7 DEF ReceiveWord, Completed
    <2>2. Spared(i) /\ timer'[i] = timer[i]
        BY <1>2, <2>1 DEF Spared, SameLists, listVars
    <2>3. Further(Named[i])
        BY <1>1, <1>3, <1>7, <2>1 DEF Further, WordsSince, RegistersTypeOK
    <2> QED  BY <1>1, <1>2, <2>2, <2>3, WatchKeeps
<1> QED  BY <1>4, <1>5, <1>6, <1>7 DEF ReceiveWritten, Completed

\* A timeout completes a Watch as well, and is followed by a reset.
LEMMA TimeoutWatch ==
    ASSUME WatchInv, NEW i \in Interests, Watched(i), NEW r \in Regs, Timeout(r)
    PROVE  WatchOK(i)'
<1>1. /\ WatchOK(i) /\ WatchPlace(i) /\ WatchWords(i) /\ Typed /\ RecTyped /\ RegistersTypeOK
      /\ Named[i] \in Regs /\ completed = {} /\ pc = "Receive" /\ ~Doomed
    BY BusyTyped DEF WatchInv, WatchOK, ServedInv, BusyInv, Taken, Timeout, Doomed
<1>2. /\ Cancel(r) /\ pc' = "State" /\ Doomed'
      /\ UNCHANGED <<completed, present, pact, awaits, timer, opSeq, memRx>>
    BY DEF Timeout, Cancel, pactVars, Doomed
<1>3. CASE r # Named[i]
    <2>1. /\ Spared(i) /\ timer'[i] = timer[i] /\ state'[Named[i]] = state[Named[i]]
        BY <1>1, <1>2, <1>3, FinishElsewhere
    <2>2. Further(Named[i])
        BY <1>1, <1>2, <2>1 DEF Further, WordsSince, RegistersTypeOK
    <2> QED  BY <1>1, <1>2, <2>1, <2>2, WatchKeeps
<1>4. CASE r = Named[i]
    <2>1. /\ recordsInprog'[r] = {} /\ recordsWrite'[r] = {} /\ recordsRead'[r] = {}
          /\ \A q \in Regs \ {r} : /\ recordsInprog'[q] = recordsInprog[q]
                                   /\ recordsWrite'[q] = recordsWrite[q]
                                   /\ recordsRead'[q] = recordsRead[q]
        BY <1>1, <1>2 DEF Cancel, RegistersTypeOK
    <2>2. \A q \in Regs : <<q, i>> \in records' <=>
             <<q, i>> \in records \/ (q = r /\ (i \in recordsInprog[r] \/ Queuing(r, i)))
        BY <1>2 DEF Cancel, Cancelled, Queuing
    <2>3. WatchPlace(i)'
        BY <1>1, <1>2, <1>4, <2>1, <2>2 DEF WatchPlace, Here, Queuing, Once
    <2>4. WatchWords(i)'
        BY <1>1, <1>2, <1>4, <2>1 DEF WatchWords
    <2> QED  BY <2>3, <2>4 DEF WatchOK
<1> QED  BY <1>3, <1>4

\* A reset removes the register, and a connection that brings it back finds the
\* Watch on no list.
LEMMA ResetWatch ==
    ASSUME WatchInv, NEW i \in Interests, Watched(i), StateReset \/ WorkerError
    PROVE  WatchOK(i)'
<1>1. /\ WatchOK(i) /\ WatchPlace(i) /\ WatchWords(i) /\ Named[i] \in Regs /\ completed = {}
    BY DEF WatchInv, WatchOK, ServedInv, BusyInv, Taken, StateReset, WorkerError
<1>2. /\ Reset /\ UNCHANGED <<completed, pact, awaits, timer>> /\ pc' = "Send"
    BY DEF StateReset, WorkerError, ResetDevice, pactVars
<1>3. /\ present' = Boot /\ opSeq' = opSeq
      /\ \A q \in Regs : recordsInprog'[q] = {} /\ recordsWrite'[q] = {} /\ recordsRead'[q] = {}
    BY <1>1, <1>2 DEF Reset
<1>4. \A q \in Regs : <<q, i>> \in records' <=>
         <<q, i>> \in records \/ i \in recordsInprog[q] \/ Queuing(q, i)
    BY <1>1, <1>2 DEF Reset, Cancelled, Queuing
<1>5. \A q \in Regs : /\ Here(q, i)' <=> Here(q, i) \/ Queuing(q, i)
                      /\ ~Queuing(q, i)' /\ Once(q, i)'
    BY <1>1, <1>2, <1>3, <1>4 DEF Here, Queuing, Once
<1>6. Named[i] \notin present'  BY <1>3 DEF Watched
<1>7. WatchPlace(i)'  BY <1>1, <1>2, <1>3, <1>5, <1>6 DEF WatchPlace
<1>8. WatchWords(i)'  BY <1>1, <1>2, <1>3, <1>6 DEF WatchWords
<1> QED  BY <1>7, <1>8 DEF WatchOK

LEMMA ConnectWatch ==
    ASSUME WatchInv, NEW i \in Interests, Watched(i), StateConnect
    PROVE  WatchOK(i)'
<1>1. /\ WatchOK(i) /\ WatchPlace(i) /\ WatchWords(i) /\ Named[i] \in Regs /\ completed = {} /\ Counted
    BY DEF WatchInv, WatchOK, ServedInv, BusyInv, Taken, StateConnect
<1>2. /\ pc = "State" /\ ~Active
      /\ UNCHANGED <<completed, pact, awaits, timer, opSeq, recordsInprog, recordsWrite, recordsRead,
                     records>>
    BY DEF StateConnect, Active, Attach, listVars, recVars, pactVars
<1>3. Named[i] \notin present  BY <1>1, <1>2 DEF Counted, Watched
<1>4. \A q \in Regs : ~Here(q, i) /\ ~Queuing(q, i)
    BY <1>1, <1>2, <1>3 DEF WatchPlace, Here
<1>5. \A q \in Regs : ~Here(q, i)' /\ ~Queuing(q, i)' /\ Once(q, i)'
    BY <1>1, <1>2, <1>4 DEF Here, Queuing, Once
<1>6. WatchPlace(i)'  BY <1>1, <1>2, <1>5 DEF WatchPlace, Here, Queuing
<1>7. \A q \in Regs : i \notin recordsRead'[q] /\ i \notin recordsInprog'[q]
                      /\ <<q, i>> \notin records' /\ <<q, i>> \notin completed'
    BY <1>5 DEF Here, Queuing
<1>8. WatchWords(i)'  BY <1>1, <1>2, <1>7 DEF WatchWords
<1> QED  BY <1>6, <1>8 DEF WatchOK

\* The steps that do not concern a Watch.
LEMMA QuietWatch ==
    ASSUME WatchInv, NEW i \in Interests, Watched(i),
           \/ Moves \/ \E j \in Interests : Tell(j)
           \/ \E r \in Regs : WriteNoWait(r)
           \/ SetAddress \/ ForceError \/ UNCHANGED vars
    PROVE  WatchOK(i)'
<1>1. /\ WatchOK(i) /\ Typed /\ RecTyped /\ RegistersTypeOK /\ Counted /\ Named[i] \in Regs
      /\ i \in Interests \ {NoInterest}
    BY BusyTyped, RegistersAssumption DEF WatchInv, ServedInv
<1>2. ASSUME UNCHANGED svcVars PROVE SameLists(i) /\ Further(Named[i])
    BY <1>1, <1>2, SameFurther DEF svcVars, listVars, SameLists
<1>3. CASE Moves
    <2>1. /\ UNCHANGED <<svcVars, completed, resetReq, pact, awaits, timer>>
          /\ pc = "Unlocked" => records = {}
        BY <1>1, <1>3, MovesEffect DEF procVars, pactVars, Counted
    <2>2. pc = "State" => ~resetReq
        BY <1>3 DEF Moves, Poll, ReceiveDone, StateSame, StateRunning
    <2>3. pc' \notin {"Send", "Unlocked"} => records = {} \/ pc \notin {"Send", "Unlocked"}
        BY <1>3, <2>1, MovesEffect
    <2>4. Spared(i) /\ timer'[i] = timer[i]  BY <1>2, <2>1 DEF Spared
    <2> QED  BY <1>1, <1>2, <2>1, <2>2, <2>3, <2>4, WatchKeeps DEF Doomed
<1>4. CASE \E j \in Interests : Tell(j)
    <2>1. PICK j \in Interests : Tell(j)  BY <1>4
    <2>2. UNCHANGED <<svcVars, completed, resetReq, pc, timer>>
        BY <2>1 DEF Tell, End, devVars
    <2>3. pact'[i] = pact[i] /\ awaits'[i] = awaits[i]
        BY <1>1, <2>1 DEF Tell, End, Watched, RecTyped, Flags, pactVars
    <2>4. Spared(i) /\ timer'[i] = timer[i]  BY <1>2, <2>2, <2>3 DEF Spared
    <2> QED  BY <1>1, <1>2, <2>2, <2>4, WatchKeeps DEF Doomed
<1>5. CASE \E r \in Regs : WriteNoWait(r)
    <2>1. PICK r \in Regs : WriteNoWait(r)  BY <1>5
    <2>2. /\ QueueReg(r, TRUE, NoInterest) /\ Queue(r, TRUE, NoInterest)
          /\ UNCHANGED <<completed, resetReq, pc, pact, awaits, timer>>
        BY <2>1 DEF WriteNoWait, QueueReg, Call, runVars, devVars, pactVars
    <2>3. SameLists(i) /\ Further(Named[i])
        BY <1>1, <2>2, QueueRegSame, QueueFurther
    <2>4. Spared(i) /\ timer'[i] = timer[i]  BY <2>2, <2>3 DEF Spared
    <2> QED  BY <1>1, <2>2, <2>3, <2>4, WatchKeeps DEF Doomed
<1>6. CASE SetAddress \/ ForceError \/ UNCHANGED vars
    <2>1. /\ UNCHANGED <<svcVars, completed, pc, pact, awaits, timer>>
          /\ resetReq' = resetReq \/ resetReq' = TRUE
        BY <1>6 DEF SetAddress, ForceError, Call, vars, devVars, runVars, recVars, pactVars
    <2>2. Spared(i) /\ timer'[i] = timer[i]  BY <1>2, <2>1 DEF Spared
    <2> QED  BY <1>1, <1>2, <2>1, <2>2, WatchKeeps DEF Doomed
<1> QED  BY <1>3, <1>4, <1>5, <1>6

LEMMA InitWatch == Init => WatchInv
<1> SUFFICES ASSUME Init PROVE WatchInv
    OBVIOUS
<1>1. ASSUME NEW i \in Interests PROVE WatchOK(i)
    <2>1. Named[i] \in Regs /\ ~timer[i] /\ awaits[i] = {}  BY DEF Init
    <2>2. \A q \in Regs : ~Here(q, i) /\ ~Queuing(q, i) /\ Once(q, i) /\ i \notin recordsInprog[q]
        BY DEF Init, RegistersInit, Here, Queuing, Once
    <2>3. WatchPlace(i)
        BY <2>1, <2>2 DEF Init, RegistersInit, WatchPlace
    <2> QED  BY <2>1, <2>3 DEF WatchOK, WatchWords
<1> QED  BY <1>1, InitServed DEF WatchInv

LEMMA NextWatch == ASSUME WatchInv, [Next]_vars PROVE WatchInv'
<1>1. ServedInv'  BY NextServed DEF WatchInv
<1>2. ASSUME NEW i \in Interests, Watched(i) PROVE WatchOK(i)'
    <2>1. CASE Send \/ CompleteRecord  BY <1>2, <2>1, SendWatch, CompleteRecordWatch
    <2>2. CASE \E r \in Regs : ReceiveWord(r) \/ ReceiveWritten(r) \/ Timeout(r)
        BY <1>2, <2>2, ReceiveWatch, TimeoutWatch
    <2>3. CASE StateReset \/ WorkerError \/ StateConnect
        BY <1>2, <2>3, ResetWatch, ConnectWatch
    <2>4. CASE \E j \in Interests : ProcessRecord(j) \/ ScanIntr(j)
        BY <1>2, <2>4, ProcessRecordWatch
    <2>5. CASE \E j \in Interests : Expire(j)  BY <1>2, <2>5, ExpireWatch
    <2>6. CASE \/ Moves \/ \E j \in Interests : Tell(j)
               \/ \E r \in Regs : WriteNoWait(r)
               \/ SetAddress \/ ForceError \/ UNCHANGED vars
        BY <1>2, <2>6, QuietWatch
    <2> QED  BY <2>1, <2>2, <2>3, <2>4, <2>5, <2>6, NextCases
<1>3. (\A i \in Interests : Watched(i) => WatchOK(i))'
    BY <1>2 DEF Watched
<1> QED  BY <1>1, <1>3 DEF WatchInv

\* WatchInv holds in every reachable state.
THEOREM WatchHolds == Spec => []WatchInv
<1> QED  BY InitWatch, NextWatch, PTL DEF Spec

\* A Watch succeeds only when the word it read last matches, or when another record
\* has begun an operation on its register before the worker looked at the word; and
\* all words it looks at were received since it was processed (WaitInfo::complete):
\* whatever is asked for, lost or reset, and however often.
THEOREM WatchTrue == Spec => WatchReads
<1>1. ASSUME WatchInv, [Next]_vars, NEW i \in OfKind("watch"), Named[i] \notin Boot, Succeeds(i),
             NEW a \in awaits[i]
      PROVE  /\ \A o \in Offsets(a.reg) : memRx[a.reg][o] >= a.op
             /\ \/ match[a.reg]
                \/ InProgress(a.reg) /\ i \notin recordsInprog[a.reg] /\ a.reg \notin Queued(i)
    <2>1. /\ i \in Interests /\ Watched(i) /\ WatchPlace(i) /\ WatchWords(i) /\ BusyInv
          /\ RegistersTypeOK /\ RecTyped /\ Named[i] \in Regs /\ Kind[i] = "watch"
          /\ pact[i] /\ ~pact'[i] /\ ~alarm'[i]
        BY <1>1, BusyTyped DEF OfKind, WatchInv, WatchOK, ServedInv, Succeeds, Watched
    <2>2. PICK r \in Regs : pc = "Unlocked" /\ Complete(i) /\ <<r, i>> \in completed
        BY <1>1, <2>1, EndsBy
    <2>3. r = Named[i] /\ a.reg = r  BY <2>1, <2>2 DEF WatchPlace, WatchWords, Here
    <2>4. CompleteWatch(i)  BY <2>1, <2>2 DEF Complete, CompleteSync
    <2>5. Usable(i)
        <3>1. Process(i) \/ pact' = pact
            BY <2>4 DEF CompleteWatch, Again, pactVars
        <3>2. ~Refuse(i)  BY <2>1 DEF Refuse, End, RecTyped, Flags
        <3> QED
            BY <2>1, <3>1, <3>2
            DEF Process, ProcessRead, ProcessWrite, ProcessWatch, SyncBegin, SyncEnd
    <2>6. /\ WordsSince(r, a.op) /\ state[r] # "Invalid" /\ state[r] \in States
        BY <2>1, <2>2, <2>3, <2>5 DEF WatchWords, Usable, Doomed, RegistersTypeOK
    <2>7. match[r] \/ state[r] # "InSync"
        BY <2>1, <2>3, <2>4, <2>5 DEF CompleteWatch, pactVars
    <2>8. i \notin recordsInprog[r] /\ ~Queuing(r, i)
        BY <2>1, <2>2, <2>3 DEF WatchPlace, Once, Here
    <2>9. match[r] \/ InProgress(r)  BY <2>6, <2>7 DEF States, InProgress
    <2>10. r \notin Queued(i)  BY <2>8 DEF Queued, Queuing
    <2> QED  BY <2>3, <2>6, <2>8, <2>9, <2>10 DEF WordsSince
<1>2. WatchInv /\ [Next]_vars =>
        [\A i \in OfKind("watch") : Named[i] \notin Boot /\ Succeeds(i) =>
            \A a \in awaits[i] :
               /\ \A o \in Offsets(a.reg) : memRx[a.reg][o] >= a.op
               /\ \/ match[a.reg]
                  \/ InProgress(a.reg) /\ i \notin recordsInprog[a.reg] /\ a.reg \notin Queued(i)]_vars
    BY <1>1
<1> QED  BY <1>2, WatchHolds, PTL DEF Spec, WatchReads
=============================================================================
