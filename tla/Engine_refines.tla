--------------------------- MODULE Engine_refines ---------------------------
(***************************************************************************)
(* Engine implements RegisterService, and the device holds the send cache. *)
(*                                                                         *)
(* Inv accounts for the words the driver holds.  What the proofs here add  *)
(* is an account of the messages that travel: InFlight says what a request *)
(* or a reply that a slot may still accept tells of the operation in       *)
(* progress, CacheKept what it tells of the device's registers.            *)
(***************************************************************************)
EXTENDS Engine_proofs

USE RegistersAssumption, EngineAssumption, NoWordAssumption

----------------------------------------------------------------------------
\* The operators of Registers mean in RegisterService what they mean in Engine:
\* its steps are those of the abstract specification.
LEMMA SameQueue ==
    ASSUME NEW r, NEW write, NEW i, Queue(r, write, i)
    PROVE  Service!Queue(r, write, i)
BY DEF Queue, QueueIdle, QueueWriteLater, QueueReadLater, MergeRead, InProgress, Supported, Begin,
       Action, flagVars,
       Service!Queue, Service!QueueIdle, Service!QueueWriteLater, Service!QueueReadLater,
       Service!MergeRead, Service!InProgress, Service!Supported, Service!Begin,
       Service!Action, Service!flagVars

LEMMA SameFinish ==
    ASSUME NEW r, Finish(r)
    PROVE  Service!Finish(r)
BY DEF Finish, StartQueuedWrite, StartQueuedRead, StartNothing, Handed, Begin, flagVars,
       Service!Finish, Service!StartQueuedWrite, Service!StartQueuedRead, Service!StartNothing,
       Service!Handed, Service!Begin, Service!flagVars

LEMMA SameCancel ==
    ASSUME NEW r, Cancel(r)
    PROVE  Service!Cancel(r)
BY DEF Cancel, Cancelled, flagVars, Service!Cancel, Service!Cancelled, Service!flagVars

LEMMA SameReset ==
    ASSUME Reset
    PROVE  Service!Reset
BY DEF Reset, Cancelled, NeverRead, Offsets,
       Service!Reset, Service!Cancelled, Service!NeverRead, Service!Offsets

LEMMA SameSwap ==
    ASSUME Swap
    PROVE  Service!Swap
BY DEF Swap, flagVars, listVars, Service!Swap, Service!flagVars, Service!listVars

LEMMA SameAttach ==
    ASSUME NEW named, Attach(named)
    PROVE  Service!Attach(named)
BY DEF Attach, flagVars, listVars, Service!Attach, Service!flagVars, Service!listVars

----------------------------------------------------------------------------
\* The sequence number tells two messages apart as long as both can be delivered.
LEMMA SameStamp ==
    ASSUME NEW a \in Nat, NEW b \in Nat, NEW n \in Nat, a < n, b < n,
           n - a <= SeqMod, n - b <= SeqMod, a % SeqMod = b % SeqMod
    PROVE  a = b
<1>1. /\ a \div SeqMod \in Int /\ b \div SeqMod \in Int
      /\ a = SeqMod * (a \div SeqMod) + (a % SeqMod)
      /\ b = SeqMod * (b \div SeqMod) + (b % SeqMod)
    OBVIOUS
<1>2. PICK k \in Int : k = a \div SeqMod - b \div SeqMod /\ a - b = SeqMod * k
    BY <1>1
<1>3. a - b < SeqMod /\ b - a < SeqMod  OBVIOUS
<1>4. ~(k >= 1)  BY <1>2, <1>3
<1>5. ~(k <= -1)  BY <1>2, <1>3
<1>6. k = 0  BY <1>4, <1>5
<1> QED  BY <1>2, <1>6

----------------------------------------------------------------------------
(***************************************************************************)
(* Messages in flight.                                                     *)
(***************************************************************************)

\* A step that sends nothing and serves nothing: the slots that wait go on
\* waiting for what they waited for, or for less.
Quiet ==
    /\ UNCHANGED <<requests, replies>>
    /\ sendSeq' \in {sendSeq, sendSeq + 1}
    /\ \A i \in Slots : slotState'[i] = "Sent" =>
          /\ slotState[i] = "Sent" /\ slotSeq'[i] = slotSeq[i]
          /\ \A j \in Pos : slotWord'[i][j] \in {NoWord, slotWord[i][j]}
    /\ \A r \in Regs : opSeq'[r] = opSeq[r] => devWritten[r] \subseteq devWritten'[r]

\* The types of the messages on the network.
LEMMA MessageTypes ==
    ASSUME Inv
    PROVE  /\ sendSeq \in Nat
           /\ \A m \in requests \cup replies : m.slot \in Slots /\ m.stamp \in Nat /\ m.seq \in Nat
           /\ \A q \in requests, j \in Pos : q.words[j] \in Word \cup {NoWord}
           /\ \A p \in replies, j \in Pos : p.words[j] \in AnswerWord \cup {NoWord}
           /\ \A i \in Slots, j \in Pos : slotWord[i][j] \in Word \cup {NoWord}
BY DEF Inv, TypeOK, DeviceTypeOK, NetworkTypeOK, SlotsTypeOK, Packet

\* What a slot carries belongs to the operation in progress of its register.
LEMMA CarriedCurrent ==
    ASSUME Inv, NEW i \in Slots, NEW j \in Pos, slotWord[i][j] # NoWord
    PROVE  /\ slotWord[i][j] \in Word
           /\ slotWord[i][j].reg \in Regs
           /\ slotState[i] # "Free"
           /\ InProgress(slotWord[i][j].reg)
           /\ slotWord[i][j].op = opSeq[slotWord[i][j].reg]
           /\ slotWord[i][j].write = (state[slotWord[i][j].reg] = "Writing")
           /\ slotWord[i][j].off \in Offsets(slotWord[i][j].reg)
           /\ slotWord[i][j].off \notin received[slotWord[i][j].reg]
<1>1. /\ slotWord[i][j] \in Word /\ slotWord[i][j].reg \in Regs
      /\ Carries(i, j, slotWord[i][j].reg) /\ InProgress(slotWord[i][j].reg)
      /\ slotWord[i][j].off \in Offsets(slotWord[i][j].reg) \ received[slotWord[i][j].reg]
      /\ slotWord[i][j].write = (state[slotWord[i][j].reg] = "Writing")
    BY CarriedWord
<1>2. slotState[i] # "Free" /\ slotWord[i][j].op = opSeq[slotWord[i][j].reg]
    BY <1>1 DEF Inv, SlotsCurrent
<1> QED  BY <1>1, <1>2

\* A step that neither sends nor serves leaves the messages in flight as true as
\* they were.
LEMMA QuietKeeps ==
    ASSUME Inv, Inv', Headers, RequestsKept, AnswersTrue, Quiet
    PROVE  Headers' /\ RequestsKept' /\ AnswersTrue'
<1>1. \A m \in requests \cup replies : m.slot \in Slots /\ m.stamp \in Nat
    BY MessageTypes
<1>2. sendSeq \in Nat /\ sendSeq' \in Nat /\ sendSeq' >= sendSeq  BY MessageTypes DEF Quiet
<1>3. requests' = requests /\ replies' = replies  BY DEF Quiet
<1>4. Headers'
  <2> SUFFICES ASSUME NEW m \in requests \cup replies
               PROVE  m.stamp < sendSeq' /\ m.seq = m.stamp % SeqMod
      BY <1>3 DEF Headers
  <2>1. m.stamp < sendSeq /\ m.seq = m.stamp % SeqMod  BY DEF Headers
  <2> QED  BY <2>1, <1>1, <1>2
<1>5. ASSUME NEW m \in requests \cup replies, Live(m)'
      PROVE  /\ Live(m)
             /\ \A j \in Pos : slotWord'[m.slot][j] \in {NoWord, slotWord[m.slot][j]}
  <2>1. slotState'[m.slot] = "Sent" /\ slotSeq'[m.slot] = m.seq /\ sendSeq' - m.stamp <= Lifetime
      BY <1>5 DEF Live, Matches, Deliverable
  <2>2. sendSeq - m.stamp <= Lifetime
      BY <2>1, <1>1, <1>2, MessageTypes DEF Quiet
  <2> QED  BY <2>1, <2>2, <1>1 DEF Quiet, Live, Matches, Deliverable
<1>6. RequestsKept'
    BY <1>3, <1>5 DEF RequestsKept
<1>7. AnswersTrue'
  <2> SUFFICES ASSUME NEW p \in replies, NEW j \in Pos, Live(p)',
                      slotWord'[p.slot][j] # NoWord,
                      Echoes(p.words[j], slotWord'[p.slot][j])
               PROVE  IF slotWord'[p.slot][j].write
                      THEN slotWord'[p.slot][j].off \in devWritten'[slotWord'[p.slot][j].reg]
                      ELSE p.words[j].data = opSeq'[slotWord'[p.slot][j].reg]
      BY <1>3 DEF AnswersTrue, Echoes
  <2>1. Live(p) /\ slotWord'[p.slot][j] = slotWord[p.slot][j] /\ p.slot \in Slots
      BY <1>1, <1>5
  <2>2. PICK w \in Word : w = slotWord[p.slot][j] /\ w.reg \in Regs /\ w.op = opSeq[w.reg]
      BY <2>1, CarriedCurrent
  <2>3. Carries(p.slot, j, w.reg)'  BY <2>1, <2>2 DEF Carries
  <2>4. opSeq'[w.reg] = opSeq[w.reg]
      BY <2>1, <2>2, <2>3 DEF Inv, SlotsCurrent
  <2>5. devWritten[w.reg] \subseteq devWritten'[w.reg]  BY <2>2, <2>4 DEF Quiet
  <2>6. IF w.write THEN w.off \in devWritten[w.reg] ELSE p.words[j].data = opSeq[w.reg]
      BY <2>1, <2>2 DEF AnswersTrue
  <2> QED  BY <2>1, <2>2, <2>4, <2>5, <2>6
<1> QED  BY <1>4, <1>6, <1>7

\* What a slot that is sent anew waits for is the new request alone: a message
\* that can still be delivered has another number, since the numbers come round
\* too late.
LEMMA SendEffect ==
    ASSUME Inv, Headers, SendMessage
    PROVE  \E i \in Slots, new \in requests' :
               /\ slotState' = [slotState EXCEPT ![i] = "Sent"]
               /\ requests' = requests \cup {new}
               /\ new.slot = i /\ new.seq = SeqNumber /\ new.stamp = sendSeq
               /\ new.words = slotWord[i]
               /\ \A m \in requests \cup replies : Live(m)' => Live(m) /\ m.slot # i
<1>1. PICK i \in Slots :
          /\ slotSeq' = [slotSeq EXCEPT ![i] = SeqNumber]
          /\ slotState' = [slotState EXCEPT ![i] = "Sent"]
          /\ requests' = requests \cup
                 {[slot |-> i, seq |-> SeqNumber, stamp |-> sendSeq, words |-> slotWord[i]]}
    BY DEF SendMessage
<1>2. sendSeq' = sendSeq + 1  BY DEF SendMessage
<1>3. sendSeq \in Nat /\ \A m \in requests \cup replies : m.slot \in Slots /\ m.stamp \in Nat
    BY MessageTypes
<1>4. \A m \in requests \cup replies : m.stamp < sendSeq /\ m.seq = m.stamp % SeqMod
    BY DEF Headers
<1>5. /\ slotState \in [Slots -> {"Free", "Ready", "Sent"}]
      /\ slotSeq \in [Slots -> 0 .. SeqMod - 1]
    BY DEF Inv, TypeOK, SlotsTypeOK
<1>6. PICK new \in requests' :
          /\ new = [slot |-> i, seq |-> SeqNumber, stamp |-> sendSeq, words |-> slotWord[i]]
          /\ requests' = requests \cup {new}
    BY <1>1
<1>7. /\ new.slot = i /\ new.seq = SeqNumber /\ new.stamp = sendSeq
      /\ new.words = slotWord[i]
    BY <1>6
<1>8. ASSUME NEW m \in requests \cup replies, Live(m)'
      PROVE  Live(m) /\ m.slot # i
  <2>1. slotState'[m.slot] = "Sent" /\ slotSeq'[m.slot] = m.seq /\ sendSeq' - m.stamp <= Lifetime
      BY <1>8 DEF Live, Matches, Deliverable
  <2>2. m.slot # i
    <3>1. SUFFICES ASSUME m.slot = i  PROVE FALSE  OBVIOUS
    <3>2. m.stamp % SeqMod = sendSeq % SeqMod
        BY <2>1, <3>1, <1>1, <1>4, <1>5 DEF SeqNumber
    <3>3. m.stamp < sendSeq' /\ sendSeq < sendSeq' /\ sendSeq' - m.stamp <= SeqMod
          /\ sendSeq' - sendSeq <= SeqMod /\ sendSeq' \in Nat
        BY <2>1, <1>2, <1>3, <1>4
    <3>4. m.stamp = sendSeq  BY <3>2, <3>3, <1>3, SameStamp
    <3> QED  BY <3>4, <1>3, <1>4
  <2>3. slotState[m.slot] = "Sent" /\ slotSeq[m.slot] = m.seq
      BY <2>1, <2>2, <1>1, <1>3, <1>5
  <2>4. sendSeq - m.stamp <= Lifetime  BY <2>1, <1>2, <1>3
  <2> QED  BY <2>2, <2>3, <2>4 DEF Live, Matches, Deliverable
<1> QED  BY <1>1, <1>6, <1>7, <1>8

\* So what is in flight is as true after a message is sent as before.
LEMMA SendKeeps ==
    ASSUME Inv, Inv', Headers, RequestsKept, AnswersTrue, SendMessage
    PROVE  Headers' /\ RequestsKept' /\ AnswersTrue'
<1>1. PICK i \in Slots, new \in requests' :
          /\ requests' = requests \cup {new}
          /\ new.slot = i /\ new.seq = SeqNumber /\ new.stamp = sendSeq
          /\ new.words = slotWord[i]
          /\ \A m \in requests \cup replies : Live(m)' => Live(m) /\ m.slot # i
    BY SendEffect
<1>2. /\ sendSeq' = sendSeq + 1
      /\ UNCHANGED <<slotWord, replies, opSeq, devWritten>>
    BY DEF SendMessage, svcVars
<1>3. sendSeq \in Nat /\ \A m \in requests \cup replies : m.slot \in Slots /\ m.stamp \in Nat
    BY MessageTypes
<1>4. Headers'
  <2> SUFFICES ASSUME NEW m \in requests' \cup replies'
               PROVE  m.stamp < sendSeq' /\ m.seq = m.stamp % SeqMod
      BY DEF Headers
  <2>1. CASE m = new  BY <2>1, <1>1, <1>2, <1>3 DEF SeqNumber
  <2>2. CASE m \in requests \cup replies
    <3>1. m.stamp < sendSeq /\ m.seq = m.stamp % SeqMod  BY <2>2 DEF Headers
    <3> QED  BY <2>2, <3>1, <1>2, <1>3
  <2> QED  BY <2>1, <2>2, <1>1, <1>2
<1>5. RequestsKept'
  <2> SUFFICES ASSUME NEW q \in requests', NEW j \in Pos
               PROVE  /\ q.words[j] # NoWord => q.words[j].off \in Offsets(q.words[j].reg)
                      /\ Live(q)' => slotWord[q.slot][j] \in {NoWord, q.words[j]}
      BY <1>2 DEF RequestsKept
  <2>1. CASE q = new
      BY <2>1, <1>1, CarriedCurrent
  <2>2. CASE q \in requests
      BY <2>2, <1>1 DEF RequestsKept
  <2> QED  BY <2>1, <2>2, <1>1
<1>6. AnswersTrue'
    BY <1>1, <1>2 DEF AnswersTrue, Echoes
<1> QED  BY <1>4, <1>5, <1>6

\* What the device adds by executing a request that may still be delivered.
LEMMA ServeKeeps ==
    ASSUME Inv, Inv', Headers, RequestsKept, AnswersTrue, NEW q \in requests, Serve(q)
    PROVE  Headers' /\ RequestsKept' /\ AnswersTrue'
<1>1. /\ UNCHANGED <<state, opSeq, slotVars, devVars, requests>>
      /\ devWritten' = [r \in Regs |-> devWritten[r] \cup
            {w.off : w \in {v \in Writes(q, r) : state[r] = "Writing" /\ v.op = opSeq[r]}}]
      /\ sendSeq - q.stamp <= Lifetime
    BY DEF Serve
<1>2. UNCHANGED <<slotState, slotSeq, slotWord, sendSeq>>  BY <1>1 DEF slotVars, devVars
<1>3. PICK bad :
          replies' = replies \cup
             {[slot |-> q.slot, seq |-> q.seq, stamp |-> q.stamp,
               words |-> [j \in Pos |-> IF j \in bad THEN NoWord ELSE Answer(q.words[j])]]}
    BY DEF Serve
<1>4. PICK new \in replies' :
          /\ new.slot = q.slot /\ new.seq = q.seq /\ new.stamp = q.stamp
          /\ \A j \in Pos : new.words[j] = IF j \in bad THEN NoWord ELSE Answer(q.words[j])
          /\ replies' = replies \cup {new}
    BY <1>3
<1>5. \A m \in requests \cup replies' : Live(m)' <=> Live(m)
    BY <1>2 DEF Live, Matches, Deliverable
<1>6. Headers'  BY <1>1, <1>2, <1>4 DEF Headers
<1>7. RequestsKept'  BY <1>1, <1>2, <1>5 DEF RequestsKept
<1>8. AnswersTrue'
  <2> SUFFICES ASSUME NEW p \in replies', NEW j \in Pos, Live(p),
                      slotWord[p.slot][j] # NoWord,
                      Echoes(p.words[j], slotWord[p.slot][j])
               PROVE  IF slotWord[p.slot][j].write
                      THEN slotWord[p.slot][j].off \in devWritten'[slotWord[p.slot][j].reg]
                      ELSE p.words[j].data = opSeq[slotWord[p.slot][j].reg]
      BY <1>1, <1>2, <1>5 DEF AnswersTrue, Echoes
  <2>0. p.slot \in Slots  BY <1>4, MessageTypes
  <2>1. PICK w \in Word :
            /\ w = slotWord[p.slot][j] /\ w.reg \in Regs /\ w.op = opSeq[w.reg]
            /\ w.write = (state[w.reg] = "Writing")
      BY <2>0, CarriedCurrent
  <2>2. CASE p \in replies
    <3>1. IF w.write THEN w.off \in devWritten[w.reg] ELSE p.words[j].data = opSeq[w.reg]
        BY <2>1, <2>2 DEF AnswersTrue
    <3> QED  BY <2>1, <3>1, <1>1
  <2>3. CASE p = new
    <3>1. Live(q)  BY <2>3, <1>4 DEF Live, Matches, Deliverable
    <3>2. w = q.words[j]  BY <3>1, <2>1, <2>3, <1>4 DEF RequestsKept
    <3>3. w # NoWord  BY <2>1
    <3>4. p.words[j] = Answer(w)  BY <2>1, <2>3, <3>2, <1>4 DEF Echoes
    <3>5. CASE w.write
      <4>1. state[w.reg] = "Writing" /\ w.op = opSeq[w.reg]  BY <2>1, <3>5
      <4>2. w \in Writes(q, w.reg)  BY <3>2, <3>3, <3>5 DEF Writes
      <4>3. w.off \in devWritten'[w.reg]  BY <4>1, <4>2, <2>1, <1>1
      <4> QED  BY <4>3, <2>1, <3>5
    <3>6. CASE ~w.write
      <4>1. p.words[j].data = opSeq[w.reg]  BY <3>3, <3>4, <3>6 DEF Answer
      <4> QED  BY <4>1, <2>1, <3>6
    <3> QED  BY <3>5, <3>6
  <2> QED  BY <2>2, <2>3, <1>4
<1> QED  BY <1>6, <1>7, <1>8

----------------------------------------------------------------------------
(***************************************************************************)
(* Each action maps to a step of RegisterService, or to none, and keeps    *)
(* what is true of the words received.                                     *)
(***************************************************************************)

\* A step the registers do not see.
LEMMA UnseenStep ==
    ASSUME Inv, WordsTrue, UNCHANGED svcVars, UNCHANGED received
    PROVE  WordsTrue' /\ UNCHANGED svcVars
BY DEF svcVars, WordsTrue

\* A request made of a register.
LEMMA QueueSeen ==
    ASSUME Inv, WordsTrue, NEW r \in Regs, NEW write \in BOOLEAN,
           NEW i \in Interests \cup {NoInterest}, QueueReg(r, write, i)
    PROVE  /\ WordsTrue' /\ Service!Next
           /\ \A q \in Regs : opSeq'[q] = opSeq[q] => devWritten[q] \subseteq devWritten'[q]
<1>1. Queue(r, write, i)  BY DEF QueueReg
<1>2. Service!Next  BY <1>1, SameQueue DEF Service!Next
<1>3. /\ opSeq \in [Regs -> Nat] /\ received \in [Regs -> SUBSET Nat]
      /\ state \in [Regs -> States] /\ devWritten \in [Regs -> SUBSET Nat]
    BY DEF Inv, TypeOK, RegsTypeOK, RegistersTypeOK
<1>4. CASE InProgress(r)
  <2>1. UNCHANGED <<state, opSeq, devWritten, memRx, received>>
      BY <1>1, <1>4 DEF QueueReg, Queue, QueueIdle, QueueWriteLater, QueueReadLater, MergeRead,
                        regVars
  <2> QED  BY <2>1, <1>2 DEF WordsTrue
<1>5. CASE ~InProgress(r)
  <2>1. Track(r) /\ Begin(r, write) /\ memRx' = memRx
      BY <1>1, <1>5 DEF QueueReg, Queue, QueueIdle, QueueWriteLater, QueueReadLater, MergeRead,
                        InProgress
  <2>2. received' = [received EXCEPT ![r] = {}]  BY <2>1 DEF Track
  <2>3. \A q \in Regs \ {r} : state'[q] = state[q] /\ opSeq'[q] = opSeq[q]
                                /\ devWritten'[q] = devWritten[q]
      BY <2>1, <1>3 DEF Begin
  <2>4. opSeq'[r] # opSeq[r]  BY <2>1, <1>3 DEF Begin
  <2>5. WordsTrue'
    <3> SUFFICES ASSUME NEW q \in Regs, NEW o \in received'[q]
                 PROVE  /\ state'[q] = "Reading" => memRx'[q][o] = opSeq'[q]
                        /\ state'[q] = "Writing" => o \in devWritten'[q]
        BY DEF WordsTrue
    <3>1. q # r /\ o \in received[q]  BY <2>2, <1>3
    <3> QED  BY <3>1, <2>1, <2>3 DEF WordsTrue
  <2> QED  BY <1>2, <2>3, <2>4, <2>5
<1> QED  BY <1>4, <1>5

\* A reset.
LEMMA ResetSeen ==
    ASSUME ResetAll
    PROVE  WordsTrue' /\ Service!Next /\ UNCHANGED <<opSeq, devWritten>>
<1>1. Reset  BY DEF ResetAll
<1>2. \A r \in Regs : state'[r] = "Invalid"  BY <1>1 DEF Reset
<1>3. WordsTrue'  BY <1>2 DEF WordsTrue
<1>4. Service!Next  BY <1>1, SameReset DEF Service!Next
<1> QED  BY <1>1, <1>3, <1>4 DEF Reset

\* A timeout, or a word refused.
LEMMA TimeoutSeen ==
    ASSUME Inv, WordsTrue, NEW i \in Slots, DoTimeout(i)
    PROVE  /\ WordsTrue' /\ (Service!Next \/ UNCHANGED svcVars)
           /\ UNCHANGED <<opSeq, devWritten>>
<1>1. received' = received  BY DEF DoTimeout, regVars
<1>2. CASE UNCHANGED svcVars
    BY <1>1, <1>2, UnseenStep DEF svcVars
<1>3. ASSUME NEW j \in Pos, slotWord[i][j] # NoWord, Cancel(slotWord[i][j].reg)
      PROVE  WordsTrue' /\ Service!Next /\ UNCHANGED <<opSeq, devWritten>>
  <2>1. PICK r \in Regs : Cancel(r)  BY <1>3, CarriedCurrent
  <2>2. Service!Next  BY <2>1, SameCancel DEF Service!Next
  <2>3. /\ state' = [state EXCEPT ![r] = "Invalid"] /\ state \in [Regs -> States]
        /\ UNCHANGED <<opSeq, devWritten, memRx>>
      BY <2>1 DEF Cancel, Inv, TypeOK, RegsTypeOK, RegistersTypeOK
  <2>4. \A q \in Regs : state'[q] \in {state[q], "Invalid"}  BY <2>3
  <2>5. WordsTrue'  BY <2>3, <2>4, <1>1 DEF WordsTrue
  <2> QED  BY <2>2, <2>3, <2>5
<1> QED  BY <1>2, <1>3 DEF DoTimeout, First

\* The device executes a request.
LEMMA ServeSeen ==
    ASSUME Inv, WordsTrue, RequestsKept, NEW q \in requests, Serve(q)
    PROVE  WordsTrue' /\ Service!Next
<1>1. /\ devWritten' = [r \in Regs |-> devWritten[r] \cup
            {w.off : w \in {v \in Writes(q, r) : state[r] = "Writing" /\ v.op = opSeq[r]}}]
      /\ UNCHANGED <<present, state, flagVars, listVars, records, opSeq, memRx, received>>
    BY DEF Serve, regVars
<1>2. devWritten \in [Regs -> SUBSET Nat]  BY DEF Inv, TypeOK, RegsTypeOK, RegistersTypeOK
<1>3. WordsTrue'  BY <1>1 DEF WordsTrue
<1>4. ASSUME NEW r \in Regs, NEW w \in Writes(q, r)  PROVE w.off \in Offsets(r)
    BY DEF Writes, RequestsKept
<1>5. \A r \in Regs : /\ devWritten[r] \subseteq devWritten'[r]
                      /\ devWritten'[r] \ devWritten[r] \subseteq Offsets(r)
    BY <1>1, <1>4
<1>6. \A r \in Regs : state[r] # "Writing" => devWritten'[r] = devWritten[r]
    BY <1>1
<1>7. devWritten' \in [Regs -> SUBSET Nat]
  <2>1. \A r \in Regs : devWritten'[r] \subseteq Nat
      BY <1>2, <1>5 DEF Offsets
  <2> QED  BY <1>1, <2>1
<1>8. Service!Store
    BY <1>1, <1>5, <1>6, <1>7 DEF Service!Store, Service!Offsets, Offsets, flagVars, listVars,
                                  Service!flagVars, Service!listVars
<1> QED  BY <1>3, <1>8 DEF Service!Next

\* Slot i carries, at position j, word w of register r.
At(i, j, w, r) == w \in Word /\ r \in Regs /\ w = slotWord[i][j] /\ r = w.reg

\* The operation is over when, and only when, its last word is received.
LEMMA LastWord ==
    ASSUME Inv, NEW i \in Slots, NEW j \in Pos, NEW w \in Word, NEW r \in Regs,
           At(i, j, w, r)
    PROVE  nremaining[r] - 1 = 0 => received[r] \cup {w.off} = Offsets(r)
<1>0. w \in Word /\ r \in Regs /\ w = slotWord[i][j] /\ r = w.reg  BY DEF At
<1>1. InProgress(r) /\ w.off \in (0 .. nextSend[r] - 1) \ received[r]
    BY <1>0, CarriedWord
<1>2. /\ nextSend[r] <= Size[r] /\ received[r] \subseteq 0 .. nextSend[r] - 1
      /\ nremaining[r] = Size[r] - Cardinality(received[r])
      /\ nextSend[r] \in Nat /\ Size[r] \in Nat
    BY <1>0, <1>1 DEF Inv, WordsAccounted, Tracked, TypeOK, RegsTypeOK
<1>3. PICK n \in Nat : n = Size[r]  BY <1>2
<1>4. PICK R : R = received[r]  OBVIOUS
<1>5. R \subseteq 0 .. n - 1 /\ w.off \in (0 .. n - 1) \ R
    BY <1>1, <1>2, <1>3, <1>4
<1>6. Cardinality(R) \in Nat /\ (Cardinality(R) + 1 = n => R \cup {w.off} = 0 .. n - 1)
    BY <1>5, CountReceived
<1>7. nremaining[r] - 1 = 0 => Cardinality(R) + 1 = n
    BY <1>2, <1>3, <1>4, <1>6
<1> QED  BY <1>3, <1>4, <1>6, <1>7 DEF Offsets

\* What storing a word of a reply does to the operation: it goes on with one word
\* more, or it is over, with all of them, and another may have begun.
Received(r, o) ==
    /\ received' = [received EXCEPT ![r] = @ \cup {o}]
    /\ UNCHANGED <<state, flagVars, listVars, records, opSeq, devWritten>>

Completed(r, o) ==
    /\ received[r] \cup {o} = Offsets(r)
    /\ Finish(r)
    /\ \A q \in Regs \ {r} : /\ state'[q] = state[q] /\ opSeq'[q] = opSeq[q]
                             /\ received'[q] = received[q] /\ devWritten'[q] = devWritten[q]
    /\ \/ state'[r] = "InSync" /\ ~writeQueued[r] /\ UNCHANGED <<opSeq, devWritten>>
       \/ received'[r] = {} /\ opSeq'[r] # opSeq[r] /\ state'[r] = "Writing" /\ writeQueued[r]
       \/ received'[r] = {} /\ opSeq'[r] # opSeq[r] /\ state'[r] = "Reading" /\ ~writeQueued[r]

LEMMA ReceiveEffect ==
    ASSUME Inv, NEW i \in Slots, NEW j \in Pos, NEW w \in Word, NEW r \in Regs,
           NEW data, At(i, j, w, r),
           Receive(i, j, w, data)
    PROVE  /\ memRx' = IF w.write THEN memRx ELSE [memRx EXCEPT ![r][w.off] = data]
           /\ slotWord' = [slotWord EXCEPT ![i][j] = NoWord]
           /\ UNCHANGED <<present, slotState, slotSeq, sendSeq, resetReq>>
           /\ Received(r, w.off) \/ Completed(r, w.off)
<1>0. w \in Word /\ r \in Regs /\ r = w.reg /\ w.off \notin received[r]
    BY CarriedCurrent DEF At
<1>1. /\ memRx' = IF w.write THEN memRx ELSE [memRx EXCEPT ![r][w.off] = data]
      /\ slotWord' = [slotWord EXCEPT ![i][j] = NoWord]
      /\ IF nremaining[r] - 1 = 0 THEN Finish(r)
         ELSE UNCHANGED <<state, flagVars, listVars, records, opSeq, devWritten>>
      /\ IF nremaining[r] - 1 = 0 /\ (writeQueued[r] \/ readQueued[r]) THEN Track(r)
         ELSE received' = [received EXCEPT ![r] = @ \cup {w.off}]
      /\ UNCHANGED <<present, slotState, slotSeq, sendSeq, resetReq>>
    BY <1>0 DEF Receive
<1>2. /\ opSeq \in [Regs -> Nat] /\ received \in [Regs -> SUBSET Nat]
      /\ state \in [Regs -> States] /\ devWritten \in [Regs -> SUBSET Nat]
      /\ writeQueued \in [Regs -> BOOLEAN]
    BY DEF Inv, TypeOK, RegsTypeOK, RegistersTypeOK
<1>3. CASE nremaining[r] - 1 # 0
    BY <1>1, <1>3 DEF Received
<1>4. CASE nremaining[r] - 1 = 0
  <2>1. Finish(r) /\ received[r] \cup {w.off} = Offsets(r)  BY <1>1, <1>4, LastWord
  <2>2. CASE StartNothing(r)
    <3>1. /\ state' = [state EXCEPT ![r] = "InSync"] /\ UNCHANGED <<opSeq, devWritten>>
          /\ ~writeQueued[r] /\ received' = [received EXCEPT ![r] = @ \cup {w.off}]
        BY <2>2, <1>1 DEF StartNothing
    <3> QED  BY <3>1, <2>1, <1>1, <1>2 DEF Completed
  <2>3. ASSUME NEW write \in BOOLEAN, Begin(r, write), writeQueued[r] = write,
               writeQueued[r] \/ readQueued[r]
        PROVE  Completed(r, w.off)
    <3>1. Track(r)  BY <1>1, <1>4, <2>3
    <3>2. received' = [received EXCEPT ![r] = {}]  BY <3>1 DEF Track
    <3>3. /\ state' = [state EXCEPT ![r] = IF write THEN "Writing" ELSE "Reading"]
          /\ opSeq' = [opSeq EXCEPT ![r] = @ + 1]
          /\ devWritten' = [devWritten EXCEPT ![r] = {}]
        BY <2>3 DEF Begin
    <3>4. \A q \in Regs \ {r} : /\ state'[q] = state[q] /\ opSeq'[q] = opSeq[q]
                                /\ received'[q] = received[q] /\ devWritten'[q] = devWritten[q]
        BY <3>2, <3>3, <1>2
    <3>5. received'[r] = {} /\ opSeq'[r] # opSeq[r]  BY <3>2, <3>3, <1>2
    <3>6. state'[r] = IF write THEN "Writing" ELSE "Reading"  BY <3>3, <1>2
    <3> QED  BY <2>1, <2>3, <3>4, <3>5, <3>6 DEF Completed
  <2>4. CASE StartQueuedWrite(r)
    <3>1. writeQueued[r] = TRUE /\ Begin(r, TRUE)  BY <2>4, <1>2 DEF StartQueuedWrite
    <3>2. Completed(r, w.off)  BY <3>1, <2>3
    <3> QED  BY <3>2, <1>1
  <2>5. CASE StartQueuedRead(r)
    <3>1. writeQueued[r] = FALSE /\ readQueued[r] /\ Begin(r, FALSE)
        BY <2>5, <1>2 DEF StartQueuedRead
    <3>2. Completed(r, w.off)  BY <3>1, <2>3
    <3> QED  BY <3>2, <1>1
  <2> QED  BY <2>1, <2>2, <2>4, <2>5 DEF Finish
<1> QED  BY <1>3, <1>4

\* One word of a reply that tells the truth: the abstract cache takes it, and
\* the operation ends only with every word its own.
LEMMA ReceiveSeen ==
    ASSUME Inv, WordsTrue, NEW i \in Slots, NEW j \in Pos, NEW w \in Word, NEW r \in Regs,
           NEW data, At(i, j, w, r),
           Receive(i, j, w, data),
           IF w.write THEN w.off \in devWritten[r] ELSE data = opSeq[r]
    PROVE  /\ WordsTrue' /\ (Service!Next \/ UNCHANGED svcVars)
           /\ \A q \in Regs : opSeq'[q] = opSeq[q] => devWritten[q] \subseteq devWritten'[q]
<1>1. /\ w \in Word /\ r \in Regs /\ w.off \in Offsets(r) /\ InProgress(r)
      /\ w.write = (state[r] = "Writing")
    BY CarriedCurrent DEF At
<1>2. /\ memRx' = IF w.write THEN memRx ELSE [memRx EXCEPT ![r][w.off] = data]
      /\ present' = present
      /\ Received(r, w.off) \/ Completed(r, w.off)
    BY ReceiveEffect
<1>3. /\ DOMAIN memRx = Regs /\ \A q \in Regs : memRx[q] \in [Offsets(q) -> Nat]
      /\ opSeq \in [Regs -> Nat] /\ received \in [Regs -> SUBSET Nat]
      /\ devWritten \in [Regs -> SUBSET Nat]
    BY DEF Inv, TypeOK, RegsTypeOK, RegistersTypeOK
<1>4. /\ \A q \in Regs \ {r} : memRx'[q] = memRx[q]
      /\ \A o \in Offsets(r) : memRx'[r][o] = IF ~w.write /\ o = w.off THEN opSeq[r] ELSE memRx[r][o]
    BY <1>1, <1>2, <1>3
<1>5. ASSUME NEW o \in received[r] \cup {w.off}, o \in Offsets(r)
      PROVE  /\ state[r] = "Reading" => memRx'[r][o] = opSeq[r]
             /\ state[r] = "Writing" => o \in devWritten[r]
  <2>1. CASE w.write
    <3>1. state[r] = "Writing"  BY <2>1, <1>1
    <3> QED  BY <3>1, <2>1, <1>5 DEF WordsTrue
  <2>2. CASE ~w.write
    <3>1. state[r] # "Writing"  BY <2>2, <1>1
    <3> QED  BY <3>1, <2>2, <1>4, <1>5 DEF WordsTrue
  <2> QED  BY <2>1, <2>2
<1>6. CASE Received(r, w.off)
  <2>1. /\ received' = [received EXCEPT ![r] = @ \cup {w.off}]
        /\ UNCHANGED <<state, flagVars, listVars, records, opSeq, devWritten>>
      BY <1>6 DEF Received
  <2>2. WordsTrue'
    <3> SUFFICES ASSUME NEW q \in Regs, NEW o \in received'[q]
                 PROVE  /\ state[q] = "Reading" => memRx'[q][o] = opSeq[q]
                        /\ state[q] = "Writing" => o \in devWritten[q]
        BY <2>1 DEF WordsTrue
    <3>1. CASE q # r  BY <3>1, <2>1, <1>3, <1>4 DEF WordsTrue
    <3>2. CASE q = r
      <4>1. o \in received[r] \cup {w.off}  BY <3>2, <2>1, <1>3
      <4>2. received[r] \subseteq Offsets(r)
          BY <1>1 DEF Inv, WordsAccounted, Tracked, Offsets, TypeOK, RegsTypeOK
      <4> QED  BY <3>2, <4>1, <4>2, <1>1, <1>5
    <3> QED  BY <3>1, <3>2
  <2>3. CASE w.write
      BY <2>1, <2>2, <2>3, <1>2 DEF svcVars
  <2>4. CASE ~w.write
    <3>1. state[r] = "Reading"  BY <2>4, <1>1 DEF InProgress
    <3>2. memRx' = [memRx EXCEPT ![r] = [memRx[r] EXCEPT ![w.off] = opSeq[r]]]  BY <2>4, <1>2
    <3>3. Service!Fetch(r)
        BY <3>1, <3>2, <1>1, <1>2, <2>1
           DEF Service!Fetch, Service!Fetched, Service!Offsets, Offsets, flagVars, listVars,
               Service!flagVars, Service!listVars
    <3> QED  BY <3>3, <2>1, <2>2 DEF Service!Next
  <2> QED  BY <2>3, <2>4
<1>7. CASE Completed(r, w.off)
  <2>1. /\ received[r] \cup {w.off} = Offsets(r) /\ Service!Finish(r)
        /\ \A q \in Regs \ {r} : /\ state'[q] = state[q] /\ opSeq'[q] = opSeq[q]
                                 /\ received'[q] = received[q] /\ devWritten'[q] = devWritten[q]
        /\ \/ state'[r] = "InSync" /\ UNCHANGED <<opSeq, devWritten>>
           \/ received'[r] = {} /\ opSeq'[r] # opSeq[r]
      BY <1>7, SameFinish DEF Completed
  <2>2. WordsTrue'  BY <2>1, <1>4 DEF WordsTrue
  <2>3. \A q \in Regs : opSeq'[q] = opSeq[q] => devWritten[q] \subseteq devWritten'[q]
      BY <2>1
  <2>4. \A o \in Offsets(r) : /\ state[r] = "Reading" => memRx'[r][o] = opSeq[r]
                              /\ state[r] = "Writing" => o \in devWritten[r]
      BY <2>1, <1>5
  <2>5. CASE w.write
    <3>1. state[r] = "Writing" /\ memRx' = memRx  BY <2>5, <1>1, <1>2
    <3>2. Service!Acknowledge(r)
        BY <3>1, <2>1, <2>4, <1>2 DEF Service!Acknowledge, Service!Done, Service!Offsets, Offsets
    <3> QED  BY <3>2, <2>2, <2>3 DEF Service!Next
  <2>6. CASE ~w.write
    <3>1. state[r] = "Reading"  BY <2>6, <1>1 DEF InProgress
    <3>2. memRx' = [memRx EXCEPT ![r] = [memRx[r] EXCEPT ![w.off] = opSeq[r]]]  BY <2>6, <1>2
    <3>3. \A o \in Offsets(r) : [memRx[r] EXCEPT ![w.off] = opSeq[r]][o] = opSeq[r]
        BY <3>1, <3>2, <2>4, <1>3
    <3>4. Service!Fetch(r)
        BY <3>1, <3>2, <3>3, <2>1, <1>1, <1>2
           DEF Service!Fetch, Service!Fetched, Service!Done, Service!Offsets, Offsets
    <3> QED  BY <3>4, <2>2, <2>3 DEF Service!Next
  <2> QED  BY <2>5, <2>6
<1> QED  BY <1>2, <1>6, <1>7

----------------------------------------------------------------------------
\* A step the registers and the messages do not see.
LEMMA UnseenFlight ==
    ASSUME Inv, Inv', InFlight,
           UNCHANGED <<svcVars, received, slotState, slotSeq, slotWord, sendSeq, requests, replies>>,
           PacketLive'
    PROVE  InFlight' /\ UNCHANGED svcVars
<1>1. WordsTrue'  BY UnseenStep DEF InFlight
<1>2. Quiet
  <2>1. devWritten' = devWritten  BY DEF svcVars
  <2> QED  BY <2>1 DEF Quiet
<1> QED  BY <1>1, <1>2, QuietKeeps DEF InFlight

\* What handle_send puts in a message: the next word of the register at the front.
LEMMA FillEffect ==
    ASSUME Inv, FillWord
    PROVE  \E i \in Slots, j \in Pos, w \in Word, r \in Regs :
               /\ slotWord[i][j] = NoWord /\ slotState[i] # "Sent"
               /\ slotState' = [slotState EXCEPT ![i] = "Ready"]
               /\ slotWord' = [slotWord EXCEPT ![i][j] = w]
               /\ w.reg = r /\ InProgress(r) /\ w.off \in Offsets(r)
               /\ w.write = (state[r] = "Writing")
               /\ state[r] = "Writing" => w.val = memTx[r][w.off]
<1> DEFINE r == Head(regSend)
           o == nextSend[r]
           w == [reg |-> r, off |-> o, write |-> state[r] = "Writing", op |-> opSeq[r],
                 val |-> IF state[r] = "Writing" THEN memTx[r][o] ELSE 0]
<1>1. r \in Regs /\ InProgress(r) /\ o \in Offsets(r)
    BY HeadOfQueue DEF FillWord, Inv
<1>2. w \in Word
  <2>1. (IF state[r] = "Writing" THEN memTx[r][o] ELSE 0) \in Nat
      BY <1>1 DEF Inv, TypeOK, RegsTypeOK
  <2>2. (state[r] = "Writing") \in BOOLEAN  OBVIOUS
  <2>3. opSeq[r] \in Nat /\ o \in Nat
      BY <1>1 DEF Inv, TypeOK, RegsTypeOK, RegistersTypeOK
  <2> QED  BY <2>1, <2>2, <2>3, <1>1 DEF Word
<1>3. PICK i \in Slots, j \in Pos :
          /\ slotWord[i][j] = NoWord /\ i \in Room
          /\ slotState' = [slotState EXCEPT ![i] = "Ready"]
          /\ slotWord' = [slotWord EXCEPT ![i][j] = w]
    BY DEF FillWord, First
<1>4. slotState[i] # "Sent"  BY <1>3 DEF Room
<1>5. w.reg = r /\ w.off = o /\ w.write = (state[r] = "Writing")
      /\ (state[r] = "Writing" => w.val = memTx[r][w.off])
    OBVIOUS
<1> HIDE DEF w, r, o
<1> QED  BY <1>1, <1>2, <1>3, <1>4, <1>5

\* While the worker fills and sends messages, and gives up the lock.
LEMMA SendFlight ==
    ASSUME Inv, Inv', InFlight, FillWord \/ FillDone \/ SendMessage \/ SendBlocked \/ SendDone
    PROVE  InFlight' /\ (Service!Next \/ UNCHANGED svcVars)
<1>0. /\ slotState \in [Slots -> {"Free", "Ready", "Sent"}]
      /\ slotSeq \in [Slots -> 0 .. SeqMod - 1]
      /\ slotWord \in [Slots -> [Pos -> Word \cup {NoWord}]]
    BY DEF Inv, TypeOK, SlotsTypeOK
<1>1. CASE FillWord
  <2>1. PICK i \in Slots, j \in Pos, w \in Word :
            /\ slotState' = [slotState EXCEPT ![i] = "Ready"]
            /\ slotWord' = [slotWord EXCEPT ![i][j] = w]
      BY <1>1, FillEffect
  <2>2. /\ pc' = "Fill"
        /\ UNCHANGED <<svcVars, received, slotSeq, sendSeq, netVars>>
      BY <1>1 DEF FillWord
  <2>3. \A k \in Slots : slotState'[k] = "Sent" =>
            k # i /\ slotState[k] = "Sent" /\ slotWord'[k] = slotWord[k]
      BY <2>1, <1>0
  <2>4. Quiet
    <3>1. UNCHANGED <<requests, replies, devWritten>>  BY <2>2 DEF netVars, svcVars
    <3> QED  BY <3>1, <2>2, <2>3 DEF Quiet
  <2>5. WordsTrue' /\ UNCHANGED svcVars  BY <2>2, UnseenStep DEF InFlight
  <2>6. PacketLive'  BY <2>2 DEF PacketLive
  <2> QED  BY <2>4, <2>5, <2>6, QuietKeeps DEF InFlight
<1>2. CASE FillDone
  <2>1. /\ pc' = "Send"
        /\ UNCHANGED <<svcVars, received, slotState, slotSeq, slotWord, sendSeq, requests, replies>>
      BY <1>2 DEF FillDone, regVars, slotVars, devVars, netVars
  <2>2. PacketLive'  BY <2>1 DEF PacketLive
  <2> QED  BY <2>1, <2>2, UnseenFlight
<1>3. CASE SendMessage
  <2>1. pc' = "Send" /\ UNCHANGED <<svcVars, received>>  BY <1>3 DEF SendMessage, regVars
  <2>2. WordsTrue' /\ UNCHANGED svcVars  BY <2>1, UnseenStep DEF InFlight
  <2>3. PacketLive'  BY <2>1 DEF PacketLive
  <2> QED  BY <1>3, <2>2, <2>3, SendKeeps DEF InFlight
<1>4. CASE SendBlocked \/ SendDone
  <2>1. /\ pc' = "Unlocked" /\ Swap
        /\ UNCHANGED <<received, slotState, slotWord, requests, replies>>
      BY <1>4 DEF SendBlocked, SendDone, Unlock, regVars, slotVars, netVars
  <2>2. /\ sendSeq' \in {sendSeq, sendSeq + 1}
        /\ \A k \in Slots : slotState[k] = "Sent" => slotSeq'[k] = slotSeq[k]
    <3>1. CASE SendBlocked
      <4>1. PICK i \in Slots : First(i, Ready) /\ slotSeq' = [slotSeq EXCEPT ![i] = SeqNumber]
          BY <3>1 DEF SendBlocked
      <4>2. slotState[i] = "Ready"  BY <4>1 DEF First, Ready
      <4> QED  BY <3>1, <4>1, <4>2, <1>0 DEF SendBlocked
    <3>2. CASE SendDone  BY <3>2 DEF SendDone, slotVars, devVars
    <3> QED  BY <3>1, <3>2, <1>4
  <2>3. UNCHANGED <<state, opSeq, memRx, devWritten>>  BY <2>1 DEF Swap
  <2>4. Quiet  BY <2>1, <2>2, <2>3 DEF Quiet
  <2>5. WordsTrue'  BY <2>1, <2>3 DEF InFlight, WordsTrue
  <2>6. PacketLive'  BY <2>1 DEF PacketLive
  <2>7. Service!Next  BY <2>1, SameSwap DEF Service!Next
  <2> QED  BY <2>4, <2>5, <2>6, <2>7, QuietKeeps DEF InFlight
<1> QED  BY <1>1, <1>2, <1>3, <1>4

\* What neither moves a word nor resets: the polls, the timers, the headers of
\* the packets, the cache, the requests for a reset.
LEMMA WaitFlight ==
    ASSUME Inv, Inv', InFlight,
           \/ CompleteRecord \/ Poll \/ RecvDone \/ TimeoutDone \/ StateDone \/ RequestReset
           \/ \E i \in Slots : Expire(i)
           \/ \E p \in replies : TakePacket(p)
           \/ \E r \in Regs : \E S \in SUBSET Offsets(r) \ {{}} : CacheRegister(r, S)
           \/ UNCHANGED vars
    PROVE  InFlight' /\ UNCHANGED svcVars
<1>1. UNCHANGED <<svcVars, received, slotState, slotSeq, slotWord, sendSeq, requests, replies>>
    BY DEF CompleteRecord, Poll, RecvDone, TimeoutDone, StateDone, RequestReset, Expire,
           TakePacket, CacheRegister, vars, regVars, slotVars, devVars, netVars
<1>2. PacketLive'
  <2>1. CASE \E p \in replies : TakePacket(p)
    <3>1. PICK p \in replies : TakePacket(p)  BY <2>1
    <3>2. pc' = "Word" => packet' = p /\ Matches(p) /\ Deliverable(p)
        BY <3>1 DEF TakePacket
    <3> QED  BY <1>1, <3>2 DEF PacketLive, Matches, Deliverable
  <2>2. CASE pc' # "Word"  BY <2>2 DEF PacketLive
  <2>3. CASE UNCHANGED vars
    <3>1. UNCHANGED <<pc, packet>>  BY <2>3 DEF vars, rxVars
    <3> QED  BY <1>1, <3>1 DEF InFlight, PacketLive, Matches, Deliverable
  <2> QED
      BY <2>1, <2>2, <2>3 DEF CompleteRecord, Poll, RecvDone, TimeoutDone, StateDone,
                              RequestReset, Expire, CacheRegister, Call
<1> QED  BY <1>1, <1>2, UnseenFlight

\* A register is asked for, or all are reset.
LEMMA RequestFlight ==
    ASSUME Inv, Inv', InFlight,
           \/ StateReset \/ WorkerError \/ StateAttach \/ StateQueue
           \/ \E r \in Regs, i \in Interests \cup {NoInterest} : ReadRegister(r, i)
           \/ \E r \in Regs, i \in Interests \cup {NoInterest} :
                 \E S \in SUBSET Offsets(r) : WriteRegister(r, S, i)
    PROVE  InFlight' /\ Service!Next
<1>1. CASE StateReset \/ WorkerError
  <2>1. ResetAll /\ pc' = "Fill" /\ UNCHANGED <<requests, replies>>
      BY <1>1 DEF StateReset, WorkerError, netVars
  <2>2. WordsTrue' /\ Service!Next /\ UNCHANGED <<opSeq, devWritten>>  BY <2>1, ResetSeen
  <2>3. sendSeq' = sendSeq /\ \A i \in Slots : slotState'[i] = "Free"  BY <2>1 DEF ResetAll
  <2>4. Quiet  BY <2>1, <2>2, <2>3 DEF Quiet
  <2>5. PacketLive'  BY <2>1 DEF PacketLive
  <2> QED  BY <2>2, <2>4, <2>5, QuietKeeps DEF InFlight
<1>2. CASE StateAttach
  <2>1. /\ pc' = "Fill" /\ Attach(Regs)
        /\ UNCHANGED <<received, slotState, slotSeq, slotWord, sendSeq, requests, replies>>
      BY <1>2 DEF StateAttach, regVars, slotVars, devVars, netVars
  <2>2. UNCHANGED <<state, opSeq, memRx, devWritten>>  BY <2>1 DEF Attach
  <2>3. Quiet  BY <2>1, <2>2 DEF Quiet
  <2>4. WordsTrue'  BY <2>1, <2>2 DEF InFlight, WordsTrue
  <2>5. PacketLive'  BY <2>1 DEF PacketLive
  <2>6. Service!Next  BY <2>1, SameAttach DEF Service!Next
  <2> QED  BY <2>3, <2>4, <2>5, <2>6, QuietKeeps DEF InFlight
<1>3. ASSUME NEW r \in Regs, NEW write \in BOOLEAN, NEW i \in Interests \cup {NoInterest},
             QueueReg(r, write, i), pc \in {"State", "Unlocked"},
             UNCHANGED <<slotVars, sendSeq, pc, netVars>>
      PROVE  InFlight' /\ Service!Next
  <2>1. /\ WordsTrue' /\ Service!Next
        /\ \A q \in Regs : opSeq'[q] = opSeq[q] => devWritten[q] \subseteq devWritten'[q]
      BY <1>3, QueueSeen DEF InFlight
  <2>2. Quiet  BY <1>3, <2>1 DEF Quiet, slotVars, netVars
  <2>3. PacketLive'  BY <1>3 DEF PacketLive
  <2> QED  BY <2>1, <2>2, <2>3, QuietKeeps DEF InFlight
<1>4. CASE StateQueue
  <2>1. PICK r \in Regs : QueueReg(r, FALSE, NoInterest)  BY <1>4 DEF StateQueue
  <2>2. pc = "State" /\ UNCHANGED <<slotVars, sendSeq, pc, netVars>>  BY <1>4 DEF StateQueue
  <2> QED  BY <2>1, <2>2, <1>3
<1>5. CASE \E r \in Regs, i \in Interests \cup {NoInterest} : ReadRegister(r, i)
  <2>1. PICK r \in Regs, i \in Interests \cup {NoInterest} : ReadRegister(r, i)  BY <1>5
  <2>2. /\ QueueReg(r, FALSE, i) /\ pc = "Unlocked"
        /\ UNCHANGED <<slotVars, sendSeq, pc, netVars>>
      BY <2>1 DEF ReadRegister, Call
  <2> QED  BY <2>2, <1>3
<1>6. CASE \E r \in Regs, i \in Interests \cup {NoInterest} :
              \E S \in SUBSET Offsets(r) : WriteRegister(r, S, i)
  <2>1. PICK r \in Regs, i \in Interests \cup {NoInterest} :
            \E S \in SUBSET Offsets(r) : WriteRegister(r, S, i)
      BY <1>6
  <2>2. /\ QueueReg(r, TRUE, i) /\ pc = "Unlocked"
        /\ UNCHANGED <<slotVars, sendSeq, pc, netVars>>
      BY <2>1 DEF WriteRegister, Call
  <2> QED  BY <2>2, <1>3
<1> QED  BY <1>1, <1>2, <1>4, <1>5, <1>6

\* The words of all messages are orphaned, or the message was empty.
LEMMA OrphanEffect ==
    ASSUME Inv, NEW i \in Slots, DoTimeout(i)
    PROVE  /\ sendSeq' = sendSeq
           /\ \A k \in Slots : slotState'[k] = "Sent" =>
                 /\ slotState[k] = "Sent" /\ slotSeq'[k] = slotSeq[k]
                 /\ slotWord'[k] = slotWord[k] \/ slotWord'[k] = Empty
           /\ slotState'[i] = "Free" /\ slotWord'[i] = Empty
<1>1. /\ slotState \in [Slots -> {"Free", "Ready", "Sent"}]
      /\ slotSeq \in [Slots -> 0 .. SeqMod - 1]
      /\ slotWord \in [Slots -> [Pos -> Word \cup {NoWord}]]
    BY DEF Inv, TypeOK, SlotsTypeOK
<1>2. /\ sendSeq' = sendSeq
      /\ slotState' = [slotState EXCEPT ![i] = "Free"]
      /\ slotSeq' = [slotSeq EXCEPT ![i] = 0]
    BY DEF DoTimeout, Clear
<1>3. \/ slotWord' = slotWord /\ slotWord[i] = Empty
      \/ slotWord' = [k \in Slots |-> Empty]
    BY DEF DoTimeout, Orphaned
<1> QED  BY <1>1, <1>2, <1>3

\* One word of a reply is handled, or a message times out.
LEMMA WordFlight ==
    ASSUME Inv, Inv', InFlight, ProcessWord \/ ProcessEnd \/ HandleTimeout
    PROVE  InFlight' /\ (Service!Next \/ UNCHANGED svcVars)
<1>0. /\ slotState \in [Slots -> {"Free", "Ready", "Sent"}]
      /\ slotSeq \in [Slots -> 0 .. SeqMod - 1]
      /\ slotWord \in [Slots -> [Pos -> Word \cup {NoWord}]]
    BY DEF Inv, TypeOK, SlotsTypeOK
<1>1. ASSUME NEW i \in Slots, DoTimeout(i), UNCHANGED <<requests, replies>>,
             PacketLive'
      PROVE  InFlight' /\ (Service!Next \/ UNCHANGED svcVars)
  <2>1. /\ WordsTrue' /\ (Service!Next \/ UNCHANGED svcVars)
        /\ UNCHANGED <<opSeq, devWritten>>
      BY <1>1, TimeoutSeen DEF InFlight
  <2>2. /\ sendSeq' = sendSeq
        /\ \A k \in Slots : slotState'[k] = "Sent" =>
              /\ slotState[k] = "Sent" /\ slotSeq'[k] = slotSeq[k]
              /\ \A j \in Pos : slotWord'[k][j] \in {NoWord, slotWord[k][j]}
      BY <1>1, OrphanEffect DEF Empty
  <2>3. Quiet  BY <2>1, <2>2, <1>1 DEF Quiet
  <2> QED  BY <2>1, <2>3, <1>1, QuietKeeps DEF InFlight
<1>2. CASE HandleTimeout
  <2>1. PICK i \in Slots : DoTimeout(i)  BY <1>2 DEF HandleTimeout
  <2>2. pc' = "Timeout" /\ UNCHANGED <<requests, replies>>  BY <1>2 DEF HandleTimeout, netVars
  <2>3. PacketLive'  BY <2>2 DEF PacketLive
  <2> QED  BY <2>1, <2>2, <2>3, <1>1
<1>3. CASE ProcessEnd
  <2>1. /\ pc' = "Recv" /\ Clear(packet.slot)
        /\ slotWord' = [slotWord EXCEPT ![packet.slot] = Empty]
        /\ UNCHANGED <<svcVars, received, sendSeq, requests, replies>>
      BY <1>3 DEF ProcessEnd, regVars, devVars, netVars
  <2>2. packet.slot \in Slots  BY <1>3 DEF ProcessEnd, Inv, TypeOK, WorkerTypeOK, Packet
  <2>3. \A k \in Slots : slotState'[k] = "Sent" =>
            /\ slotState[k] = "Sent" /\ slotSeq'[k] = slotSeq[k] /\ slotWord'[k] = slotWord[k]
      BY <2>1, <2>2, <1>0 DEF Clear
  <2>4. devWritten' = devWritten  BY <2>1 DEF svcVars
  <2>5. Quiet  BY <2>1, <2>3, <2>4 DEF Quiet
  <2>6. WordsTrue' /\ UNCHANGED svcVars  BY <2>1, UnseenStep DEF InFlight
  <2>7. PacketLive'  BY <2>1 DEF PacketLive
  <2> QED  BY <2>5, <2>6, <2>7, QuietKeeps DEF InFlight
<1>4. CASE ProcessWord
  <2>0. PICK i, j, w, answer :
            i = packet.slot /\ j = rxWord /\ w = slotWord[i][j] /\ answer = packet.words[j]
      OBVIOUS
  <2>1. /\ pc = "Word" /\ rxWord < NReg
        /\ UNCHANGED <<pc, packet, requests, replies>>
      BY <1>4 DEF ProcessWord, netVars
  <2>2. /\ packet \in replies /\ Deliverable(packet)
        /\ Matches(packet) \/ slotWord[i] = Empty
      BY <2>0, <2>1 DEF InFlight, PacketLive
  <2>3. i \in Slots /\ j \in Pos
      BY <2>0, <2>1 DEF Inv, TypeOK, WorkerTypeOK, Packet, Pos
  <2>4. CASE w = NoWord \/ ~InProgress(w.reg)
    <3>1. UNCHANGED <<svcVars, regVars, slotVars, devVars>>
        BY <1>4, <2>0, <2>4 DEF ProcessWord
    <3>2. UNCHANGED <<svcVars, received, slotState, slotSeq, slotWord, sendSeq, requests, replies>>
        BY <2>1, <3>1 DEF regVars, slotVars, devVars
    <3>3. PacketLive'
        BY <2>1, <3>2 DEF InFlight, PacketLive, Matches, Deliverable
    <3> QED  BY <3>2, <3>3, UnseenFlight
  <2>5. CASE w # NoWord /\ InProgress(w.reg) /\ Echoes(answer, w)
    <3>1. Receive(i, j, w, Data(answer))  BY <1>4, <2>0, <2>5 DEF ProcessWord
    <3>2. PICK r \in Regs : w \in Word /\ At(i, j, w, r)
        BY <2>0, <2>3, <2>5, CarriedCurrent DEF At
    <3>3. Live(packet)
      <4>1. slotWord[i] # Empty  BY <2>0, <2>3, <2>5 DEF Empty
      <4> QED  BY <2>2, <4>1 DEF Live
    <3>4. IF w.write THEN w.off \in devWritten[r] ELSE Data(answer) = opSeq[r]
      <4>1. IF w.write THEN w.off \in devWritten[w.reg] ELSE packet.words[j].data = opSeq[w.reg]
          BY <2>0, <2>2, <2>3, <2>5, <3>3 DEF InFlight, AnswersTrue
      <4>2. r = w.reg /\ Data(answer) = packet.words[j].data
          BY <2>0, <2>5, <3>2 DEF Data, Echoes, At
      <4> QED  BY <4>1, <4>2
    <3>5. /\ WordsTrue' /\ (Service!Next \/ UNCHANGED svcVars)
          /\ \A q \in Regs : opSeq'[q] = opSeq[q] => devWritten[q] \subseteq devWritten'[q]
        BY <2>3, <3>1, <3>2, <3>4, ReceiveSeen DEF InFlight
    <3>6. /\ slotWord' = [slotWord EXCEPT ![i][j] = NoWord]
          /\ UNCHANGED <<slotState, slotSeq, sendSeq>>
        BY <3>1 DEF Receive
    <3>7. \A k \in Slots, l \in Pos : slotWord'[k][l] \in {NoWord, slotWord[k][l]}
        BY <3>6, <2>3, <1>0
    <3>8. Quiet  BY <2>1, <3>5, <3>6, <3>7 DEF Quiet
    <3>9. PacketLive'
        BY <2>1, <2>2, <3>3, <3>6 DEF PacketLive, Live, Matches, Deliverable
    <3> QED  BY <3>5, <3>8, <3>9, QuietKeeps DEF InFlight
  <2>6. CASE w # NoWord /\ InProgress(w.reg) /\ ~Echoes(answer, w)
    <3>1. DoTimeout(i)  BY <1>4, <2>0, <2>6 DEF ProcessWord
    <3>2. slotWord'[i] = Empty /\ sendSeq' = sendSeq  BY <2>3, <3>1, OrphanEffect
    <3>3. PacketLive'  BY <2>0, <2>1, <2>2, <3>2 DEF PacketLive, Deliverable
    <3> QED  BY <2>1, <2>3, <3>1, <3>3, <1>1
  <2> QED  BY <2>4, <2>5, <2>6
<1> QED  BY <1>2, <1>3, <1>4

\* The device executes a request.
LEMMA ServeFlight ==
    ASSUME Inv, Inv', InFlight, NEW q \in requests, Serve(q)
    PROVE  InFlight' /\ Service!Next
<1>1. Headers' /\ RequestsKept' /\ AnswersTrue' /\ WordsTrue' /\ Service!Next
    BY ServeKeeps, ServeSeen DEF InFlight
<1>2. /\ UNCHANGED <<pc, packet, slotState, slotSeq, slotWord, sendSeq>>
      /\ replies \subseteq replies'
    BY DEF Serve, rxVars, slotVars, devVars
<1>3. PacketLive'  BY <1>2 DEF InFlight, PacketLive, Matches, Deliverable
<1> QED  BY <1>1, <1>3 DEF InFlight

\* Every step keeps InFlight, and is a step of RegisterService or none.
LEMMA NextFlight ==
    Inv /\ Inv' /\ InFlight /\ [Next]_vars => InFlight' /\ (Service!Next \/ UNCHANGED svcVars)
<1> SUFFICES ASSUME Inv, Inv', InFlight, [Next]_vars
             PROVE  InFlight' /\ (Service!Next \/ UNCHANGED svcVars)
    OBVIOUS
<1>1. CASE Worker
    BY <1>1, SendFlight, WaitFlight, WordFlight, RequestFlight DEF Worker
<1>2. CASE SendBlocked  BY <1>2, SendFlight
<1>3. CASE WorkerError  BY <1>3, RequestFlight
<1>4. CASE \E i \in Slots : Expire(i)  BY <1>4, WaitFlight
<1>5. CASE Record  BY <1>5, WaitFlight, RequestFlight DEF Record
<1>6. CASE \E q \in requests : Serve(q)  BY <1>6, ServeFlight
<1>7. CASE UNCHANGED vars  BY <1>7, WaitFlight
<1> QED  BY <1>1, <1>2, <1>3, <1>4, <1>5, <1>6, <1>7 DEF Next

\* No message travels yet.
LEMMA InitFlight == Init => InFlight /\ Service!Init
<1> SUFFICES ASSUME Init  PROVE InFlight /\ Service!Init  OBVIOUS
<1>1. InFlight
    BY DEF Init, InFlight, Headers, RequestsKept, AnswersTrue, WordsTrue, PacketLive
<1>2. Service!Init
    BY DEF Init, RegistersInit, NeverRead, Offsets, Service!Init, Service!RegistersInit,
           Service!NeverRead, Service!Offsets
<1> QED  BY <1>1, <1>2

\* No reply is taken for the answer to another request, however the network
\* loses, delays, repeats or reorders what it carries: handle_process accepts a
\* word only if the device executed it for the operation in progress.
THEOREM RepliesTrue == Spec => []InFlight
<1>1. Init => InFlight  BY InitFlight
<1>2. Inv /\ Inv' /\ InFlight /\ [Next]_vars => InFlight'  BY NextFlight
<1> QED  BY <1>1, <1>2, InvHolds, PTL DEF Spec

\* The driver's worker implements what RegisterService promises the records: a
\* read completes only with a cache sampled, and a write only once stored, by the
\* device, word for word, since the operation began.
THEOREM ServiceImplemented == Spec => ServiceSpec
<1>1. Init => Service!Init  BY InitFlight
<1>2. Inv /\ Inv' /\ InFlight /\ [Next]_vars => [Service!Next]_(Service!svcVars)
  <2>1. UNCHANGED svcVars => UNCHANGED Service!svcVars
      BY DEF svcVars, flagVars, listVars, Service!svcVars, Service!flagVars, Service!listVars
  <2> QED  BY <2>1, NextFlight
<1> QED  BY <1>1, <1>2, InvHolds, RepliesTrue, PTL DEF Spec, ServiceSpec, Service!Spec

----------------------------------------------------------------------------
(***************************************************************************)
(* The records that wait.                                                  *)
(***************************************************************************)

\* A step that moves no record and begins or ends no operation.
LEMMA WaitersUnmoved ==
    ASSUME WaitsServed, UNCHANGED <<state, flagVars, listVars>>, resetReq' \in {resetReq, TRUE}
    PROVE  WaitsServed'
<1>1. /\ state' = state /\ readQueued' = readQueued /\ writeQueued' = writeQueued
      /\ recordsInprog' = recordsInprog /\ recordsWrite' = recordsWrite
      /\ recordsRead' = recordsRead
    BY DEF flagVars, listVars
<1>2. ASSUME NEW r \in Regs
      PROVE  /\ ~InProgress(r)' => recordsInprog'[r] = {}
             /\ ~writeQueued'[r] => recordsWrite'[r] = {}
             /\ ~readQueued'[r] => recordsRead'[r] = {}
             /\ state'[r] # "Writing" /\ ~resetReq => ~readQueued'[r]
    BY <1>1 DEF WaitsServed, InProgress
<1>3. ~resetReq' => ~resetReq  OBVIOUS
<1> QED  BY <1>2, <1>3 DEF WaitsServed

\* A record is put on the list of an operation that is in progress, or that is
\* queued.
LEMMA QueueWaits ==
    ASSUME Inv, WaitsServed, NEW r \in Regs, NEW write \in BOOLEAN,
           NEW i \in Interests \cup {NoInterest}, Queue(r, write, i), resetReq' = resetReq
    PROVE  WaitsServed'
<1>1. RegistersTypeOK  BY DEF Inv, TypeOK, RegsTypeOK
<1>2. CASE QueueIdle(r, write, i)
    BY <1>1, <1>2 DEF WaitsServed, RegistersTypeOK, QueueIdle, Begin, InProgress, flagVars, States
<1>3. CASE QueueWriteLater(r, write, i)
    BY <1>1, <1>3 DEF WaitsServed, RegistersTypeOK, QueueWriteLater, InProgress
<1>4. CASE QueueReadLater(r, write, i)
    BY <1>1, <1>4 DEF WaitsServed, RegistersTypeOK, QueueReadLater, InProgress
<1>5. CASE MergeRead(r, write, i)
    BY <1>1, <1>5 DEF WaitsServed, RegistersTypeOK, MergeRead, InProgress, flagVars
<1> QED  BY <1>2, <1>3, <1>4, <1>5 DEF Queue

\* The records of the queued operation become those of the one in progress.
LEMMA FinishWaits ==
    ASSUME Inv, WaitsServed, NEW r \in Regs, Finish(r), resetReq' = resetReq
    PROVE  WaitsServed'
<1>1. RegistersTypeOK  BY DEF Inv, TypeOK, RegsTypeOK
<1>2. CASE StartQueuedWrite(r)
    BY <1>1, <1>2 DEF WaitsServed, RegistersTypeOK, StartQueuedWrite, Begin, InProgress
<1>3. CASE StartQueuedRead(r)
    BY <1>1, <1>3 DEF WaitsServed, RegistersTypeOK, StartQueuedRead, Begin, InProgress
<1>4. CASE StartNothing(r)
    BY <1>1, <1>4 DEF WaitsServed, RegistersTypeOK, StartNothing, InProgress, flagVars
<1> QED  BY <1>2, <1>3, <1>4 DEF Finish

\* A cancelled operation keeps no record, and the reset is asked for.
LEMMA TimeoutWaits ==
    ASSUME Inv, WaitsServed, NEW i \in Slots, DoTimeout(i)
    PROVE  WaitsServed'
<1>1. resetReq' = TRUE  BY DEF DoTimeout
<1>2. CASE UNCHANGED svcVars
    BY <1>1, <1>2, WaitersUnmoved DEF svcVars
<1>3. ASSUME NEW r \in Regs, Cancel(r)  PROVE WaitsServed'
    BY <1>1, <1>3 DEF Inv, TypeOK, RegsTypeOK, RegistersTypeOK, WaitsServed, Cancel, InProgress,
                      flagVars
<1>4. ASSUME NEW j \in Pos, slotWord[i][j] # NoWord, Cancel(slotWord[i][j].reg)
      PROVE  WaitsServed'
    BY <1>3, <1>4, CarriedCurrent
<1> QED  BY <1>2, <1>4 DEF DoTimeout, First

LEMMA NextWaits == Inv /\ WaitsServed /\ [Next]_vars => WaitsServed'
<1> SUFFICES ASSUME Inv, WaitsServed, [Next]_vars  PROVE WaitsServed'  OBVIOUS
<1>1. CASE \/ FillWord \/ FillDone \/ SendMessage \/ CompleteRecord \/ Poll \/ RecvDone
           \/ TimeoutDone \/ StateDone \/ RequestReset \/ ProcessEnd
           \/ \E p \in replies : TakePacket(p)
           \/ \E i \in Slots : Expire(i)
           \/ \E r \in Regs : \E S \in SUBSET Offsets(r) \ {{}} : CacheRegister(r, S)
           \/ UNCHANGED vars
  <2>1. UNCHANGED svcVars /\ resetReq' \in {resetReq, TRUE}
      BY <1>1 DEF FillWord, FillDone, SendMessage, CompleteRecord, Poll, RecvDone, TimeoutDone,
                  StateDone, RequestReset, ProcessEnd, TakePacket, Expire, CacheRegister, vars,
                  devVars
  <2> QED  BY <2>1, WaitersUnmoved DEF svcVars
<1>2. CASE SendBlocked \/ SendDone
  <2>1. Swap /\ resetReq' = resetReq
      BY <1>2 DEF SendBlocked, SendDone, Unlock, devVars
  <2> QED  BY <2>1, WaitersUnmoved DEF Swap
<1>3. CASE StateAttach
    BY <1>3, WaitersUnmoved DEF StateAttach, Attach, devVars
<1>4. CASE \E q \in requests : Serve(q)
    BY <1>4, WaitersUnmoved DEF Serve, devVars
<1>5. CASE StateReset \/ WorkerError
  <2>1. Reset  BY <1>5 DEF StateReset, WorkerError, ResetAll
  <2> QED  BY <2>1 DEF Reset, WaitsServed, InProgress
<1>6. CASE StateQueue \/ \E r \in Regs, i \in Interests \cup {NoInterest} : ReadRegister(r, i)
  <2>1. PICK r \in Regs, i \in Interests \cup {NoInterest} : QueueReg(r, FALSE, i)
      BY <1>6 DEF StateQueue, ReadRegister
  <2>2. resetReq' = resetReq  BY <1>6 DEF StateQueue, ReadRegister
  <2> QED  BY <2>1, <2>2, QueueWaits DEF QueueReg
<1>7. CASE \E r \in Regs, i \in Interests \cup {NoInterest} :
              \E S \in SUBSET Offsets(r) : WriteRegister(r, S, i)
  <2>1. PICK r \in Regs, i \in Interests \cup {NoInterest} : QueueReg(r, TRUE, i)
      BY <1>7 DEF WriteRegister
  <2>2. resetReq' = resetReq  BY <1>7 DEF WriteRegister
  <2> QED  BY <2>1, <2>2, QueueWaits DEF QueueReg
<1>8. CASE HandleTimeout
    BY <1>8, TimeoutWaits DEF HandleTimeout
<1>9. CASE ProcessWord
  <2>0. PICK i, j, w, answer :
            i = packet.slot /\ j = rxWord /\ w = slotWord[i][j] /\ answer = packet.words[j]
      OBVIOUS
  <2>1. i \in Slots /\ j \in Pos
      BY <2>0, <1>9 DEF ProcessWord, Inv, TypeOK, WorkerTypeOK, Packet, Pos
  <2>2. CASE w = NoWord \/ ~InProgress(w.reg)
    <3>1. UNCHANGED <<svcVars, devVars>>  BY <1>9, <2>0, <2>2 DEF ProcessWord
    <3> QED  BY <3>1, WaitersUnmoved DEF svcVars, devVars
  <2>3. CASE w # NoWord /\ InProgress(w.reg) /\ Echoes(answer, w)
    <3>1. Receive(i, j, w, Data(answer))  BY <1>9, <2>0, <2>3 DEF ProcessWord
    <3>2. PICK r \in Regs : w \in Word /\ At(i, j, w, r)
        BY <2>0, <2>1, <2>3, CarriedCurrent DEF At
    <3>3. resetReq' = resetReq /\ (Received(r, w.off) \/ Completed(r, w.off))
        BY <2>1, <3>1, <3>2, ReceiveEffect
    <3>4. CASE Received(r, w.off)  BY <3>3, <3>4, WaitersUnmoved DEF Received
    <3>5. CASE Completed(r, w.off)  BY <3>3, <3>5, FinishWaits DEF Completed
    <3> QED  BY <3>3, <3>4, <3>5
  <2>4. CASE w # NoWord /\ InProgress(w.reg) /\ ~Echoes(answer, w)
    <3>1. DoTimeout(i)  BY <1>9, <2>0, <2>4 DEF ProcessWord
    <3> QED  BY <2>1, <3>1, TimeoutWaits
  <2> QED  BY <2>2, <2>3, <2>4
<1> QED
    BY <1>1, <1>2, <1>3, <1>4, <1>5, <1>6, <1>7, <1>8, <1>9 DEF Next, Worker, Record

\* Records wait only for operations that will call them back: none is left on the
\* list of an operation that is neither in progress nor queued.
THEOREM WaitersServed == Spec => []WaitsServed
<1>1. Init => WaitsServed
    BY DEF Init, RegistersInit, WaitsServed, InProgress
<1> QED  BY <1>1, NextWaits, InvHolds, PTL DEF Spec

----------------------------------------------------------------------------
(***************************************************************************)
(* What the device holds.                                                  *)
(***************************************************************************)

\* A slot waits for at most one request, and for one reply of it.
LEMMA LiveOnce ==
    ASSUME Inv, Headers, NEW m \in requests \cup replies, NEW n \in requests \cup replies,
           Live(m), Live(n), m.slot = n.slot
    PROVE  m.stamp = n.stamp
<1>1. /\ m.seq = n.seq /\ sendSeq - m.stamp <= SeqMod /\ sendSeq - n.stamp <= SeqMod
      /\ m.stamp \in Nat /\ n.stamp \in Nat /\ sendSeq \in Nat
  <2>1. /\ m.stamp \in Nat /\ n.stamp \in Nat /\ sendSeq \in Nat  BY MessageTypes
  <2>2. m.seq = n.seq  BY DEF Live, Matches
  <2>3. sendSeq - m.stamp <= Lifetime /\ sendSeq - n.stamp <= Lifetime  BY DEF Live, Deliverable
  <2> QED  BY <2>1, <2>2, <2>3
<1>2. /\ m.stamp < sendSeq /\ m.seq = m.stamp % SeqMod
      /\ n.stamp < sendSeq /\ n.seq = n.stamp % SeqMod
    BY DEF Headers
<1> QED  BY <1>1, <1>2, SameStamp

\* A slot that waits after a step that numbers no message waited before it.
LEMMA StillLive ==
    ASSUME Inv, NEW m \in requests \cup replies, Live(m)', sendSeq' \in {sendSeq, sendSeq + 1},
           slotState'[m.slot] = "Sent" =>
              slotState[m.slot] = "Sent" /\ slotSeq'[m.slot] = slotSeq[m.slot]
    PROVE  Live(m)
<1>1. m.stamp \in Nat /\ sendSeq \in Nat  BY MessageTypes
<1>2. slotState'[m.slot] = "Sent" /\ slotSeq'[m.slot] = m.seq /\ sendSeq' - m.stamp <= Lifetime
    BY DEF Live, Matches, Deliverable
<1>3. sendSeq - m.stamp <= Lifetime  BY <1>1, <1>2
<1> QED  BY <1>2, <1>3 DEF Live, Matches, Deliverable

\* A step that takes no word of a request not served yet, and after a loss
\* changes no operation, leaves the requests as awaited as they were.
LEMMA AwaitedKept ==
    ASSUME Inv, RequestsAwaited, UNCHANGED <<requests, replies>>,
           \A q \in requests : Live(q)' =>
              Live(q) /\ (~Answered(q) => slotWord'[q.slot] = slotWord[q.slot]),
           Lost => Lost' /\ UNCHANGED state
    PROVE  RequestsAwaited'
<1> SUFFICES ASSUME NEW q \in requests, NEW j \in Pos, Live(q)', ~Answered(q)', q.words[j] # NoWord
             PROVE  \/ slotWord'[q.slot][j] = q.words[j]
                    \/ Lost' /\ (q.words[j].write => state'[q.words[j].reg] \in {"Writing", "Invalid"})
    BY DEF RequestsAwaited
<1>1. Live(q) /\ ~Answered(q) /\ slotWord'[q.slot] = slotWord[q.slot]  BY DEF Answered
<1>2. \/ slotWord[q.slot][j] = q.words[j]
      \/ Lost /\ (q.words[j].write => state[q.words[j].reg] \in {"Writing", "Invalid"})
    BY <1>1 DEF RequestsAwaited
<1> QED  BY <1>1, <1>2

\* A step that leaves the device alone leaves it holding what was stored.
LEMMA StoredKept ==
    ASSUME Inv, AnswersStored, UNCHANGED <<replies, devMem>>,
           \A p \in replies : Live(p)' =>
              Live(p) /\ \A j \in Pos : slotWord'[p.slot][j] \in {NoWord, slotWord[p.slot][j]}
    PROVE  AnswersStored'
<1> SUFFICES ASSUME NEW p \in replies, NEW j \in Pos, Live(p)',
                    slotWord'[p.slot][j] # NoWord, slotWord'[p.slot][j].write,
                    Echoes(p.words[j], slotWord'[p.slot][j])
             PROVE  devMem'[slotWord'[p.slot][j].reg][slotWord'[p.slot][j].off]
                        = slotWord'[p.slot][j].val
  <2>1. replies' = replies  OBVIOUS
  <2> QED  BY <2>1 DEF AnswersStored, Echoes
<1>1. Live(p) /\ slotWord'[p.slot][j] = slotWord[p.slot][j]  OBVIOUS
<1> QED  BY <1>1 DEF AnswersStored

\* The part of WordsSettled about register r.
SettledAt(r) ==
    ~writeQueued[r] =>
        /\ \/ state[r] \in {"InSync", "Reading"}
           \/ state[r] = "Invalid" /\ ~Lost
           => \A o \in Offsets(r) : Settled(r, o, devMem[r][o])
        /\ state[r] = "Writing" /\ ~Lost =>
              /\ \A o \in received[r] : Settled(r, o, devMem[r][o])
              /\ \A i \in Slots, j \in Pos : Carries(i, j, r) =>
                    Settled(r, slotWord[i][j].off, slotWord[i][j].val)

\* The slots carry no word of register r they did not carry.
NothingNew(r) ==
    \A i \in Slots, j \in Pos : Carries(i, j, r)' =>
        Carries(i, j, r) /\ slotWord'[i][j] = slotWord[i][j]

\* What a step leaves alone of register r stays settled.
LEMMA SettledKept ==
    ASSUME NEW r \in Regs, SettledAt(r), NothingNew(r), Lost => Lost',
           state'[r] = state[r], writeQueued'[r] = writeQueued[r], received'[r] = received[r],
           memTx'[r] = memTx[r], uncommitted'[r] = uncommitted[r], devMem'[r] = devMem[r]
    PROVE  SettledAt(r)'
BY DEF SettledAt, NothingNew, Settled

\* A step that moves no word and asks for nothing.
LEMMA CacheUnmoved ==
    ASSUME Inv, CacheKept, Lost => Lost',
           UNCHANGED <<requests, replies, devMem, state, writeQueued, received, memTx, uncommitted>>,
           sendSeq' \in {sendSeq, sendSeq + 1},
           \A i \in Slots : slotState'[i] = "Sent" =>
              slotState[i] = "Sent" /\ slotSeq'[i] = slotSeq[i] /\ slotWord'[i] = slotWord[i],
           \A i \in Slots, j \in Pos : slotWord'[i][j] \in {NoWord, slotWord[i][j]}
    PROVE  CacheKept'
<1>1. ASSUME NEW m \in requests \cup replies, Live(m)'
      PROVE  Live(m) /\ slotWord'[m.slot] = slotWord[m.slot]
  <2>1. m.slot \in Slots /\ slotState'[m.slot] = "Sent"
      BY <1>1, MessageTypes DEF Live, Matches
  <2> QED  BY <1>1, <2>1, StillLive
<1>2. RequestsAwaited'  BY <1>1, AwaitedKept DEF CacheKept
<1>3. AnswersStored'  BY <1>1, StoredKept DEF CacheKept
<1>4. ASSUME NEW r \in Regs  PROVE SettledAt(r)'
  <2>1. SettledAt(r)  BY DEF CacheKept, WordsSettled, SettledAt
  <2>2. NothingNew(r)  BY DEF NothingNew, Carries
  <2> QED  BY <2>1, <2>2, SettledKept
<1>5. WordsSettled'  BY <1>4 DEF WordsSettled, SettledAt
<1> QED  BY <1>2, <1>3, <1>5 DEF CacheKept

\* A word put in a message holds what the send cache holds.
LEMMA FillCache ==
    ASSUME Inv, CacheKept, FillWord
    PROVE  CacheKept'
<1>0. /\ slotState \in [Slots -> {"Free", "Ready", "Sent"}]
      /\ slotWord \in [Slots -> [Pos -> Word \cup {NoWord}]]
    BY DEF Inv, TypeOK, SlotsTypeOK
<1>1. PICK i \in Slots, j \in Pos, w \in Word, r \in Regs :
          /\ slotState' = [slotState EXCEPT ![i] = "Ready"]
          /\ slotWord' = [slotWord EXCEPT ![i][j] = w]
          /\ w.reg = r /\ InProgress(r)
          /\ state[r] = "Writing" => w.val = memTx[r][w.off]
    BY FillEffect
<1>2. /\ ~Lost /\ ~Lost'
      /\ UNCHANGED <<state, writeQueued, received, slotSeq, sendSeq, requests, replies, devMem,
                     memTx, uncommitted>>
    BY DEF FillWord, Lost, svcVars, flagVars, netVars, callVars
<1>3. ASSUME NEW m \in requests \cup replies, Live(m)'
      PROVE  Live(m) /\ slotWord'[m.slot] = slotWord[m.slot]
  <2>1. m.slot \in Slots /\ slotState'[m.slot] = "Sent"
      BY <1>3, MessageTypes DEF Live, Matches
  <2>2. m.slot # i /\ slotState[m.slot] = "Sent"  BY <2>1, <1>0, <1>1
  <2> QED  BY <1>0, <1>1, <1>2, <1>3, <2>1, <2>2, StillLive
<1>4. RequestsAwaited'  BY <1>2, <1>3, AwaitedKept DEF CacheKept
<1>5. AnswersStored'  BY <1>2, <1>3, StoredKept DEF CacheKept
<1>6. ASSUME NEW q \in Regs  PROVE SettledAt(q)'
  <2>1. SettledAt(q)  BY DEF CacheKept, WordsSettled, SettledAt
  <2>2. \A k \in Slots, l \in Pos :
            slotWord'[k][l] = IF k = i /\ l = j THEN w ELSE slotWord[k][l]
      BY <1>0, <1>1
  <2>3. CASE q # r
    <3>1. NothingNew(q)  BY <2>2, <2>3, <1>1 DEF NothingNew, Carries
    <3> QED  BY <2>1, <3>1, <1>2, SettledKept
  <2>4. CASE q = r
    <3>1. ASSUME NEW k \in Slots, NEW l \in Pos, Carries(k, l, r)', ~writeQueued[r],
                 state[r] = "Writing"
          PROVE  Settled(r, slotWord'[k][l].off, slotWord'[k][l].val)
      <4>1. CASE k = i /\ l = j
          BY <4>1, <2>2, <1>1, <3>1 DEF Settled
      <4>2. CASE ~(k = i /\ l = j)
        <5>1. Carries(k, l, r) /\ slotWord'[k][l] = slotWord[k][l]
            BY <4>2, <2>2, <3>1 DEF Carries
        <5> QED  BY <5>1, <3>1, <2>1, <2>4, <1>2 DEF SettledAt
      <4> QED  BY <4>1, <4>2
    <3> QED  BY <3>1, <2>1, <2>4, <1>1, <1>2 DEF SettledAt, Settled, InProgress
  <2> QED  BY <2>3, <2>4
<1>7. WordsSettled'  BY <1>6 DEF WordsSettled, SettledAt
<1> QED  BY <1>4, <1>5, <1>7 DEF CacheKept

\* The request of a message that is sent awaits what the message carries.
LEMMA SendCache ==
    ASSUME Inv, Headers, CacheKept, SendMessage
    PROVE  CacheKept'
<1>1. PICK i \in Slots, new \in requests' :
          /\ requests' = requests \cup {new}
          /\ new.slot = i /\ new.words = slotWord[i]
          /\ \A m \in requests \cup replies : Live(m)' => Live(m) /\ m.slot # i
    BY SendEffect
<1>2. /\ ~Lost /\ ~Lost'
      /\ UNCHANGED <<state, writeQueued, received, slotWord, replies, devMem, memTx, uncommitted>>
    BY DEF SendMessage, Lost, svcVars, flagVars, regVars, callVars
<1>3. RequestsAwaited'
  <2> SUFFICES ASSUME NEW q \in requests', NEW j \in Pos, Live(q)', ~Answered(q), q.words[j] # NoWord
               PROVE  slotWord[q.slot][j] = q.words[j]
      BY <1>2 DEF RequestsAwaited, Answered
  <2>1. CASE q = new  BY <2>1, <1>1
  <2>2. CASE q \in requests
      BY <2>2, <1>1, <1>2 DEF CacheKept, RequestsAwaited
  <2> QED  BY <2>1, <2>2, <1>1
<1>4. AnswersStored'  BY <1>1, <1>2, StoredKept DEF CacheKept
<1>5. ASSUME NEW r \in Regs  PROVE SettledAt(r)'
  <2>1. SettledAt(r)  BY DEF CacheKept, WordsSettled, SettledAt
  <2>2. NothingNew(r)  BY <1>2 DEF NothingNew, Carries
  <2> QED  BY <2>1, <2>2, <1>2, SettledKept
<1>6. WordsSettled'  BY <1>5 DEF WordsSettled, SettledAt
<1> QED  BY <1>3, <1>4, <1>6 DEF CacheKept

\* A reset leaves nothing to write.
LEMMA ResetCache ==
    ASSUME Inv, ResetAll, UNCHANGED <<requests, replies>>
    PROVE  CacheKept'
<1>1. /\ \A i \in Slots : slotState'[i] = "Free"
      /\ \A r \in Regs : state'[r] = "Invalid"
    BY DEF ResetAll, Reset
<1>2. \A m \in requests \cup replies : ~Live(m)'
    BY <1>1, MessageTypes DEF Live, Matches
<1>3. RequestsAwaited' /\ AnswersStored'
    BY <1>2 DEF RequestsAwaited, AnswersStored
<1>4. WordsSettled'
  <2>1. \A r \in Regs : \A o \in Offsets(r) : memTx'[r][o] = 0
      BY DEF ResetAll, Untouched
  <2> QED  BY <1>1, <2>1 DEF WordsSettled, Settled
<1> QED  BY <1>3, <1>4 DEF CacheKept

\* A request made of a register: a write starts with every word still to be put
\* in a message, a read leaves settled what is.
LEMMA QueueCache ==
    ASSUME Inv, CacheKept, NEW r \in Regs, NEW write \in BOOLEAN,
           NEW i \in Interests \cup {NoInterest}, QueueReg(r, write, i), ~Lost, ~Lost',
           UNCHANGED <<slotVars, sendSeq, netVars>>,
           \A q \in Regs : q # r \/ ~write =>
              memTx'[q] = memTx[q] /\ uncommitted'[q] = uncommitted[q]
    PROVE  CacheKept'
<1>0. /\ state \in [Regs -> States] /\ writeQueued \in [Regs -> BOOLEAN]
      /\ received \in [Regs -> SUBSET Nat]
    BY DEF Inv, TypeOK, RegsTypeOK, RegistersTypeOK
<1>1. UNCHANGED <<slotState, slotSeq, slotWord, requests, replies, devMem>>
    BY DEF slotVars, netVars
<1>2. ASSUME NEW m \in requests \cup replies, Live(m)'  PROVE Live(m)
    BY <1>1, <1>2 DEF Live, Matches, Deliverable
<1>3. RequestsAwaited'  BY <1>1, <1>2, AwaitedKept DEF CacheKept
<1>4. ASSUME NEW p \in replies, NEW j \in Pos
      PROVE  slotWord'[p.slot][j] \in {NoWord, slotWord[p.slot][j]}
    BY <1>1
<1>5. AnswersStored'  BY <1>1, <1>2, <1>4, StoredKept DEF CacheKept
<1>6. Queue(r, write, i)  BY DEF QueueReg
<1>7. ASSUME NEW q \in Regs  PROVE SettledAt(q)'
  <2>1. SettledAt(q) /\ NothingNew(q)
      BY <1>1 DEF CacheKept, WordsSettled, SettledAt, NothingNew, Carries
  <2>2. CASE q # r
    <3>1. state'[q] = state[q] /\ writeQueued'[q] = writeQueued[q] /\ received'[q] = received[q]
        BY <1>0, <1>6, <2>2 DEF Queue, QueueIdle, QueueWriteLater, QueueReadLater, MergeRead,
                                Begin, flagVars, QueueReg, Track, regVars
    <3> QED  BY <1>1, <2>1, <2>2, <3>1, SettledKept
  <2>3. CASE q = r /\ InProgress(r) /\ write
    <3>1. writeQueued'[r] = TRUE
        BY <1>0, <1>6, <2>3 DEF Queue, QueueIdle, QueueWriteLater, QueueReadLater, MergeRead
    <3> QED  BY <2>3, <3>1 DEF SettledAt
  <2>4. CASE q = r /\ InProgress(r) /\ ~write
    <3>1. state' = state /\ writeQueued' = writeQueued /\ received' = received
        BY <1>6, <2>4 DEF Queue, QueueIdle, QueueWriteLater, QueueReadLater, MergeRead, flagVars,
                          QueueReg, regVars
    <3> QED  BY <1>1, <2>1, <2>4, <3>1, SettledKept
  <2>5. CASE q = r /\ ~InProgress(r)
    <3>1. Begin(r, write) /\ Track(r) /\ writeQueued' = writeQueued
        BY <1>6, <2>5 DEF Queue, QueueIdle, QueueWriteLater, QueueReadLater, MergeRead, flagVars,
                          QueueReg, InProgress
    <3>2. state'[r] = (IF write THEN "Writing" ELSE "Reading") /\ received'[r] = {}
        BY <3>1, <1>0 DEF Begin, Track
    <3>3. \A k \in Slots, j \in Pos : ~Carries(k, j, r)'
        BY <1>1, <2>5 DEF Carries, Inv, SlotsCurrent
    <3>4. CASE write  BY <2>5, <3>2, <3>3, <3>4 DEF SettledAt
    <3>5. CASE ~write
      <4>1. state[r] \in {"Invalid", "InSync"}  BY <1>0, <2>5 DEF InProgress, States
      <4>2. memTx'[r] = memTx[r] /\ uncommitted'[r] = uncommitted[r]  BY <3>5
      <4> QED  BY <4>1, <4>2, <2>1, <2>5, <3>1, <3>2, <3>5, <1>1 DEF SettledAt, Settled
    <3> QED  BY <3>4, <3>5
  <2> QED  BY <2>2, <2>3, <2>4, <2>5
<1>8. WordsSettled'  BY <1>7 DEF WordsSettled, SettledAt
<1> QED  BY <1>3, <1>5, <1>8 DEF CacheKept

\* Words set without being written are promised to nobody.
LEMMA SetCache ==
    ASSUME Inv, CacheKept, NEW r \in Regs, NEW S \in SUBSET Offsets(r), CacheRegister(r, S)
    PROVE  CacheKept'
<1>0. /\ DOMAIN memTx = Regs /\ uncommitted \in [Regs -> SUBSET Nat]
      /\ \A q \in Regs : memTx[q] \in [Offsets(q) -> Nat]
    BY DEF Inv, TypeOK, RegsTypeOK
<1>1. /\ ~Lost /\ ~Lost'
      /\ UNCHANGED <<state, writeQueued, received, slotState, slotSeq, slotWord, sendSeq, requests,
                     replies, devMem>>
    BY DEF CacheRegister, Call, Lost, svcVars, flagVars, regVars, slotVars, devVars, netVars
<1>2. ASSUME NEW m \in requests \cup replies, Live(m)'  PROVE Live(m)
    BY <1>1, <1>2 DEF Live, Matches, Deliverable
<1>3. RequestsAwaited'  BY <1>1, <1>2, AwaitedKept DEF CacheKept
<1>4. ASSUME NEW p \in replies, NEW j \in Pos
      PROVE  slotWord'[p.slot][j] \in {NoWord, slotWord[p.slot][j]}
    BY <1>1
<1>5. AnswersStored'  BY <1>1, <1>2, <1>4, StoredKept DEF CacheKept
<1>6. ASSUME NEW q \in Regs, NEW o \in Offsets(q), NEW v, Settled(q, o, v)
      PROVE  o \in uncommitted'[q] \/ memTx'[q][o] \in {0, v}
  <2>1. /\ uncommitted' = [uncommitted EXCEPT ![r] = @ \cup S]
        /\ memTx' = [memTx EXCEPT ![r] =
                        [n \in Offsets(r) |-> IF n \in S THEN calls + 1 ELSE @[n]]]
      BY DEF CacheRegister, SetWords
  <2>2. CASE q # r  BY <1>0, <1>6, <2>1, <2>2 DEF Settled
  <2>3. CASE q = r /\ o \in S  BY <1>0, <2>1, <2>3
  <2>4. CASE q = r /\ o \notin S  BY <1>0, <1>6, <2>1, <2>4 DEF Settled
  <2> QED  BY <2>2, <2>3, <2>4
<1>7. ASSUME NEW q \in Regs  PROVE SettledAt(q)'
  <2>1. SettledAt(q)  BY DEF CacheKept, WordsSettled, SettledAt
  <2>2. state[q] = "Writing" => received[q] \subseteq Offsets(q)
      BY DEF Inv, WordsAccounted, Tracked, Offsets, TypeOK, RegsTypeOK, InProgress
  <2>3. \A k \in Slots, j \in Pos : Carries(k, j, q) => slotWord[k][j].off \in Offsets(q)
      BY CarriedCurrent DEF Carries
  <2> QED  BY <1>1, <1>6, <2>1, <2>2, <2>3 DEF SettledAt, Settled, Carries
<1>8. WordsSettled'  BY <1>7 DEF WordsSettled, SettledAt
<1> QED  BY <1>3, <1>5, <1>8 DEF CacheKept

\* A timeout loses the words of every message, and cancels an operation whose
\* request may be executed all the same.
LEMMA TimeoutCache ==
    ASSUME Inv, CacheKept, NEW i \in Slots, DoTimeout(i), pc \in {"Word", "Timeout"}, pc' = pc,
           UNCHANGED <<netVars, callVars>>
    PROVE  CacheKept'
<1>0. UNCHANGED <<received, requests, replies, devMem, memTx, uncommitted>>
    BY DEF DoTimeout, regVars, netVars, callVars
<1>1. /\ sendSeq' = sendSeq
      /\ \A k \in Slots : slotState'[k] = "Sent" =>
            /\ slotState[k] = "Sent" /\ slotSeq'[k] = slotSeq[k]
            /\ slotWord'[k] = slotWord[k] \/ slotWord'[k] = Empty
      /\ resetReq' = TRUE
    BY OrphanEffect DEF DoTimeout
<1>2. CASE slotWord' = slotWord /\ UNCHANGED svcVars
  <2>1. Lost => Lost'  BY <1>1, <1>2 DEF Lost
  <2>2. UNCHANGED <<state, writeQueued>>  BY <1>2 DEF svcVars, flagVars
  <2> QED  BY <1>0, <1>1, <1>2, <2>1, <2>2, CacheUnmoved
<1>3. ASSUME NEW j \in Pos, slotWord[i][j] # NoWord, slotWord' = [k \in Slots |-> Empty],
             Cancel(slotWord[i][j].reg)
      PROVE  CacheKept'
  <2>1. ~Lost /\ Lost'  BY <1>1, <1>3 DEF Lost, Empty
  <2>2. /\ state \in [Regs -> States] /\ writeQueued' = writeQueued
        /\ state' = [state EXCEPT ![slotWord[i][j].reg] = "Invalid"]
      BY <1>3 DEF Cancel, flagVars, Inv, TypeOK, RegsTypeOK, RegistersTypeOK
  <2>3. \A r \in Regs : state'[r] \in {state[r], "Invalid"}  BY <2>2
  <2>4. \A k \in Slots, l \in Pos : slotWord'[k][l] = NoWord  BY <1>3 DEF Empty
  <2>5. RequestsAwaited'
    <3> SUFFICES ASSUME NEW q \in requests, NEW l \in Pos, Live(q)', ~Answered(q),
                        q.words[l] # NoWord, q.words[l].write
                 PROVE  state'[q.words[l].reg] \in {"Writing", "Invalid"}
        BY <1>0, <2>1 DEF RequestsAwaited, Answered
    <3>1. q.slot \in Slots /\ slotState'[q.slot] = "Sent"
        BY MessageTypes DEF Live, Matches
    <3>2. Live(q)  BY <1>1, <3>1, StillLive
    <3>3. slotWord[q.slot][l] = q.words[l]
        BY <2>1, <3>2 DEF CacheKept, RequestsAwaited
    <3>4. slotWord[q.slot][l] # NoWord  BY <3>3
    <3>5. /\ slotWord[q.slot][l].reg \in Regs
          /\ slotWord[q.slot][l].write = (state[slotWord[q.slot][l].reg] = "Writing")
        BY <3>1, <3>4, CarriedCurrent
    <3> QED  BY <3>3, <3>5, <2>3
  <2>6. AnswersStored'
    <3>1. \A p \in replies' : p.slot \in Slots  BY <1>0, MessageTypes
    <3> QED  BY <2>4, <3>1 DEF AnswersStored
  <2>7. ASSUME NEW r \in Regs  PROVE SettledAt(r)'
    <3>1. SettledAt(r)  BY DEF CacheKept, WordsSettled, SettledAt
    <3>2. state'[r] \in {"InSync", "Reading"} => state'[r] = state[r]  BY <2>3
    <3> QED  BY <1>0, <2>1, <2>2, <3>1, <3>2 DEF SettledAt, Settled
  <2>8. WordsSettled'  BY <2>7 DEF WordsSettled, SettledAt
  <2> QED  BY <2>5, <2>6, <2>8 DEF CacheKept
<1> QED  BY <1>2, <1>3 DEF DoTimeout, First, Orphaned

\* A word received: the device holds it, and no request for it waits any more.
LEMMA ReceiveCache ==
    ASSUME Inv, Inv', Headers, CacheKept, NEW p \in replies, Live(p),
           NEW j \in Pos, NEW w \in Word, NEW r \in Regs, NEW data, At(p.slot, j, w, r),
           Echoes(p.words[j], w), Receive(p.slot, j, w, data), UNCHANGED <<netVars, callVars>>
    PROVE  CacheKept'
<1>0. /\ p.slot \in Slots /\ w = slotWord[p.slot][j] /\ r = w.reg /\ w # NoWord
      /\ slotWord \in [Slots -> [Pos -> Word \cup {NoWord}]]
      /\ writeQueued \in [Regs -> BOOLEAN] /\ received \in [Regs -> SUBSET Nat]
    BY MessageTypes DEF At, Inv, TypeOK, RegsTypeOK, RegistersTypeOK, SlotsTypeOK
<1>1. /\ slotWord' = [slotWord EXCEPT ![p.slot][j] = NoWord]
      /\ UNCHANGED <<slotState, slotSeq, sendSeq, requests, replies, devMem, memTx, uncommitted>>
      /\ Received(r, w.off) \/ Completed(r, w.off)
    BY <1>0, ReceiveEffect DEF netVars, callVars
<1>2. ~Lost  BY <1>0 DEF Lost, Empty
<1>3. w.write => devMem[r][w.off] = w.val
    BY <1>0 DEF CacheKept, AnswersStored
<1>4. ASSUME NEW m \in requests \cup replies, Live(m)'  PROVE Live(m)
    BY <1>1, <1>4 DEF Live, Matches, Deliverable
<1>5. \A i \in Slots, l \in Pos :
          slotWord'[i][l] = IF i = p.slot /\ l = j THEN NoWord ELSE slotWord[i][l]
    BY <1>0, <1>1
<1>6. ASSUME NEW q \in requests, Live(q)', ~Answered(q)
      PROVE  slotWord'[q.slot] = slotWord[q.slot]
  <2>1. q.slot # p.slot
      BY <1>4, <1>6, LiveOnce DEF Answered
  <2>2. q.slot \in Slots  BY MessageTypes
  <2> QED  BY <1>0, <1>1, <2>1, <2>2
<1>7. RequestsAwaited'  BY <1>1, <1>2, <1>4, <1>6, AwaitedKept DEF CacheKept
<1>8. AnswersStored'
  <2>1. \A m \in replies, l \in Pos : slotWord'[m.slot][l] \in {NoWord, slotWord[m.slot][l]}
      BY <1>5, MessageTypes
  <2> QED  BY <1>1, <1>4, <2>1, StoredKept DEF CacheKept
<1>9. ASSUME NEW q \in Regs  PROVE SettledAt(q)'
  <2>1. SettledAt(q)  BY DEF CacheKept, WordsSettled, SettledAt
  <2>2. NothingNew(q)  BY <1>5 DEF NothingNew, Carries
  <2>3. CASE q # r
    <3>1. state'[q] = state[q] /\ received'[q] = received[q]
        BY <1>0, <1>1, <2>3 DEF Received, Completed
    <3>2. writeQueued'[q] = writeQueued[q]
        BY <1>0, <1>1, <2>3 DEF Received, Completed, Finish, StartQueuedWrite, StartQueuedRead,
                                StartNothing, flagVars
    <3> QED  BY <1>1, <1>2, <2>1, <2>2, <3>1, <3>2, SettledKept
  <2>4. InProgress(r) /\ w.write = (state[r] = "Writing")
      BY <1>0, CarriedCurrent
  <2>5. ASSUME ~writeQueued[r], NEW o \in received[r] \cup {w.off}, state[r] = "Writing"
        PROVE  Settled(r, o, devMem[r][o])
    <3>1. SettledAt(r)  BY DEF CacheKept, WordsSettled, SettledAt
    <3>2. CASE o \in received[r]  BY <3>1, <3>2, <2>5, <1>2 DEF SettledAt
    <3>3. CASE o = w.off
      <4>1. Carries(p.slot, j, r) /\ w.val = devMem[r][o]
          BY <1>0, <1>3, <2>4, <2>5, <3>3 DEF Carries
      <4> QED  BY <3>1, <3>3, <4>1, <2>5, <1>0, <1>2 DEF SettledAt
    <3> QED  BY <3>2, <3>3
  <2>6. CASE q = r /\ Received(r, w.off)
    <3>1. /\ received'[r] = received[r] \cup {w.off}
          /\ UNCHANGED <<state, writeQueued>>
        BY <1>0, <2>6 DEF Received, flagVars
    <3> QED  BY <1>1, <1>2, <2>1, <2>2, <2>5, <2>6, <3>1 DEF SettledAt, NothingNew, Settled
  <2>7. CASE q = r /\ Completed(r, w.off)
    <3>1. \A o \in Offsets(r) : ~writeQueued[r] => Settled(r, o, devMem[r][o])
      <4>1. received[r] \cup {w.off} = Offsets(r)  BY <2>7 DEF Completed
      <4>2. CASE state[r] = "Writing"  BY <4>1, <4>2, <2>5
      <4>3. CASE state[r] = "Reading"  BY <4>3, <2>1, <2>7 DEF SettledAt
      <4> QED  BY <4>2, <4>3, <2>4 DEF InProgress
    <3>2. CASE state'[r] # "Writing" /\ ~writeQueued[r]
        BY <3>1, <3>2, <1>1, <2>7 DEF SettledAt, Settled
    <3>3. CASE received'[r] = {} /\ opSeq'[r] # opSeq[r]
      <4>1. \A i \in Slots, l \in Pos : ~Carries(i, l, r)'
          BY <3>3, <2>2, <2>7 DEF NothingNew, Inv, SlotsCurrent
      <4>2. CASE state'[r] = "Writing"  BY <4>1, <4>2, <3>3, <2>7 DEF SettledAt
      <4>3. CASE state'[r] # "Writing"
          BY <4>3, <3>2, <2>7 DEF Completed
      <4> QED  BY <4>2, <4>3
    <3>4. CASE state'[r] = "InSync" /\ ~writeQueued[r]  BY <3>2, <3>4
    <3> QED  BY <3>3, <3>4, <2>7 DEF Completed
  <2> QED  BY <1>1, <2>3, <2>6, <2>7
<1>10. WordsSettled'  BY <1>9 DEF WordsSettled, SettledAt
<1> QED  BY <1>7, <1>8, <1>10 DEF CacheKept

\* The device stores the words of a request.
Stores(q, r, o, w) == w # NoWord /\ w.write /\ w.reg = r /\ w.off = o /\ \E j \in Pos : q.words[j] = w

LEMMA ServeEffect ==
    ASSUME NEW q \in requests, Serve(q), NEW r \in Regs, NEW o \in Offsets(r)
    PROVE  \/ devMem'[r][o] = devMem[r][o] /\ \A w : ~Stores(q, r, o, w)
           \/ \E w : Stores(q, r, o, w) /\ devMem'[r][o] = w.val
<1> DEFINE new == {w \in Writes(q, r) : w.off = o}
<1>1. devMem'[r][o] = IF new = {} THEN devMem[r][o] ELSE (CHOOSE w \in new : TRUE).val
    BY DEF Serve
<1>2. \A w : w \in new <=> Stores(q, r, o, w)  BY DEF Writes, Stores
<1>3. CASE new = {}  BY <1>1, <1>2, <1>3
<1>4. CASE new # {}
  <2>1. PICK w \in new : w = CHOOSE v \in new : TRUE  BY <1>4
  <2> QED  BY <1>1, <1>2, <1>4, <2>1
<1> QED  BY <1>3, <1>4

\* The device executes a request nobody has answered: it stores what is carried,
\* or what was lost.
LEMMA ServeCache ==
    ASSUME Resend = FALSE, Inv, Headers, RequestsKept, CacheKept, NEW q \in requests, Serve(q)
    PROVE  CacheKept'
<1>1. /\ Live(q) /\ ~Answered(q) /\ q.slot \in Slots
      /\ UNCHANGED <<state, writeQueued, received, memTx, uncommitted, slotState, slotSeq, slotWord,
                     sendSeq, resetReq, pc, requests>>
    BY MessageTypes DEF Serve, Awaited, Live, Matches, Deliverable, flagVars, regVars, slotVars,
                        devVars, callVars
<1>2. (Lost' <=> Lost) /\ \A m \in requests \cup replies' : Live(m)' <=> Live(m)
    BY <1>1 DEF Lost, Live, Matches, Deliverable
<1>3. PICK bad :
          replies' = replies \cup
             {[slot |-> q.slot, seq |-> q.seq, stamp |-> q.stamp,
               words |-> [j \in Pos |-> IF j \in bad THEN NoWord ELSE Answer(q.words[j])]]}
    BY DEF Serve
<1>4. PICK new \in replies' :
          /\ new.slot = q.slot /\ new.seq = q.seq /\ new.stamp = q.stamp
          /\ \A j \in Pos : new.words[j] = IF j \in bad THEN NoWord ELSE Answer(q.words[j])
          /\ replies' = replies \cup {new}
    BY <1>3
<1>5. RequestsAwaited'
  <2>1. \A m \in requests : ~Answered(m)' => ~Answered(m)  BY <1>4 DEF Answered
  <2> QED  BY <1>1, <1>2, <2>1 DEF CacheKept, RequestsAwaited
\* What is stored is carried by the slot, or nothing is carried at all.
<1>6. ASSUME NEW r \in Regs, NEW o, NEW w, Stores(q, r, o, w)
      PROVE  \/ Lost /\ state[r] \in {"Writing", "Invalid"}
             \/ \E j \in Pos : /\ slotWord[q.slot][j] = w /\ Carries(q.slot, j, r)
                               /\ state[r] = "Writing" /\ o \notin received[r]
  <2>1. PICK j \in Pos : q.words[j] = w /\ w # NoWord /\ w.write /\ w.reg = r /\ w.off = o
      BY <1>6 DEF Stores
  <2>2. CASE slotWord[q.slot][j] = w
    <3>1. slotWord[q.slot][j] # NoWord  BY <2>1, <2>2
    <3>2. /\ slotWord[q.slot][j].write = (state[slotWord[q.slot][j].reg] = "Writing")
          /\ slotWord[q.slot][j].off \notin received[slotWord[q.slot][j].reg]
        BY <1>1, <3>1, CarriedCurrent
    <3> QED  BY <2>1, <2>2, <3>1, <3>2 DEF Carries
  <2> QED  BY <1>1, <2>1, <2>2 DEF CacheKept, RequestsAwaited
\* No other word that is carried is for the same word of the register.
<1>7. ASSUME NEW r \in Regs, NEW o, NEW w, Stores(q, r, o, w), NEW i \in Slots, NEW j \in Pos,
             Carries(i, j, r), slotWord[i][j].off = o
      PROVE  i = q.slot /\ slotWord[i][j] = w
  <2>1. ~Lost  BY <1>7 DEF Lost, Carries, Empty
  <2>2. PICK l \in Pos : slotWord[q.slot][l] = w /\ Carries(q.slot, l, r)
      BY <1>6, <1>7, <2>1
  <2>3. slotWord[q.slot][l].off = slotWord[i][j].off  BY <2>2, <1>7 DEF Stores
  <2>4. i = q.slot /\ j = l
      BY <1>1, <1>7, <2>2, <2>3 DEF Inv, WordsAccounted, CarriedOnce
  <2> QED  BY <2>2, <2>4
<1>8. AnswersStored'
  <2> SUFFICES ASSUME NEW p \in replies', NEW j \in Pos, Live(p),
                      slotWord[p.slot][j] # NoWord, slotWord[p.slot][j].write,
                      Echoes(p.words[j], slotWord[p.slot][j])
               PROVE  devMem'[slotWord[p.slot][j].reg][slotWord[p.slot][j].off]
                          = slotWord[p.slot][j].val
    <3>1. slotWord' = slotWord  BY <1>1
    <3> QED  BY <1>2, <3>1 DEF AnswersStored, Echoes
  <2>0. p.slot \in Slots  BY <1>1, <1>4, MessageTypes
  <2>1. PICK r \in Regs : r = slotWord[p.slot][j].reg /\ Carries(p.slot, j, r)
      BY <2>0, CarriedCurrent DEF Carries
  <2>. PICK o \in Offsets(r) : o = slotWord[p.slot][j].off
      BY <2>0, <2>1, CarriedCurrent
  <2>2. CASE \E w : Stores(q, r, o, w) /\ devMem'[r][o] = w.val
      BY <2>0, <2>1, <2>2, <1>7
  <2>3. CASE devMem'[r][o] = devMem[r][o] /\ \A w : ~Stores(q, r, o, w)
    <3>1. p # new
      <4> SUFFICES ASSUME p = new  PROVE FALSE  OBVIOUS
      <4>1. p.words[j] = Answer(q.words[j]) /\ q.words[j] # NoWord
          BY <1>4 DEF Echoes, Answer
      <4>2. slotWord[q.slot][j] # NoWord /\ ~Lost
        <5>1. slotWord[p.slot] # Empty  BY DEF Empty
        <5> QED  BY <5>1, <1>4, <2>0 DEF Lost
      <4>3. slotWord[q.slot][j] = q.words[j]
          BY <4>1, <4>2, <1>1 DEF CacheKept, RequestsAwaited
      <4>4. Stores(q, r, o, q.words[j])  BY <4>1, <4>3, <2>1, <1>4 DEF Stores
      <4> QED  BY <4>4, <2>3
    <3> QED  BY <3>1, <2>1, <2>3, <1>4 DEF CacheKept, AnswersStored
  <2> QED  BY <2>2, <2>3, ServeEffect
<1>9. ASSUME NEW r \in Regs  PROVE SettledAt(r)'
  <2>1. SettledAt(r)  BY DEF CacheKept, WordsSettled, SettledAt
  <2>2. ASSUME NEW o \in Offsets(r), state[r] # "Writing" \/ o \in received[r],
               Lost => state[r] \notin {"Writing", "Invalid"}
        PROVE  devMem'[r][o] = devMem[r][o]
      BY <2>2, <1>6, ServeEffect
  <2>3. state[r] = "Writing" => received[r] \subseteq Offsets(r)
      BY DEF Inv, WordsAccounted, Tracked, Offsets, TypeOK, RegsTypeOK, InProgress
  <2> QED  BY <1>1, <1>2, <2>1, <2>2, <2>3 DEF SettledAt, Settled, Carries
<1>10. WordsSettled'  BY <1>9 DEF WordsSettled, SettledAt
<1> QED  BY <1>5, <1>8, <1>10 DEF CacheKept

\* One word of a reply is handled, or a message times out.
LEMMA WordCache ==
    ASSUME Inv, Inv', InFlight, CacheKept, ProcessWord
    PROVE  CacheKept'
<1>0. PICK i, j, w, answer :
          i = packet.slot /\ j = rxWord /\ w = slotWord[i][j] /\ answer = packet.words[j]
    OBVIOUS
<1>1. /\ pc = "Word" /\ pc' = pc /\ rxWord < NReg
      /\ UNCHANGED <<netVars, callVars>>
    BY DEF ProcessWord
<1>2. /\ packet \in replies /\ Deliverable(packet)
      /\ Matches(packet) \/ slotWord[i] = Empty
    BY <1>0, <1>1 DEF InFlight, PacketLive
<1>3. i \in Slots /\ j \in Pos
    BY <1>0, <1>1 DEF Inv, TypeOK, WorkerTypeOK, Packet, Pos
<1>4. CASE w = NoWord \/ ~InProgress(w.reg)
  <2>1. UNCHANGED <<svcVars, regVars, slotVars, devVars>>
      BY <1>0, <1>4 DEF ProcessWord
  <2>2. UNCHANGED <<state, writeQueued, received, slotState, slotSeq, slotWord, sendSeq, resetReq,
                    requests, replies, devMem, memTx, uncommitted>>
      BY <1>1, <2>1 DEF svcVars, flagVars, regVars, slotVars, devVars, netVars, callVars
  <2>3. Lost => Lost'  BY <1>1, <2>2 DEF Lost
  <2> QED  BY <2>2, <2>3, CacheUnmoved
<1>5. CASE w # NoWord /\ InProgress(w.reg) /\ Echoes(answer, w)
  <2>1. Receive(i, j, w, Data(answer))  BY <1>0, <1>5 DEF ProcessWord
  <2>2. PICK r \in Regs : w \in Word /\ At(i, j, w, r)
      BY <1>0, <1>3, <1>5, CarriedCurrent DEF At
  <2>3. Live(packet)
    <3>1. slotWord[i] # Empty  BY <1>0, <1>3, <1>5 DEF Empty
    <3> QED  BY <1>2, <3>1 DEF Live
  <2> QED  BY <1>0, <1>1, <1>2, <1>3, <1>5, <2>1, <2>2, <2>3, ReceiveCache DEF InFlight
<1>6. CASE w # NoWord /\ InProgress(w.reg) /\ ~Echoes(answer, w)
  <2>1. DoTimeout(i)  BY <1>0, <1>6 DEF ProcessWord
  <2> QED  BY <1>1, <1>3, <2>1, TimeoutCache
<1> QED  BY <1>4, <1>5, <1>6

\* What neither asks for an operation nor moves a word leaves what is kept; the
\* end of a reply leaves the slot free.
LEMMA WaitCache ==
    ASSUME Inv, CacheKept,
           \/ FillDone \/ SendBlocked \/ SendDone \/ CompleteRecord \/ Poll \/ RecvDone
           \/ ProcessEnd \/ TimeoutDone \/ StateAttach \/ StateDone \/ RequestReset
           \/ \E i \in Slots : Expire(i)
           \/ \E p \in replies : TakePacket(p)
           \/ UNCHANGED vars
    PROVE  CacheKept'
<1>0. /\ slotState \in [Slots -> {"Free", "Ready", "Sent"}]
      /\ slotSeq \in [Slots -> 0 .. SeqMod - 1]
      /\ slotWord \in [Slots -> [Pos -> Word \cup {NoWord}]]
    BY DEF Inv, TypeOK, SlotsTypeOK
<1>1. CASE ProcessEnd
  <2>1. /\ pc = "Word" /\ pc' = "Recv" /\ Clear(packet.slot)
        /\ slotWord' = [slotWord EXCEPT ![packet.slot] = Empty]
        /\ UNCHANGED <<svcVars, regVars, devVars, netVars, callVars>>
      BY <1>1 DEF ProcessEnd
  <2>2. packet.slot \in Slots  BY <1>1 DEF ProcessEnd, Inv, TypeOK, WorkerTypeOK, Packet
  <2>3. /\ \A k \in Slots : slotState'[k] = "Sent" =>
              slotState[k] = "Sent" /\ slotSeq'[k] = slotSeq[k] /\ slotWord'[k] = slotWord[k]
        /\ \A k \in Slots, l \in Pos : slotWord'[k][l] \in {NoWord, slotWord[k][l]}
      BY <2>1, <2>2, <1>0 DEF Clear, Empty
  <2>4. UNCHANGED <<requests, replies, devMem, state, writeQueued, received, memTx, uncommitted,
                    sendSeq, resetReq>>
      BY <2>1 DEF svcVars, flagVars, regVars, devVars, netVars, callVars
  <2>5. Lost => Lost'
    <3>1. \A k \in Slots : slotWord[k] = Empty => slotWord'[k] = Empty
        BY <2>1, <2>2, <1>0
    <3>2. slotWord' \in [Slots -> [Pos -> Word \cup {NoWord}]]
        BY <2>1, <2>2, <1>0 DEF Empty
    <3> QED  BY <2>1, <2>4, <3>1, <3>2 DEF Lost
  <2> QED  BY <2>3, <2>4, <2>5, CacheUnmoved
<1>2. CASE SendBlocked
  <2>1. PICK i \in Slots : First(i, Ready) /\ slotSeq' = [slotSeq EXCEPT ![i] = SeqNumber]
      BY <1>2 DEF SendBlocked
  <2>2. slotState[i] = "Ready"  BY <2>1 DEF First, Ready
  <2>3. /\ pc = "Send" /\ Swap /\ sendSeq' = sendSeq + 1
        /\ UNCHANGED <<regVars, slotState, slotWord, netVars, callVars>>
      BY <1>2 DEF SendBlocked, Unlock
  <2>4. UNCHANGED <<requests, replies, devMem, state, writeQueued, received, memTx, uncommitted>>
      BY <2>3 DEF Swap, flagVars, regVars, netVars, callVars
  <2>5. ~Lost  BY <2>3 DEF Lost
  <2> QED  BY <2>1, <2>2, <2>3, <2>4, <2>5, <1>0, CacheUnmoved
<1>3. CASE ~ProcessEnd /\ ~SendBlocked
  <2>1. UNCHANGED <<requests, replies, devMem, state, writeQueued, received, memTx, uncommitted,
                    slotState, slotSeq, slotWord, sendSeq>>
      BY <1>3 DEF FillDone, SendDone, Unlock, Swap, CompleteRecord, Poll, RecvDone, TimeoutDone,
                  StateAttach, Attach, StateDone, RequestReset, Call, Expire, TakePacket, vars,
                  svcVars, flagVars, regVars, slotVars, devVars, netVars, callVars
  <2>2. Lost => Lost'
    <3>1. SUFFICES ASSUME Lost  PROVE resetReq' = resetReq
                                     /\ pc' \in {"Recv", "Word", "Timeout", "State"}
        BY <2>1 DEF Lost
    <3>2. resetReq /\ pc \in {"Recv", "Word", "Timeout", "State"}  BY <3>1 DEF Lost
    <3> QED
        BY <1>3, <3>2 DEF FillDone, SendDone, CompleteRecord, Poll, RecvDone, TimeoutDone,
                  StateAttach, StateDone, RequestReset, Call, Expire, TakePacket, vars, devVars
  <2> QED  BY <2>1, <2>2, CacheUnmoved
<1> QED  BY <1>1, <1>2, <1>3

LEMMA NextCache ==
    ASSUME Resend = FALSE, Inv, Inv', InFlight, CacheKept, [Next]_vars
    PROVE  CacheKept'
<1>1. CASE \/ FillDone \/ SendBlocked \/ SendDone \/ CompleteRecord \/ Poll \/ RecvDone
           \/ ProcessEnd \/ TimeoutDone \/ StateAttach \/ StateDone \/ RequestReset
           \/ \E i \in Slots : Expire(i)
           \/ \E p \in replies : TakePacket(p)
           \/ UNCHANGED vars
    BY <1>1, WaitCache
<1>2. CASE FillWord  BY <1>2, FillCache
<1>3. CASE SendMessage  BY <1>3, SendCache DEF InFlight
<1>4. CASE StateReset \/ WorkerError
  <2>1. ResetAll /\ UNCHANGED <<requests, replies>>
      BY <1>4 DEF StateReset, WorkerError, netVars
  <2> QED  BY <2>1, ResetCache
<1>5. CASE ProcessWord  BY <1>5, WordCache
<1>6. CASE HandleTimeout
    BY <1>6, TimeoutCache DEF HandleTimeout
<1>7. CASE StateQueue
  <2>1. PICK r \in Regs : QueueReg(r, FALSE, NoInterest)  BY <1>7 DEF StateQueue
  <2>2. /\ ~Lost /\ ~Lost'
        /\ UNCHANGED <<slotVars, sendSeq, netVars, memTx, uncommitted>>
      BY <1>7 DEF StateQueue, Lost
  <2> QED  BY <2>1, <2>2, QueueCache
<1>8. ASSUME NEW r \in Regs, NEW i \in Interests \cup {NoInterest}, ReadRegister(r, i)
      PROVE  CacheKept'
  <2>1. /\ QueueReg(r, FALSE, i) /\ ~Lost /\ ~Lost'
        /\ UNCHANGED <<slotVars, sendSeq, netVars, memTx, uncommitted>>
      BY <1>8 DEF ReadRegister, Call, Lost
  <2> QED  BY <2>1, QueueCache
<1>9. ASSUME NEW r \in Regs, NEW i \in Interests \cup {NoInterest}, NEW S \in SUBSET Offsets(r),
              WriteRegister(r, S, i)
       PROVE  CacheKept'
  <2>1. /\ QueueReg(r, TRUE, i) /\ ~Lost /\ ~Lost' /\ SetWords(r, S)
        /\ uncommitted' = [uncommitted EXCEPT ![r] = {}]
        /\ UNCHANGED <<slotVars, sendSeq, netVars>>
      BY <1>9 DEF WriteRegister, Call, Lost
  <2>2. \A q \in Regs : q # r => memTx'[q] = memTx[q] /\ uncommitted'[q] = uncommitted[q]
      BY <2>1 DEF SetWords, Inv, TypeOK, RegsTypeOK
  <2> QED  BY <2>1, <2>2, QueueCache
<1>10. CASE \E r \in Regs : \E S \in SUBSET Offsets(r) \ {{}} : CacheRegister(r, S)
    BY <1>10, SetCache
<1>11. CASE \E q \in requests : Serve(q)
    BY <1>11, ServeCache DEF InFlight
<1> QED
    BY <1>1, <1>2, <1>3, <1>4, <1>5, <1>6, <1>7, <1>8, <1>9, <1>10, <1>11
       DEF Next, Worker, Record

\* Each word a record has set and asked to write is in the device, in a message,
\* received, or still to be sent: none is lost on the way, if the network
\* delivers a request at most once, and not after its timeout.
THEOREM CacheAccounted == ASSUME Resend = FALSE PROVE Spec => []CacheKept
<1>1. Init => CacheKept
  <2> SUFFICES ASSUME Init  PROVE CacheKept  OBVIOUS
  <2>1. requests = {} /\ replies = {}  BY DEF Init
  <2>2. \A r \in Regs : state[r] = "Invalid" /\ \A o \in Offsets(r) : memTx[r][o] = 0
      BY DEF Init, RegistersInit, Untouched
  <2> QED  BY <2>1, <2>2 DEF CacheKept, RequestsAwaited, AnswersStored, WordsSettled, Settled
<1>2. Inv /\ Inv' /\ InFlight /\ CacheKept /\ [Next]_vars => CacheKept'  BY NextCache
<1> QED  BY <1>1, <1>2, InvHolds, RepliesTrue, PTL DEF Spec

\* So once no write of a register is in progress or queued, the device holds
\* what the send cache holds.
THEOREM DeviceWritten == ASSUME Resend = FALSE PROVE Spec => []DeviceHasCache
<1>1. CacheKept => DeviceHasCache
    BY DEF CacheKept, WordsSettled, Settled, DeviceHasCache
<1> QED  BY <1>1, CacheAccounted, PTL
=============================================================================
