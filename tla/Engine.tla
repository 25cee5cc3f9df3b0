------------------------------- MODULE Engine -------------------------------
(***************************************************************************)
(* The driver's worker (Device::run) moving registers to and from one      *)
(* device over UDP: queued registers are cut into words, words are packed  *)
(* into the message slots of `inflight`, messages are sent, lost,          *)
(* duplicated and reordered, executed by the device, and their replies are *)
(* matched to the slot and the register that wait for them.                *)
(*                                                                         *)
(* The worker holds Device::lock except while it calls records back and    *)
(* polls, so records act only when pc = "Unlocked"; the network and the    *)
(* device act at any time.  The loops of the worker are unrolled into one  *)
(* action per iteration.                                                   *)
(*                                                                         *)
(* Device::current is modelled in Connection.tla; here `linked` only says  *)
(* whether it is a state in which the worker sends.                        *)
(***************************************************************************)
EXTENDS Registers, Sequences, FiniteSets

CONSTANTS
    NSlots,       \* inflight.size(), from feedNumInFlight
    NReg,         \* DevMsg::nreg, the words of one message
    SeqMod,       \* sequence numbers are counted modulo this: 2^24 in the code
    Lifetime,     \* a packet is lost once this many later ones were sent
    Resend,       \* may the network deliver a request twice, or after its timeout?
    Corrupt,      \* may the device answer a word with another address or command?
    NoWord,       \* the null DevReg of an unused word of a message
    NoPacket,     \* handle_process works on no packet
    MaxCalls,     \* bound: operations the records ask for
    MaxSends      \* bound: sends after which the socket no longer blocks

ASSUME EngineAssumption ==
    /\ NSlots \in 1 .. 255
    /\ NReg \in Nat \ {0}
    /\ SeqMod \in Nat \ {0}
    /\ Lifetime \in 1 .. SeqMod
    /\ {Resend, Corrupt} \subseteq BOOLEAN
    /\ {MaxCalls, MaxSends} \subseteq Nat

Slots == 0 .. NSlots - 1
Pos   == 0 .. NReg - 1
Empty  == [j \in Pos |-> NoWord]

\* A word of a request, and of a reply.
Word == [reg : Regs, off : Nat, write : BOOLEAN, op : Nat, val : Nat]
AnswerWord == [reg : Regs, off : Nat, write : BOOLEAN, data : Nat]

ASSUME NoWordAssumption == NoWord \notin Word \cup AnswerWord

VARIABLES
    \* DevReg
    nextSend,     \* offset of the next word to put in a message
    received,     \* offsets received since the operation began
    nremaining,   \* how many are not
    memTx,        \* the send cache: the client call that set each word
    \* DevMsg
    slotState,    \* "Free", "Ready" or "Sent"
    slotSeq,      \* sequence number used when sent
    slotWord,     \* reg[] and the matching part of buf[]
    expired,      \* is due <= loop_time?
    \* Device
    regSend,      \* registers with words to send; the first is being sent
    sendSeq,      \* send_seq
    resetReq,     \* reset_requested
    linked,       \* is current neither Error nor Idle?
    \* the worker
    pc,           \* where in run() the worker is
    nrecv,        \* packets taken in this iteration
    packet,       \* the reply handle_process is working on
    rxWord,       \* and the index of its next word
    completed,    \* the completion list taken by this iteration
    \* outside the driver
    requests,     \* every request sent
    replies,      \* every reply sent
    devMem,       \* the device's registers: the client call that set each word
    calls,        \* number of calls made by records, to bound them
    uncommitted   \* words of memTx set by a record with commit=false, and no
                  \* write asked for since

regVars  == <<nextSend, received, nremaining>>
slotVars == <<slotState, slotSeq, slotWord, expired>>
devVars  == <<regSend, sendSeq, resetReq, linked>>
rxVars   == <<nrecv, packet, rxWord>>
netVars  == <<requests, replies, devMem>>
callVars == <<memTx, calls, uncommitted>>
vars == <<svcVars, regVars, slotVars, devVars, pc, rxVars, completed, netVars, callVars>>

Phases == {"Unlocked", "Recv", "Word", "Timeout", "State", "Fill", "Send"}

Untouched(r) == [o \in Offsets(r) |-> 0]

\* Words of register r that are in a message slot.
Carries(i, j, r) == slotWord[i][j] # NoWord /\ slotWord[i][j].reg = r

First(n, S) == n \in S /\ \A m \in S : n <= m

----------------------------------------------------------------------------
\* DevReg::queue where it starts the operation: reset the address tracking and
\* line up behind the registers being sent.
Track_KeepsReceived(r) ==
    /\ UNCHANGED received
    /\ nremaining' = [nremaining EXCEPT ![r] = Size[r]]
    /\ nextSend' = [nextSend EXCEPT ![r] = 0]
    /\ regSend' = Append(regSend, r)

Track(r) ==
    /\ received' = [received EXCEPT ![r] = {}]
    /\ nremaining' = [nremaining EXCEPT ![r] = Size[r]]
    /\ nextSend' = [nextSend EXCEPT ![r] = 0]
    /\ regSend' = Append(regSend, r)

QueueReg(r, write, i) ==
    /\ Queue(r, write, i)
    /\ IF InProgress(r) THEN UNCHANGED <<regVars, regSend>> ELSE Track(r)

----------------------------------------------------------------------------
\* Device::handle_send, first pass: one word of the register at the front of
\* reg_send goes to the first message slot with room for it.
Room == {i \in Slots : slotState[i] # "Sent" /\ \E j \in Pos : slotWord[i][j] = NoWord}

FillWord ==
    /\ pc = "Fill" /\ linked
    /\ regSend # <<>>
    /\ \E i \in Slots, j \in Pos :
       /\ First(i, Room) /\ First(j, {k \in Pos : slotWord[i][k] = NoWord})
       /\ LET r == Head(regSend)
              o == nextSend[r]
              write == state[r] = "Writing"
          IN
           /\ slotWord' = [slotWord EXCEPT ![i][j] =
                  [reg |-> r, off |-> o, write |-> write, op |-> opSeq[r],
                   val |-> IF write THEN memTx[r][o] ELSE 0]]
           /\ slotState' = [slotState EXCEPT ![i] = "Ready"]
           /\ nextSend' = [nextSend EXCEPT ![r] = o + 1]
           /\ regSend' = IF o + 1 >= Size[r] THEN Tail(regSend) ELSE regSend
    /\ UNCHANGED <<svcVars, received, nremaining, slotSeq, expired, sendSeq, resetReq,
                   linked, pc, rxVars, completed, netVars, callVars>>

FillDone ==
    /\ pc = "Fill"
    /\ ~linked \/ regSend = <<>> \/ Room = {}
    /\ pc' = "Send"
    /\ UNCHANGED <<svcVars, regVars, slotVars, devVars, rxVars, completed, netVars, callVars>>

\* Second pass: send the messages that are Ready.
Ready == {i \in Slots : slotState[i] = "Ready"}

\* Device::run gives up the lock to call the completed records back.
Unlock ==
    /\ pc' = "Unlocked"
    /\ completed' = records
    /\ Swap

SeqNumber_Unmasked == sendSeq

SeqNumber == sendSeq % SeqMod

SendMessage ==
    /\ pc = "Send" /\ linked
    /\ \E i \in Slots :
           /\ First(i, Ready)
           /\ slotSeq' = [slotSeq EXCEPT ![i] = SeqNumber]
           /\ slotState' = [slotState EXCEPT ![i] = "Sent"]
           /\ expired' = [expired EXCEPT ![i] = FALSE]
           /\ requests' = requests \cup
                  {[slot |-> i, seq |-> SeqNumber, stamp |-> sendSeq, words |-> slotWord[i]]}
    /\ sendSeq' = sendSeq + 1
    /\ UNCHANGED <<svcVars, regVars, slotWord, regSend, resetReq, linked, pc, rxVars,
                   completed, replies, devMem, callVars>>

\* The socket would block: the message stays Ready for the next iteration,
\* which numbers it anew.
SendBlocked ==
    /\ pc = "Send" /\ linked
    /\ sendSeq < MaxSends
    /\ \E i \in Slots : First(i, Ready) /\ slotSeq' = [slotSeq EXCEPT ![i] = SeqNumber]
    /\ sendSeq' = sendSeq + 1
    /\ Unlock
    /\ UNCHANGED <<regVars, slotState, slotWord, expired, regSend, resetReq, linked,
                   rxVars, netVars, callVars>>

SendDone ==
    /\ pc = "Send"
    /\ ~linked \/ Ready = {}
    /\ Unlock
    /\ UNCHANGED <<regVars, slotVars, devVars, rxVars, netVars, callVars>>

----------------------------------------------------------------------------
\* The unlocked part of Device::run: complete the records taken ...
CompleteRecord ==
    /\ pc = "Unlocked"
    /\ \E c \in completed : completed' = completed \ {c}
    /\ UNCHANGED <<svcVars, regVars, slotVars, devVars, pc, rxVars, netVars, callVars>>

\* ... then poll, and lock again.  The replies recvfrom() takes here are chosen
\* when they are processed: nothing before that depends on them.
Poll ==
    /\ pc = "Unlocked"
    /\ completed = {}
    /\ pc' = "Recv"
    /\ nrecv' = 0
    /\ UNCHANGED <<svcVars, regVars, slotVars, devVars, packet, rxWord, completed,
                   netVars, callVars>>

\* Time passes while the worker polls.
Expire(i) ==
    /\ pc = "Unlocked"
    /\ slotState[i] = "Sent" /\ ~expired[i]
    /\ expired' = [expired EXCEPT ![i] = TRUE]
    /\ UNCHANGED <<svcVars, regVars, slotState, slotSeq, slotWord, devVars, pc, rxVars,
                   completed, netVars, callVars>>

----------------------------------------------------------------------------
\* Device::handle_process: the checks on the header of a packet.
Deliverable(p) == sendSeq - p.stamp <= Lifetime

Matches_AnySequence(p) == slotState[p.slot] = "Sent"

Matches(p) == slotState[p.slot] = "Sent" /\ slotSeq[p.slot] = p.seq

TakePacket(p) ==
    /\ pc = "Recv"
    /\ nrecv < NSlots
    /\ Deliverable(p)
    /\ nrecv' = nrecv + 1
    /\ IF Matches(p) THEN /\ packet' = p
                          /\ rxWord' = 0
                          /\ pc' = "Word"
                     ELSE UNCHANGED <<packet, rxWord, pc>>
    /\ UNCHANGED <<svcVars, regVars, slotVars, devVars, completed, netVars, callVars>>

RecvDone ==
    /\ pc = "Recv"
    /\ pc' = "Timeout"
    /\ UNCHANGED <<svcVars, regVars, slotVars, devVars, rxVars, completed, netVars, callVars>>

\* DevMsg::clear, but for the words, which the caller clears.
Clear(i) ==
    /\ slotState' = [slotState EXCEPT ![i] = "Free"]
    /\ slotSeq' = [slotSeq EXCEPT ![i] = 0]
    /\ expired' = [expired EXCEPT ![i] = FALSE]

\* The register timed out is taken off reg_send if it is being sent ...
Unqueued_Never(r) == regSend

Unqueued(r) == IF regSend # <<>> /\ Head(regSend) = r THEN Tail(regSend) ELSE regSend

\* ... and every message forgets its words.
Orphaned_OneMessage(i) == [slotWord EXCEPT ![i] = Empty]

Orphaned(i) == [k \in Slots |-> Empty]

\* Device::do_timeout(i).  The first register found in the message orphans the
\* words of every message, so no other register is cancelled here.
DoTimeout(i) ==
    /\ resetReq' = TRUE
    /\ Clear(i)
    /\ \/ /\ slotWord[i] = Empty
          /\ UNCHANGED <<svcVars, slotWord, regSend>>
       \/ \E j \in Pos :
             /\ First(j, {k \in Pos : slotWord[i][k] # NoWord})
             /\ slotWord' = Orphaned(i)
             /\ regSend' = Unqueued(slotWord[i][j].reg)
             /\ Cancel(slotWord[i][j].reg)
    /\ UNCHANGED <<regVars, sendSeq, linked>>

\* One word of the reply: store it and, when it is the last of its register,
\* complete the operation and start the one queued behind it.
Receive(i, j, w, data) ==
    LET r == w.reg
        left == IF w.off \in received[r] THEN nremaining[r] ELSE nremaining[r] - 1
    IN  /\ memRx' = IF w.write THEN memRx ELSE [memRx EXCEPT ![r][w.off] = data]
        /\ slotWord' = [slotWord EXCEPT ![i][j] = NoWord]
        /\ IF left = 0 THEN Finish(r)
           ELSE UNCHANGED <<state, flagVars, listVars, records, opSeq, devWritten>>
        /\ IF left = 0 /\ (writeQueued[r] \/ readQueued[r]) THEN Track(r)
           ELSE /\ received' = [received EXCEPT ![r] = @ \cup {w.off}]
                /\ nremaining' = [nremaining EXCEPT ![r] = left]
                /\ UNCHANGED <<nextSend, regSend>>
        /\ UNCHANGED <<present, slotState, slotSeq, expired, sendSeq, resetReq, linked>>

\* Does the reply's word echo the address and command of the request's?
Echoes_Anything(answer, w) == TRUE

Echoes(answer, w) ==
    answer # NoWord /\ answer.reg = w.reg /\ answer.off = w.off /\ answer.write = w.write

Data(answer) == IF answer = NoWord THEN 0 ELSE answer.data

ProcessWord ==
    /\ pc = "Word"
    /\ rxWord < NReg
    /\ rxWord' = rxWord + 1
    /\ LET i == packet.slot
           w == slotWord[i][rxWord]
           answer == packet.words[rxWord]
       IN  IF w = NoWord \/ ~InProgress(w.reg)
           THEN UNCHANGED <<svcVars, regVars, slotVars, devVars>>
           ELSE IF Echoes(answer, w) THEN Receive(i, rxWord, w, Data(answer))
                                     ELSE DoTimeout(i)
    /\ UNCHANGED <<pc, nrecv, packet, completed, netVars, callVars>>

ProcessEnd ==
    /\ pc = "Word"
    /\ rxWord = NReg
    /\ Clear(packet.slot)
    /\ slotWord' = [slotWord EXCEPT ![packet.slot] = Empty]
    /\ pc' = "Recv"
    /\ packet' = NoPacket
    /\ rxWord' = 0
    /\ UNCHANGED <<svcVars, regVars, devVars, nrecv, completed, netVars, callVars>>

----------------------------------------------------------------------------
\* Device::handle_timeout
Overdue_AllButLast == {i \in Slots \ {NSlots - 1} : slotState[i] = "Sent" /\ expired[i]}

Overdue == {i \in Slots : slotState[i] = "Sent" /\ expired[i]}

HandleTimeout ==
    /\ pc = "Timeout"
    /\ \E i \in Slots : First(i, Overdue) /\ DoTimeout(i)
    /\ UNCHANGED <<pc, rxVars, completed, netVars, callVars>>

TimeoutDone ==
    /\ pc = "Timeout"
    /\ Overdue = {}
    /\ pc' = "State"
    /\ UNCHANGED <<svcVars, regVars, slotVars, devVars, rxVars, completed, netVars, callVars>>

----------------------------------------------------------------------------
\* Device::reset: the registers it deletes are created anew by StateAttach.
Renewed(tracking, new) == [r \in Regs |-> IF r \in Boot THEN tracking[r] ELSE new[r]]

ResetAll ==
    /\ Reset
    /\ nextSend' = Renewed(nextSend, Size)
    /\ received' = Renewed(received, [r \in Regs |-> {}])
    /\ nremaining' = Renewed(nremaining, [r \in Regs |-> 0])
    /\ slotState' = [i \in Slots |-> "Free"]
    /\ slotSeq' = [i \in Slots |-> 0]
    /\ slotWord' = [i \in Slots |-> Empty]
    /\ expired' = [i \in Slots |-> FALSE]
    /\ regSend' = <<>>
    /\ memTx' = [r \in Regs |-> Untouched(r)]
    /\ uncommitted' = [r \in Regs |-> {}]
    /\ resetReq' = FALSE
    /\ UNCHANGED sendSeq

\* Device::handle_state when a reset is asked for, by a timeout or by a record.
\* The new state is Error, Idle or Searching.
StateReset ==
    /\ pc = "State"
    /\ resetReq
    /\ ResetAll
    /\ linked' \in BOOLEAN
    /\ pc' = "Fill"
    /\ UNCHANGED <<rxVars, completed, netVars, calls>>

\* Otherwise it may read a bootstrap register ...
StateQueue ==
    /\ pc = "State"
    /\ ~resetReq /\ linked
    /\ \E r \in Boot \cap Readable : QueueReg(r, FALSE, NoInterest)
    /\ calls < MaxCalls /\ calls' = calls + 1
    /\ UNCHANGED <<slotVars, sendSeq, resetReq, linked, pc, rxVars, completed, netVars,
                   memTx, uncommitted>>

\* ... create the registers named in the ROM ...
StateAttach ==
    /\ pc = "State"
    /\ ~resetReq /\ linked
    /\ present # Regs
    /\ Attach(Regs)
    /\ pc' = "Fill"
    /\ UNCHANGED <<regVars, slotVars, devVars, rxVars, completed, netVars, callVars>>

\* ... or only, perhaps, leave Idle.
StateDone ==
    /\ pc = "State"
    /\ ~resetReq
    /\ linked' \in {linked, TRUE}
    /\ pc' = "Fill"
    /\ UNCHANGED <<svcVars, regVars, slotVars, regSend, sendSeq, resetReq, rxVars,
                   completed, netVars, callVars>>

\* The catch of Device::run: sendto() or poll() failed, or handle_inspect found
\* no usable description of the registers.
WorkerError ==
    /\ \/ pc = "Send" /\ linked /\ Ready # {}
       \/ pc = "Unlocked" /\ completed = {}
       \/ pc = "State" /\ ~resetReq /\ linked /\ present # Regs
    /\ ResetAll
    /\ linked' = FALSE
    /\ pc' = "Fill"
    /\ UNCHANGED <<rxVars, completed, netVars, calls>>

Worker ==
    \/ FillWord \/ FillDone \/ SendMessage \/ SendDone
    \/ CompleteRecord \/ Poll
    \/ \E p \in replies : TakePacket(p)
    \/ RecvDone \/ ProcessWord \/ ProcessEnd
    \/ HandleTimeout \/ TimeoutDone
    \/ StateReset \/ StateQueue \/ StateAttach \/ StateDone

----------------------------------------------------------------------------
(***************************************************************************)
(* Records.  A record is busy (PACT) from the call that makes it wait for  *)
(* an operation until it has been called back, and makes no call meanwhile.*)
(***************************************************************************)
Busy(i) ==
    \/ \E r \in Regs : i \in recordsInprog[r] \cup recordsWrite[r] \cup recordsRead[r]
    \/ \E r \in Regs : <<r, i>> \in records \cup completed

Call(i) ==
    /\ pc = "Unlocked"
    /\ i # NoInterest => ~Busy(i)
    /\ calls < MaxCalls
    /\ calls' = calls + 1

ReadRegister(r, i) ==
    /\ Call(i)
    /\ r \in Readable
    /\ QueueReg(r, FALSE, i)
    /\ UNCHANGED <<slotVars, sendSeq, resetReq, linked, pc, rxVars, completed, netVars,
                   memTx, uncommitted>>

\* The words S of the send cache are set (none by a Flush record) ...
SetWords(r, S) ==
    memTx' = [memTx EXCEPT ![r] = [o \in Offsets(r) |-> IF o \in S THEN calls + 1 ELSE @[o]]]

\* ... and the register written, unless the record has commit=false.
WriteRegister(r, S, i) ==
    /\ Call(i)
    /\ r \in Writable
    /\ SetWords(r, S)
    /\ uncommitted' = [uncommitted EXCEPT ![r] = {}]
    /\ QueueReg(r, TRUE, i)
    /\ UNCHANGED <<slotVars, sendSeq, resetReq, linked, pc, rxVars, completed, netVars>>

CacheRegister(r, S) ==
    /\ Call(NoInterest)
    /\ r \in Writable \cap present
    /\ SetWords(r, S)
    /\ uncommitted' = [uncommitted EXCEPT ![r] = @ \cup S]
    /\ UNCHANGED <<svcVars, regVars, slotVars, devVars, pc, rxVars, completed, netVars>>

\* A record sets the address (Device::request_reset).
RequestReset ==
    /\ Call(NoInterest)
    /\ resetReq' = TRUE
    /\ UNCHANGED <<svcVars, regVars, slotVars, regSend, sendSeq, linked, pc, rxVars,
                   completed, netVars, memTx, uncommitted>>

Record ==
    \/ \E r \in Regs, i \in Interests \cup {NoInterest} : ReadRegister(r, i)
    \/ \E r \in Regs, i \in Interests \cup {NoInterest} :
          \E S \in SUBSET Offsets(r) : WriteRegister(r, S, i)
    \/ \E r \in Regs : \E S \in SUBSET Offsets(r) \ {{}} : CacheRegister(r, S)
    \/ RequestReset

----------------------------------------------------------------------------
(***************************************************************************)
(* The device executes the words of a request in order and echoes them     *)
(* with the data read (the simulator's exec).  A read samples the register *)
(* during whatever operation the driver has in progress on it.             *)
(***************************************************************************)
Answer(w) ==
    IF w = NoWord THEN NoWord
    ELSE [reg |-> w.reg, off |-> w.off, write |-> w.write,
          data |-> IF w.write THEN 0 ELSE opSeq[w.reg]]

Writes(q, r) == {w \in {q.words[j] : j \in Pos} : w # NoWord /\ w.write /\ w.reg = r}

\* The slot still waits for exactly this request.
Awaited(q) == slotState[q.slot] = "Sent" /\ slotSeq[q.slot] = q.seq

Answered(q) == \E p \in replies : p.stamp = q.stamp

Serve(q) ==
    /\ sendSeq - q.stamp <= Lifetime
    /\ Resend \/ (Awaited(q) /\ ~Answered(q))
    /\ devMem' = [r \in Regs |-> [o \in Offsets(r) |->
          LET new == {w \in Writes(q, r) : w.off = o}
          IN  IF new = {} THEN devMem[r][o] ELSE (CHOOSE w \in new : TRUE).val]]
    /\ devWritten' = [r \in Regs |-> devWritten[r] \cup
          {w.off : w \in {v \in Writes(q, r) : state[r] = "Writing" /\ v.op = opSeq[r]}}]
    /\ \E bad \in IF Corrupt THEN SUBSET Pos ELSE {{}} :
          replies' = replies \cup
             {[slot |-> q.slot, seq |-> q.seq, stamp |-> q.stamp,
               words |-> [j \in Pos |-> IF j \in bad THEN NoWord ELSE Answer(q.words[j])]]}
    /\ UNCHANGED <<present, state, flagVars, listVars, records, opSeq, memRx, regVars,
                   slotVars, devVars, pc, rxVars, completed, requests, callVars>>

----------------------------------------------------------------------------
Init ==
    /\ RegistersInit
    /\ nextSend = [r \in Regs |-> Size[r]]
    /\ received = [r \in Regs |-> {}]
    /\ nremaining = [r \in Regs |-> 0]
    /\ memTx = [r \in Regs |-> Untouched(r)]
    /\ slotState = [i \in Slots |-> "Free"]
    /\ slotSeq = [i \in Slots |-> 0]
    /\ slotWord = [i \in Slots |-> Empty]
    /\ expired = [i \in Slots |-> FALSE]
    /\ regSend = <<>>
    /\ sendSeq = 0
    /\ resetReq = FALSE
    /\ linked = FALSE
    /\ pc = "Fill"
    /\ nrecv = 0
    /\ packet = NoPacket
    /\ rxWord = 0
    /\ completed = {}
    /\ requests = {}
    /\ replies = {}
    /\ devMem = [r \in Regs |-> Untouched(r)]
    /\ calls = 0
    /\ uncommitted = [r \in Regs |-> {}]

Next ==
    \/ Worker
    \/ SendBlocked \/ WorkerError
    \/ \E i \in Slots : Expire(i)
    \/ Record
    \/ \E q \in requests : Serve(q)

Spec == Init /\ [][Next]_vars

(***************************************************************************)
(* The worker's loop never stops; each of its iterations polls, which      *)
(* takes time, so a message that waits for its reply falls due.  Nothing   *)
(* is assumed of the records, the network or the device.                   *)
(***************************************************************************)
FairSpec ==
    /\ Spec
    /\ WF_vars(Worker)
    /\ \A i \in Slots : SF_vars(Expire(i))
----------------------------------------------------------------------------
Packet(w) == [slot : Slots, seq : 0 .. SeqMod - 1, stamp : Nat, words : [Pos -> w \cup {NoWord}]]

RegsTypeOK ==
    /\ RegistersTypeOK
    /\ nextSend \in [Regs -> Nat]
    /\ received \in [Regs -> SUBSET Nat]
    /\ nremaining \in [Regs -> Nat]
    /\ DOMAIN memTx = Regs /\ \A r \in Regs : memTx[r] \in [Offsets(r) -> Nat]
    /\ uncommitted \in [Regs -> SUBSET Nat]

SlotsTypeOK ==
    /\ slotState \in [Slots -> {"Free", "Ready", "Sent"}]
    /\ slotSeq \in [Slots -> 0 .. SeqMod - 1]
    /\ slotWord \in [Slots -> [Pos -> Word \cup {NoWord}]]
    /\ expired \in [Slots -> BOOLEAN]

DeviceTypeOK ==
    /\ regSend \in Seq(Regs)
    /\ sendSeq \in Nat
    /\ resetReq \in BOOLEAN
    /\ linked \in BOOLEAN
    /\ calls \in Nat

WorkerTypeOK ==
    /\ pc \in Phases
    /\ nrecv \in 0 .. NSlots
    /\ packet \in Packet(AnswerWord) \cup {NoPacket}
    /\ pc = "Word" => packet \in Packet(AnswerWord)
    /\ rxWord \in 0 .. NReg
    /\ completed \in SUBSET (Regs \X Interests)

NetworkTypeOK ==
    /\ requests \subseteq Packet(Word)
    /\ replies \subseteq Packet(AnswerWord)
    /\ DOMAIN devMem = Regs /\ \A r \in Regs : devMem[r] \in [Offsets(r) -> Nat]

\* Every variable has the type its comment gives it.
TypeOK == RegsTypeOK /\ SlotsTypeOK /\ DeviceTypeOK /\ WorkerTypeOK /\ NetworkTypeOK

\* No word of a register is in two messages.
CarriedOnce ==
    \A r \in Regs, i, k \in Slots, j, l \in Pos :
        /\ Carries(i, j, r) /\ Carries(k, l, r)
        /\ slotWord[i][j].off = slotWord[k][l].off
        => i = k /\ j = l

\* A word is received or in a message only once it has been put in one, and
\* nremaining counts the words not received.
Tracked ==
    \A r \in Regs : InProgress(r) =>
        /\ nextSend[r] <= Size[r]
        /\ received[r] \subseteq 0 .. nextSend[r] - 1
        /\ nremaining[r] = Size[r] - Cardinality(received[r])
        /\ \A i \in Slots, j \in Pos : Carries(i, j, r) =>
              slotWord[i][j].off \in (0 .. nextSend[r] - 1) \ received[r]

\* A word that has been put in a message is received or still in a message.
Covered ==
    \A r \in Regs : InProgress(r) =>
        \A o \in (0 .. nextSend[r] - 1) \ received[r] :
            \E i \in Slots, j \in Pos : Carries(i, j, r) /\ slotWord[i][j].off = o

\* The accounting of Device::handle_send and handle_process: each word of an
\* operation in progress is in exactly one of three places, still to be put in
\* a message, in one message slot, or received.  Only a message that timed out,
\* or was refused, loses words, and then a reset follows at once.
WordsAccounted == CarriedOnce /\ Tracked /\ (resetReq \/ Covered)

\* reg_send holds exactly the registers with words still to be sent, without
\* repetition, and only its front can have been sent in part.
SendQueue ==
    /\ \A r \in Regs : (\E k \in 1 .. Len(regSend) : regSend[k] = r)
                        <=> InProgress(r) /\ nextSend[r] < Size[r]
    /\ \A k, l \in 1 .. Len(regSend) : regSend[k] = regSend[l] => k = l
    /\ \A k \in 2 .. Len(regSend) : nextSend[regSend[k]] = 0

\* A message slot that is Free carries nothing, and what a slot carries
\* belongs to the operation its register is in.
SlotsCurrent ==
    \A i \in Slots, j \in Pos, r \in Regs : Carries(i, j, r) =>
        /\ slotState[i] # "Free"
        /\ InProgress(r)
        /\ slotWord[i][j].op = opSeq[r]
        /\ slotWord[i][j].write = (state[r] = "Writing")

\* While a reply is processed, the words before rxWord have left its message.
Processed ==
    pc = "Word" => \A j \in 0 .. rxWord - 1 : slotWord[packet.slot][j] = NoWord

\* The inductive invariant of the safety proofs.
Inv == TypeOK /\ SendQueue /\ SlotsCurrent /\ WordsAccounted /\ Processed

(***************************************************************************)
(* Messages in flight.                                                     *)
(***************************************************************************)

\* What travels keeps the header it was sent with.
Headers ==
    \A m \in requests \cup replies : m.stamp < sendSeq /\ m.seq = m.stamp % SeqMod

\* A slot still waits for message m, or for the reply m to it.
Live(m) == Matches(m) /\ Deliverable(m)

\* A slot that waits for a request carries words of that request alone.
RequestsKept ==
    \A q \in requests, j \in Pos :
        /\ q.words[j] # NoWord => q.words[j].off \in Offsets(q.words[j].reg)
        /\ Live(q) => slotWord[q.slot][j] \in {NoWord, q.words[j]}

\* A word of a reply that the driver would accept was executed by the device
\* for the operation in progress.
AnswersTrue ==
    \A p \in replies, j \in Pos :
        LET w == slotWord[p.slot][j] IN
        Live(p) /\ w # NoWord /\ Echoes(p.words[j], w) =>
            IF w.write THEN w.off \in devWritten[w.reg]
                       ELSE p.words[j].data = opSeq[w.reg]

\* So were the words received since the operation began.
WordsTrue ==
    \A r \in Regs : \A o \in received[r] :
        /\ state[r] = "Reading" => memRx[r][o] = opSeq[r]
        /\ state[r] = "Writing" => o \in devWritten[r]

\* The reply handle_process works on is one the slot waits for, unless a word
\* of it was refused, which orphaned the words of the slot.
PacketLive ==
    pc = "Word" => /\ packet \in replies /\ Deliverable(packet)
                   /\ Matches(packet) \/ slotWord[packet.slot] = Empty

\* No reply, however late, is taken for the answer to another request, and what
\* a slot accepts happened since the operation of its word began: with Inv, this
\* is what makes an operation complete only when it is (ServiceSpec).
InFlight == Headers /\ RequestsKept /\ AnswersTrue /\ WordsTrue /\ PacketLive

\* Records wait only for operations that will call them back.
WaitsServed ==
    \A r \in Regs :
        /\ ~InProgress(r) => recordsInprog[r] = {}
        /\ ~writeQueued[r] => recordsWrite[r] = {}
        /\ ~readQueued[r] => recordsRead[r] = {}
        /\ state[r] # "Writing" /\ ~resetReq => ~readQueued[r]

\* Once no write of a register is in progress or queued, the device holds what
\* the send cache holds: a write that arrives while the words of another are
\* being sent is never lost (words set with commit=false since the last write
\* was asked for are not promised to be there).  This needs a network that
\* delivers no request twice and none after its timeout.
DeviceHasCache ==
    \A r \in Regs : state[r] \in {"InSync", "Reading"} /\ ~writeQueued[r] =>
        \A o \in Offsets(r) \ uncommitted[r] :
            memTx[r][o] # 0 => devMem[r][o] = memTx[r][o]

\* Words were orphaned by a timeout or a refusal; the reset is about to come.
Lost ==
    /\ resetReq
    /\ pc \in {"Recv", "Word", "Timeout", "State"}
    /\ slotWord = [i \in Slots |-> Empty]

\* Nothing is left to write for word o of register r, when `v' is what the
\* device holds, or is about to.
Settled(r, o, v) == o \in uncommitted[r] \/ memTx[r][o] \in {0, v}

\* A request that waits to be executed stores only words that are awaited, and
\* after a loss only in registers that are not read.
RequestsAwaited ==
    \A q \in requests, j \in Pos :
        Live(q) /\ ~Answered(q) /\ q.words[j] # NoWord =>
            \/ slotWord[q.slot][j] = q.words[j]
            \/ Lost /\ (q.words[j].write => state[q.words[j].reg] \in {"Writing", "Invalid"})

\* The device holds the value of a word whose reply the driver would accept.
AnswersStored ==
    \A p \in replies, j \in Pos :
        LET w == slotWord[p.slot][j] IN
        Live(p) /\ w # NoWord /\ w.write /\ Echoes(p.words[j], w) =>
            devMem[w.reg][w.off] = w.val

\* Unless a write is queued, the words received, all of them when no operation
\* is in progress, hold in the device what they hold in the send cache, and the
\* words in a message are about to.
WordsSettled ==
    \A r \in Regs : ~writeQueued[r] =>
        /\ \/ state[r] \in {"InSync", "Reading"}
           \/ state[r] = "Invalid" /\ ~Lost
           => \A o \in Offsets(r) : Settled(r, o, devMem[r][o])
        /\ state[r] = "Writing" /\ ~Lost =>
              /\ \A o \in received[r] : Settled(r, o, devMem[r][o])
              /\ \A i \in Slots, j \in Pos : Carries(i, j, r) =>
                    Settled(r, slotWord[i][j].off, slotWord[i][j].val)

\* Why DeviceHasCache holds: while words are still being sent, each is either
\* settled or accounted for.
CacheKept == RequestsAwaited /\ AnswersStored /\ WordsSettled

\* A word set with commit=false is not sent before a write is asked for.
NotSentUncommitted ==
    \A r \in Regs : \A o \in uncommitted[r] : devMem[r][o] # memTx[r][o]

\* A record that waits for a register while the worker sends is called back,
\* whatever the network and the device do: the operation completes, or times
\* out, or is cancelled.
CalledBack == \A i \in Interests : (Busy(i) /\ linked) ~> ~Busy(i)

\* Engine implements RegisterService: an operation completes only when the device
\* has read, or stored, every one of its words since the operation began,
\* whatever replies are lost, late, duplicated or refused.
Service == INSTANCE RegisterService
ServiceSpec == Service!Spec
============================================================================
