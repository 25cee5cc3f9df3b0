----------------------------- MODULE FFT_proofs -----------------------------
(***************************************************************************)
(* Theorems about FFT, for any number of signals, lengths of their arrays, *)
(* and size of the queue.                                                  *)
(***************************************************************************)
EXTENDS FFT, SequenceTheorems, WellFoundedInduction, TLAPS

USE FFTAssumption, OrderAssumption

Message == [signal : Signals, len : Nat]

\* What the proof needs of the types of variables.
Typed ==
    /\ started \in 0 .. Len(Order)
    /\ got \in [Signals -> Nat \X Nat]
    /\ sendPc \in [Signals -> {"idle", "fetch", "post"}]
    /\ queue \in Seq(Message)
    /\ job \in Message

\* The buffer has the length of the record that was initialized first.
Sized == maxLen = IF started = 0 THEN 0 ELSE Order[1].noa

\* A record has fetched no more than it has room for, and only after all records
\* have been initialized.
Fetched ==
    \A s \in Signals :
        /\ got[s][1] <= Size[s] /\ got[s][2] <= Size[s]
        /\ sendPc[s] # "idle" => Running

\* A message asks for an even number of values, of which none is beyond the arrays.
Fits(m) ==
    /\ m.len <= Order[1].noa
    /\ m.len % 2 = 0
    /\ m.len > 0 => Running

Posted == Fits(job) /\ \A i \in DOMAIN queue : Fits(queue[i])

Inv == Typed /\ Sized /\ Fetched /\ Posted

----------------------------------------------------------------------------
\* There is a first record, and its length is a number that is not 0.
LEMMA Longest == Len(Order) \in Nat \ {0} /\ Order[1].noa \in Nat \ {0} /\ Order[1].signal \in Signals
<1> DEFINE R == {Sender(s) : s \in Signals} \cup {Receiver(s) : s \in Signals}
<1>1. Order \in Seq(R) /\ Order # <<>>  OBVIOUS
<1> HIDE DEF R
<1>2. Len(Order) \in Nat \ {0}  BY <1>1, EmptySeq, LenProperties
<1>3. Order[1] \in R  BY <1>1, <1>2, ElementOfSeq
<1> QED  BY <1>2, <1>3 DEF R, Sender, Receiver

\* Every bin of an even number of values, and its frequency, has a place among
\* them; an odd number would put the bin in the middle before the first place.
LEMMA EvenFits ==
    ASSUME NEW len \in Nat, len > 0, len % 2 = 0, NEW type \in {"C2C", "R2C"},
           NEW n \in 0 .. OutLen(type, len) - 1
    PROVE  {n, Position(type, n, len)} \subseteq 0 .. len - 1
<1>1. PICK half \in Nat : len = half + half
    <2>1. len = 2 * (len \div 2) + (len % 2)  OBVIOUS
    <2>2. len \div 2 \in Nat  OBVIOUS
    <2> QED  BY <2>1, <2>2
<1>2. len \div 2 = half /\ (len + 1) \div 2 = half /\ half > 0
    BY <1>1
<1>3. n \in 0 .. len - 1
    BY <1>1, <1>2 DEF OutLen
<1>4. Position(type, n, len) \in 0 .. len - 1
    BY <1>1, <1>2, <1>3 DEF Position
<1> QED  BY <1>3, <1>4

\* The length posted is even, and no more than what was fetched of each input.
LEMMA SendLenEven ==
    ASSUME Typed, NEW s \in Signals
    PROVE  /\ SendLen(s) \in Nat /\ SendLen(s) % 2 = 0
           /\ SendLen(s) <= got[s][1] /\ SendLen(s) <= got[s][2]
<1> DEFINE len == IF got[s][1] > got[s][2] THEN got[s][2] ELSE got[s][1]
<1>1. got[s][1] \in Nat /\ got[s][2] \in Nat  BY DEF Typed
<1>2. len \in Nat /\ len <= got[s][1] /\ len <= got[s][2]  BY <1>1
<1>3. SendLen(s) = len - (len % 2)  BY DEF SendLen
<1> HIDE DEF len
<1>4. PICK half \in Nat : len = 2 * half + (len % 2) /\ len % 2 \in {0, 1}
    <2>1. len \div 2 \in Nat /\ len = 2 * (len \div 2) + (len % 2) /\ len % 2 \in {0, 1}  BY <1>2
    <2> QED  BY <2>1
<1>5. SendLen(s) = 2 * half /\ SendLen(s) <= len
    <2>1. \A r \in {0, 1} : len = 2 * half + r => len - r = 2 * half /\ len - r <= len
        BY <1>2
    <2> QED  BY <1>3, <1>4, <2>1
<1>6. (2 * half) % 2 = 0  OBVIOUS
<1> QED  BY <1>1, <1>2, <1>4, <1>5, <1>6

----------------------------------------------------------------------------
\* The first record to be initialized sizes the buffer, the others leave it.
LEMMA InitRecordStep == ASSUME Inv, InitRecord PROVE Inv'
<1> USE DEF Inv
<1>1. /\ started < Len(Order) /\ started' = started + 1
      /\ UNCHANGED <<got, sendPc, queue, job>>
    BY DEF InitRecord, sendVars
<1>2. Typed'  BY <1>1, Longest DEF Typed
<1>3. Sized'
    BY <1>1, Longest DEF InitRecord, Sized, initVars, Typed
<1>4. ~Running  BY <1>1, Longest DEF Running
<1>5. Fetched'  BY <1>1, <1>4 DEF Fetched
<1>6. Posted'
    <2>1. ASSUME NEW m \in Message, Fits(m) PROVE Fits(m)'
        BY <1>4, <2>1 DEF Fits, Message
    <2>2. job \in Message /\ \A i \in DOMAIN queue : queue[i] \in Message
        BY ElementOfSeq DEF Typed
    <2> QED  BY <1>1, <2>1, <2>2 DEF Posted
<1> QED  BY <1>2, <1>3, <1>5, <1>6

\* Messages stay as they are.
LEMMA PostedStays == ASSUME Posted, UNCHANGED <<initVars, queue, job>> PROVE Posted'
BY DEF Posted, Fits, Running, initVars

LEMMA FetchAStep == ASSUME Inv, NEW s \in Signals, FetchA(s) PROVE Inv'
<1> USE DEF Inv
<1>1. PICK shape \in Shapes :
        /\ shape[1] <= Size[s] /\ shape[2] <= Size[s]
        /\ got' = [got EXCEPT ![s] = shape]
    BY DEF FetchA
<1>2. Running /\ sendPc' = [sendPc EXCEPT ![s] = "fetch"] /\ UNCHANGED <<initVars, queue, job>>
    BY DEF FetchA, workVars
<1>3. shape \in Nat \X Nat  OBVIOUS
<1>4. Typed'  BY <1>1, <1>2, <1>3 DEF Typed, initVars
<1>5. Sized'  BY <1>2 DEF Sized, initVars
<1>6. Fetched'  BY <1>1, <1>2 DEF Fetched, Typed, Running, initVars
<1> QED  BY <1>2, <1>4, <1>5, <1>6, PostedStays

LEMMA FetchBStep == ASSUME Inv, NEW s \in Signals, FetchB(s) PROVE Inv'
<1> USE DEF Inv
<1>1. /\ sendPc[s] = "fetch"
      /\ \E to \in {"post", "idle"} : sendPc' = [sendPc EXCEPT ![s] = to]
      /\ UNCHANGED <<initVars, got, queue, job>>
    BY DEF FetchB, workVars
<1>2. Typed'  BY <1>1 DEF Typed, initVars
<1>3. Sized'  BY <1>1 DEF Sized, initVars
<1>4. Fetched'  BY <1>1 DEF Fetched, Typed, Running, initVars
<1> QED  BY <1>1, <1>2, <1>3, <1>4, PostedStays

LEMMA PostStep == ASSUME Inv, NEW s \in Signals, Post(s) PROVE Inv'
<1> USE DEF Inv
<1> DEFINE m == [signal |-> s, len |-> SendLen(s)]
<1>1. /\ sendPc[s] = "post" /\ sendPc' = [sendPc EXCEPT ![s] = "idle"]
      /\ queue' = Append(queue, m)
      /\ UNCHANGED <<initVars, got, job>>
    BY DEF Post, workVars
<1>2. m \in Message /\ Fits(m)
    <2>1. /\ SendLen(s) \in Nat /\ SendLen(s) % 2 = 0 /\ SendLen(s) <= got[s][1]
          /\ got[s][1] \in Nat
        BY SendLenEven DEF Typed
    <2>2. got[s][1] <= Size[s] /\ Running  BY <1>1 DEF Fetched
    <2>3. SendLen(s) <= Order[1].noa
        <3>1. Size[s] <= Order[1].noa /\ Size[s] \in Nat  OBVIOUS
        <3> QED  BY <2>1, <2>2, <3>1, Longest
    <2> QED  BY <2>1, <2>2, <2>3 DEF Message, Fits
<1> HIDE DEF m
<1>3. queue \in Seq(Message)  BY DEF Typed
<1>4. queue' \in Seq(Message) /\ \A i \in DOMAIN queue' : queue'[i] = m \/ (i \in DOMAIN queue /\ queue'[i] = queue[i])
    BY <1>1, <1>2, <1>3, AppendProperties
<1>5. Typed'  BY <1>1, <1>4 DEF Typed, initVars
<1>6. Sized' /\ Fetched'  BY <1>1 DEF Sized, Fetched, Typed, Running, initVars
<1>7. Posted'  BY <1>1, <1>2, <1>4 DEF Posted, Fits, Running, initVars
<1> QED  BY <1>5, <1>6, <1>7

LEMMA ReceiveStep == ASSUME Inv, Receive PROVE Inv'
<1> USE DEF Inv
<1>1. /\ queue # <<>> /\ job' = Head(queue) /\ queue' = Tail(queue)
      /\ UNCHANGED <<initVars, got, sendPc>>
    BY DEF Receive, sendVars
<1>2. queue \in Seq(Message)  BY DEF Typed
<1>3. /\ job' \in Message /\ job' = queue[1] /\ 1 \in DOMAIN queue
      /\ queue' \in Seq(Message)
      /\ \A i \in DOMAIN queue' : i + 1 \in DOMAIN queue /\ queue'[i] = queue[i + 1]
    BY <1>1, <1>2, HeadTailProperties, LenProperties, EmptySeq
<1>4. Typed'  BY <1>1, <1>3 DEF Typed, initVars
<1>5. Sized' /\ Fetched'  BY <1>1 DEF Sized, Fetched, Running, initVars
<1>6. Posted'  BY <1>1, <1>3 DEF Posted, Fits, Running, initVars
<1> QED  BY <1>4, <1>5, <1>6

\* The other steps leave lengths and messages alone.
LEMMA OtherStep == ASSUME Inv, UNCHANGED <<initVars, got, sendPc, queue, job>> PROVE Inv'
BY PostedStays DEF Inv, Typed, Sized, Fetched, Running, initVars

LEMMA InitInv == Init => Inv
<1> SUFFICES ASSUME Init PROVE Inv  OBVIOUS
<1>1. Typed  BY Longest DEF Init, Typed, Message
<1>2. Sized  BY DEF Init, Sized
<1>3. Fetched  BY DEF Init, Fetched
<1>4. Posted  BY Longest DEF Init, Posted, Fits
<1> QED  BY <1>1, <1>2, <1>3, <1>4 DEF Inv

LEMMA NextInv == Inv /\ [Next]_vars => Inv'
<1> SUFFICES ASSUME Inv, [Next]_vars PROVE Inv'  OBVIOUS
<1>1. CASE InitRecord  BY <1>1, InitRecordStep
<1>2. CASE \E s \in Signals : Send(s)  BY <1>2, FetchAStep, FetchBStep, PostStep DEF Send
<1>3. CASE Receive  BY <1>3, ReceiveStep
<1>4. CASE \/ CreatePlans \/ PlanFailure \/ UpdatePlan \/ Lock \/ PostEvent
          \/ \E half \in 1..2 : ReadInput(half) \/ WriteOutput(half)
          \/ \E s \in Signals : Recv(s)
          \/ UNCHANGED vars
    <2>1. UNCHANGED <<initVars, got, sendPc, queue, job>>
        BY <1>4 DEF CreatePlans, PlanFailure, UpdatePlan, Lock, PostEvent, ReadInput, WriteOutput,
            Recv, RecvStart, RecvLock, RecvCopy, vars, sendVars, workVars
    <2> QED  BY <2>1, OtherStep
<1> QED  BY <1>1, <1>2, <1>3, <1>4 DEF Next, Worker

\* The inductive invariant, from which the theorem below follows.
THEOREM FFTInv == Spec => []Inv
<1> QED  BY InitInv, NextInv, PTL DEF Spec

\* The worker never writes outside the part of the shared buffer that belongs to a
\* signal (fft_task, fft_calc_send), whatever the lengths of the signals' records,
\* as long as the first to be initialized is the longest.
THEOREM NeverOutside == Spec => []WithinBuffers
<1>1. Inv => WithinBuffers
    <2> SUFFICES ASSUME Inv,
                        NEW m \in {queue[i] : i \in DOMAIN queue} \cup {job},
                        NEW n \in 0 .. OutLen(Type[m.signal], m.len) - 1,
                        m.len > 0
                 PROVE  {n, Position(Type[m.signal], n, m.len)} \subseteq 0 .. maxLen - 1
        BY DEF WithinBuffers
    <2>1. m \in Message  BY ElementOfSeq DEF Inv, Typed
    <2>2. Fits(m)  BY DEF Inv, Posted
    <2>3. {n, Position(Type[m.signal], n, m.len)} \subseteq 0 .. m.len - 1
        <3>1. m.len \in Nat /\ m.len % 2 = 0 /\ Type[m.signal] \in {"C2C", "R2C"}
            BY <2>1, <2>2 DEF Fits, Message
        <3> QED  BY <3>1, EvenFits
    <2>4. maxLen = Order[1].noa
        BY <2>2, Longest DEF Inv, Sized, Fits, Running
    <2>5. m.len <= maxLen  BY <2>2, <2>4 DEF Fits
    <2> QED  BY <2>1, <2>3, <2>4, <2>5, Longest DEF Message
<1> QED  BY <1>1, FFTInv, PTL

----------------------------------------------------------------------------
(***************************************************************************)
(* Types.                                                                  *)
(***************************************************************************)

CellType == [bin : Int, of : SUBSET Nat, len : Nat]
FreqType == [bin : Int, len : Nat]

\* The frequency of a bin, and the length of a transform, are integers.
LEMMA BinTypes ==
    ASSUME NEW type \in {"C2C", "R2C"}, NEW n \in Nat, NEW len \in Nat
    PROVE  /\ Bin(type, n, len) \in Int /\ Frequency(type, n, len) \in Int
           /\ OutLen(type, len) \in Nat
<1>1. len \div 2 \in Nat  OBVIOUS
<1> QED  BY <1>1 DEF Bin, Frequency, OutLen

\* The values of a half are natural numbers.
LEMMA HalfNat == ASSUME NEW half, NEW total, NEW len PROVE HalfOf(half, total, len) \subseteq Nat
BY DEF HalfOf

\* The length posted is a natural number.
LEMMA SendLenNat ==
    ASSUME NEW s \in Signals, got \in [Signals -> Nat \X Nat]
    PROVE  SendLen(s) \in Nat
<1> DEFINE len == IF got[s][1] > got[s][2] THEN got[s][2] ELSE got[s][1]
<1>1. len \in Nat  OBVIOUS
<1>2. SendLen(s) = len - (len % 2)  BY DEF SendLen
<1> HIDE DEF len
<1>3. PICK half \in Nat : len = 2 * half + (len % 2)
    <2>1. len \div 2 \in Nat /\ len = 2 * (len \div 2) + (len % 2)  BY <1>1
    <2> QED  BY <2>1
<1>4. len - (len % 2) = 2 * half
    <2>1. len % 2 \in {0, 1}  BY <1>1
    <2>2. \A r \in {0, 1} : len = 2 * half + r => len - r = 2 * half  BY <1>1
    <2> QED  BY <1>3, <2>1, <2>2
<1> QED  BY <1>2, <1>4

\* TypeOK, by component.
SendTyped ==
    /\ re \in [Signals -> [Positions -> Nat]] /\ im \in [Signals -> [Positions -> Nat]]
    /\ got \in [Signals -> Nat \X Nat]
    /\ measured \in [Signals -> Nat] /\ accepted \in [Signals -> Nat]
    /\ sendPc \in [Signals -> {"idle", "fetch", "post"}]

QueueTyped == queue \in Seq(Message) /\ Len(queue) <= QueueSize

WorkTyped ==
    /\ started \in 0 .. Len(Order) /\ maxLen \in {0, Order[1].noa}
    /\ workPc \in {"none", "start", "receive", "plan", "lock", "read1", "read2", "write1",
                   "write2", "post", "exited"}
    /\ job \in Message
    /\ planLen \in [{"C2C", "R2C"} -> Nat]
    /\ seen \subseteq Nat

DataTyped ==
    /\ data \in [Signals -> [Positions -> CellType]]
    /\ freq \in [Signals -> [Positions -> FreqType]]
    /\ lenOut \in [Signals -> Nat] /\ stepLen \in [Signals -> Nat]

ValType == [cells : [Positions -> CellType], freqs : [Positions -> FreqType]]
ShownType == [len : Nat, step : Nat, cells : [Positions -> CellType], freqs : [Positions -> FreqType]]

RecvTyped ==
    /\ event \in [Signals -> BOOLEAN]
    /\ recvPc \in [Signals -> {"idle", "lock", "copy1", "copy2"}]
    /\ recvLen \in [Signals -> Nat] /\ recvStep \in [Signals -> Nat]
    /\ val \in [Signals -> ValType]
    /\ shown \in [Signals -> ShownType]

Parts == SendTyped /\ QueueTyped /\ WorkTyped /\ DataTyped /\ RecvTyped

LEMMA TypeParts == TypeOK <=> Parts
BY DEF TypeOK, Parts, SendTyped, QueueTyped, WorkTyped, DataTyped, RecvTyped, Message, CellType,
       FreqType, ValType, ShownType

\* A component that does not change keeps its types.
LEMMA PartsStay ==
    /\ SendTyped /\ UNCHANGED sendVars => SendTyped'
    /\ QueueTyped /\ UNCHANGED queue => QueueTyped'
    /\ WorkTyped /\ UNCHANGED <<initVars, workVars>> => WorkTyped'
    /\ DataTyped /\ UNCHANGED dataVars => DataTyped'
    /\ RecvTyped /\ UNCHANGED <<event, recvVars>> => RecvTyped'
<1>1. SendTyped /\ UNCHANGED sendVars => SendTyped'  BY DEF SendTyped, sendVars
<1>2. QueueTyped /\ UNCHANGED queue => QueueTyped'  BY DEF QueueTyped
<1>3. WorkTyped /\ UNCHANGED <<initVars, workVars>> => WorkTyped'  BY DEF WorkTyped, initVars, workVars
<1>4. DataTyped /\ UNCHANGED dataVars => DataTyped'  BY DEF DataTyped, dataVars
<1>5. RecvTyped /\ UNCHANGED <<event, recvVars>> => RecvTyped'  BY DEF RecvTyped, recvVars
<1> QED  BY <1>1, <1>2, <1>3, <1>4, <1>5

LEMMA TypeInit == Init => Parts
<1> SUFFICES ASSUME Init PROVE Parts  OBVIOUS
<1>1. SendTyped  BY DEF Init, SendTyped
<1>2. QueueTyped  BY DEF Init, QueueTyped
<1>3. WorkTyped  BY Longest DEF Init, WorkTyped, Message
<1>4. NoCell \in CellType  BY DEF NoCell, CellType
<1>5. DataTyped  BY <1>4 DEF Init, DataTyped, FreqType
<1>6. RecvTyped
    <2>1. [n \in Positions |-> NoCell] \in [Positions -> CellType]  BY <1>4
    <2>2. [n \in Positions |-> [bin |-> 0, len |-> 0]] \in [Positions -> FreqType]  BY DEF FreqType
    <2>3. val \in [Signals -> ValType]  BY <2>1, <2>2 DEF Init, ValType
    <2>4. shown \in [Signals -> ShownType]  BY <2>1, <2>2 DEF Init, ShownType
    <2> QED  BY <2>3, <2>4 DEF Init, RecvTyped
<1> QED  BY <1>1, <1>2, <1>3, <1>5, <1>6 DEF Parts

LEMMA TypeInitRecord == ASSUME Parts, Sized, InitRecord PROVE Parts'
<1> USE DEF Parts
<1>1. UNCHANGED <<sendVars, queue, dataVars, event, recvVars, job, planLen, seen>>
    BY DEF InitRecord
<1>2. started' \in 0 .. Len(Order) /\ maxLen' \in {0, Order[1].noa}
    <2>1. maxLen = 0 \/ maxLen' = maxLen  BY DEF InitRecord
    <2>2. maxLen = 0 => Order[started + 1].noa = maxLen'  BY DEF InitRecord
    <2>3. maxLen' = maxLen \/ (started = 0 /\ maxLen' = Order[1].noa)
        BY <2>1, <2>2, Longest DEF InitRecord, WorkTyped, Sized
    <2> QED  BY <2>3, Longest DEF WorkTyped, InitRecord
<1>3. workPc' \in {"start", workPc}  BY DEF InitRecord
<1>4. WorkTyped'  BY <1>1, <1>2, <1>3 DEF WorkTyped
<1> QED  BY <1>1, <1>4, PartsStay

LEMMA TypeFetchA == ASSUME Parts, NEW s \in Signals, FetchA(s) PROVE Parts'
<1> USE DEF Parts
<1>1. PICK shape \in Shapes :
        /\ got' = [got EXCEPT ![s] = shape]
        /\ re' = [re EXCEPT ![s] = [n \in Positions |-> IF n < shape[1] THEN measured'[s] ELSE @[n]]]
    BY DEF FetchA
<1>2. measured' \in [Signals -> Nat]  BY DEF FetchA, SendTyped
<1>3. re' \in [Signals -> [Positions -> Nat]]  BY <1>1, <1>2 DEF SendTyped
<1>4. shape \in Nat \X Nat  OBVIOUS
<1>5. got' \in [Signals -> Nat \X Nat]  BY <1>1, <1>4 DEF SendTyped
<1>6. sendPc' \in [Signals -> {"idle", "fetch", "post"}]  BY DEF FetchA, SendTyped
<1>7. SendTyped'  BY <1>2, <1>3, <1>5, <1>6 DEF FetchA, SendTyped
<1>8. UNCHANGED <<initVars, queue, workVars, dataVars, event, recvVars>>  BY DEF FetchA
<1> QED  BY <1>7, <1>8, PartsStay

LEMMA TypeFetchB == ASSUME Parts, NEW s \in Signals, FetchB(s) PROVE Parts'
<1> USE DEF Parts
<1>1. im' \in [Signals -> [Positions -> Nat]]  BY DEF FetchB, SendTyped
<1>2. sendPc' \in [Signals -> {"idle", "fetch", "post"}]  BY DEF FetchB, SendTyped
<1>3. SendTyped'  BY <1>1, <1>2 DEF FetchB, SendTyped
<1>4. UNCHANGED <<initVars, queue, workVars, dataVars, event, recvVars>>  BY DEF FetchB
<1> QED  BY <1>3, <1>4, PartsStay

LEMMA TypePost == ASSUME Parts, NEW s \in Signals, Post(s) PROVE Parts'
<1> USE DEF Parts
<1>1. SendLen(s) \in Nat  BY SendLenNat DEF SendTyped
<1>2. queue' = Append(queue, [signal |-> s, len |-> SendLen(s)]) /\ Len(queue) < QueueSize
    BY DEF Post
<1>3. QueueTyped'  BY <1>1, <1>2 DEF QueueTyped, Message
<1>4. SendTyped'  BY DEF Post, SendTyped
<1>5. UNCHANGED <<initVars, workVars, dataVars, event, recvVars>>  BY DEF Post
<1> QED  BY <1>3, <1>4, <1>5, PartsStay

LEMMA TypeReceive == ASSUME Parts, Receive PROVE Parts'
<1> USE DEF Parts
<1>1. queue # <<>> /\ job' = Head(queue) /\ queue' = Tail(queue) /\ workPc' \in {"plan", "lock"}
    BY DEF Receive, Work
<1>2. job' \in Message /\ queue' \in Seq(Message) /\ Len(queue') <= QueueSize
    BY <1>1 DEF QueueTyped
<1>3. UNCHANGED <<initVars, sendVars, planLen, seen, dataVars, event, recvVars>>  BY DEF Receive
<1>4. WorkTyped'  BY <1>1, <1>2, <1>3 DEF WorkTyped, initVars
<1> QED  BY <1>2, <1>3, <1>4, PartsStay DEF QueueTyped

LEMMA TypePlans ==
    ASSUME Parts, CreatePlans \/ PlanFailure \/ UpdatePlan \/ Lock \/ PostEvent
    PROVE  Parts'
<1> USE DEF Parts
<1>1. UNCHANGED <<initVars, sendVars, queue, dataVars, recvVars>>
    BY DEF CreatePlans, PlanFailure, UpdatePlan, Lock, PostEvent
<1>2. WorkTyped'
    <2>1. maxLen \in Nat /\ job.len \in Nat  BY Longest DEF WorkTyped, Message
    <2>2. planLen' \in [{"C2C", "R2C"} -> Nat]
        BY <2>1 DEF WorkTyped, CreatePlans, PlanFailure, UpdatePlan, Lock, PostEvent, workVars
    <2>3. workPc' \in {"receive", "exited", "lock", "read1"}
        BY DEF CreatePlans, PlanFailure, UpdatePlan, Lock, PostEvent, Work
    <2>4. job' = job /\ seen' \in {seen, {}}
        BY DEF CreatePlans, PlanFailure, UpdatePlan, Lock, PostEvent, workVars
    <2> QED  BY <1>1, <2>2, <2>3, <2>4 DEF WorkTyped, initVars
<1>3. RecvTyped'
    <2>1. event' = event \/ event' = [event EXCEPT ![job.signal] = TRUE]
        BY DEF CreatePlans, PlanFailure, UpdatePlan, Lock, PostEvent
    <2>2. event' \in [Signals -> BOOLEAN]  BY <2>1 DEF RecvTyped
    <2> QED  BY <1>1, <2>2 DEF RecvTyped, recvVars
<1> QED  BY <1>1, <1>2, <1>3, PartsStay

\* The positions read are those of the arrays.
LEMMA HalfWithin ==
    ASSUME NEW half, NEW total \in Nat, total <= Order[1].noa, NEW len
    PROVE  HalfOf(half, total, len) \subseteq Positions
BY Longest DEF HalfOf, Positions

LEMMA TypeReadInput ==
    ASSUME Parts, Posted, NEW half \in 1 .. 2, ReadInput(half)
    PROVE  Parts'
<1> USE DEF Parts
<1> DEFINE s == job.signal
           ns == HalfOf(half, job.len, job.len)
<1>1. s \in Signals /\ job.len \in Nat /\ ns \subseteq Positions
    BY HalfWithin DEF WorkTyped, Posted, Fits, Message
<1>2. re[s] \in [Positions -> Nat] /\ im[s] \in [Positions -> Nat]  BY <1>1 DEF SendTyped
<1>3. {re[s][n] : n \in ns} \subseteq Nat /\ {im[s][n] : n \in ns} \subseteq Nat
    BY <1>1, <1>2
<1>4. seen' = seen \cup {re[s][n] : n \in ns}
                    \cup (IF Type[s] = "C2C" THEN {im[s][n] : n \in ns} ELSE {})
    BY DEF ReadInput
<1>5. seen' \subseteq Nat  BY <1>3, <1>4 DEF WorkTyped
<1>6. workPc' \in {"read2", "write1"}  BY DEF ReadInput, Work
<1>7. UNCHANGED <<initVars, sendVars, queue, job, planLen, dataVars, event, recvVars>>  BY DEF ReadInput
<1>8. WorkTyped'  BY <1>5, <1>6, <1>7 DEF WorkTyped, initVars
<1> QED  BY <1>7, <1>8, PartsStay

LEMMA TypeWriteOutput == ASSUME Parts, NEW half \in 1 .. 2, WriteOutput(half) PROVE Parts'
<1> USE DEF Parts
<1> DEFINE s == job.signal
           type == Type[s]
           ns == HalfOf(half, OutLen(type, job.len), job.len)
           the(p) == CHOOSE n \in ns : Position(type, n, job.len) = p
<1>1. s \in Signals /\ job.len \in Nat /\ type \in {"C2C", "R2C"}  BY DEF WorkTyped, Message
<1>2. workPc' \in {"write2", "post"}  BY DEF WriteOutput, Work
<1>3. OutLen(type, job.len) \in Nat  BY <1>1, BinTypes
<1>4. lenOut' \in [Signals -> Nat] /\ stepLen' \in [Signals -> Nat]
    <2>1. \/ UNCHANGED <<lenOut, stepLen>>
          \/ /\ lenOut' = [lenOut EXCEPT ![job.signal] = OutLen(Type[job.signal], job.len)]
             /\ stepLen' = [stepLen EXCEPT ![job.signal] = job.len]
        BY DEF WriteOutput
    <2>2. lenOut \in [Signals -> Nat] /\ stepLen \in [Signals -> Nat]  BY DEF DataTyped
    <2>3. job.signal \in Signals /\ job.len \in Nat /\ OutLen(Type[job.signal], job.len) \in Nat
        BY <1>1, <1>3
    <2> QED  BY <2>1, <2>2, <2>3
<1>5. \A n \in ns : /\ [bin |-> Bin(type, n, job.len), of |-> seen, len |-> job.len] \in CellType
                    /\ [bin |-> Frequency(type, n, job.len), len |-> job.len] \in FreqType
    BY <1>1, HalfNat, BinTypes DEF WorkTyped, CellType, FreqType
<1>6. data' = [data EXCEPT ![s] = [p \in Positions |->
                 IF \E n \in ns : Position(type, n, job.len) = p
                 THEN [bin |-> Bin(type, the(p), job.len), of |-> seen, len |-> job.len]
                 ELSE @[p]]]
    BY DEF WriteOutput
<1>7. \A p : (\E n \in ns : Position(type, n, job.len) = p) => the(p) \in ns
    OBVIOUS
<1>8. freq' = [freq EXCEPT ![s] = [n \in Positions |->
                 IF n \in ns THEN [bin |-> Frequency(type, n, job.len), len |-> job.len]
                 ELSE @[n]]]
    BY DEF WriteOutput
<1>9. data \in [Signals -> [Positions -> CellType]] /\ freq \in [Signals -> [Positions -> FreqType]]
    BY DEF DataTyped
<1> HIDE DEF s, type, ns, the
<1>10. data' \in [Signals -> [Positions -> CellType]]
    BY <1>1, <1>5, <1>6, <1>7, <1>9
<1>11. freq' \in [Signals -> [Positions -> FreqType]]
    BY <1>1, <1>5, <1>8, <1>9
<1>12. UNCHANGED <<initVars, sendVars, queue, job, planLen, seen, event, recvVars>>  BY DEF WriteOutput
<1>13. DataTyped'  BY <1>4, <1>10, <1>11 DEF DataTyped
<1>14. WorkTyped'  BY <1>2, <1>12 DEF WorkTyped, initVars
<1> QED  BY <1>12, <1>13, <1>14, PartsStay

LEMMA TypeRecv == ASSUME Parts, NEW s \in Signals, RecvStart(s) \/ RecvLock(s) PROVE Parts'
<1> USE DEF Parts
<1>1. UNCHANGED <<initVars, sendVars, queue, workVars, dataVars, val, shown>>
    BY DEF RecvStart, RecvLock
<1>2. event' \in [Signals -> BOOLEAN]  BY DEF RecvStart, RecvLock, RecvTyped
<1>3. recvPc' \in [Signals -> {"idle", "lock", "copy1", "copy2"}]
    BY DEF RecvStart, RecvLock, RecvTyped
<1>4. recvLen' \in [Signals -> Nat] /\ recvStep' \in [Signals -> Nat]
    BY DEF RecvStart, RecvLock, RecvTyped, DataTyped
<1>5. RecvTyped'  BY <1>1, <1>2, <1>3, <1>4 DEF RecvTyped
<1> QED  BY <1>1, <1>5, PartsStay

LEMMA TypeRecvCopy ==
    ASSUME Parts, NEW s \in Signals, NEW half \in 1 .. 2, RecvCopy(s, half)
    PROVE  Parts'
<1> USE DEF Parts
<1> DEFINE ns == HalfOf(half, recvLen[s], recvLen[s])
           cells == [n \in Positions |-> IF n \in ns THEN data[s][n] ELSE val[s].cells[n]]
           freqs == [n \in Positions |-> IF n \in ns THEN freq[s][n] ELSE val[s].freqs[n]]
<1>1. val \in [Signals -> ValType] /\ data[s] \in [Positions -> CellType] /\ freq[s] \in [Positions -> FreqType]
    BY DEF DataTyped, RecvTyped
<1>2. val' = [val EXCEPT ![s] = [cells |-> cells, freqs |-> freqs]]
    BY DEF RecvCopy
<1>3. [cells |-> cells, freqs |-> freqs] \in ValType
    BY <1>1 DEF ValType
<1> HIDE DEF cells, freqs
<1>4. val' \in [Signals -> ValType]  BY <1>1, <1>2, <1>3
<1>5. recvPc' \in [Signals -> {"idle", "lock", "copy1", "copy2"}]  BY DEF RecvCopy, RecvTyped
<1>6. shown' \in [Signals -> ShownType]
    <2>1. recvLen[s] \in Nat /\ recvStep[s] \in Nat /\ val'[s] \in ValType  BY <1>4 DEF RecvTyped
    <2>2. [len |-> recvLen[s], step |-> recvStep[s], cells |-> val'[s].cells, freqs |-> val'[s].freqs]
             \in ShownType
        BY <2>1 DEF ShownType, ValType
    <2>3. \/ shown' = shown
          \/ shown' = [shown EXCEPT ![s] = [len |-> recvLen[s], step |-> recvStep[s],
                          cells |-> val'[s].cells, freqs |-> val'[s].freqs]]
        BY DEF RecvCopy
    <2> QED  BY <2>2, <2>3 DEF RecvTyped
<1>7. UNCHANGED <<initVars, sendVars, queue, workVars, dataVars, event, recvLen, recvStep>>
    BY DEF RecvCopy
<1>8. RecvTyped'  BY <1>4, <1>5, <1>6, <1>7 DEF RecvTyped
<1> QED  BY <1>7, <1>8, PartsStay

LEMMA TypeNext == Parts /\ Inv /\ [Next]_vars => Parts'
<1> SUFFICES ASSUME Parts, Inv, [Next]_vars PROVE Parts'  OBVIOUS
<1>1. CASE InitRecord  BY <1>1, TypeInitRecord DEF Inv
<1>2. CASE \E s \in Signals : Send(s)  BY <1>2, TypeFetchA, TypeFetchB, TypePost DEF Send
<1>3. CASE \E s \in Signals : Recv(s)  BY <1>3, TypeRecv, TypeRecvCopy DEF Recv
<1>4. CASE Worker  BY <1>4, TypePlans, TypeReceive, TypeReadInput, TypeWriteOutput DEF Worker, Inv
<1>5. CASE PlanFailure  BY <1>5, TypePlans
<1>6. CASE UNCHANGED vars
    <2>1. UNCHANGED <<initVars, sendVars, queue, workVars, dataVars, event, recvVars>>
        BY <1>6 DEF vars
    <2> QED  BY <2>1, PartsStay DEF Parts
<1> QED  BY <1>1, <1>2, <1>3, <1>4, <1>5, <1>6 DEF Next

\* The state of the worker, its buffer and its records has its types, for every
\* number of signals and lengths of their arrays.
THEOREM TypesHold == Spec => []TypeOK
<1>1. Spec => []Parts  BY FFTInv, TypeInit, TypeNext, PTL DEF Spec
<1> QED  BY <1>1, TypeParts, PTL

----------------------------------------------------------------------------
(***************************************************************************)
(* Where the latest waveform of a signal is, for Settled.                  *)
(***************************************************************************)

\* The latest waveform of s was handed over.
Handed(s) == measured[s] > 0 /\ accepted[s] = measured[s]

InQueue(s) == \E i \in DOMAIN queue : queue[i].signal = s

AtWork == {"plan", "lock", "read1", "read2", "write1", "write2", "post"}

Working(s) == job.signal = s /\ workPc \in AtWork

\* Its samples fill the arrays as far as they are transformed, until the next one
\* is fetched.
Arrays(s) ==
    /\ accepted[s] <= measured[s]
    /\ sendPc[s] # "idle" => accepted[s] < measured[s]
    /\ sendPc[s] # "idle" \/ Handed(s) => \A n \in 0 .. got[s][1] - 1 : re[s][n] = measured[s]
    /\ sendPc[s] = "post" \/ Handed(s) =>
          /\ SendLen(s) > 0
          /\ \A n \in 0 .. got[s][2] - 1 : im[s][n] = measured[s]

\* What bin p of its transform is, and its frequency.
Cell(s, p) == [bin |-> Frequency(Type[s], p, SendLen(s)), of |-> {measured[s]}, len |-> SendLen(s)]
Freq(s, p) == [bin |-> Frequency(Type[s], p, SendLen(s)), len |-> SendLen(s)]

Bins(s) == 0 .. OutLen(Type[s], SendLen(s)) - 1

FirstBins(s) == HalfOf(1, OutLen(Type[s], SendLen(s)), SendLen(s))

\* The buffer of s holds it.
Result(s) ==
    /\ lenOut[s] = OutLen(Type[s], SendLen(s))
    /\ stepLen[s] = SendLen(s)
    /\ \A p \in Bins(s) : data[s][p] = Cell(s, p) /\ freq[s][p] = Freq(s, p)

\* The receiving record copies it ...
Copying(s) ==
    /\ recvPc[s] \in {"copy1", "copy2"}
    /\ recvLen[s] = OutLen(Type[s], SendLen(s))
    /\ recvStep[s] = SendLen(s)
    /\ recvPc[s] = "copy2" => \A p \in HalfOf(1, recvLen[s], recvLen[s]) :
          val[s].cells[p] = Cell(s, p) /\ val[s].freqs[p] = Freq(s, p)

\* ... or has copied it.
Copied(s) ==
    /\ shown[s].len = OutLen(Type[s], SendLen(s))
    /\ shown[s].step = SendLen(s)
    /\ \A p \in Bins(s) : shown[s].cells[p] = Cell(s, p) /\ shown[s].freqs[p] = Freq(s, p)

\* The receiving record shows it, or will.
Presented(s) ==
    event[s] \/ recvPc[s] = "lock" \/ Copying(s) \/ (recvPc[s] = "idle" /\ Copied(s))

\* It is in the last message of s, as long as there is one ...
LastOf(s, i) == queue[i].signal = s /\ \A j \in DOMAIN queue : j > i => queue[j].signal # s

Waiting(s) ==
    Handed(s) => \A i \in DOMAIN queue : LastOf(s, i) => queue[i].len = SendLen(s)

\* ... or being worked on ...
HalfResult(s) ==
    \A n \in FirstBins(s) :
        /\ data[s][Position(Type[s], n, SendLen(s))] = Cell(s, Position(Type[s], n, SendLen(s)))
        /\ freq[s][n] = Freq(s, n)

Transforming(s) ==
    Handed(s) /\ ~InQueue(s) /\ Working(s) =>
        /\ job.len = SendLen(s)
        /\ workPc \in {"read2", "write1", "write2"} => seen = {measured[s]}
        /\ workPc = "write2" => HalfResult(s)
        /\ workPc = "post" => Result(s)

\* ... or done.
Finished(s) ==
    Handed(s) /\ ~InQueue(s) /\ ~Working(s) /\ workPc # "exited" => Result(s) /\ Presented(s)

Follows(s) == Arrays(s) /\ Waiting(s) /\ Transforming(s) /\ Finished(s)

\* The task exists from the first record on, and starts to read with nothing seen.
Begun ==
    /\ maxLen = 0 => workPc = "none"
    /\ workPc = "read1" => seen = {}

Follow == Begun /\ \A s \in Signals : Follows(s)

----------------------------------------------------------------------------
\* What the loops over an even number of values do.
LEMMA Halves ==
    ASSUME NEW len \in Nat, len > 0, len % 2 = 0, NEW type \in {"C2C", "R2C"}
    PROVE  /\ OutLen(type, len) \in 1 .. len
           /\ 0 \in HalfOf(1, len, len)
           /\ \A total \in Nat : HalfOf(1, total, len) \cup HalfOf(2, total, len) = 0 .. total - 1
           /\ \A n \in 0 .. OutLen(type, len) - 1 :
                 /\ Position(type, n, len) \in 0 .. OutLen(type, len) - 1
                 /\ Frequency(type, Position(type, n, len), len) = Bin(type, n, len)
                 /\ \A m \in 0 .. OutLen(type, len) - 1 :
                       Position(type, n, len) = Position(type, m, len) => n = m
           /\ \A p \in 0 .. OutLen(type, len) - 1 :
                 \E n \in 0 .. OutLen(type, len) - 1 : Position(type, n, len) = p
<1>1. PICK half \in Nat : len = half + half
    <2>1. len = 2 * (len \div 2) + (len % 2)  OBVIOUS
    <2>2. len \div 2 \in Nat  OBVIOUS
    <2> QED  BY <2>1, <2>2
<1>2. len \div 2 = half /\ (len + 1) \div 2 = half /\ half > 0
    BY <1>1
<1> DEFINE out == OutLen(type, len)
<1>3. out = IF type = "C2C" THEN half + half ELSE half + 1
    BY <1>1, <1>2 DEF OutLen
<1>4. \A n \in Nat : /\ Position(type, n, len) = IF type = "R2C" THEN n ELSE IF n < half THEN n + half ELSE n - half
                     /\ Bin(type, n, len) = IF type = "C2C" /\ n >= half THEN n - len ELSE n
                     /\ Frequency(type, n, len) = IF type = "C2C" THEN n - half ELSE n
    BY <1>2 DEF Position, Bin, Frequency
<1> HIDE DEF out
<1>6. out \in 1 .. len  BY <1>1, <1>2, <1>3
<1>7. 0 \in HalfOf(1, len, len)  BY <1>1, <1>2 DEF HalfOf
<1>8. ASSUME NEW total \in Nat
      PROVE  HalfOf(1, total, len) \cup HalfOf(2, total, len) = 0 .. total - 1
    BY <1>2 DEF HalfOf
<1>9. ASSUME NEW n \in 0 .. out - 1
      PROVE  /\ Position(type, n, len) \in 0 .. out - 1
             /\ Frequency(type, Position(type, n, len), len) = Bin(type, n, len)
    BY <1>1, <1>2, <1>3, <1>4
<1>10. ASSUME NEW n \in 0 .. out - 1, NEW m \in 0 .. out - 1,
              Position(type, n, len) = Position(type, m, len)
       PROVE  n = m
    BY <1>1, <1>2, <1>3, <1>4, <1>10
<1>11. ASSUME NEW p \in 0 .. out - 1
       PROVE  \E n \in 0 .. out - 1 : Position(type, n, len) = p
    <2>1. CASE type = "R2C"
        <3>1. Position(type, p, len) = p  BY <1>4, <2>1
        <3> QED  BY <3>1
    <2>2. CASE type = "C2C" /\ p < half
        <3>1. p + half \in 0 .. out - 1 /\ Position(type, p + half, len) = p
            BY <1>1, <1>2, <1>3, <1>4, <2>2
        <3> QED  BY <3>1
    <2>3. CASE type = "C2C" /\ p >= half
        <3>1. p - half \in 0 .. out - 1 /\ Position(type, p - half, len) = p
            BY <1>1, <1>2, <1>3, <1>4, <2>3
        <3> QED  BY <3>1
    <2> QED  BY <2>1, <2>2, <2>3
<1> QED  BY <1>6, <1>7, <1>8, <1>9, <1>10, <1>11 DEF out

\* A transform has at least one value, and no more than its input.
LEMMA OutLenRange ==
    ASSUME NEW len \in Nat, len > 0, len % 2 = 0, NEW type \in {"C2C", "R2C"}
    PROVE  OutLen(type, len) \in 1 .. len
BY Halves

\* The loop of a copy, of any length.
LEMMA CopyHalves ==
    ASSUME NEW len \in Nat
    PROVE  HalfOf(1, len, len) \cup HalfOf(2, len, len) = 0 .. len - 1
<1>1. len \div 2 \in Nat  OBVIOUS
<1>2. \A h : HalfOf(h, len, len) = {n \in 0 .. len - 1 : IF h = 1 THEN n < len \div 2 ELSE n >= len \div 2}
    BY DEF HalfOf
<1> QED  BY <1>1, <1>2

\* The bins of a half of the job, and what WriteOutput does to the buffer.
NewBins(half) == HalfOf(half, OutLen(Type[job.signal], job.len), job.len)

LEMMA Written ==
    ASSUME Parts, Posted, NEW half \in 1 .. 2, WriteOutput(half), job.len > 0
    PROVE  /\ \A n \in NewBins(half) :
                 /\ n \in 0 .. OutLen(Type[job.signal], job.len) - 1
                 /\ data'[job.signal][Position(Type[job.signal], n, job.len)] =
                      [bin |-> Bin(Type[job.signal], n, job.len), of |-> seen, len |-> job.len]
                 /\ freq'[job.signal][n] =
                      [bin |-> Frequency(Type[job.signal], n, job.len), len |-> job.len]
           /\ \A p \in Positions :
                 /\ (\A n \in NewBins(half) : Position(Type[job.signal], n, job.len) # p)
                       => data'[job.signal][p] = data[job.signal][p]
                 /\ (\E n \in NewBins(half) : Position(Type[job.signal], n, job.len) = p)
                       => data'[job.signal][p].of = seen
                 /\ p \notin NewBins(half) => freq'[job.signal][p] = freq[job.signal][p]
           /\ \A t \in Signals \ {job.signal} : data'[t] = data[t] /\ freq'[t] = freq[t]
<1> DEFINE s == job.signal
           ns == NewBins(half)
           type == Type[s]
           len == job.len
           the(p) == CHOOSE n \in ns : Position(type, n, len) = p
           cell(n) == [bin |-> Bin(type, n, len), of |-> seen, len |-> len]
<1>1. s \in Signals /\ len \in Nat /\ len % 2 = 0 /\ len <= Order[1].noa /\ type \in {"C2C", "R2C"}
    BY DEF Parts, WorkTyped, Message, Posted, Fits
<1>2. data[s] \in [Positions -> CellType] /\ freq[s] \in [Positions -> FreqType]
      /\ data \in [Signals -> [Positions -> CellType]] /\ freq \in [Signals -> [Positions -> FreqType]]
    BY <1>1 DEF Parts, DataTyped
<1>3. data' = [data EXCEPT ![s] = [p \in Positions |->
                 IF \E n \in ns : Position(type, n, len) = p THEN cell(the(p)) ELSE @[p]]]
    BY DEF WriteOutput, NewBins
<1>4. freq' = [freq EXCEPT ![s] = [n \in Positions |->
                 IF n \in ns THEN [bin |-> Frequency(type, n, len), len |-> len] ELSE @[n]]]
    BY DEF WriteOutput, NewBins
<1>5. \A n \in ns : n \in 0 .. OutLen(type, len) - 1  BY DEF HalfOf, NewBins
<1>6. \A n \in ns : n \in Positions /\ Position(type, n, len) \in Positions
    <2>1. OutLen(type, len) \in 1 .. len /\ \A n \in 0 .. OutLen(type, len) - 1 :
             Position(type, n, len) \in 0 .. OutLen(type, len) - 1
        BY <1>1, Halves
    <2>2. \A k, n : k \in 1 .. len /\ n \in 0 .. k - 1 => n \in Positions
        BY <1>1, Longest DEF Positions
    <2> HIDE DEF type, len
    <2> QED  BY <1>5, <2>1, <2>2
<1>7. \A n \in ns : the(Position(type, n, len)) = n
    <2> SUFFICES ASSUME NEW n \in ns PROVE the(Position(type, n, len)) = n  OBVIOUS
    <2>1. the(Position(type, n, len)) \in ns
          /\ Position(type, the(Position(type, n, len)), len) = Position(type, n, len)
        OBVIOUS
    <2> HIDE DEF the
    <2>2. \A i, j \in 0 .. OutLen(type, len) - 1 : Position(type, i, len) = Position(type, j, len) => i = j
        BY <1>1, Halves
    <2> QED  BY <1>5, <2>1, <2>2
<1> HIDE DEF the, type, len, s, ns
<1>8. data'[s] = [p \in Positions |->
                 IF \E n \in ns : Position(type, n, len) = p THEN cell(the(p)) ELSE data[s][p]]
    BY <1>1, <1>2, <1>3
<1>9. freq'[s] = [n \in Positions |->
                 IF n \in ns THEN [bin |-> Frequency(type, n, len), len |-> len] ELSE freq[s][n]]
    BY <1>1, <1>2, <1>4
<1>10. \A p : cell(the(p)).of = seen  OBVIOUS
<1> HIDE DEF cell
<1>11. ASSUME NEW n \in ns
       PROVE  /\ data'[s][Position(type, n, len)] = cell(n)
              /\ freq'[s][n] = [bin |-> Frequency(type, n, len), len |-> len]
    <2>1. data'[s][Position(type, n, len)] = cell(the(Position(type, n, len)))
        BY <1>6, <1>8
    <2>2. freq'[s][n] = [bin |-> Frequency(type, n, len), len |-> len]  BY <1>6, <1>9
    <2> QED  BY <1>7, <2>1, <2>2
<1>12. ASSUME NEW p \in Positions
       PROVE  /\ (\A n \in ns : Position(type, n, len) # p) => data'[s][p] = data[s][p]
              /\ (\E n \in ns : Position(type, n, len) = p) => data'[s][p].of = seen
              /\ p \notin ns => freq'[s][p] = freq[s][p]
    BY <1>8, <1>9, <1>10
<1>13. \A t \in Signals \ {s} : data'[t] = data[t] /\ freq'[t] = freq[t]
    BY <1>2, <1>3, <1>4
<1> QED  BY <1>5, <1>11, <1>12, <1>13 DEF type, len, cell, s, ns

----------------------------------------------------------------------------
\* What the records of t hold.
SendOf(t) == <<re[t], im[t], got[t], measured[t], accepted[t], sendPc[t]>>
DataOf(t) == <<data[t], freq[t], lenOut[t], stepLen[t]>>
RecvOf(t) == <<event[t], recvPc[t], recvLen[t], recvStep[t], val[t], shown[t]>>

LEMMA SameSend ==
    ASSUME NEW t, UNCHANGED SendOf(t)
    PROVE  /\ Arrays(t)' = Arrays(t) /\ Handed(t)' = Handed(t) /\ SendLen(t)' = SendLen(t)
           /\ measured[t]' = measured[t]
           /\ Bins(t)' = Bins(t) /\ FirstBins(t)' = FirstBins(t)
           /\ \A p : Cell(t, p)' = Cell(t, p) /\ Freq(t, p)' = Freq(t, p)
<1>1. /\ re'[t] = re[t] /\ im'[t] = im[t] /\ got'[t] = got[t] /\ measured'[t] = measured[t]
      /\ accepted'[t] = accepted[t] /\ sendPc'[t] = sendPc[t]
    BY DEF SendOf
<1>2. SendLen(t)' = SendLen(t)  BY <1>1 DEF SendLen
<1>3. Handed(t)' = Handed(t)  BY <1>1 DEF Handed
<1>4. Arrays(t)' = Arrays(t)  BY <1>1, <1>2, <1>3 DEF Arrays
<1>5. \A p : Cell(t, p)' = Cell(t, p) /\ Freq(t, p)' = Freq(t, p)  BY <1>1, <1>2 DEF Cell, Freq
<1>6. Bins(t)' = Bins(t) /\ FirstBins(t)' = FirstBins(t)  BY <1>2 DEF Bins, FirstBins
<1> QED  BY <1>1, <1>2, <1>3, <1>4, <1>5, <1>6

LEMMA SameData ==
    ASSUME NEW t, UNCHANGED SendOf(t), UNCHANGED DataOf(t)
    PROVE  Result(t)' = Result(t) /\ HalfResult(t)' = HalfResult(t)
<1>1. /\ data'[t] = data[t] /\ freq'[t] = freq[t] /\ lenOut'[t] = lenOut[t] /\ stepLen'[t] = stepLen[t]
    BY DEF DataOf
<1> QED  BY <1>1, SameSend DEF Result, HalfResult

LEMMA SameRecv ==
    ASSUME NEW t, UNCHANGED SendOf(t), UNCHANGED RecvOf(t)
    PROVE  Presented(t)' = Presented(t)
<1>1. /\ event'[t] = event[t] /\ recvPc'[t] = recvPc[t] /\ recvLen'[t] = recvLen[t]
      /\ recvStep'[t] = recvStep[t] /\ val'[t] = val[t] /\ shown'[t] = shown[t]
    BY DEF RecvOf
<1>2. Copying(t)' = Copying(t)  BY <1>1, SameSend DEF Copying
<1>3. Copied(t)' = Copied(t)  BY <1>1, SameSend DEF Copied
<1> QED  BY <1>1, <1>2, <1>3 DEF Presented

\* The variables of a signal, for actions of another.
LEMMA OfSignals ==
    /\ \A t : UNCHANGED sendVars => UNCHANGED SendOf(t)
    /\ \A t : UNCHANGED dataVars => UNCHANGED DataOf(t)
    /\ \A t : UNCHANGED <<event, recvVars>> => UNCHANGED RecvOf(t)
BY DEF SendOf, DataOf, RecvOf, sendVars, dataVars, recvVars

\* A step that changes nothing of t, and leaves queue and worker alone.
LEMMA FollowsSame ==
    ASSUME NEW t, Follows(t), UNCHANGED SendOf(t), UNCHANGED DataOf(t), UNCHANGED RecvOf(t),
           UNCHANGED <<queue, job, workPc, seen>>
    PROVE  Follows(t)'
<1>1. InQueue(t)' = InQueue(t) /\ Working(t)' = Working(t) /\ (\A i : LastOf(t, i)' = LastOf(t, i))
    BY DEF InQueue, Working, LastOf
<1>2. Arrays(t)'  BY SameSend DEF Follows
<1>3. Waiting(t)'  BY <1>1, SameSend DEF Follows, Waiting
<1>4. Transforming(t)'  BY <1>1, SameSend, SameData DEF Follows, Transforming
<1>5. Finished(t)'  BY <1>1, SameSend, SameData, SameRecv DEF Follows, Finished
<1> QED  BY <1>2, <1>3, <1>4, <1>5 DEF Follows

----------------------------------------------------------------------------
LEMMA FollowInit == Init => Follow
<1> SUFFICES ASSUME Init PROVE Follow  OBVIOUS
<1>1. Begun  BY DEF Init, Begun
<1>2. ASSUME NEW s \in Signals PROVE Follows(s)
    <2>1. ~Handed(s) /\ sendPc[s] = "idle" /\ accepted[s] = 0 /\ measured[s] = 0
        BY DEF Handed, Init
    <2> QED  BY <2>1 DEF Follows, Arrays, Waiting, Transforming, Finished
<1> QED  BY <1>1, <1>2 DEF Follow

\* A waveform is fetched: the one before is not followed any longer.
LEMMA FollowFetchA == ASSUME Parts, Follow, NEW s \in Signals, FetchA(s) PROVE Follow'
<1>1. /\ UNCHANGED <<im, accepted, initVars, queue, workVars, dataVars, event, recvVars>>
      /\ measured' = [measured EXCEPT ![s] = @ + 1]
      /\ sendPc' = [sendPc EXCEPT ![s] = "fetch"]
    BY DEF FetchA
<1>2. PICK shape \in Shapes :
        /\ shape[1] <= Size[s]
        /\ got' = [got EXCEPT ![s] = shape]
        /\ re' = [re EXCEPT ![s] = [n \in Positions |-> IF n < shape[1] THEN measured'[s] ELSE @[n]]]
    BY DEF FetchA
<1>3. /\ measured[s] \in Nat /\ accepted[s] \in Nat
      /\ measured'[s] = measured[s] + 1 /\ accepted'[s] = accepted[s] /\ sendPc'[s] = "fetch"
      /\ got'[s] = shape
      /\ re'[s] = [n \in Positions |-> IF n < shape[1] THEN measured'[s] ELSE re[s][n]]
    BY <1>1, <1>2 DEF Parts, SendTyped
<1>4. ~Handed(s)' /\ accepted'[s] < measured'[s]
    BY <1>3 DEF Follow, Follows, Arrays, Handed
<1>5. \A n \in 0 .. shape[1] - 1 : n \in Positions /\ re'[s][n] = measured'[s]
    <2>1. shape[1] \in Nat /\ Size[s] \in Nat /\ Size[s] <= Order[1].noa  OBVIOUS
    <2>2. shape[1] <= Order[1].noa  BY <1>2, <2>1, Longest
    <2>3. \A n \in 0 .. shape[1] - 1 : n \in Positions /\ n < shape[1]
        BY <2>1, <2>2, Longest DEF Positions
    <2> QED  BY <1>3, <2>3
<1>6. Arrays(s)'
    BY <1>3, <1>4, <1>5 DEF Arrays
<1>7. Follows(s)'  BY <1>4, <1>6 DEF Follows, Waiting, Transforming, Finished
<1>8. ASSUME NEW t \in Signals \ {s} PROVE Follows(t)'
    <2>1. UNCHANGED SendOf(t)  BY <1>1, <1>2 DEF Parts, SendTyped, SendOf
    <2>2. UNCHANGED DataOf(t) /\ UNCHANGED RecvOf(t)  BY <1>1, OfSignals
    <2>3. UNCHANGED <<queue, job, workPc, seen>>  BY <1>1 DEF workVars
    <2> QED  BY <2>1, <2>2, <2>3, FollowsSame DEF Follow
<1>9. Begun'  BY <1>1 DEF workVars, initVars, Follow, Begun
<1> QED  BY <1>7, <1>8, <1>9 DEF Follow

LEMMA FollowFetchB == ASSUME Parts, Inv, Follow, NEW s \in Signals, FetchB(s) PROVE Follow'
<1>1. /\ UNCHANGED <<re, got, measured, accepted, initVars, queue, workVars, dataVars, event, recvVars>>
      /\ sendPc[s] = "fetch"
      /\ im' = [im EXCEPT ![s] = [n \in Positions |-> IF n < got[s][2] THEN measured[s] ELSE @[n]]]
    BY DEF FetchB
<1>2. PICK ok \in BOOLEAN :
        sendPc' = [sendPc EXCEPT ![s] = IF SendLen(s) # 0 /\ ok THEN "post" ELSE "idle"]
    BY DEF FetchB
<1>3. /\ im'[s] = [n \in Positions |-> IF n < got[s][2] THEN measured[s] ELSE im[s][n]]
      /\ sendPc'[s] \in {"post", "idle"} /\ (sendPc'[s] = "post" => SendLen(s) # 0)
      /\ measured[s] \in Nat /\ got[s][2] \in Nat
    BY <1>1, <1>2 DEF Parts, SendTyped
<1>4. Arrays(s) /\ accepted[s] < measured[s]  BY <1>1 DEF Follow, Follows, Arrays
<1>5. ~Handed(s)'  BY <1>1, <1>3, <1>4 DEF Handed, Parts, SendTyped
<1>6. SendLen(s)' = SendLen(s) /\ SendLen(s) \in Nat
    BY <1>1, SendLenNat DEF SendLen, Parts, SendTyped
<1>7. \A n \in 0 .. got[s][2] - 1 : n \in Positions /\ im'[s][n] = measured[s]
    <2>1. got[s][2] <= Size[s] /\ Size[s] \in Nat /\ Size[s] <= Order[1].noa
        BY DEF Inv, Fetched
    <2>2. \A n \in 0 .. got[s][2] - 1 : n \in Positions /\ n < got[s][2]
        BY <1>3, <2>1, Longest DEF Positions
    <2> QED  BY <1>3, <2>2
<1>8. Arrays(s)'
    <2>1. accepted'[s] < measured'[s]  BY <1>1, <1>4
    <2>2. \A n \in 0 .. got'[s][1] - 1 : re'[s][n] = measured'[s]
        <3>1. \A n \in 0 .. got[s][1] - 1 : re[s][n] = measured[s]  BY <1>1, <1>4 DEF Arrays
        <3> QED  BY <1>1, <3>1
    <2>3. \A n \in 0 .. got'[s][2] - 1 : im'[s][n] = measured'[s]  BY <1>1, <1>7
    <2>4. sendPc'[s] = "post" => SendLen(s)' > 0  BY <1>3, <1>6
    <2>5. accepted'[s] <= measured'[s]  BY <1>1, <2>1 DEF Parts, SendTyped
    <2>6. sendPc'[s] # "idle" => accepted'[s] < measured'[s]  BY <2>1
    <2>7. sendPc'[s] = "post" \/ Handed(s)' =>
            SendLen(s)' > 0 /\ \A n \in 0 .. got'[s][2] - 1 : im'[s][n] = measured'[s]
        BY <1>5, <2>3, <2>4
    <2> QED  BY <2>2, <2>5, <2>6, <2>7 DEF Arrays
<1>9. Follows(s)'  BY <1>5, <1>8 DEF Follows, Waiting, Transforming, Finished
<1>10. ASSUME NEW t \in Signals \ {s} PROVE Follows(t)'
    <2>1. UNCHANGED SendOf(t)  BY <1>1, <1>2 DEF Parts, SendTyped, SendOf
    <2>2. UNCHANGED DataOf(t) /\ UNCHANGED RecvOf(t)  BY <1>1, OfSignals
    <2>3. UNCHANGED <<queue, job, workPc, seen>>  BY <1>1 DEF workVars
    <2> QED  BY <2>1, <2>2, <2>3, FollowsSame DEF Follow
<1>11. Begun'  BY <1>1 DEF workVars, initVars, Follow, Begun
<1> QED  BY <1>9, <1>10, <1>11 DEF Follow

LEMMA FollowPost == ASSUME Parts, Follow, NEW s \in Signals, Post(s) PROVE Follow'
<1> DEFINE m == [signal |-> s, len |-> SendLen(s)]
<1>1. /\ UNCHANGED <<re, im, got, measured, initVars, workVars, dataVars, event, recvVars>>
      /\ sendPc[s] = "post" /\ queue' = Append(queue, m)
      /\ accepted' = [accepted EXCEPT ![s] = measured[s]]
      /\ sendPc' = [sendPc EXCEPT ![s] = "idle"]
    BY DEF Post
<1>2. m \in Message /\ m.signal = s /\ m.len = SendLen(s)
    BY SendLenNat DEF Parts, SendTyped, Message
<1> HIDE DEF m
<1>3. /\ Len(queue) \in Nat /\ DOMAIN queue = 1 .. Len(queue) /\ DOMAIN queue' = 1 .. Len(queue) + 1
      /\ queue'[Len(queue) + 1] = m
      /\ \A i \in DOMAIN queue : queue'[i] = queue[i]
    BY <1>1, <1>2 DEF Parts, QueueTyped
<1>4. SendLen(s)' = SendLen(s)  BY <1>1 DEF SendLen
<1>5. accepted'[s] = measured[s] /\ measured'[s] = measured[s] /\ sendPc'[s] = "idle" /\ measured[s] \in Nat
    BY <1>1 DEF Parts, SendTyped
<1>6. Follows(s)'
    <2>1. Arrays(s)'
        <3>1. /\ SendLen(s) > 0
              /\ \A n \in 0 .. got[s][1] - 1 : re[s][n] = measured[s]
              /\ \A n \in 0 .. got[s][2] - 1 : im[s][n] = measured[s]
            BY <1>1 DEF Follow, Follows, Arrays
        <3>2. re' = re /\ im' = im /\ got' = got  BY <1>1
        <3> QED  BY <1>4, <1>5, <3>1, <3>2 DEF Arrays
    <2>2. InQueue(s)'
        <3>1. Len(queue) + 1 \in DOMAIN queue' /\ queue'[Len(queue) + 1].signal = s  BY <1>2, <1>3
        <3> QED  BY <3>1 DEF InQueue
    <2>3. Waiting(s)'
        <3>1. ASSUME NEW i \in DOMAIN queue', LastOf(s, i)' PROVE queue'[i].len = SendLen(s)
            <4>1. i = Len(queue) + 1 \/ Len(queue) + 1 > i  BY <1>3
            <4>2. ~(Len(queue) + 1 > i)
                <5>1. Len(queue) + 1 \in DOMAIN queue' /\ queue'[Len(queue) + 1].signal = s  BY <1>2, <1>3
                <5> QED  BY <3>1, <5>1 DEF LastOf
            <4> QED  BY <1>2, <1>3, <4>1, <4>2
        <3> QED  BY <1>4, <3>1 DEF Waiting
    <2> QED  BY <2>1, <2>2, <2>3 DEF Follows, Transforming, Finished
<1>7. ASSUME NEW t \in Signals \ {s} PROVE Follows(t)'
    <2>1. UNCHANGED SendOf(t)  BY <1>1 DEF Parts, SendTyped, SendOf
    <2>2. UNCHANGED DataOf(t) /\ UNCHANGED RecvOf(t)  BY <1>1, OfSignals
    <2>3. UNCHANGED <<job, workPc, seen>>  BY <1>1 DEF workVars
    <2>4. Working(t)' = Working(t)  BY <2>3 DEF Working
    <2>5. queue'[Len(queue) + 1].signal # t  BY <1>2, <1>3
    <2>6. InQueue(t)' = InQueue(t)
        <3>1. \A i \in DOMAIN queue : i \in DOMAIN queue' /\ queue'[i] = queue[i]  BY <1>3
        <3>2. \A i \in DOMAIN queue' : queue'[i].signal = t => i \in DOMAIN queue /\ queue[i].signal = t
            BY <1>3, <2>5
        <3>3. (\E i \in DOMAIN queue' : queue'[i].signal = t) <=> \E i \in DOMAIN queue : queue[i].signal = t
            BY <3>1, <3>2
        <3> QED  BY <3>3 DEF InQueue
    <2>7. \A i \in DOMAIN queue' : LastOf(t, i)' => i \in DOMAIN queue /\ LastOf(t, i)
        <3> SUFFICES ASSUME NEW i \in DOMAIN queue', LastOf(t, i)' PROVE i \in DOMAIN queue /\ LastOf(t, i)
            OBVIOUS
        <3>1. i \in DOMAIN queue  BY <1>3, <2>5 DEF LastOf
        <3>2. \A j \in DOMAIN queue : j \in DOMAIN queue' /\ queue'[j] = queue[j]  BY <1>3
        <3> QED  BY <3>1, <3>2 DEF LastOf
    <2>8. Arrays(t)'  BY <2>1, SameSend DEF Follow, Follows
    <2>9. Waiting(t)'  BY <1>3, <2>1, <2>7, SameSend DEF Follow, Follows, Waiting
    <2>10. Transforming(t)'
        BY <2>1, <2>2, <2>3, <2>4, <2>6, SameSend, SameData DEF Follow, Follows, Transforming
    <2>11. Finished(t)'
        BY <2>1, <2>2, <2>3, <2>4, <2>6, SameSend, SameData, SameRecv DEF Follow, Follows, Finished
    <2> QED  BY <2>8, <2>9, <2>10, <2>11 DEF Follows
<1>8. Begun'  BY <1>1 DEF workVars, initVars, Follow, Begun
<1> QED  BY <1>6, <1>7, <1>8 DEF Follow

\* The worker takes a message: if it was the last of its signal, it has its latest
\* waveform.
LEMMA FollowReceive == ASSUME Parts, Follow, Receive PROVE Follow'
<1>1. /\ queue # <<>> /\ job' = Head(queue) /\ queue' = Tail(queue)
      /\ workPc = "receive" /\ workPc' \in {"plan", "lock"}
      /\ UNCHANGED <<initVars, sendVars, planLen, seen, dataVars, event, recvVars>>
    BY DEF Receive, Work
<1>2. /\ Len(queue) \in Nat /\ DOMAIN queue = 1 .. Len(queue) /\ Len(queue) > 0
      /\ job' = queue[1]
      /\ DOMAIN queue' = 1 .. Len(queue) - 1
      /\ \A i \in DOMAIN queue' : i + 1 \in DOMAIN queue /\ queue'[i] = queue[i + 1]
    BY <1>1 DEF Parts, QueueTyped
<1>3. ASSUME NEW t \in Signals PROVE Follows(t)'
    <2>1. UNCHANGED SendOf(t) /\ UNCHANGED DataOf(t) /\ UNCHANGED RecvOf(t)  BY <1>1, OfSignals
    <2>2. ~Working(t)  BY <1>1 DEF Working, AtWork
    <2>3. \A i \in DOMAIN queue' : LastOf(t, i)' => LastOf(t, i + 1)
        <3> SUFFICES ASSUME NEW i \in DOMAIN queue', LastOf(t, i)',
                            NEW j \in DOMAIN queue, j > i + 1
                     PROVE  queue[i + 1].signal = t /\ queue[j].signal # t
            BY <1>2 DEF LastOf
        <3>1. j - 1 \in DOMAIN queue' /\ j - 1 > i /\ queue'[j - 1] = queue[(j - 1) + 1] /\ (j - 1) + 1 = j
            BY <1>2
        <3> QED  BY <1>2, <3>1 DEF LastOf
    <2>4. Arrays(t)'  BY <2>1, SameSend DEF Follow, Follows
    <2>5. Waiting(t)'
        BY <1>2, <2>1, <2>3, SameSend DEF Follow, Follows, Waiting
    <2>6. InQueue(t) => InQueue(t)' \/ job'.signal = t
        <3> SUFFICES ASSUME NEW i \in DOMAIN queue, queue[i].signal = t
                     PROVE  InQueue(t)' \/ job'.signal = t
            BY DEF InQueue
        <3>1. i = 1 \/ (i - 1 \in DOMAIN queue' /\ queue'[i - 1] = queue[(i - 1) + 1] /\ (i - 1) + 1 = i)
            BY <1>2
        <3> QED  BY <1>2, <3>1 DEF InQueue
    <2>7. Transforming(t)'
        <3> SUFFICES ASSUME Handed(t)', ~InQueue(t)', Working(t)' PROVE job'.len = SendLen(t)'
            BY <1>1 DEF Transforming
        <3>1. LastOf(t, 1)
            <4>1. queue[1].signal = t  BY <1>2 DEF Working
            <4>2. ASSUME NEW j \in DOMAIN queue, j > 1 PROVE queue[j].signal # t
                <5>1. j - 1 \in DOMAIN queue' /\ queue'[j - 1] = queue[(j - 1) + 1] /\ (j - 1) + 1 = j
                    BY <1>2, <4>2
                <5> QED  BY <5>1 DEF InQueue
            <4> QED  BY <4>1, <4>2 DEF LastOf
        <3>2. Handed(t) /\ SendLen(t)' = SendLen(t)  BY <2>1, SameSend
        <3>3. 1 \in DOMAIN queue  BY <1>2
        <3>4. queue[1].len = SendLen(t)  BY <3>1, <3>2, <3>3 DEF Follow, Follows, Waiting
        <3> QED  BY <1>2, <3>2, <3>4
    <2>8. Finished(t)'
        <3> SUFFICES ASSUME Handed(t)', ~InQueue(t)', ~Working(t)' PROVE Result(t)' /\ Presented(t)'
            BY DEF Finished
        <3>1. job'.signal # t  BY <1>1 DEF Working, AtWork
        <3>2. Handed(t) /\ ~InQueue(t)  BY <2>1, <2>6, <3>1, SameSend
        <3>3. Result(t) /\ Presented(t)  BY <1>1, <2>2, <3>2 DEF Follow, Follows, Finished
        <3> QED  BY <2>1, <3>3, SameData, SameRecv
    <2> QED  BY <2>4, <2>5, <2>7, <2>8 DEF Follows
<1>4. Begun'  BY <1>1 DEF Begun, initVars, Follow
<1> QED  BY <1>3, <1>4 DEF Follow

\* A step of the worker that leaves data and records alone.
LEMMA FollowPlans ==
    ASSUME Parts, Sized, Follow, InitRecord \/ CreatePlans \/ PlanFailure \/ UpdatePlan \/ Lock
    PROVE  Follow'
<1>1. UNCHANGED <<sendVars, queue, job, dataVars, event, recvVars>>
    BY DEF InitRecord, CreatePlans, PlanFailure, UpdatePlan, Lock
<1>2. \/ workPc' = workPc /\ seen' = seen
      \/ workPc' \in {"start", "receive"} /\ workPc \in {"none", "start"}
      \/ workPc' = "exited"
      \/ workPc = "plan" /\ workPc' = "lock"
      \/ workPc = "lock" /\ workPc' = "read1" /\ seen' = {}
    BY DEF InitRecord, CreatePlans, PlanFailure, UpdatePlan, Lock, Work, Follow, Begun
<1>3. ASSUME NEW t \in Signals PROVE Follows(t)'
    <2>1. UNCHANGED SendOf(t) /\ UNCHANGED DataOf(t) /\ UNCHANGED RecvOf(t)  BY <1>1, OfSignals
    <2>2. InQueue(t)' = InQueue(t) /\ (\A i : LastOf(t, i)' = LastOf(t, i))
        BY <1>1 DEF InQueue, LastOf
    <2>3. Arrays(t)'  BY <2>1, SameSend DEF Follow, Follows
    <2>4. Waiting(t)'  BY <1>1, <2>1, <2>2, SameSend DEF Follow, Follows, Waiting
    <2>5. Transforming(t)'
        <3> SUFFICES ASSUME Handed(t)', ~InQueue(t)', Working(t)'
                     PROVE  /\ job'.len = SendLen(t)'
                            /\ workPc' \in {"read2", "write1", "write2"} => seen' = {measured'[t]}
                            /\ workPc' = "write2" => HalfResult(t)'
                            /\ workPc' = "post" => Result(t)'
            BY DEF Transforming
        <3>1. Working(t) /\ ((workPc' = workPc /\ seen' = seen) \/ workPc' \in {"lock", "read1"})
            BY <1>1, <1>2 DEF Working, AtWork
        <3>2. Handed(t) /\ ~InQueue(t)  BY <2>1, <2>2, SameSend
        <3> QED  BY <1>1, <2>1, <3>1, <3>2, SameSend, SameData DEF Follow, Follows, Transforming
    <2>6. Finished(t)'
        <3> SUFFICES ASSUME Handed(t)', ~InQueue(t)', ~Working(t)', workPc' # "exited"
                     PROVE  Result(t)' /\ Presented(t)'
            BY DEF Finished
        <3>1. ~Working(t) /\ workPc # "exited"
            BY <1>1, <1>2 DEF Working, AtWork
        <3>2. Handed(t) /\ ~InQueue(t)  BY <2>1, <2>2, SameSend
        <3> QED  BY <2>1, <3>1, <3>2, SameData, SameRecv DEF Follow, Follows, Finished
    <2> QED  BY <2>3, <2>4, <2>5, <2>6 DEF Follows
<1>4. Begun'
    <2>1. CASE InitRecord  BY <2>1, Longest DEF InitRecord, Follow, Begun, Sized, Parts, WorkTyped
    <2>2. CASE CreatePlans \/ PlanFailure \/ UpdatePlan \/ Lock
        <3>1. maxLen' = maxLen /\ workPc \in {"start", "plan", "lock"}
            BY <2>2 DEF CreatePlans, PlanFailure, UpdatePlan, Lock, Work, initVars
        <3>2. workPc' = "read1" => seen' = {}
            BY <2>2 DEF CreatePlans, PlanFailure, UpdatePlan, Lock, Work
        <3> QED  BY <3>1, <3>2 DEF Follow, Begun
    <2> QED  BY <2>1, <2>2
<1> QED  BY <1>3, <1>4 DEF Follow

LEMMA FollowRead ==
    ASSUME Parts, Inv, Follow, NEW half \in 1 .. 2, ReadInput(half)
    PROVE  Follow'
<1>1. /\ UNCHANGED <<initVars, sendVars, queue, job, planLen, dataVars, event, recvVars>>
      /\ \/ half = 1 /\ workPc = "read1" /\ workPc' = "read2"
         \/ half = 2 /\ workPc = "read2" /\ workPc' = "write1"
    BY DEF ReadInput, Work
<1>2. ASSUME NEW t \in Signals PROVE Follows(t)'
    <2>1. UNCHANGED SendOf(t) /\ UNCHANGED DataOf(t) /\ UNCHANGED RecvOf(t)  BY <1>1, OfSignals
    <2>2. InQueue(t)' = InQueue(t) /\ (\A i : LastOf(t, i)' = LastOf(t, i))
        BY <1>1 DEF InQueue, LastOf
    <2>3. Working(t)' = Working(t)  BY <1>1 DEF Working, AtWork
    <2>4. Arrays(t)'  BY <2>1, SameSend DEF Follow, Follows
    <2>5. Waiting(t)'  BY <1>1, <2>1, <2>2, SameSend DEF Follow, Follows, Waiting
    <2>6. Finished(t)'
        BY <1>1, <2>1, <2>2, <2>3, SameSend, SameData, SameRecv DEF Follow, Follows, Finished
    <2>7. Transforming(t)'
        <3> SUFFICES ASSUME Handed(t)', ~InQueue(t)', Working(t)'
                     PROVE  job'.len = SendLen(t)' /\ seen' = {measured'[t]}
            BY <1>1 DEF Transforming
        <3>1. Handed(t) /\ ~InQueue(t) /\ Working(t)  BY <2>1, <2>2, <2>3, SameSend
        <3>2. /\ job.len = SendLen(t) /\ job.signal = t
              /\ half = 1 => seen = {}
              /\ half = 2 => seen = {measured[t]}
            BY <1>1, <3>1 DEF Follow, Follows, Transforming, Working, Begun
        <3> DEFINE ns == HalfOf(half, job.len, job.len)
        <3>3. /\ SendLen(t) \in Nat /\ SendLen(t) > 0 /\ SendLen(t) % 2 = 0
              /\ got[t][1] \in Nat /\ got[t][2] \in Nat
              /\ SendLen(t) <= got[t][1] /\ SendLen(t) <= got[t][2]
            <4>1. SendLen(t) > 0  BY <3>1 DEF Follow, Follows, Arrays
            <4>2. Typed  BY DEF Inv
            <4>3. got[t][1] \in Nat /\ got[t][2] \in Nat  BY DEF Parts, SendTyped
            <4> QED  BY <4>1, <4>2, <4>3, SendLenEven
        <3>4. \A n \in ns : re[t][n] = measured[t] /\ im[t][n] = measured[t]
            <4>1. \A n \in ns : n \in 0 .. got[t][1] - 1 /\ n \in 0 .. got[t][2] - 1
                BY <3>2, <3>3 DEF HalfOf
            <4>2. /\ \A n \in 0 .. got[t][1] - 1 : re[t][n] = measured[t]
                  /\ \A n \in 0 .. got[t][2] - 1 : im[t][n] = measured[t]
                BY <3>1 DEF Follow, Follows, Arrays
            <4> QED  BY <4>1, <4>2
        <3>5. half = 1 => ns # {}
            <4>1. 0 \in HalfOf(1, SendLen(t), SendLen(t))  BY <3>3, Halves
            <4> QED  BY <3>2, <4>1
        <3>6. seen' = seen \cup {re[t][n] : n \in ns}
                           \cup (IF Type[t] = "C2C" THEN {im[t][n] : n \in ns} ELSE {})
            BY <3>2 DEF ReadInput
        <3> HIDE DEF ns
        <3>7. seen' = {measured[t]}
            <4>1. {re[t][n] : n \in ns} \subseteq {measured[t]} /\ {im[t][n] : n \in ns} \subseteq {measured[t]}
                BY <3>4
            <4>2. half = 1 => {re[t][n] : n \in ns} = {measured[t]}  BY <3>4, <3>5
            <4>3. half = 1 \/ half = 2  OBVIOUS
            <4>4. CASE half = 1
                <5>1. seen = {}  BY <3>2, <4>4
                <5> QED  BY <3>6, <4>1, <4>2, <4>4, <5>1
            <4>5. CASE half = 2
                <5>1. seen = {measured[t]}  BY <3>2, <4>5
                <5> QED  BY <3>6, <4>1, <5>1
            <4> QED  BY <4>3, <4>4, <4>5
        <3> QED  BY <1>1, <2>1, <3>2, <3>7, SameSend
    <2> QED  BY <2>4, <2>5, <2>6, <2>7 DEF Follows
<1>3. Begun'  BY <1>1 DEF Follow, Begun, initVars
<1> QED  BY <1>2, <1>3 DEF Follow

\* A half of the transform is stored: the bins of the first half stay where they are.
LEMMA FollowWrite ==
    ASSUME Parts, Inv, Follow, NEW half \in 1 .. 2, WriteOutput(half)
    PROVE  Follow'
<1>1. /\ UNCHANGED <<initVars, sendVars, queue, job, planLen, seen, event, recvVars>>
      /\ \/ half = 1 /\ workPc = "write1" /\ workPc' = "write2" /\ UNCHANGED <<lenOut, stepLen>>
         \/ /\ half = 2 /\ workPc = "write2" /\ workPc' = "post"
            /\ lenOut' = [lenOut EXCEPT ![job.signal] = OutLen(Type[job.signal], job.len)]
            /\ stepLen' = [stepLen EXCEPT ![job.signal] = job.len]
    BY DEF WriteOutput, Work
<1>2. job.signal \in Signals  BY DEF Parts, WorkTyped, Message
<1>3. ASSUME NEW t \in Signals PROVE Follows(t)'
    <2>1. UNCHANGED SendOf(t) /\ UNCHANGED RecvOf(t)  BY <1>1, OfSignals
    <2>2. InQueue(t)' = InQueue(t) /\ (\A i : LastOf(t, i)' = LastOf(t, i))
        BY <1>1 DEF InQueue, LastOf
    <2>3. Working(t)' = Working(t)  BY <1>1 DEF Working, AtWork
    <2>4. Arrays(t)'  BY <2>1, SameSend DEF Follow, Follows
    <2>5. Waiting(t)'  BY <1>1, <2>1, <2>2, SameSend DEF Follow, Follows, Waiting
    <2>6. Finished(t)'
        <3> SUFFICES ASSUME Handed(t)', ~InQueue(t)', ~Working(t)' PROVE Result(t)' /\ Presented(t)'
            BY DEF Finished
        <3>1. Handed(t) /\ ~InQueue(t) /\ ~Working(t)  BY <2>1, <2>2, <2>3, SameSend
        <3>2. job.signal # t  BY <1>1, <3>1 DEF Working, AtWork
        <3>3. data'[t] = data[t] /\ freq'[t] = freq[t]
            BY <1>2, <3>2 DEF WriteOutput, Parts, DataTyped
        <3>4. lenOut'[t] = lenOut[t] /\ stepLen'[t] = stepLen[t]
            BY <1>1, <1>2, <3>2 DEF Parts, DataTyped
        <3>5. UNCHANGED DataOf(t)  BY <3>3, <3>4 DEF DataOf
        <3>6. Result(t) /\ Presented(t)  BY <1>1, <3>1 DEF Follow, Follows, Finished
        <3> QED  BY <2>1, <3>5, <3>6, SameData, SameRecv
    <2>7. Transforming(t)'
        <3> SUFFICES ASSUME Handed(t)', ~InQueue(t)', Working(t)'
                     PROVE  /\ job'.len = SendLen(t)' /\ seen' = {measured'[t]}
                            /\ workPc' = "write2" => HalfResult(t)'
                            /\ workPc' = "post" => Result(t)'
            BY <1>1 DEF Transforming
        <3>1. Handed(t) /\ ~InQueue(t) /\ Working(t)  BY <2>1, <2>2, <2>3, SameSend
        <3>2. /\ job.len = SendLen(t) /\ job.signal = t /\ seen = {measured[t]}
              /\ half = 2 => HalfResult(t)
            BY <1>1, <3>1 DEF Follow, Follows, Transforming, Working
        <3> DEFINE len == SendLen(t)
                   type == Type[t]
                   out == OutLen(type, len)
                   ns == HalfOf(half, out, len)
        <3>3. len \in Nat /\ len > 0 /\ len % 2 = 0 /\ type \in {"C2C", "R2C"} /\ len <= Order[1].noa
            <4>1. SendLen(t) > 0  BY <3>1 DEF Follow, Follows, Arrays
            <4>2. Typed /\ job.len \in Nat /\ Fits(job)  BY DEF Inv, Posted, Parts, WorkTyped, Message
            <4> QED  BY <3>2, <4>1, <4>2 DEF Fits
        <3>4. /\ \A n \in ns :
                   /\ n \in 0 .. out - 1
                   /\ data'[t][Position(type, n, len)] =
                        [bin |-> Bin(type, n, len), of |-> {measured[t]}, len |-> len]
                   /\ freq'[t][n] = [bin |-> Frequency(type, n, len), len |-> len]
              /\ \A p \in Positions :
                   /\ (\A n \in ns : Position(type, n, len) # p) => data'[t][p] = data[t][p]
                   /\ p \notin ns => freq'[t][p] = freq[t][p]
            <4>1. job.len > 0 /\ Posted /\ ns = NewBins(half)
                BY <3>2, <3>3 DEF Inv, NewBins
            <4>2. /\ job.signal = t /\ job.len = len /\ Type[job.signal] = type /\ seen = {measured[t]}
                  /\ OutLen(Type[job.signal], job.len) = out
                BY <3>2
            <4>3. /\ \A n \in NewBins(half) :
                     /\ n \in 0 .. OutLen(Type[job.signal], job.len) - 1
                     /\ data'[job.signal][Position(Type[job.signal], n, job.len)] =
                          [bin |-> Bin(Type[job.signal], n, job.len), of |-> seen, len |-> job.len]
                     /\ freq'[job.signal][n] =
                          [bin |-> Frequency(Type[job.signal], n, job.len), len |-> job.len]
                  /\ \A p \in Positions :
                     /\ (\A n \in NewBins(half) : Position(Type[job.signal], n, job.len) # p)
                           => data'[job.signal][p] = data[job.signal][p]
                     /\ p \notin NewBins(half) => freq'[job.signal][p] = freq[job.signal][p]
                <5> HIDE DEF ns, out, type, len
                <5> QED  BY <4>1, Written
            <4> HIDE DEF ns, out, type, len
            <4> QED  BY <4>1, <4>2, <4>3
        <3>5. /\ out \in 1 .. len
              /\ HalfOf(1, out, len) \cup HalfOf(2, out, len) = 0 .. out - 1
              /\ \A n \in 0 .. out - 1 :
                   /\ Position(type, n, len) \in 0 .. out - 1
                   /\ Frequency(type, Position(type, n, len), len) = Bin(type, n, len)
                   /\ \A m \in 0 .. out - 1 : Position(type, n, len) = Position(type, m, len) => n = m
              /\ \A p \in 0 .. out - 1 : \E n \in 0 .. out - 1 : Position(type, n, len) = p
            <4>1. /\ OutLen(type, len) \in 1 .. len
                  /\ \A total \in Nat : HalfOf(1, total, len) \cup HalfOf(2, total, len) = 0 .. total - 1
                  /\ \A n \in 0 .. OutLen(type, len) - 1 :
                       /\ Position(type, n, len) \in 0 .. OutLen(type, len) - 1
                       /\ Frequency(type, Position(type, n, len), len) = Bin(type, n, len)
                       /\ \A m \in 0 .. OutLen(type, len) - 1 :
                             Position(type, n, len) = Position(type, m, len) => n = m
                  /\ \A p \in 0 .. OutLen(type, len) - 1 :
                       \E n \in 0 .. OutLen(type, len) - 1 : Position(type, n, len) = p
                <5> HIDE DEF type, len
                <5> QED  BY <3>3, Halves
            <4>2. out \in Nat  BY <3>3, <4>1
            <4> HIDE DEF out, type, len
            <4> QED  BY <4>1, <4>2 DEF out
        <3>7. \A n \in ns : /\ data'[t][Position(type, n, len)] = Cell(t, Position(type, n, len))
                            /\ freq'[t][n] = Freq(t, n)
            <4> SUFFICES ASSUME NEW n \in ns
                         PROVE  /\ data'[t][Position(type, n, len)] = Cell(t, Position(type, n, len))
                                /\ freq'[t][n] = Freq(t, n)
                OBVIOUS
            <4>1. Cell(t, Position(type, n, len)) =
                     [bin |-> Frequency(type, Position(type, n, len), len), of |-> {measured[t]}, len |-> len]
                BY DEF Cell
            <4>2. Freq(t, n) = [bin |-> Frequency(type, n, len), len |-> len]  BY DEF Freq
            <4> HIDE DEF ns, out, len, type
            <4> QED  BY <3>4, <3>5, <4>1, <4>2
        <3>8. SendLen(t)' = len /\ \A p : Cell(t, p)' = Cell(t, p) /\ Freq(t, p)' = Freq(t, p)
            BY <2>1, SameSend
        <3>9. CASE half = 1
            <4>1. \A n \in FirstBins(t)' : n \in ns
                BY <2>1, <3>9, SameSend DEF FirstBins
            <4>2. HalfResult(t)'  BY <3>7, <3>8, <4>1 DEF HalfResult
            <4> QED  BY <1>1, <3>2, <3>8, <3>9, <4>2, SameSend, <2>1
        <3>10. CASE half = 2
            <4>1. \A p \in 0 .. out - 1 : data'[t][p] = Cell(t, p) /\ freq'[t][p] = Freq(t, p)
                <5> SUFFICES ASSUME NEW p \in 0 .. out - 1
                             PROVE  data'[t][p] = Cell(t, p) /\ freq'[t][p] = Freq(t, p)
                    OBVIOUS
                <5>1. p \in Positions
                    <6>1. \A k, q : k \in 1 .. len /\ q \in 0 .. k - 1 => q \in Positions
                        BY <3>3, Longest DEF Positions
                    <6> HIDE DEF len, out
                    <6> QED  BY <3>5, <6>1
                <5>2. ns = HalfOf(2, out, len) /\ FirstBins(t) = HalfOf(1, out, len)
                    BY <3>10 DEF FirstBins
                <5>3. \A n \in FirstBins(t) : /\ data[t][Position(type, n, len)] = Cell(t, Position(type, n, len))
                                              /\ freq[t][n] = Freq(t, n)
                    BY <3>2, <3>10 DEF HalfResult
                <5> HIDE DEF ns, out, len, type
                <5>4. freq'[t][p] = Freq(t, p)
                    <6>1. CASE p \in ns  BY <3>7, <6>1
                    <6>2. CASE p \notin ns
                        <7>1. p \in FirstBins(t)  BY <3>5, <5>2, <6>2
                        <7>2. freq'[t][p] = freq[t][p]  BY <3>4, <5>1, <6>2
                        <7> QED  BY <5>3, <7>1, <7>2
                    <6> QED  BY <6>1, <6>2
                <5>5. PICK n \in 0 .. out - 1 : Position(type, n, len) = p  BY <3>5
                <5>6. CASE n \in ns  BY <3>7, <5>4, <5>5, <5>6
                <5>7. CASE n \notin ns
                    <6>1. n \in FirstBins(t)  BY <3>5, <5>2, <5>7
                    <6>2. \A m \in ns : Position(type, m, len) # p
                        BY <3>4, <3>5, <5>5, <5>7
                    <6>3. data'[t][p] = data[t][p]  BY <3>4, <5>1, <6>2
                    <6> QED  BY <5>3, <5>4, <5>5, <6>1, <6>3
                <5> QED  BY <5>6, <5>7
            <4>2. lenOut'[t] = out /\ stepLen'[t] = len
                BY <1>1, <1>2, <3>2, <3>10 DEF Parts, DataTyped
            <4>3. Result(t)'  BY <2>1, <3>8, <4>1, <4>2, SameSend DEF Result, Bins
            <4> QED  BY <1>1, <2>1, <3>2, <3>8, <3>10, <4>3, SameSend
        <3> QED  BY <3>9, <3>10
    <2> QED  BY <2>4, <2>5, <2>6, <2>7 DEF Follows
<1>4. Begun'  BY <1>1 DEF Follow, Begun, initVars
<1> QED  BY <1>3, <1>4 DEF Follow

LEMMA FollowEvent == ASSUME Parts, Follow, PostEvent PROVE Follow'
<1>1. /\ UNCHANGED <<initVars, sendVars, queue, job, planLen, seen, dataVars, recvVars>>
      /\ workPc = "post" /\ workPc' = "receive"
      /\ event' = [event EXCEPT ![job.signal] = TRUE]
    BY DEF PostEvent, Work, workVars
<1>2. ASSUME NEW t \in Signals PROVE Follows(t)'
    <2>1. UNCHANGED SendOf(t) /\ UNCHANGED DataOf(t)  BY <1>1, OfSignals
    <2>2. InQueue(t)' = InQueue(t) /\ (\A i : LastOf(t, i)' = LastOf(t, i))
        BY <1>1 DEF InQueue, LastOf
    <2>3. Arrays(t)'  BY <2>1, SameSend DEF Follow, Follows
    <2>4. Waiting(t)'  BY <1>1, <2>1, <2>2, SameSend DEF Follow, Follows, Waiting
    <2>5. Transforming(t)'  BY <1>1 DEF Transforming, Working, AtWork
    <2>6. Finished(t)'
        <3> SUFFICES ASSUME Handed(t)', ~InQueue(t)' PROVE Result(t)' /\ Presented(t)'
            BY DEF Finished
        <3>1. Handed(t) /\ ~InQueue(t)  BY <2>1, <2>2, SameSend
        <3>2. CASE job.signal = t
            <4>1. event'[t]  BY <1>1, <3>2 DEF Parts, RecvTyped
            <4>2. Working(t)  BY <1>1, <3>2 DEF Working, AtWork
            <4>3. Result(t)  BY <1>1, <3>1, <4>2 DEF Follow, Follows, Transforming
            <4> QED  BY <2>1, <4>1, <4>3, SameData DEF Presented
        <3>3. CASE job.signal # t
            <4>1. UNCHANGED RecvOf(t)  BY <1>1, <3>3 DEF Parts, RecvTyped, RecvOf, recvVars
            <4>2. ~Working(t)  BY <3>3 DEF Working
            <4>3. Result(t) /\ Presented(t)  BY <1>1, <3>1, <4>2 DEF Follow, Follows, Finished
            <4> QED  BY <2>1, <4>1, <4>3, SameData, SameRecv
        <3> QED  BY <3>2, <3>3
    <2> QED  BY <2>3, <2>4, <2>5, <2>6 DEF Follows
<1>3. Begun'  BY <1>1 DEF Follow, Begun, initVars
<1> QED  BY <1>2, <1>3 DEF Follow

\* A step of the receiving record of s changes only what it shows.
LEMMA FollowRecv ==
    ASSUME Parts, Follow, NEW s \in Signals,
           UNCHANGED <<initVars, sendVars, queue, workVars, dataVars>>,
           \A t \in Signals \ {s} : UNCHANGED RecvOf(t),
           Handed(s) /\ Result(s) /\ Presented(s) => Presented(s)'
    PROVE  Follow'
<1>1. ASSUME NEW t \in Signals \ {s} PROVE Follows(t)'
    <2>1. UNCHANGED SendOf(t) /\ UNCHANGED DataOf(t) /\ UNCHANGED RecvOf(t)  BY OfSignals
    <2>2. UNCHANGED <<queue, job, workPc, seen>>  BY DEF workVars
    <2> QED  BY <2>1, <2>2, FollowsSame DEF Follow
<1>2. Follows(s)'
    <2>1. UNCHANGED SendOf(s) /\ UNCHANGED DataOf(s)  BY OfSignals
    <2>2. /\ InQueue(s)' = InQueue(s) /\ Working(s)' = Working(s) /\ (\A i : LastOf(s, i)' = LastOf(s, i))
          /\ queue' = queue /\ job' = job /\ workPc' = workPc /\ seen' = seen
        BY DEF InQueue, Working, LastOf, workVars
    <2>3. Follows(s)  BY DEF Follow
    <2>4. Arrays(s)'  BY <2>1, <2>3, SameSend DEF Follows
    <2>5. Waiting(s)'  BY <2>1, <2>2, <2>3, SameSend DEF Follows, Waiting
    <2>6. Transforming(s)'  BY <2>1, <2>2, <2>3, SameSend, SameData DEF Follows, Transforming
    <2>7. Finished(s)'  BY <2>1, <2>2, <2>3, SameSend, SameData DEF Follows, Finished
    <2> QED  BY <2>4, <2>5, <2>6, <2>7 DEF Follows
<1>3. Begun'  BY DEF Follow, Begun, initVars, workVars
<1> QED  BY <1>1, <1>2, <1>3 DEF Follow

LEMMA FollowRecvStart == ASSUME Parts, Follow, NEW s \in Signals, RecvStart(s) PROVE Follow'
<1>1. /\ UNCHANGED <<initVars, sendVars, queue, workVars, dataVars, recvLen, recvStep, val, shown>>
      /\ event' = [event EXCEPT ![s] = FALSE] /\ recvPc' = [recvPc EXCEPT ![s] = "lock"]
    BY DEF RecvStart
<1>2. \A t \in Signals \ {s} : UNCHANGED RecvOf(t)
    BY <1>1 DEF Parts, RecvTyped, RecvOf
<1>3. Presented(s)'  BY <1>1 DEF Parts, RecvTyped, Presented
<1> QED  BY <1>1, <1>2, <1>3, FollowRecv

LEMMA FollowRecvLock == ASSUME Parts, Inv, Follow, NEW s \in Signals, RecvLock(s) PROVE Follow'
<1>1. /\ UNCHANGED <<initVars, sendVars, queue, workVars, dataVars, event, val, shown>>
      /\ recvLen' = [recvLen EXCEPT ![s] = IF lenOut[s] > Size[s] THEN Size[s] ELSE lenOut[s]]
      /\ recvStep' = [recvStep EXCEPT ![s] = stepLen[s]]
      /\ recvPc' = [recvPc EXCEPT ![s] = "copy1"]
    BY DEF RecvLock
<1>2. \A t \in Signals \ {s} : UNCHANGED RecvOf(t)
    BY <1>1 DEF Parts, RecvTyped, RecvOf
<1>3. ASSUME Handed(s), Result(s) PROVE Copying(s)'
    <2>1. UNCHANGED SendOf(s)  BY <1>1, OfSignals
    <2>2. /\ recvPc'[s] = "copy1" /\ recvStep'[s] = SendLen(s)
          /\ recvLen'[s] = IF lenOut[s] > Size[s] THEN Size[s] ELSE lenOut[s]
        BY <1>1, <1>3 DEF Parts, RecvTyped, Result
    <2>3. lenOut[s] = OutLen(Type[s], SendLen(s))  BY <1>3 DEF Result
    <2>4. SendLen(s) \in Nat /\ SendLen(s) > 0 /\ SendLen(s) % 2 = 0 /\ SendLen(s) <= got[s][1]
        <3>1. SendLen(s) > 0  BY <1>3 DEF Follow, Follows, Arrays
        <3> QED  BY <3>1, SendLenEven DEF Inv
    <2>5. got[s][1] <= Size[s] /\ got[s][1] \in Nat /\ Size[s] \in Nat  BY DEF Inv, Fetched, Parts, SendTyped
    <2>6. OutLen(Type[s], SendLen(s)) \in 1 .. SendLen(s)
        <3>1. Type[s] \in {"C2C", "R2C"}  BY FFTAssumption
        <3> QED  BY <2>4, <3>1, OutLenRange
    <2>7. ~(lenOut[s] > Size[s])  BY <2>3, <2>4, <2>5, <2>6
    <2> QED  BY <2>1, <2>2, <2>3, <2>7, SameSend DEF Copying
<1>4. Handed(s) /\ Result(s) /\ Presented(s) => Presented(s)'
    BY <1>3 DEF Presented
<1> QED  BY <1>1, <1>2, <1>4, FollowRecv

\* A copy made while the buffer holds the latest result is one of it.
LEMMA FollowRecvCopy ==
    ASSUME Parts, Inv, Follow, NEW s \in Signals, NEW half \in 1 .. 2, RecvCopy(s, half)
    PROVE  Follow'
<1> DEFINE ns == HalfOf(half, recvLen[s], recvLen[s])
           cells == [n \in Positions |-> IF n \in ns THEN data[s][n] ELSE val[s].cells[n]]
           freqs == [n \in Positions |-> IF n \in ns THEN freq[s][n] ELSE val[s].freqs[n]]
<1>1. /\ UNCHANGED <<initVars, sendVars, queue, workVars, dataVars, event, recvLen, recvStep>>
      /\ val' = [val EXCEPT ![s] = [cells |-> cells, freqs |-> freqs]]
      /\ \/ /\ half = 1 /\ recvPc[s] = "copy1"
            /\ recvPc' = [recvPc EXCEPT ![s] = "copy2"] /\ shown' = shown
         \/ /\ half = 2 /\ recvPc[s] = "copy2"
            /\ recvPc' = [recvPc EXCEPT ![s] = "idle"]
            /\ shown' = [shown EXCEPT ![s] = [len |-> recvLen[s], step |-> recvStep[s],
                  cells |-> val'[s].cells, freqs |-> val'[s].freqs]]
    BY DEF RecvCopy
<1>2. \A t \in Signals \ {s} : UNCHANGED RecvOf(t)
    BY <1>1 DEF Parts, RecvTyped, RecvOf
<1>3. val'[s].cells = cells /\ val'[s].freqs = freqs
    BY <1>1 DEF Parts, RecvTyped
<1>4. ASSUME Handed(s), Result(s), Copying(s)
      PROVE  Copying(s)' \/ (recvPc'[s] = "idle" /\ Copied(s)')
    <2>1. UNCHANGED SendOf(s)  BY <1>1, OfSignals
    <2> DEFINE out == OutLen(Type[s], SendLen(s))
    <2>2. recvLen[s] = out /\ recvStep[s] = SendLen(s) /\ recvLen[s] \in Nat
        BY <1>4 DEF Copying, Parts, RecvTyped
    <2>3. \A p \in Bins(s) : data[s][p] = Cell(s, p) /\ freq[s][p] = Freq(s, p)
        BY <1>4 DEF Result
    <2>4. SendLen(s) \in Nat /\ SendLen(s) > 0 /\ SendLen(s) % 2 = 0 /\ SendLen(s) <= Order[1].noa
        <3>1. SendLen(s) > 0  BY <1>4 DEF Follow, Follows, Arrays
        <3>2. SendLen(s) \in Nat /\ SendLen(s) % 2 = 0 /\ SendLen(s) <= got[s][1]
            BY SendLenEven DEF Inv
        <3>3. got[s][1] <= Size[s] /\ got[s][1] \in Nat /\ Size[s] \in Nat /\ Size[s] <= Order[1].noa
            BY DEF Inv, Fetched, Parts, SendTyped
        <3> QED  BY <3>1, <3>2, <3>3, Longest
    <2>5. \A p \in Bins(s) : p \in Positions
        <3>1. Type[s] \in {"C2C", "R2C"}  BY FFTAssumption
        <3>2. out \in 1 .. SendLen(s)  BY <2>4, <3>1, OutLenRange
        <3> HIDE DEF out
        <3> QED  BY <2>4, <3>2, Longest DEF Positions, Bins, out
    <2>6. HalfOf(1, recvLen[s], recvLen[s]) \cup HalfOf(2, recvLen[s], recvLen[s]) = Bins(s)
        BY <2>2, CopyHalves DEF Bins
    <2>7. \A p : Cell(s, p)' = Cell(s, p) /\ Freq(s, p)' = Freq(s, p)  BY <2>1, SameSend
    <2>8. SendLen(s)' = SendLen(s) /\ Bins(s)' = Bins(s)  BY <2>1, SameSend
    <2>9. recvLen' = recvLen /\ recvStep' = recvStep  BY <1>1
    <2>10. \A p \in ns : p \in Bins(s)
        BY <2>6
    <2>11. \A p \in ns : cells[p] = Cell(s, p) /\ freqs[p] = Freq(s, p)
        BY <2>3, <2>5, <2>10
    <2> HIDE DEF out
    <2>12. CASE half = 1
        <3>1. recvPc'[s] = "copy2"  BY <1>1, <2>12 DEF Parts, RecvTyped
        <3>2. ns = HalfOf(1, recvLen[s], recvLen[s])  BY <2>12
        <3> HIDE DEF ns, cells, freqs
        <3>3. \A p \in HalfOf(1, recvLen'[s], recvLen'[s]) :
                 val'[s].cells[p] = Cell(s, p)' /\ val'[s].freqs[p] = Freq(s, p)'
            BY <1>3, <2>7, <2>9, <2>11, <3>2
        <3> QED  BY <2>2, <2>8, <2>9, <3>1, <3>3 DEF Copying, out
    <2>13. CASE half = 2
        <3>1. /\ recvPc'[s] = "idle" /\ recvPc[s] = "copy2"
              /\ shown'[s] = [len |-> recvLen[s], step |-> recvStep[s],
                              cells |-> val'[s].cells, freqs |-> val'[s].freqs]
            BY <1>1, <2>13 DEF Parts, RecvTyped
        <3>2. \A p \in HalfOf(1, recvLen[s], recvLen[s]) :
                 val[s].cells[p] = Cell(s, p) /\ val[s].freqs[p] = Freq(s, p)
            BY <1>4, <3>1 DEF Copying
        <3>3. ASSUME NEW p \in Bins(s)
              PROVE  cells[p] = Cell(s, p) /\ freqs[p] = Freq(s, p)
            <4>1. CASE p \in ns  BY <2>11, <4>1
            <4>2. CASE p \notin ns
                <5>1. p \in HalfOf(1, recvLen[s], recvLen[s])  BY <2>6, <2>13, <4>2
                <5>2. cells[p] = val[s].cells[p] /\ freqs[p] = val[s].freqs[p]  BY <2>5, <4>2
                <5> QED  BY <3>2, <5>1, <5>2
            <4> QED  BY <4>1, <4>2
        <3> HIDE DEF ns, cells, freqs
        <3>4. /\ shown'[s].len = out /\ shown'[s].step = SendLen(s)
              /\ shown'[s].cells = cells /\ shown'[s].freqs = freqs
            BY <1>3, <2>2, <3>1
        <3> QED  BY <2>7, <2>8, <3>1, <3>3, <3>4 DEF Copied, out
    <2> QED  BY <2>12, <2>13
<1>5. Handed(s) /\ Result(s) /\ Presented(s) => Presented(s)'
    <2>1. recvPc[s] \in {"copy1", "copy2"} /\ event'[s] = event[s]  BY <1>1
    <2> QED  BY <1>4, <2>1 DEF Presented
<1> QED  BY <1>1, <1>2, <1>5, FollowRecv

LEMMA FollowNext == Parts /\ Inv /\ Follow /\ [Next]_vars => Follow'
<1> SUFFICES ASSUME Parts, Inv, Follow, [Next]_vars PROVE Follow'  OBVIOUS
<1>1. CASE InitRecord \/ CreatePlans \/ PlanFailure \/ UpdatePlan \/ Lock
    BY <1>1, FollowPlans DEF Inv
<1>2. CASE \E s \in Signals : Send(s)
    BY <1>2, FollowFetchA, FollowFetchB, FollowPost DEF Send
<1>3. CASE \E s \in Signals : Recv(s)
    BY <1>3, FollowRecvStart, FollowRecvLock, FollowRecvCopy DEF Recv
<1>4. CASE Receive \/ PostEvent \/ \E half \in 1 .. 2 : ReadInput(half) \/ WriteOutput(half)
    BY <1>4, FollowReceive, FollowEvent, FollowRead, FollowWrite
<1>5. CASE UNCHANGED vars
    <2>1. /\ UNCHANGED <<initVars, queue, job, workPc, seen>>
          /\ \A t : UNCHANGED SendOf(t) /\ UNCHANGED DataOf(t) /\ UNCHANGED RecvOf(t)
        BY <1>5, OfSignals DEF vars, workVars
    <2>2. \A t \in Signals : Follows(t)'  BY <2>1, FollowsSame DEF Follow
    <2>3. Begun'  BY <2>1 DEF Follow, Begun, initVars
    <2> QED  BY <2>2, <2>3 DEF Follow
<1> QED  BY <1>1, <1>2, <1>3, <1>4, <1>5 DEF Next, Worker

\* Where the latest waveform of each signal is: in a message, in the worker, in the
\* buffer, or in the record.
THEOREM Followed == Spec => [](Parts /\ Follow)
<1>1. Spec => []Parts  BY FFTInv, TypeInit, TypeNext, PTL DEF Spec
<1> QED  BY <1>1, FFTInv, FollowInit, FollowNext, PTL DEF Spec

\* Once nothing is on its way for a signal whose last waveform was handed over, its
\* records show the transform of that waveform, whole, with its length, each bin at
\* its frequency, for any number of signals, lengths and interleavings of senders,
\* worker and receivers (fft_task, fft_calc_send, fft_calc_recv).
THEOREM LastShown == Spec => []Settled
<1>1. Parts /\ Follow => Settled
    <2> SUFFICES ASSUME Parts, Follow, NEW s \in Signals, Quiet(s), workPc # "exited"
                 PROVE  /\ shown[s].len = OutLen(Type[s], SendLen(s))
                        /\ shown[s].step = SendLen(s)
                        /\ \A n \in 0 .. shown[s].len - 1 :
                              /\ shown[s].cells[n].of = {measured[s]}
                              /\ shown[s].cells[n].len = SendLen(s)
                              /\ shown[s].freqs[n] = [bin |-> shown[s].cells[n].bin, len |-> SendLen(s)]
        BY DEF Settled
    <2>1. Handed(s) /\ ~InQueue(s) /\ recvPc[s] = "idle" /\ ~event[s]
        BY DEF Quiet, Handed, InQueue, SetFree
    <2>2. ~Working(s)  BY DEF Quiet, Working, AtWork
    <2>3. Copied(s)
        BY <2>1, <2>2 DEF Follow, Follows, Finished, Presented, Copying
    <2>4. \A n \in 0 .. shown[s].len - 1 : shown[s].cells[n] = Cell(s, n) /\ shown[s].freqs[n] = Freq(s, n)
        BY <2>3 DEF Copied, Bins
    <2>5. shown[s].len = OutLen(Type[s], SendLen(s)) /\ shown[s].step = SendLen(s)
        BY <2>3 DEF Copied
    <2>6. \A n : /\ Cell(s, n).of = {measured[s]} /\ Cell(s, n).len = SendLen(s)
                 /\ Freq(s, n) = [bin |-> Cell(s, n).bin, len |-> SendLen(s)]
        BY DEF Cell, Freq
    <2> QED  BY <2>4, <2>5, <2>6
<1> QED  BY <1>1, Followed, PTL

----------------------------------------------------------------------------
(***************************************************************************)
(* How old what is shown may be, for Freshness.                            *)
(***************************************************************************)

\* A set of natural numbers has a least element, and a bounded one a greatest.
LEMMA Least == ASSUME NEW S \in SUBSET Nat, S # {} PROVE \E x \in S : \A y \in S : x <= y
<1> DEFINE R == OpToRel(<, Nat)
<1>1. IsWellFoundedOn(R, Nat)  BY NatLessThanWellFounded, Zenon
<1>2. \A x, y \in Nat : x < y => <<x, y>> \in R  BY DEF OpToRel
<1> HIDE DEF R
<1>3. PICK x \in S : \A y \in S : ~(<<y, x>> \in R)  BY <1>1, WFMin
<1>4. \A y \in S : ~(y < x)  BY <1>2, <1>3
<1> QED  BY <1>3, <1>4

LEMMA MinLeast ==
    ASSUME NEW S \in SUBSET Nat, S # {}
    PROVE  Min(S) \in S /\ \A y \in S : Min(S) <= y
BY Least DEF Min

LEMMA MaxGreatest ==
    ASSUME NEW k \in Nat, NEW S \in SUBSET (0 .. k), S # {}
    PROVE  Max(S) \in S /\ \A y \in S : Max(S) >= y
<1> DEFINE T == {k - x : x \in S}
<1>1. T \subseteq Nat /\ T # {}
    <2>1. \A x \in S : k - x \in Nat  OBVIOUS
    <2> QED  BY <2>1
<1>2. PICK d \in T : \A e \in T : d <= e  BY <1>1, Least
<1>3. PICK m \in S : d = k - m  OBVIOUS
<1>4. \A y \in S : k - y \in T  OBVIOUS
<1> HIDE DEF T
<1>5. \A y \in S : m >= y
    <2> TAKE y \in S
    <2>1. k - m <= k - y  BY <1>2, <1>3, <1>4
    <2> QED  BY <2>1
<1> QED  BY <1>5 DEF Max

\* A sample computed from the waveforms in x is no newer than one computed from
\* those in y.
Before(x, y) == \A m \in x : \E n \in y : m <= n

LEMMA BeforeMax ==
    ASSUME NEW k \in Nat, NEW x \in SUBSET (0 .. k), NEW y \in SUBSET (0 .. k), x # {}, y # {},
           Before(x, y)
    PROVE  Max(x) <= Max(y) /\ Max(x) \in 0 .. k /\ Max(y) \in 0 .. k
<1>1. Max(x) \in x /\ Max(y) \in y /\ \A n \in y : Max(y) >= n  BY MaxGreatest
<1>2. PICK n \in y : Max(x) <= n  BY <1>1 DEF Before
<1>3. n \in 0 .. k /\ Max(x) \in 0 .. k /\ Max(y) \in 0 .. k  BY <1>1
<1> HIDE DEF Max
<1> QED  BY <1>1, <1>2, <1>3

\* What samples of s may have been computed from: nothing newer than was measured.
Ages(s) == {x \in SUBSET (0 .. measured[s]) : x # {}}

Reading(s) == job.signal = s /\ workPc \in {"read2", "write1", "write2"}
Writing(s) == job.signal = s /\ workPc = "write2"
Posting(s) == job.signal = s /\ workPc = "post"
Transferring(s) == recvPc[s] \in {"copy1", "copy2"}

\* All results of s that there are.
Olds(s) ==
    {data[s][n].of : n \in Positions} \cup {val[s].cells[n].of : n \in Positions}
    \cup {shown[s].cells[n].of : n \in Positions}

\* The first sample of a waveform is there from the start.
Sampled(s) ==
    /\ re[s][0] = measured[s]
    /\ \A n \in Positions : re[s][n] <= measured[s] /\ im[s][n] <= measured[s]

Computed(s) ==
    /\ Olds(s) \subseteq Ages(s)
    /\ Reading(s) => seen \in Ages(s)

\* What is copied is not empty, and within the arrays.
Lengths(s) ==
    /\ event[s] \/ recvPc[s] # "idle" \/ Posting(s) => lenOut[s] > 0
    /\ Transferring(s) => recvLen[s] > 0
    /\ lenOut[s] <= Order[1].noa /\ recvLen[s] <= Order[1].noa /\ shown[s].len <= Order[1].noa

\* The result being computed, or the last one that is whole, is the newest.
Newest(s) ==
    /\ Reading(s) => \A x \in Olds(s) : Before(x, seen)
    /\ ~Writing(s) => \A p \in 0 .. lenOut[s] - 1 : \A x \in Olds(s) : Before(x, data[s][p].of)

\* What is being copied is no older than what is shown.
Newer(s) ==
    /\ Transferring(s) => \A p \in 0 .. recvLen[s] - 1, n \in Positions :
          Before(shown[s].cells[n].of, data[s][p].of)
    /\ recvPc[s] = "copy2" => \A p \in HalfOf(1, recvLen[s], recvLen[s]), n \in Positions :
          Before(shown[s].cells[n].of, val[s].cells[p].of)

Aged(s) == Sampled(s) /\ Computed(s) /\ Lengths(s) /\ Newest(s) /\ Newer(s)

\* No message is empty, and the half of the job that is stored is all of it.
Filled ==
    /\ \A i \in DOMAIN queue : queue[i].len > 0
    /\ workPc \in AtWork => job.len > 0
    /\ workPc = "write2" => \A n \in NewBins(1) :
          data[job.signal][Position(Type[job.signal], n, job.len)].of = seen

Age == Filled /\ \A s \in Signals : Aged(s)

----------------------------------------------------------------------------
\* What the arrays, and results, of a signal that did not change tell.
LEMMA SameAge ==
    ASSUME NEW t, UNCHANGED DataOf(t), UNCHANGED RecvOf(t)
    PROVE  /\ Olds(t)' = Olds(t) /\ Newer(t)' = Newer(t)
           /\ data'[t] = data[t] /\ lenOut'[t] = lenOut[t] /\ recvLen'[t] = recvLen[t]
           /\ event'[t] = event[t] /\ recvPc'[t] = recvPc[t] /\ shown'[t] = shown[t]
           /\ Transferring(t)' = Transferring(t)
<1>1. data'[t] = data[t] /\ lenOut'[t] = lenOut[t]  BY DEF DataOf
<1>2. /\ event'[t] = event[t] /\ recvPc'[t] = recvPc[t] /\ recvLen'[t] = recvLen[t]
      /\ val'[t] = val[t] /\ shown'[t] = shown[t]
    BY DEF RecvOf
<1>3. Olds(t)' = Olds(t)  BY <1>1, <1>2 DEF Olds
<1>4. Transferring(t)' = Transferring(t)  BY <1>2 DEF Transferring
<1>5. Newer(t)' = Newer(t)  BY <1>1, <1>2, <1>4 DEF Newer
<1> QED  BY <1>1, <1>2, <1>3, <1>4, <1>5

\* What the worker is doing, as far as it matters to a signal.
Busy == {"read2", "write1", "write2", "post"}

\* A step that changes nothing of t, of which the worker starts or ends nothing.
LEMMA AgedSame ==
    ASSUME NEW t, Aged(t), UNCHANGED SendOf(t), UNCHANGED DataOf(t), UNCHANGED RecvOf(t),
           \/ UNCHANGED <<job, workPc, seen>>
           \/ job.signal # t /\ job' = job
           \/ workPc \notin Busy /\ workPc' \notin Busy
    PROVE  Aged(t)'
<1>1. /\ Reading(t)' => Reading(t) /\ seen' = seen
      /\ Writing(t)' = Writing(t) /\ (Posting(t)' => Posting(t))
    BY DEF Reading, Writing, Posting, Busy
<1>2. re'[t] = re[t] /\ im'[t] = im[t] /\ measured'[t] = measured[t]  BY DEF SendOf
<1>3. Sampled(t)'  BY <1>2 DEF Aged, Sampled
<1>4. Computed(t)'  BY <1>1, <1>2, SameAge DEF Aged, Computed, Ages
<1>5. Lengths(t)'  BY <1>1, SameAge DEF Aged, Lengths
<1>6. Newest(t)'  BY <1>1, SameAge DEF Aged, Newest
<1>7. Newer(t)'  BY SameAge DEF Aged
<1> QED  BY <1>3, <1>4, <1>5, <1>6, <1>7 DEF Aged

\* Another waveform of t is measured, or handed over.
LEMMA AgedSend ==
    ASSUME Parts, NEW t \in Signals, Aged(t), UNCHANGED DataOf(t), UNCHANGED RecvOf(t),
           UNCHANGED <<job, workPc, seen>>,
           measured'[t] \in Nat, measured[t] <= measured'[t], Sampled(t)'
    PROVE  Aged(t)'
<1>1. Reading(t)' = Reading(t) /\ Writing(t)' = Writing(t) /\ Posting(t)' = Posting(t)
    BY DEF Reading, Writing, Posting
<1>2. Ages(t) \subseteq Ages(t)'
    <2>1. measured[t] \in Nat  BY DEF Parts, SendTyped
    <2>2. 0 .. measured[t] \subseteq 0 .. measured'[t]  BY <2>1
    <2> QED  BY <2>2 DEF Ages
<1>3. Computed(t)'  BY <1>1, <1>2, SameAge DEF Aged, Computed
<1>4. Lengths(t)'  BY <1>1, SameAge DEF Aged, Lengths
<1>5. Newest(t)'  BY <1>1, SameAge DEF Aged, Newest
<1>6. Newer(t)'  BY SameAge DEF Aged
<1> QED  BY <1>3, <1>4, <1>5, <1>6 DEF Aged

\* The worker's part is as it was.
LEMMA FilledSame ==
    ASSUME Filled, UNCHANGED <<queue, job, workPc, seen>>, UNCHANGED data
    PROVE  Filled'
BY DEF Filled, NewBins, AtWork

LEMMA AgeInit == Init => Age
<1> SUFFICES ASSUME Init PROVE Age  OBVIOUS
<1>1. Filled  BY DEF Init, Filled, AtWork
<1>2. ASSUME NEW s \in Signals PROVE Aged(s)
    <2>1. 0 \in Positions  BY Longest DEF Positions
    <2>2. /\ measured[s] = 0 /\ re[s] = [n \in Positions |-> 0] /\ im[s] = [n \in Positions |-> 0]
          /\ lenOut[s] = 0 /\ recvLen[s] = 0 /\ shown[s].len = 0
          /\ ~event[s] /\ recvPc[s] = "idle" /\ workPc = "none"
        BY DEF Init
    <2>3. Sampled(s)  BY <2>1, <2>2 DEF Sampled
    <2>4. \A n \in Positions :
             data[s][n] = NoCell /\ val[s].cells[n] = NoCell /\ shown[s].cells[n] = NoCell
        BY DEF Init
    <2>5. \A x \in Olds(s) : x = {0}  BY <2>4 DEF Olds, NoCell
    <2>6. {0} \in Ages(s)
        <3>1. {0} \subseteq 0 .. measured[s]  BY <2>2
        <3>2. {0} # {}  OBVIOUS
        <3> QED  BY <3>1, <3>2 DEF Ages
    <2>7. Computed(s)  BY <2>2, <2>5, <2>6 DEF Computed, Reading
    <2>8. Lengths(s)  BY <2>2, Longest DEF Lengths, Posting, Transferring
    <2>9. Newest(s)  BY <2>2 DEF Newest, Reading
    <2>10. Newer(s)  BY <2>2 DEF Newer, Transferring
    <2> QED  BY <2>3, <2>7, <2>8, <2>9, <2>10 DEF Aged
<1> QED  BY <1>1, <1>2 DEF Age

\* The first input is fetched: at least one sample of the new waveform.
LEMMA AgeFetchA == ASSUME Parts, Age, NEW s \in Signals, FetchA(s) PROVE Age'
<1>1. UNCHANGED <<initVars, im, accepted, queue, workVars, dataVars, event, recvVars>>
    BY DEF FetchA
<1>2. \A t \in Signals \ {s} : UNCHANGED SendOf(t)
    BY <1>1 DEF FetchA, Parts, SendTyped, SendOf
<1>3. UNCHANGED <<queue, job, workPc, seen, data>>  BY <1>1 DEF workVars, dataVars
<1>4. PICK shape \in Shapes :
        re' = [re EXCEPT ![s] = [n \in Positions |-> IF n < shape[1] THEN measured'[s] ELSE @[n]]]
    BY DEF FetchA
<1>5. shape[1] \in Nat /\ shape[1] > 0  OBVIOUS
<1>6. measured'[s] = measured[s] + 1 /\ measured[s] \in Nat /\ measured'[s] \in Nat
    BY DEF FetchA, Parts, SendTyped
<1>7. Sampled(s)'
    <2>1. /\ \A n \in Positions : re[s][n] <= measured[s] /\ im[s][n] <= measured[s]
          /\ \A n \in Positions : re[s][n] \in Nat /\ im[s][n] \in Nat
        BY DEF Age, Aged, Sampled, Parts, SendTyped
    <2>2. re'[s] = [n \in Positions |-> IF n < shape[1] THEN measured'[s] ELSE re[s][n]]
        BY <1>4 DEF Parts, SendTyped
    <2>3. 0 \in Positions /\ 0 < shape[1]  BY <1>5, Longest DEF Positions
    <2>4. re'[s][0] = measured'[s]  BY <2>2, <2>3
    <2>5. \A n \in Positions : re'[s][n] <= measured'[s]
        <3> TAKE n \in Positions
        <3>1. re'[s][n] = measured'[s] \/ re'[s][n] = re[s][n]  BY <2>2
        <3> QED  BY <1>6, <2>1, <3>1
    <2>6. \A n \in Positions : im'[s][n] <= measured'[s]  BY <1>1, <1>6, <2>1
    <2> QED  BY <2>4, <2>5, <2>6 DEF Sampled
<1>8. \A t : UNCHANGED DataOf(t) /\ UNCHANGED RecvOf(t)  BY <1>1, OfSignals
<1>9. ASSUME NEW t \in Signals PROVE Aged(t)'
    <2>1. CASE t = s
        <3>1. measured[s] <= measured'[s]  BY <1>6
        <3> QED  BY <1>3, <1>6, <1>7, <1>8, <2>1, <3>1, AgedSend DEF Age
    <2>2. CASE t # s  BY <1>2, <1>3, <1>8, <2>2, AgedSame DEF Age
    <2> QED  BY <2>1, <2>2
<1> QED  BY <1>3, <1>9, FilledSame DEF Age

LEMMA AgeFetchB == ASSUME Parts, Age, NEW s \in Signals, FetchB(s) PROVE Age'
<1>1. UNCHANGED <<initVars, re, got, measured, accepted, queue, workVars, dataVars, event, recvVars>>
    BY DEF FetchB
<1>2. \A t \in Signals \ {s} : UNCHANGED SendOf(t)
    BY <1>1 DEF FetchB, Parts, SendTyped, SendOf
<1>3. UNCHANGED <<queue, job, workPc, seen, data>>  BY <1>1 DEF workVars, dataVars
<1>4. Sampled(s)'
    <2>1. im'[s] = [n \in Positions |-> IF n < got[s][2] THEN measured[s] ELSE im[s][n]]
        BY DEF FetchB, Parts, SendTyped
    <2>2. measured[s] \in Nat /\ measured'[s] = measured[s]  BY <1>1 DEF Parts, SendTyped
    <2>3. Sampled(s)  BY DEF Age, Aged
    <2>4. \A n \in Positions : im'[s][n] <= measured'[s]
        <3> TAKE n \in Positions
        <3>1. im'[s][n] = measured[s] \/ im'[s][n] = im[s][n]  BY <2>1
        <3> QED  BY <2>2, <2>3, <3>1 DEF Sampled
    <2> QED  BY <1>1, <2>3, <2>4 DEF Sampled
<1>5. measured'[s] \in Nat /\ measured[s] <= measured'[s]  BY <1>1 DEF Parts, SendTyped
<1>6. \A t : UNCHANGED DataOf(t) /\ UNCHANGED RecvOf(t)  BY <1>1, OfSignals
<1>7. ASSUME NEW t \in Signals PROVE Aged(t)'
    <2>1. CASE t = s  BY <1>3, <1>4, <1>5, <1>6, <2>1, AgedSend DEF Age
    <2>2. CASE t # s  BY <1>2, <1>3, <1>6, <2>2, AgedSame DEF Age
    <2> QED  BY <2>1, <2>2
<1> QED  BY <1>3, <1>7, FilledSame DEF Age

\* A message is posted: it is not empty.
LEMMA AgePost ==
    ASSUME Parts, Age, NEW s \in Signals, Post(s), SendLen(s) > 0
    PROVE  Age'
<1>1. /\ UNCHANGED <<initVars, re, im, got, measured, workVars, dataVars, event, recvVars>>
      /\ queue' = Append(queue, [signal |-> s, len |-> SendLen(s)])
    BY DEF Post
<1>2. \A t \in Signals \ {s} : UNCHANGED SendOf(t)
    BY <1>1 DEF Post, Parts, SendTyped, SendOf
<1>3. UNCHANGED <<job, workPc, seen, data>>  BY <1>1 DEF workVars, dataVars
<1>4. Filled'
    <2>1. \A i \in DOMAIN queue' : queue'[i].len > 0
        <3> TAKE i \in DOMAIN queue'
        <3>1. queue \in Seq(Message) /\ [signal |-> s, len |-> SendLen(s)] \in Message
            <4>1. SendLen(s) \in Nat  BY SendLenNat DEF Parts, SendTyped
            <4> QED  BY <4>1 DEF Parts, QueueTyped, Message
        <3>2. CASE i \in DOMAIN queue  BY <1>1, <3>1, <3>2, AppendProperties DEF Age, Filled
        <3>3. CASE i \notin DOMAIN queue
            <4>1. i = Len(queue) + 1  BY <1>1, <3>1, <3>3, AppendProperties
            <4>2. queue'[i] = [signal |-> s, len |-> SendLen(s)]  BY <1>1, <3>1, <4>1, AppendProperties
            <4> QED  BY <4>2
        <3> QED  BY <3>2, <3>3
    <2> QED  BY <1>3, <2>1 DEF Age, Filled, NewBins
<1>5. Sampled(s)'  BY <1>1 DEF Age, Aged, Sampled
<1>6. measured'[s] \in Nat /\ measured[s] <= measured'[s]  BY <1>1 DEF Parts, SendTyped
<1>7. \A t : UNCHANGED DataOf(t) /\ UNCHANGED RecvOf(t)  BY <1>1, OfSignals
<1>8. ASSUME NEW t \in Signals PROVE Aged(t)'
    <2>1. CASE t = s  BY <1>3, <1>5, <1>6, <1>7, <2>1, AgedSend DEF Age
    <2>2. CASE t # s  BY <1>2, <1>3, <1>7, <2>2, AgedSame DEF Age
    <2> QED  BY <2>1, <2>2
<1> QED  BY <1>4, <1>8 DEF Age

\* The worker takes a message, makes plans, or starts to read.
LEMMA AgePlans ==
    ASSUME Parts, Inv, Age, Begun,
           InitRecord \/ CreatePlans \/ PlanFailure \/ Receive \/ UpdatePlan \/ Lock
    PROVE  Age'
<1>1. UNCHANGED <<sendVars, dataVars, event, recvVars>>
    BY DEF InitRecord, CreatePlans, PlanFailure, Receive, UpdatePlan, Lock
<1>2. \/ UNCHANGED <<job, workPc, seen>>
      \/ workPc \notin Busy /\ workPc' \notin Busy
    BY DEF InitRecord, CreatePlans, PlanFailure, Receive, UpdatePlan, Lock, Begun, Work, Busy
<1>3. \A t : UNCHANGED SendOf(t) /\ UNCHANGED DataOf(t) /\ UNCHANGED RecvOf(t)
    BY <1>1, OfSignals
<1>4. \A t \in Signals : Aged(t)'  BY <1>2, <1>3, AgedSame DEF Age
<1>5. Filled'
    <2>1. CASE Receive
        <3>1. /\ queue # <<>> /\ job' = Head(queue) /\ queue' = Tail(queue)
              /\ workPc' \in {"plan", "lock"}
            BY <2>1 DEF Receive, Work
        <3>2. queue \in Seq(Message)  BY DEF Parts, QueueTyped
        <3>3. job' = queue[1] /\ 1 \in DOMAIN queue  BY <3>1, <3>2
        <3>4. \A i \in DOMAIN queue' : i + 1 \in DOMAIN queue /\ queue'[i] = queue[i + 1]
            BY <3>1, <3>2
        <3> QED  BY <3>1, <3>3, <3>4 DEF Age, Filled
    <2>2. CASE InitRecord \/ CreatePlans \/ PlanFailure \/ UpdatePlan \/ Lock
        <3>1. queue' = queue /\ job' = job
            BY <2>2 DEF InitRecord, CreatePlans, PlanFailure, UpdatePlan, Lock, workVars
        <3>2. workPc' \in AtWork => workPc \in AtWork
            BY <2>2 DEF InitRecord, CreatePlans, PlanFailure, UpdatePlan, Lock, Work, AtWork
        <3>3. workPc' # "write2" \/ UNCHANGED <<job, workPc, seen, data>>
            BY <1>1, <1>2 DEF Busy, dataVars
        <3> QED  BY <3>1, <3>2, <3>3 DEF Age, Filled, NewBins
    <2> QED  BY <2>1, <2>2
<1> QED  BY <1>4, <1>5 DEF Age

\* Later is no older.
LEMMA BeforeLater ==
    /\ \A x, y, z : Before(x, y) /\ y \subseteq z => Before(x, z)
    /\ \A x \in SUBSET Nat : Before(x, x)
BY DEF Before

\* A half of the input is copied: the first one with a sample of the latest waveform.
LEMMA AgeRead ==
    ASSUME Parts, Inv, Age, Begun, NEW half \in 1 .. 2, ReadInput(half)
    PROVE  Age'
<1>0. PICK s \in Signals : s = job.signal  BY DEF Parts, WorkTyped, Message
<1> DEFINE ns == HalfOf(half, job.len, job.len)
<1>1. /\ UNCHANGED <<initVars, sendVars, queue, job, planLen, dataVars, event, recvVars>>
      /\ \/ half = 1 /\ workPc = "read1" /\ workPc' = "read2"
         \/ half = 2 /\ workPc = "read2" /\ workPc' = "write1"
    BY DEF ReadInput, Work
<1>2. s \in Signals /\ job.len \in Nat /\ job.len > 0 /\ job.len % 2 = 0 /\ job.len <= Order[1].noa
    <2>1. job.len > 0  BY <1>1 DEF Age, Filled, AtWork
    <2> QED  BY <2>1 DEF Parts, WorkTyped, Message, Inv, Posted, Fits
<1>3. \A t : UNCHANGED SendOf(t) /\ UNCHANGED DataOf(t) /\ UNCHANGED RecvOf(t)
    BY <1>1, OfSignals
<1>4. ASSUME NEW t \in Signals \ {s} PROVE Aged(t)'
    BY <1>0, <1>1, <1>3, AgedSame DEF Age
<1>5. /\ measured[s] \in Nat /\ \A n \in ns : n \in Positions
      /\ \A n \in Positions : re[s][n] \in 0 .. measured[s] /\ im[s][n] \in 0 .. measured[s]
    <2>1. \A n \in ns : n \in Positions  BY <1>2, HalfWithin
    <2>2. Sampled(s)  BY <1>2 DEF Age, Aged
    <2>3. measured[s] \in Nat /\ \A n \in Positions : re[s][n] \in Nat /\ im[s][n] \in Nat
        BY <1>2 DEF Parts, SendTyped
    <2>4. \A n \in Positions : re[s][n] \in 0 .. measured[s] /\ im[s][n] \in 0 .. measured[s]
        BY <2>2, <2>3 DEF Sampled
    <2> QED  BY <2>1, <2>3, <2>4
<1>6. seen' = seen \cup {re[s][n] : n \in ns}
                   \cup (IF Type[s] = "C2C" THEN {im[s][n] : n \in ns} ELSE {})
    BY <1>0 DEF ReadInput
<1>7. half = 1 => seen = {} /\ measured[s] \in seen'
    <2> SUFFICES ASSUME half = 1 PROVE seen = {} /\ measured[s] \in seen'  OBVIOUS
    <2>1. seen = {}  BY <1>1 DEF Begun
    <2>2. 0 \in HalfOf(1, job.len, job.len)
        <3>1. \E type : type \in {"C2C", "R2C"}  OBVIOUS
        <3> QED  BY <1>2, <3>1, Halves
    <2>3. re[s][0] = measured[s]  BY <1>2 DEF Age, Aged, Sampled
    <2>4. ns = HalfOf(1, job.len, job.len)  OBVIOUS
    <2> HIDE DEF ns
    <2> QED  BY <1>6, <2>1, <2>2, <2>3, <2>4
<1>8. half = 2 => seen \in Ages(s) /\ \A x \in Olds(s) : Before(x, seen)
    BY <1>0, <1>1, <1>2 DEF Age, Aged, Computed, Newest, Reading
<1> HIDE DEF ns
<1>9. seen' \in Ages(s) /\ seen \subseteq seen'
    <2>1. {re[s][n] : n \in ns} \subseteq 0 .. measured[s] /\ {im[s][n] : n \in ns} \subseteq 0 .. measured[s]
        BY <1>5
    <2>2. seen \subseteq 0 .. measured[s]  BY <1>7, <1>8 DEF Ages
    <2>3. seen' \subseteq 0 .. measured[s] /\ seen \subseteq seen'  BY <1>6, <2>1, <2>2
    <2>4. seen' # {}
        <3>1. half = 1 \/ half = 2  OBVIOUS
        <3>2. seen # {} \/ measured[s] \in seen'  BY <1>7, <1>8, <3>1 DEF Ages
        <3> QED  BY <2>3, <3>2
    <2> QED  BY <2>3, <2>4 DEF Ages
<1>10. \A x \in Olds(s) : Before(x, seen')
    <2> TAKE x \in Olds(s)
    <2>1. x \subseteq 0 .. measured[s]  BY <1>2 DEF Age, Aged, Computed, Ages
    <2>2. CASE half = 1
        <3>1. \A m \in x : m <= measured[s]  BY <2>1
        <3> QED  BY <1>7, <2>2, <3>1 DEF Before
    <2>3. CASE half = 2  BY <1>8, <1>9, <2>3, BeforeLater
    <2>4. half = 1 \/ half = 2  OBVIOUS
    <2> QED  BY <2>2, <2>3, <2>4
<1>11. Aged(s)'
    <2>1. Aged(s)  BY <1>2 DEF Age
    <2>2. /\ re'[s] = re[s] /\ im'[s] = im[s] /\ measured'[s] = measured[s]
          /\ job' = job /\ ~Posting(s)' /\ ~Writing(s) /\ ~Writing(s)'
        BY <1>1 DEF sendVars, Posting, Writing
    <2>3. UNCHANGED DataOf(s) /\ UNCHANGED RecvOf(s)  BY <1>3
    <2>4. Olds(s)' = Olds(s)  BY <2>3, SameAge
    <2>5. Sampled(s)'  BY <2>1, <2>2 DEF Aged, Sampled
    <2>6. Computed(s)'  BY <1>9, <2>1, <2>2, <2>4 DEF Aged, Computed, Ages
    <2>7. Lengths(s)'  BY <2>1, <2>2, <2>3, SameAge DEF Aged, Lengths
    <2>8. Newest(s)'  BY <1>10, <2>1, <2>2, <2>3, <2>4, SameAge DEF Aged, Newest
    <2>9. Newer(s)'  BY <2>1, <2>3, SameAge DEF Aged
    <2> QED  BY <2>5, <2>6, <2>7, <2>8, <2>9 DEF Aged
<1>12. Filled'
    <2>1. queue' = queue /\ job' = job /\ workPc \in AtWork /\ workPc' # "write2"
        BY <1>1 DEF AtWork
    <2> QED  BY <2>1 DEF Age, Filled
<1> QED  BY <1>4, <1>11, <1>12 DEF Age

\* A half of the result is stored: with the second one, all bins are new.
LEMMA AgeWrite ==
    ASSUME Parts, Inv, Age, NEW half \in 1 .. 2, WriteOutput(half)
    PROVE  Age'
<1>1. PICK s \in Signals : s = job.signal  BY DEF Parts, WorkTyped, Message
<1> DEFINE out == OutLen(Type[s], job.len)
           place(n) == Position(Type[s], n, job.len)
<1>2. /\ UNCHANGED <<initVars, sendVars, queue, job, planLen, seen, event, recvVars>>
      /\ \/ half = 1 /\ workPc = "write1" /\ workPc' = "write2" /\ lenOut' = lenOut
         \/ /\ half = 2 /\ workPc = "write2" /\ workPc' = "post"
            /\ lenOut' = [lenOut EXCEPT ![s] = out]
    BY <1>1 DEF WriteOutput, Work
<1>3. /\ job.len \in Nat /\ job.len > 0 /\ job.len % 2 = 0 /\ job.len <= Order[1].noa
      /\ Type[s] \in {"C2C", "R2C"} /\ Posted
    <2>1. job.len > 0  BY <1>2 DEF Age, Filled, AtWork
    <2> QED  BY <2>1 DEF Parts, WorkTyped, Message, Inv, Posted, Fits
<1>4. /\ \A n \in NewBins(half) : n \in 0 .. out - 1 /\ data'[s][place(n)].of = seen
      /\ \A p \in Positions :
            /\ (\A n \in NewBins(half) : place(n) # p) => data'[s][p] = data[s][p]
            /\ (\E n \in NewBins(half) : place(n) = p) => data'[s][p].of = seen
      /\ \A t \in Signals \ {s} : data'[t] = data[t] /\ freq'[t] = freq[t]
    <2>1. /\ \A n \in NewBins(half) :
                 /\ n \in 0 .. OutLen(Type[job.signal], job.len) - 1
                 /\ data'[job.signal][Position(Type[job.signal], n, job.len)] =
                      [bin |-> Bin(Type[job.signal], n, job.len), of |-> seen, len |-> job.len]
          /\ \A p \in Positions :
                 /\ (\A n \in NewBins(half) : Position(Type[job.signal], n, job.len) # p)
                       => data'[job.signal][p] = data[job.signal][p]
                 /\ (\E n \in NewBins(half) : Position(Type[job.signal], n, job.len) = p)
                       => data'[job.signal][p].of = seen
          /\ \A t \in Signals \ {job.signal} : data'[t] = data[t] /\ freq'[t] = freq[t]
        BY <1>3, Written
    <2>2. \A n \in NewBins(half) : data'[job.signal][Position(Type[job.signal], n, job.len)].of = seen
        <3> TAKE n \in NewBins(half)
        <3>1. data'[job.signal][Position(Type[job.signal], n, job.len)] =
                 [bin |-> Bin(Type[job.signal], n, job.len), of |-> seen, len |-> job.len]
            BY <2>1, Zenon
        <3> QED  BY <3>1
    <2>3. /\ \A n \in NewBins(half) : n \in 0 .. out - 1 /\ data'[s][place(n)].of = seen
          /\ \A p \in Positions :
                /\ (\A n \in NewBins(half) : place(n) # p) => data'[s][p] = data[s][p]
                /\ (\E n \in NewBins(half) : place(n) = p) => data'[s][p].of = seen
        BY <1>1, <2>1, <2>2, Zenon
    <2>4. \A t \in Signals \ {s} : data'[t] = data[t] /\ freq'[t] = freq[t]  BY <1>1, <2>1
    <2> QED  BY <2>3, <2>4
<1>5. /\ out \in 1 .. job.len
      /\ HalfOf(1, out, job.len) \cup HalfOf(2, out, job.len) = 0 .. out - 1
      /\ \A p \in 0 .. out - 1 : \E n \in 0 .. out - 1 : place(n) = p
    <2>1. /\ OutLen(Type[s], job.len) \in 1 .. job.len
          /\ \A total \in Nat : HalfOf(1, total, job.len) \cup HalfOf(2, total, job.len) = 0 .. total - 1
          /\ \A p \in 0 .. OutLen(Type[s], job.len) - 1 :
                \E n \in 0 .. OutLen(Type[s], job.len) - 1 : Position(Type[s], n, job.len) = p
        BY <1>3, Halves
    <2>2. out \in Nat  BY <1>3, <2>1
    <2> QED  BY <2>1, <2>2
<1>6. \A n : n \in NewBins(half) <=> n \in HalfOf(half, out, job.len)  BY <1>1 DEF NewBins
<1> HIDE DEF out, place
<1>7. \A p \in Positions : data'[s][p].of \in {data[s][p].of, seen}  BY <1>4
<1>8. \A p \in 0 .. out - 1 : p \in Positions
    <2>1. job.len \in Nat /\ job.len <= Order[1].noa /\ Order[1].noa \in Nat  BY <1>3, Longest
    <2>2. \A k, p : k \in 1 .. job.len /\ p \in 0 .. k - 1 => p \in Positions
        BY <2>1 DEF Positions
    <2> QED  BY <1>5, <2>2
<1>9. /\ Aged(s) /\ seen \in Ages(s) /\ \A x \in Olds(s) : Before(x, seen)
    BY <1>1, <1>2 DEF Age, Aged, Computed, Newest, Reading
<1>10. Olds(s)' \subseteq Olds(s) \cup {seen}
    <2>1. val'[s] = val[s] /\ shown'[s] = shown[s]  BY <1>2 DEF recvVars
    <2> QED  BY <1>7, <2>1 DEF Olds
<1>11. \A x \in Olds(s)' : Before(x, seen) /\ x \in Ages(s)
    <2>1. Before(seen, seen)
        <3>1. seen \in SUBSET Nat  BY DEF Parts, WorkTyped
        <3> QED  BY <3>1, BeforeLater
    <2> QED  BY <1>9, <1>10, <2>1 DEF Aged, Computed
<1>12. \A n \in NewBins(1) : data'[s][place(n)].of = seen
    <2>1. CASE half = 1  BY <1>4, <2>1
    <2>2. CASE half = 2
        <3> TAKE n \in NewBins(1)
        <3>1. data[s][place(n)].of = seen  BY <1>1, <1>2, <2>2 DEF Age, Filled, place
        <3>2. n \in HalfOf(1, out, job.len)  BY <1>1 DEF NewBins, out
        <3>3. place(n) \in Positions
            <4>1. \A k \in 0 .. out - 1 : place(k) \in 0 .. out - 1
                <5>1. \A k \in 0 .. OutLen(Type[s], job.len) - 1 :
                         Position(Type[s], k, job.len) \in 0 .. OutLen(Type[s], job.len) - 1
                    BY <1>3, Halves
                <5> QED  BY <5>1 DEF place, out
            <4>2. n \in 0 .. out - 1  BY <1>5, <3>2
            <4> QED  BY <1>8, <4>1, <4>2
        <3> QED  BY <1>7, <3>1, <3>3
    <2> QED  BY <2>1, <2>2
<1>13. half = 2 => \A p \in 0 .. out - 1 : data'[s][p].of = seen
    <2> SUFFICES ASSUME half = 2, NEW p \in 0 .. out - 1 PROVE data'[s][p].of = seen  OBVIOUS
    <2>1. PICK n \in 0 .. out - 1 : place(n) = p  BY <1>5
    <2>2. CASE n \in HalfOf(2, out, job.len)  BY <1>4, <1>6, <2>1, <2>2
    <2>3. CASE n \in HalfOf(1, out, job.len)
        <3>1. n \in NewBins(1)  BY <1>1, <2>3 DEF NewBins, out
        <3> QED  BY <1>12, <2>1, <3>1
    <2> QED  BY <1>5, <2>2, <2>3
<1>14. ASSUME NEW t \in Signals \ {s} PROVE Aged(t)'
    <2>1. lenOut'[t] = lenOut[t] /\ stepLen'[t] = stepLen[t]
        BY <1>1, <1>2 DEF WriteOutput, Parts, DataTyped
    <2>2. UNCHANGED DataOf(t)  BY <1>4, <2>1 DEF DataOf
    <2>3. UNCHANGED SendOf(t) /\ UNCHANGED RecvOf(t)  BY <1>2, OfSignals
    <2> QED  BY <1>1, <1>2, <2>2, <2>3, AgedSame DEF Age
<1>15. lenOut'[s] = IF half = 1 THEN lenOut[s] ELSE out
    BY <1>2 DEF Parts, DataTyped
<1>16. /\ re'[s] = re[s] /\ im'[s] = im[s] /\ measured'[s] = measured[s] /\ seen' = seen /\ job' = job
       /\ event'[s] = event[s] /\ recvPc'[s] = recvPc[s] /\ recvLen'[s] = recvLen[s]
       /\ val'[s] = val[s] /\ shown'[s] = shown[s]
    BY <1>2 DEF sendVars, recvVars
<1>17. Sampled(s)'  BY <1>9, <1>16 DEF Aged, Sampled
<1>18. Computed(s)'  BY <1>9, <1>11, <1>16 DEF Computed, Ages
<1>19. Lengths(s)'
    <2>1. CASE half = 1
        <3>1. ~Posting(s)'  BY <1>2, <2>1 DEF Posting
        <3> QED  BY <1>9, <1>15, <1>16, <2>1, <3>1 DEF Aged, Lengths, Transferring
    <2>2. CASE half = 2
        <3>1. lenOut'[s] > 0 /\ lenOut'[s] <= Order[1].noa
            BY <1>3, <1>5, <1>15, <2>2, Longest
        <3> QED  BY <1>9, <1>16, <3>1 DEF Aged, Lengths, Transferring
    <2> QED  BY <2>1, <2>2
<1>20. Newest(s)'
    <2>1. Reading(s)' => \A x \in Olds(s)' : Before(x, seen')  BY <1>11, <1>16
    <2>2. ~Writing(s)' => half = 2  BY <1>1, <1>2 DEF Writing
    <2>3. half = 2 => \A p \in 0 .. lenOut'[s] - 1 : \A x \in Olds(s)' : Before(x, data'[s][p].of)
        BY <1>11, <1>13, <1>15
    <2> QED  BY <2>1, <2>2, <2>3 DEF Newest
<1>21. Newer(s)'
    <2>1. Transferring(s)' = Transferring(s)  BY <1>16 DEF Transferring
    <2>2. ASSUME Transferring(s), NEW p \in 0 .. recvLen[s] - 1, NEW n \in Positions
          PROVE  Before(shown[s].cells[n].of, data'[s][p].of)
        <3>1. recvLen[s] \in Nat /\ recvLen[s] <= Order[1].noa
            BY <1>9 DEF Aged, Lengths, Parts, RecvTyped
        <3>2. p \in Positions  BY <3>1, Longest DEF Positions
        <3>3. CASE data'[s][p].of = data[s][p].of  BY <1>9, <2>2, <3>3 DEF Aged, Newer
        <3>4. CASE data'[s][p].of = seen
            <4>1. shown[s].cells[n].of \in Olds(s)  BY DEF Olds
            <4> QED  BY <1>9, <3>4, <4>1
        <3> QED  BY <1>7, <3>2, <3>3, <3>4
    <2>3. recvPc[s] = "copy2" => \A p \in HalfOf(1, recvLen[s], recvLen[s]), n \in Positions :
              Before(shown[s].cells[n].of, val[s].cells[p].of)
        BY <1>9 DEF Aged, Newer
    <2> QED  BY <1>16, <2>1, <2>2, <2>3 DEF Newer
<1>22. Filled'
    <2>1. NewBins(1)' = NewBins(1) /\ queue' = queue /\ workPc \in AtWork
        BY <1>2 DEF NewBins, AtWork
    <2>2. \A n \in NewBins(1) : data'[job.signal][Position(Type[job.signal], n, job.len)].of = seen
        BY <1>1, <1>12 DEF place
    <2> QED  BY <1>16, <2>1, <2>2 DEF Age, Filled
<1> QED  BY <1>14, <1>17, <1>18, <1>19, <1>20, <1>21, <1>22 DEF Age, Aged

\* The event is posted with a result that is not empty.
LEMMA AgeEvent == ASSUME Parts, Age, PostEvent PROVE Age'
<1>1. /\ UNCHANGED <<initVars, sendVars, queue, job, planLen, seen, dataVars, recvVars>>
      /\ workPc = "post" /\ workPc' = "receive"
      /\ event' = [event EXCEPT ![job.signal] = TRUE]
    BY DEF PostEvent, Work, workVars
<1>2. PICK s \in Signals : s = job.signal  BY DEF Parts, WorkTyped, Message
<1>3. ASSUME NEW t \in Signals \ {s} PROVE Aged(t)'
    <2>1. UNCHANGED SendOf(t) /\ UNCHANGED DataOf(t)  BY <1>1, OfSignals
    <2>2. UNCHANGED RecvOf(t)  BY <1>1, <1>2 DEF Parts, RecvTyped, RecvOf, recvVars
    <2> QED  BY <1>1, <1>2, <2>1, <2>2, AgedSame DEF Age, Busy
<1>4. Aged(s)'
    <2>1. Aged(s) /\ Posting(s)  BY <1>1, <1>2 DEF Age, Posting
    <2>2. /\ ~Reading(s)' /\ ~Writing(s) /\ ~Posting(s)'
        BY <1>1 DEF Reading, Writing, Posting
    <2>3. UNCHANGED <<re, im, measured, data, lenOut, recvPc, recvLen, val, shown>>
        BY <1>1 DEF sendVars, dataVars, recvVars
    <2>4. Olds(s)' = Olds(s) /\ Transferring(s)' = Transferring(s)  BY <2>3 DEF Olds, Transferring
    <2>5. Sampled(s)'  BY <2>1, <2>3 DEF Aged, Sampled
    <2>6. Computed(s)'  BY <2>1, <2>2, <2>3, <2>4 DEF Aged, Computed, Ages
    <2>7. Lengths(s)'  BY <2>1, <2>2, <2>3, <2>4 DEF Aged, Lengths
    <2>8. Newest(s)'  BY <2>1, <2>2, <2>3, <2>4 DEF Aged, Newest
    <2>9. Newer(s)'  BY <2>1, <2>3, <2>4 DEF Aged, Newer
    <2> QED  BY <2>5, <2>6, <2>7, <2>8, <2>9 DEF Aged
<1>5. Filled'  BY <1>1 DEF Age, Filled, AtWork
<1> QED  BY <1>3, <1>4, <1>5 DEF Age

\* The record is processed: what it copies is not empty.
LEMMA AgeRecv ==
    ASSUME Parts, Age, NEW s \in Signals, RecvStart(s) \/ RecvLock(s)
    PROVE  Age'
<1>1. UNCHANGED <<initVars, sendVars, queue, workVars, dataVars, val, shown>>
    BY DEF RecvStart, RecvLock
<1>2. /\ \A t \in Signals \ {s} : UNCHANGED RecvOf(t)
      /\ \/ event[s] /\ recvPc'[s] = "lock" /\ recvLen'[s] = recvLen[s]
         \/ /\ recvPc[s] = "lock" /\ MutexFree /\ recvPc'[s] = "copy1"
            /\ recvLen'[s] = IF lenOut[s] > Size[s] THEN Size[s] ELSE lenOut[s]
    BY <1>1 DEF RecvStart, RecvLock, Parts, RecvTyped, RecvOf
<1>3. UNCHANGED <<queue, job, workPc, seen, data>>  BY <1>1 DEF workVars, dataVars
<1>4. ASSUME NEW t \in Signals \ {s} PROVE Aged(t)'
    BY <1>1, <1>2, <1>3, OfSignals, AgedSame DEF Age
<1>5. Aged(s)'
    <2>1. Aged(s)  BY DEF Age
    <2>2. UNCHANGED <<re, im, measured, lenOut>>  BY <1>1 DEF sendVars, dataVars
    <2>3. Olds(s)' = Olds(s)  BY <1>1, <1>3 DEF Olds
    <2>4. Reading(s)' = Reading(s) /\ Writing(s)' = Writing(s) /\ Posting(s)' = Posting(s)
        BY <1>3 DEF Reading, Writing, Posting
    <2>5. Sampled(s)'  BY <2>1, <2>2 DEF Aged, Sampled
    <2>6. Computed(s)'  BY <1>3, <2>1, <2>2, <2>3, <2>4 DEF Aged, Computed, Ages
    <2>7. Newest(s)'  BY <1>3, <2>1, <2>2, <2>3, <2>4 DEF Aged, Newest
    <2>8. lenOut[s] > 0 /\ lenOut[s] \in Nat /\ Size[s] \in Nat \ {0}
        BY <1>2, <2>1 DEF Aged, Lengths, Parts, DataTyped
    <2>9. Lengths(s)'
        <3>1. lenOut'[s] > 0  BY <2>2, <2>8
        <3>2. Transferring(s)' => recvLen'[s] > 0  BY <1>2, <2>8 DEF Transferring
        <3>3. recvLen'[s] <= Order[1].noa
            BY <1>2, <2>1, <2>8, Longest DEF Aged, Lengths
        <3> QED  BY <1>1, <2>1, <2>2, <3>1, <3>2, <3>3 DEF Aged, Lengths
    <2>10. Newer(s)'
        <3>1. recvPc'[s] # "copy2"  BY <1>2
        <3> SUFFICES ASSUME recvPc'[s] = "copy1", NEW p \in 0 .. recvLen'[s] - 1, NEW n \in Positions
                     PROVE  Before(shown'[s].cells[n].of, data'[s][p].of)
            BY <3>1 DEF Newer, Transferring
        <3>2. MutexFree /\ p \in 0 .. lenOut[s] - 1  BY <1>2, <2>8
        <3>3. ~Writing(s)  BY <3>2 DEF MutexFree, Writing
        <3>4. shown[s].cells[n].of \in Olds(s)  BY DEF Olds
        <3> QED  BY <1>1, <1>3, <2>1, <3>2, <3>3, <3>4 DEF Aged, Newest
    <2> QED  BY <2>5, <2>6, <2>7, <2>9, <2>10 DEF Aged
<1> QED  BY <1>3, <1>4, <1>5, FilledSame DEF Age

\* What a half of the copy leaves in VALA: it adds no result that was not there.
LEMMA CopyStep ==
    ASSUME Parts, NEW s \in Signals, Lengths(s), NEW half \in 1 .. 2, RecvCopy(s, half)
    PROVE  /\ UNCHANGED <<initVars, sendVars, queue, workVars, dataVars, event, recvLen, recvStep>>
           /\ Transferring(s) /\ \A t \in Signals \ {s} : UNCHANGED RecvOf(t)
           /\ \A n \in Positions :
                 val'[s].cells[n] = IF n \in HalfOf(half, recvLen[s], recvLen[s])
                                    THEN data[s][n] ELSE val[s].cells[n]
           /\ \/ half = 1 /\ recvPc'[s] = "copy2" /\ shown' = shown
              \/ /\ half = 2 /\ recvPc[s] = "copy2" /\ recvPc'[s] = "idle"
                 /\ shown'[s].len = recvLen[s] /\ shown'[s].cells = val'[s].cells
           /\ \A p \in 0 .. recvLen[s] - 1 : p \in Positions
           /\ HalfOf(1, recvLen[s], recvLen[s]) \cup HalfOf(2, recvLen[s], recvLen[s])
                 = 0 .. recvLen[s] - 1
<1> DEFINE ns == HalfOf(half, recvLen[s], recvLen[s])
           cells == [n \in Positions |-> IF n \in ns THEN data[s][n] ELSE val[s].cells[n]]
           freqs == [n \in Positions |-> IF n \in ns THEN freq[s][n] ELSE val[s].freqs[n]]
<1>1. /\ UNCHANGED <<initVars, sendVars, queue, workVars, dataVars, event, recvLen, recvStep>>
      /\ val' = [val EXCEPT ![s] = [cells |-> cells, freqs |-> freqs]]
      /\ \/ /\ half = 1 /\ recvPc[s] = "copy1"
            /\ recvPc' = [recvPc EXCEPT ![s] = "copy2"] /\ shown' = shown
         \/ /\ half = 2 /\ recvPc[s] = "copy2"
            /\ recvPc' = [recvPc EXCEPT ![s] = "idle"]
            /\ shown' = [shown EXCEPT ![s] = [len |-> recvLen[s], step |-> recvStep[s],
                  cells |-> val'[s].cells, freqs |-> val'[s].freqs]]
    BY DEF RecvCopy
<1>2. val'[s].cells = cells  BY <1>1 DEF Parts, RecvTyped
<1>3. \A t \in Signals \ {s} : UNCHANGED RecvOf(t)
    BY <1>1 DEF Parts, RecvTyped, RecvOf
<1>4. Transferring(s)  BY <1>1 DEF Transferring
<1>5. \A n \in Positions : val'[s].cells[n] = IF n \in ns THEN data[s][n] ELSE val[s].cells[n]
    BY <1>2
<1>6. \/ half = 1 /\ recvPc'[s] = "copy2" /\ shown' = shown
      \/ /\ half = 2 /\ recvPc[s] = "copy2" /\ recvPc'[s] = "idle"
         /\ shown'[s].len = recvLen[s] /\ shown'[s].cells = val'[s].cells
    <2>1. CASE half = 1  BY <1>1, <2>1 DEF Parts, RecvTyped
    <2>2. CASE half = 2
        <3>1. /\ recvPc[s] = "copy2" /\ recvPc'[s] = "idle"
              /\ shown'[s] = [len |-> recvLen[s], step |-> recvStep[s],
                              cells |-> val'[s].cells, freqs |-> val'[s].freqs]
            BY <1>1, <2>2 DEF Parts, RecvTyped
        <3> QED  BY <2>2, <3>1
    <2> QED  BY <2>1, <2>2
<1>7. recvLen[s] \in Nat /\ recvLen[s] <= Order[1].noa  BY DEF Lengths, Parts, RecvTyped
<1>8. \A p \in 0 .. recvLen[s] - 1 : p \in Positions  BY <1>7, Longest DEF Positions
<1>9. HalfOf(1, recvLen[s], recvLen[s]) \cup HalfOf(2, recvLen[s], recvLen[s]) = 0 .. recvLen[s] - 1
    BY <1>7, CopyHalves
<1> HIDE DEF cells, freqs
<1> QED  BY <1>1, <1>3, <1>4, <1>5, <1>6, <1>8, <1>9

\* What is in VALA when the copy is complete is no older than what is shown.
LEMMA CopiedNewer ==
    ASSUME Parts, NEW s \in Signals, Aged(s), NEW half \in 1 .. 2, RecvCopy(s, half),
           NEW p \in 0 .. recvLen[s] - 1, NEW n \in Positions,
           half = 2 \/ p \in HalfOf(1, recvLen[s], recvLen[s])
    PROVE  Before(shown[s].cells[n].of, val'[s].cells[p].of)
<1>1. Lengths(s) /\ Newer(s)  BY DEF Aged
<1>2. p \in Positions /\ Transferring(s)  BY <1>1, CopyStep
<1>3. CASE p \in HalfOf(half, recvLen[s], recvLen[s])
    <2>1. val'[s].cells[p] = data[s][p]  BY <1>1, <1>2, <1>3, CopyStep
    <2> QED  BY <1>1, <1>2, <2>1 DEF Newer
<1>4. CASE p \notin HalfOf(half, recvLen[s], recvLen[s])
    <2>1. val'[s].cells[p] = val[s].cells[p]  BY <1>1, <1>2, <1>4, CopyStep
    <2>2. half = 2 /\ p \in HalfOf(1, recvLen[s], recvLen[s]) /\ recvPc[s] = "copy2"
        BY <1>1, <1>4, CopyStep
    <2> QED  BY <1>1, <2>1, <2>2 DEF Newer
<1> QED  BY <1>3, <1>4

LEMMA AgeCopy ==
    ASSUME Parts, Age, NEW s \in Signals, NEW half \in 1 .. 2, RecvCopy(s, half)
    PROVE  Age'
<1>1. Aged(s) /\ Lengths(s)  BY DEF Age, Aged
<1>2. /\ UNCHANGED <<initVars, sendVars, queue, workVars, dataVars, event, recvLen, recvStep>>
      /\ Transferring(s) /\ \A t \in Signals \ {s} : UNCHANGED RecvOf(t)
      /\ \A n \in Positions :
            val'[s].cells[n] = IF n \in HalfOf(half, recvLen[s], recvLen[s])
                               THEN data[s][n] ELSE val[s].cells[n]
      /\ \/ half = 1 /\ recvPc'[s] = "copy2" /\ shown' = shown
         \/ /\ half = 2 /\ recvPc[s] = "copy2" /\ recvPc'[s] = "idle"
            /\ shown'[s].len = recvLen[s] /\ shown'[s].cells = val'[s].cells
    BY <1>1, CopyStep
<1>3. UNCHANGED <<queue, job, workPc, seen, data>>  BY <1>2 DEF workVars, dataVars
<1>4. ASSUME NEW t \in Signals \ {s} PROVE Aged(t)'
    BY <1>2, <1>3, OfSignals, AgedSame DEF Age
<1>5. Olds(s)' \subseteq Olds(s)
    <2>1. \A n \in Positions : /\ data'[s][n].of \in Olds(s)
                               /\ val'[s].cells[n].of \in Olds(s)
                               /\ shown'[s].cells[n].of \in Olds(s)
        <3> TAKE n \in Positions
        <3>1. data[s][n].of \in Olds(s) /\ val[s].cells[n].of \in Olds(s) /\ shown[s].cells[n].of \in Olds(s)
            BY DEF Olds
        <3>2. val'[s].cells[n] = data[s][n] \/ val'[s].cells[n] = val[s].cells[n]  BY <1>2
        <3>3. shown'[s].cells[n] = shown[s].cells[n] \/ shown'[s].cells[n] = val'[s].cells[n]  BY <1>2
        <3> QED  BY <1>3, <3>1, <3>2, <3>3
    <2> QED  BY <2>1 DEF Olds
<1>6. UNCHANGED <<re, im, measured, lenOut>>  BY <1>2 DEF sendVars, dataVars
<1>7. Reading(s)' = Reading(s) /\ Writing(s)' = Writing(s) /\ Posting(s)' = Posting(s)
    BY <1>3 DEF Reading, Writing, Posting
<1>8. Sampled(s)'  BY <1>1, <1>6 DEF Aged, Sampled
<1>9. Computed(s)'  BY <1>1, <1>3, <1>5, <1>6, <1>7 DEF Aged, Computed, Ages
<1>10. Newest(s)'
    <2>1. Reading(s) => \A x \in Olds(s)' : Before(x, seen)  BY <1>1, <1>5 DEF Aged, Newest
    <2>2. ~Writing(s) => \A p \in 0 .. lenOut[s] - 1 : \A x \in Olds(s)' : Before(x, data[s][p].of)
        BY <1>1, <1>5 DEF Aged, Newest
    <2> QED  BY <1>3, <1>6, <1>7, <2>1, <2>2 DEF Newest
<1>11. Lengths(s)'
    <2>1. recvLen'[s] > 0 /\ lenOut'[s] > 0  BY <1>2, <1>6, <1>1 DEF Lengths, Transferring
    <2>2. shown'[s].len <= Order[1].noa  BY <1>1, <1>2 DEF Lengths
    <2> QED  BY <1>1, <1>2, <1>6, <2>1, <2>2 DEF Lengths
<1>12. Newer(s)'
    <2>1. CASE half = 2  BY <1>2, <2>1 DEF Newer, Transferring
    <2>2. CASE half = 1
        <3>1. shown' = shown /\ recvLen' = recvLen  BY <1>2, <2>2
        <3>2. \A p \in 0 .. recvLen[s] - 1, n \in Positions : Before(shown[s].cells[n].of, data[s][p].of)
            BY <1>1, <1>2 DEF Aged, Newer
        <3>3. \A p \in HalfOf(1, recvLen[s], recvLen[s]), n \in Positions :
                 Before(shown[s].cells[n].of, val'[s].cells[p].of)
            <4>1. \A p \in HalfOf(1, recvLen[s], recvLen[s]) : p \in 0 .. recvLen[s] - 1
                BY DEF HalfOf
            <4> QED  BY <1>1, <4>1, CopiedNewer
        <3> QED  BY <1>3, <3>1, <3>2, <3>3 DEF Newer
    <2>3. half = 1 \/ half = 2  OBVIOUS
    <2> QED  BY <2>1, <2>2, <2>3
<1> QED  BY <1>3, <1>4, <1>8, <1>9, <1>10, <1>11, <1>12, FilledSame DEF Age, Aged

LEMMA AgeNext == Parts /\ Inv /\ Follow /\ Age /\ [Next]_vars => Age'
<1> SUFFICES ASSUME Parts, Inv, Follow, Age, [Next]_vars PROVE Age'  OBVIOUS
<1>1. CASE InitRecord \/ CreatePlans \/ PlanFailure \/ Receive \/ UpdatePlan \/ Lock
    BY <1>1, AgePlans DEF Follow
<1>2. CASE \E s \in Signals : Send(s)
    <2>1. PICK s \in Signals : Send(s)  BY <1>2
    <2>2. CASE Post(s)
        <3>1. SendLen(s) > 0  BY <2>2 DEF Post, Follow, Follows, Arrays
        <3> QED  BY <2>2, <3>1, AgePost
    <2> QED  BY <2>1, <2>2, AgeFetchA, AgeFetchB DEF Send
<1>3. CASE \E s \in Signals : Recv(s)
    BY <1>3, AgeRecv, AgeCopy DEF Recv
<1>4. CASE PostEvent \/ \E half \in 1 .. 2 : ReadInput(half) \/ WriteOutput(half)
    BY <1>4, AgeEvent, AgeRead, AgeWrite DEF Follow
<1>5. CASE UNCHANGED vars
    <2>1. /\ UNCHANGED <<initVars, queue, job, workPc, seen, data>>
          /\ \A t : UNCHANGED SendOf(t) /\ UNCHANGED DataOf(t) /\ UNCHANGED RecvOf(t)
        BY <1>5, OfSignals DEF vars, workVars, dataVars
    <2>2. \A t \in Signals : Aged(t)'  BY <2>1, AgedSame DEF Age
    <2> QED  BY <2>1, <2>2, FilledSame DEF Age
<1> QED  BY <1>1, <1>2, <1>3, <1>4, <1>5 DEF Next, Worker

----------------------------------------------------------------------------
\* What Oldest is, of what a record shows: no waveform newer than the latest one
\* that any sample was computed from.
OldestIn(sh) == IF sh.len = 0 THEN 0 ELSE Min({Max(sh.cells[n].of) : n \in 0 .. sh.len - 1})

LEMMA OldestOf ==
    ASSUME NEW k \in Nat, NEW sh, sh.len \in Nat, sh.len > 0,
           \A p \in 0 .. sh.len - 1 : sh.cells[p].of \in SUBSET (0 .. k) /\ sh.cells[p].of # {}
    PROVE  /\ OldestIn(sh) \in 0 .. k
           /\ \A p \in 0 .. sh.len - 1 : OldestIn(sh) <= Max(sh.cells[p].of)
           /\ \E p \in 0 .. sh.len - 1 : OldestIn(sh) = Max(sh.cells[p].of)
<1> DEFINE latest(p) == Max(sh.cells[p].of)
           all == {latest(p) : p \in 0 .. sh.len - 1}
<1>1. \A p \in 0 .. sh.len - 1 : latest(p) \in 0 .. k
    <2> TAKE p \in 0 .. sh.len - 1
    <2>1. sh.cells[p].of \in SUBSET (0 .. k) /\ sh.cells[p].of # {}  OBVIOUS
    <2>2. latest(p) \in sh.cells[p].of  BY <2>1, MaxGreatest
    <2> QED  BY <2>1, <2>2
<1>2. OldestIn(sh) = Min(all)  BY DEF OldestIn
<1> HIDE DEF latest
<1>3. all \in SUBSET (0 .. k) /\ all # {}
    <2>1. 0 \in 0 .. sh.len - 1  OBVIOUS
    <2>2. latest(0) \in all  BY <2>1
    <2> QED  BY <1>1, <2>2
<1>4. all \in SUBSET Nat  BY <1>3
<1>5. Min(all) \in all /\ \A m \in all : Min(all) <= m  BY <1>3, <1>4, MinLeast
<1>6. \A p \in 0 .. sh.len - 1 : latest(p) \in all  OBVIOUS
<1>7. \E p \in 0 .. sh.len - 1 : latest(p) = Min(all)  BY <1>5
<1> HIDE DEF all
<1>8. \A p \in 0 .. sh.len - 1 : OldestIn(sh) <= latest(p)  BY <1>2, <1>5, <1>6
<1>9. \E p \in 0 .. sh.len - 1 : OldestIn(sh) = latest(p)  BY <1>2, <1>7
<1>10. OldestIn(sh) \in 0 .. k  BY <1>2, <1>3, <1>5
<1> QED  BY <1>8, <1>9, <1>10 DEF latest

\* The record has been processed: it shows nothing older than it did.
LEMMA ShowsNewer ==
    ASSUME Parts, Age, Parts', Age', NEW s \in Signals, RecvCopy(s, 2)
    PROVE  Oldest(s)' \in Oldest(s) .. measured[s]
<1>1. Aged(s) /\ Aged(s)' /\ Lengths(s) /\ 2 \in 1 .. 2  BY DEF Age, Aged
<1>2. /\ UNCHANGED <<initVars, sendVars, queue, workVars, dataVars, event, recvLen, recvStep>>
      /\ Transferring(s) /\ shown'[s].len = recvLen[s] /\ shown'[s].cells = val'[s].cells
    BY <1>1, CopyStep
<1>3. /\ measured' = measured /\ measured[s] \in Nat
      /\ shown'[s].len > 0 /\ shown[s].len \in Nat /\ shown'[s].len \in Nat
      /\ shown'[s].len <= Order[1].noa
    BY <1>1, <1>2 DEF sendVars, Lengths, Parts, SendTyped, RecvTyped, ShownType
<1>4. /\ Oldest(s)' \in 0 .. measured[s]
      /\ \E p \in 0 .. shown'[s].len - 1 : Oldest(s)' = Max(shown'[s].cells[p].of)
    <2>1. Oldest(s)' = OldestIn(shown'[s])  BY DEF Oldest, OldestIn
    <2>2. ASSUME NEW p \in 0 .. shown'[s].len - 1
          PROVE  shown'[s].cells[p].of \in SUBSET (0 .. measured[s]) /\ shown'[s].cells[p].of # {}
        <3>1. p \in Positions  BY <1>3, Longest DEF Positions
        <3>2. shown'[s].cells[p].of \in Ages(s)'  BY <1>1, <3>1 DEF Aged, Computed, Olds
        <3> QED  BY <1>3, <3>2 DEF Ages
    <2> QED  BY <1>3, <2>1, <2>2, OldestOf
<1>5. CASE shown[s].len = 0
    <2>1. Oldest(s) = 0  BY <1>5 DEF Oldest
    <2> QED  BY <1>3, <1>4, <2>1
<1>6. CASE shown[s].len > 0
    <2>1. /\ Oldest(s) \in 0 .. measured[s] /\ Oldest(s) <= Max(shown[s].cells[0].of)
          /\ 0 \in Positions
        <3>1. Oldest(s) = OldestIn(shown[s])  BY DEF Oldest, OldestIn
        <3>2. ASSUME NEW p \in 0 .. shown[s].len - 1
              PROVE  shown[s].cells[p].of \in SUBSET (0 .. measured[s]) /\ shown[s].cells[p].of # {}
            <4>1. p \in Positions  BY <1>1, <1>3, Longest DEF Positions, Aged, Lengths
            <4>2. shown[s].cells[p].of \in Ages(s)  BY <1>1, <4>1 DEF Aged, Computed, Olds
            <4> QED  BY <4>2 DEF Ages
        <3>3. 0 \in Positions /\ 0 \in 0 .. shown[s].len - 1  BY <1>3, <1>6, Longest DEF Positions
        <3>4. /\ OldestIn(shown[s]) \in 0 .. measured[s]
              /\ \A p \in 0 .. shown[s].len - 1 : OldestIn(shown[s]) <= Max(shown[s].cells[p].of)
            BY <1>3, <1>6, <3>2, OldestOf
        <3> QED  BY <3>1, <3>3, <3>4
    <2>2. PICK p \in 0 .. shown'[s].len - 1 : Oldest(s)' = Max(shown'[s].cells[p].of)  BY <1>4
    <2>3. Before(shown[s].cells[0].of, val'[s].cells[p].of)
        BY <1>1, <1>2, <2>1, <2>2, CopiedNewer
    <2>4. p \in Positions  BY <1>3, <2>2, Longest DEF Positions
    <2>5. /\ shown[s].cells[0].of \in SUBSET (0 .. measured[s]) /\ shown[s].cells[0].of # {}
          /\ val'[s].cells[p].of \in SUBSET (0 .. measured[s]) /\ val'[s].cells[p].of # {}
        <3>1. shown[s].cells[0].of \in Ages(s)  BY <1>1, <2>1 DEF Aged, Computed, Olds
        <3>2. val'[s].cells[p].of \in Ages(s)'  BY <1>1, <2>4 DEF Aged, Computed, Olds
        <3> QED  BY <1>3, <3>1, <3>2 DEF Ages
    <2>6. Max(shown[s].cells[0].of) <= Max(val'[s].cells[p].of) /\ Max(shown[s].cells[0].of) \in 0 .. measured[s]
        BY <1>3, <2>3, <2>5, BeforeMax
    <2>7. Oldest(s)' = Max(val'[s].cells[p].of)  BY <1>2, <2>2
    <2>8. Oldest(s) <= Oldest(s)' /\ Oldest(s) \in Nat /\ Oldest(s)' \in 0 .. measured[s]
        BY <1>3, <1>4, <2>1, <2>6, <2>7
    <2> QED  BY <1>3, <2>8
<1> QED  BY <1>3, <1>5, <1>6

\* What others see of a record changes only when it has been processed.
LEMMA OldestStays ==
    ASSUME NEW t, shown'[t] = shown[t]
    PROVE  Oldest(t)' = Oldest(t)
BY DEF Oldest

\* Every step implements one of Freshness, or changes nothing that it speaks of.
LEMMA FreshStep ==
    ASSUME Parts, Follow, Age, Parts', Age', [Next]_vars
    PROVE  [Fresh!Next]_(Fresh!vars)
<1> DEFINE old == [s \in Signals |-> Oldest(s)]
<1>0. UNCHANGED <<measured, accepted, shown>> /\ ((workPc = "exited") <=> (workPc' = "exited"))
         => UNCHANGED Fresh!vars
    BY OldestStays DEF Fresh!vars
<1>1. CASE InitRecord \/ CreatePlans \/ Receive \/ UpdatePlan \/ Lock
    <2>1. UNCHANGED <<measured, accepted, shown>>
        BY <1>1 DEF InitRecord, CreatePlans, Receive, UpdatePlan, Lock, sendVars, recvVars
    <2>2. (workPc = "exited") <=> (workPc' = "exited")
        BY <1>1 DEF InitRecord, CreatePlans, Receive, UpdatePlan, Lock, Work, Follow, Begun
    <2> QED  BY <1>0, <2>1, <2>2
<1>2. CASE PostEvent \/ \E half \in 1 .. 2 : ReadInput(half) \/ WriteOutput(half)
    <2>1. UNCHANGED <<measured, accepted, shown>>
        BY <1>2 DEF PostEvent, ReadInput, WriteOutput, sendVars, recvVars
    <2>2. (workPc = "exited") <=> (workPc' = "exited")
        BY <1>2 DEF PostEvent, ReadInput, WriteOutput, Work
    <2> QED  BY <1>0, <2>1, <2>2
<1>3. CASE PlanFailure
    <2>1. UNCHANGED <<measured, accepted, shown>> /\ workPc' = "exited"
        BY <1>3 DEF PlanFailure, sendVars, recvVars
    <2>2. Fresh!GoDown  BY <2>1, OldestStays DEF Fresh!GoDown
    <2> QED  BY <2>2 DEF Fresh!Next
<1>4. CASE \E s \in Signals : FetchA(s)
    <2>1. PICK s \in Signals : FetchA(s)  BY <1>4
    <2>2. /\ measured' = [measured EXCEPT ![s] = @ + 1]
          /\ UNCHANGED <<accepted, shown, workPc>>
        BY <2>1 DEF FetchA, workVars, recvVars
    <2>3. Fresh!Measure(s)  BY <2>2, OldestStays DEF Fresh!Measure
    <2> QED  BY <2>3 DEF Fresh!Next
<1>5. CASE \E s \in Signals : FetchB(s)
    <2>1. UNCHANGED <<measured, accepted, shown, workPc>>
        BY <1>5 DEF FetchB, workVars, recvVars
    <2> QED  BY <1>0, <2>1
<1>6. CASE \E s \in Signals : Post(s)
    <2>1. PICK s \in Signals : Post(s)  BY <1>6
    <2>2. /\ accepted' = [accepted EXCEPT ![s] = measured[s]]
          /\ UNCHANGED <<measured, shown, workPc>>
        BY <2>1 DEF Post, workVars, recvVars
    <2>3. Fresh!Accept(s)  BY <2>2, OldestStays DEF Fresh!Accept
    <2> QED  BY <2>3 DEF Fresh!Next
<1>7. CASE \E s \in Signals : RecvStart(s) \/ RecvLock(s) \/ RecvCopy(s, 1)
    <2>1. UNCHANGED <<measured, accepted, shown, workPc>>
        BY <1>7 DEF RecvStart, RecvLock, RecvCopy, sendVars, workVars
    <2> QED  BY <1>0, <2>1
<1>8. CASE \E s \in Signals : RecvCopy(s, 2)
    <2>1. PICK s \in Signals : RecvCopy(s, 2)  BY <1>8
    <2>2. Oldest(s)' \in Oldest(s) .. measured[s]  BY <2>1, ShowsNewer
    <2>3. /\ UNCHANGED <<measured, accepted, workPc>>
          /\ \A t \in Signals \ {s} : shown'[t] = shown[t]
        BY <2>1 DEF RecvCopy, sendVars, workVars, Parts, RecvTyped
    <2>4. \A t \in Signals \ {s} : Oldest(t)' = Oldest(t)  BY <2>3, OldestStays
    <2>5. old' = [old EXCEPT ![s] = Oldest(s)']  BY <2>4
    <2>6. Fresh!Show(s)  BY <2>2, <2>3, <2>5 DEF Fresh!Show
    <2> QED  BY <2>6 DEF Fresh!Next
<1>9. CASE UNCHANGED vars  BY <1>0, <1>9 DEF vars, sendVars, workVars, recvVars
<1>10. \A half \in 1 .. 2 : half = 1 \/ half = 2  OBVIOUS
<1> QED  BY <1>1, <1>2, <1>3, <1>4, <1>5, <1>6, <1>7, <1>8, <1>9, <1>10
         DEF Next, Worker, Send, Recv

\* What is shown never goes back behind what was shown before, and is never newer than
\* what was measured, although the worker reads arrays that are being refilled, and
\* results are copied while the worker stores the next one (fft_task, fft_calc_send,
\* fft_calc_recv): the safety part of StaysFresh.
THEOREM NeverBack == Spec => Fresh!Safe
<1>1. Init => Fresh!Init
    <2> SUFFICES ASSUME Init PROVE Fresh!Init  OBVIOUS
    <2>1. \A s \in Signals : Oldest(s) = 0  BY DEF Init, Oldest
    <2> QED  BY <2>1 DEF Init, Fresh!Init
<1>2. Spec => [](Parts /\ Follow /\ Age)
    BY Followed, FFTInv, AgeInit, AgeNext, PTL DEF Spec
<1>3. Parts /\ Follow /\ Age /\ (Parts /\ Follow /\ Age)' /\ [Next]_vars => [Fresh!Next]_(Fresh!vars)
    BY FreshStep
<1> QED  BY <1>1, <1>2, <1>3, PTL DEF Spec, Fresh!Safe
=============================================================================
