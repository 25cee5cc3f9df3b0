-------------------------------- MODULE FFT --------------------------------
(***************************************************************************)
(* The FFT worker of a cavity (fftmain.c) and the two records of each of   *)
(* its signals (fftdev.c).  FFT_CALC_ fetches a waveform and posts a       *)
(* message with pointers to its input arrays; the worker transforms what   *)
(* the arrays hold when it gets there, into a buffer shared by all         *)
(* signals, and posts an event; FFT_CALC2_ copies the result out.          *)
(*                                                                         *)
(* A sample is represented by the number of the waveform it belongs to,    *)
(* and a transformed sample by its frequency bin, the waveforms it was     *)
(* computed from, and their length.  Loops over an array are two steps,    *)
(* one for each half of it.                                                *)
(***************************************************************************)
EXTENDS Integers, Sequences, FiniteSets, FiniteSetsExt

CONSTANTS
    Signals,
    Type,        \* Type[s]: "C2C" or "R2C"
    Size,        \* Size[s]: NOA, NOB, NOVA.. of the records of s
    Order,       \* the records in the order in which iocInit initializes them
    QueueSize,   \* FFT_MAX_SIG*2
    Shapes,      \* pairs <<nea, neb>>: numbers of elements that may be fetched
    MaxSends,    \* bound: waveforms measured, of each signal
    PlanFails    \* may fftw fail to make a plan?

Sender(s) == [kind |-> "send", signal |-> s, noa |-> Size[s]]
Receiver(s) == [kind |-> "recv", signal |-> s, noa |-> 1]

ASSUME FFTAssumption ==
    /\ Type \in [Signals -> {"C2C", "R2C"}]
    /\ Size \in [Signals -> Nat \ {0}]
    /\ Order \in Seq({Sender(s) : s \in Signals} \cup {Receiver(s) : s \in Signals})
    /\ QueueSize \in Nat \ {0}
    /\ Shapes \subseteq (Nat \ {0}) \X (Nat \ {0})
    /\ MaxSends \in [Signals -> Nat]
    /\ PlanFails \in BOOLEAN

\* The record initialized first, which sizes the shared buffer, is a sender, and
\* no other signal is longer ("maximum input data lengths are the same").
ASSUME OrderAssumption ==
    /\ Order # <<>>
    /\ \A s \in Signals : Size[s] <= Order[1].noa

VARIABLES
    started,     \* records initialized
    maxLen,      \* fft_max_len; 0 before the task exists
    re, im,      \* A and B of the sending record of a signal
    got,         \* NEA and NEB
    measured,    \* waveforms fetched (history)
    accepted,    \* the last waveform posted (history)
    sendPc,
    queue,
    workPc,
    job,         \* the message being worked on
    planLen,     \* len_current
    seen,        \* waveforms whose samples were copied into the plan's input
    data, freq,  \* FFTData::data and freq, by signal and position
    lenOut,      \* len_output
    stepLen,     \* the input length that fstep was computed from
    event,       \* the signal's event is posted
    recvPc,
    recvLen,     \* len, in fft_calc_recv
    recvStep,    \* *FSTEP
    val,         \* VALA..VALD of the receiving record
    shown        \* what others see of it, and of NEVA and FSTEP

initVars == <<started, maxLen>>
sendVars == <<re, im, got, measured, accepted, sendPc>>
workVars == <<workPc, job, planLen, seen>>
dataVars == <<data, freq, lenOut, stepLen>>
recvVars == <<recvPc, recvLen, recvStep, val, shown>>
vars == <<initVars, sendVars, queue, workVars, dataVars, event, recvVars>>

Positions == 0 .. Order[1].noa - 1
NoCell == [bin |-> 0, of |-> {0}, len |-> 0]

\* The number of complex values the transform of len values has.
OutLen(type, len) == IF type = "C2C" THEN len ELSE len \div 2 + 1

\* The n that are handled in the first or second half of a loop over len values.
HalfOf(half, total, len) ==
    {n \in 0 .. total - 1 : IF half = 1 THEN n < len \div 2 ELSE n >= len \div 2}

Position_Unshifted(type, n, len) == n

\* Where the worker stores bin n.  (-len/2 is computed in size_t, and so rounds
\* away from zero.)
Position(type, n, len) ==
    IF type = "R2C" THEN n
    ELSE IF n < len \div 2 THEN n + len \div 2
    ELSE n - (len + 1) \div 2

\* The frequency of bin n, in steps: the second half are negative ones.
Bin(type, n, len) ==
    IF type = "C2C" /\ n >= len \div 2 THEN n - len ELSE n

\* The frequency that out_freq[n] holds, in steps.
Frequency(type, n, len) == IF type = "C2C" THEN n - len \div 2 ELSE n

MutexFree == workPc \notin {"read1", "read2", "write1", "write2"}

Running == started = Len(Order)

\* The two records of a signal are in one lock set.
SetFree(s) == sendPc[s] = "idle" /\ recvPc[s] = "idle"

----------------------------------------------------------------------------
\* fft_sub_init, for the next record: the first one starts the task.
InitRecord ==
    /\ started < Len(Order)
    /\ started' = started + 1
    /\ IF maxLen = 0
       THEN maxLen' = Order[started + 1].noa /\ workPc' = "start"
       ELSE UNCHANGED <<maxLen, workPc>>
    /\ UNCHANGED <<sendVars, queue, job, planLen, seen, dataVars, event, recvVars>>

----------------------------------------------------------------------------
\* FFT_CALC_ is processed: its inputs are fetched one after the other.
FetchA(s) ==
    /\ Running /\ SetFree(s)
    /\ measured[s] < MaxSends[s]
    /\ measured' = [measured EXCEPT ![s] = @ + 1]
    /\ \E shape \in Shapes :
          /\ shape[1] <= Size[s] /\ shape[2] <= Size[s]
          /\ got' = [got EXCEPT ![s] = shape]
          /\ re' = [re EXCEPT ![s] =
                      [n \in Positions |-> IF n < shape[1] THEN measured'[s] ELSE @[n]]]
    /\ sendPc' = [sendPc EXCEPT ![s] = "fetch"]
    /\ UNCHANGED <<initVars, im, accepted, queue, workVars, dataVars, event, recvVars>>

SendLen_Whole(s) == IF got[s][1] > got[s][2] THEN got[s][2] ELSE got[s][1]

\* The length posted: the shorter input, rounded down to an even number.
SendLen(s) ==
    LET len == IF got[s][1] > got[s][2] THEN got[s][2] ELSE got[s][1]
    IN  len - (len % 2)

\* Then fft_calc_send gives up if there is nothing to send, or a time step that
\* is not positive.
FetchB(s) ==
    /\ sendPc[s] = "fetch"
    /\ im' = [im EXCEPT ![s] =
                [n \in Positions |-> IF n < got[s][2] THEN measured[s] ELSE @[n]]]
    /\ \E timeStepOk \in BOOLEAN :
          sendPc' = [sendPc EXCEPT ![s] = IF SendLen(s) # 0 /\ timeStepOk THEN "post" ELSE "idle"]
    /\ UNCHANGED <<initVars, re, got, measured, accepted, queue, workVars, dataVars,
                   event, recvVars>>

Post_Always(s) ==
    /\ sendPc[s] = "post"
    /\ queue' = Append(queue, [signal |-> s, len |-> SendLen(s)])
    /\ accepted' = [accepted EXCEPT ![s] = measured[s]]
    /\ sendPc' = [sendPc EXCEPT ![s] = "idle"]
    /\ UNCHANGED <<initVars, re, im, got, measured, workVars, dataVars, event, recvVars>>

Post_OneSlotLost(s) ==
    /\ sendPc[s] = "post"
    /\ Len(queue) + 1 < QueueSize
    /\ queue' = Append(queue, [signal |-> s, len |-> SendLen(s)])
    /\ accepted' = [accepted EXCEPT ![s] = measured[s]]
    /\ sendPc' = [sendPc EXCEPT ![s] = "idle"]
    /\ UNCHANGED <<initVars, re, im, got, measured, workVars, dataVars, event, recvVars>>

\* fft_calc_send posts its message, once there is room in the queue.
Post(s) ==
    /\ sendPc[s] = "post"
    /\ Len(queue) < QueueSize
    /\ queue' = Append(queue, [signal |-> s, len |-> SendLen(s)])
    /\ accepted' = [accepted EXCEPT ![s] = measured[s]]
    /\ sendPc' = [sendPc EXCEPT ![s] = "idle"]
    /\ UNCHANGED <<initVars, re, im, got, measured, workVars, dataVars, event, recvVars>>

----------------------------------------------------------------------------
Work(from, to) == workPc = from /\ workPc' = to

\* fft_task makes a plan of each type, for the longest input.
CreatePlans ==
    /\ Work("start", "receive")
    /\ planLen' = [t \in {"C2C", "R2C"} |-> maxLen]
    /\ UNCHANGED <<initVars, sendVars, queue, job, seen, dataVars, event, recvVars>>

\* A plan cannot be made: fft_task returns.
PlanFailure ==
    /\ PlanFails
    /\ workPc = "start" \/ workPc = "plan"
    /\ workPc' = "exited"
    /\ UNCHANGED <<initVars, sendVars, queue, job, planLen, seen, dataVars, event, recvVars>>

Receive ==
    /\ queue # <<>>
    /\ LET msg == Head(queue)
       IN  /\ job' = msg
           /\ Work("receive", IF msg.len # planLen[Type[msg.signal]] THEN "plan" ELSE "lock")
    /\ queue' = Tail(queue)
    /\ UNCHANGED <<initVars, sendVars, planLen, seen, dataVars, event, recvVars>>

UpdatePlan_Drops ==
    /\ Work("plan", "receive")
    /\ planLen' = [planLen EXCEPT ![Type[job.signal]] = job.len]
    /\ UNCHANGED <<initVars, sendVars, queue, job, seen, dataVars, event, recvVars>>

\* rf_fft_update_plan: the length of the waveform has changed.
UpdatePlan ==
    /\ Work("plan", "lock")
    /\ planLen' = [planLen EXCEPT ![Type[job.signal]] = job.len]
    /\ UNCHANGED <<initVars, sendVars, queue, job, seen, dataVars, event, recvVars>>

Lock ==
    /\ Work("lock", "read1")
    /\ seen' = {}
    /\ UNCHANGED <<initVars, sendVars, queue, job, planLen, dataVars, event, recvVars>>

\* The worker copies the sender's arrays, which the sender may be refilling.
ReadInput(half) ==
    /\ \/ half = 1 /\ Work("read1", "read2")
       \/ half = 2 /\ Work("read2", "write1")
    /\ LET s == job.signal
           ns == HalfOf(half, job.len, job.len)
       IN  seen' = seen \cup {re[s][n] : n \in ns}
                        \cup (IF Type[s] = "C2C" THEN {im[s][n] : n \in ns} ELSE {})
    /\ UNCHANGED <<initVars, sendVars, queue, job, planLen, dataVars, event, recvVars>>

\* fftw_execute, and the copy of the bins of one half to the shared buffer; the
\* lengths, which are read with the mutex held, change when it is released.
WriteOutput(half) ==
    /\ \/ half = 1 /\ Work("write1", "write2") /\ UNCHANGED <<lenOut, stepLen>>
       \/ /\ half = 2 /\ Work("write2", "post")
          /\ lenOut' = [lenOut EXCEPT ![job.signal] = OutLen(Type[job.signal], job.len)]
          /\ stepLen' = [stepLen EXCEPT ![job.signal] = job.len]
    /\ LET s == job.signal
           type == Type[s]
           ns == HalfOf(half, OutLen(type, job.len), job.len)
       IN  /\ data' = [data EXCEPT ![s] = [p \in Positions |->
                 IF \E n \in ns : Position(type, n, job.len) = p
                 THEN [bin |-> Bin(type, CHOOSE n \in ns : Position(type, n, job.len) = p, job.len),
                       of |-> seen, len |-> job.len]
                 ELSE @[p]]]
           /\ freq' = [freq EXCEPT ![s] = [n \in Positions |->
                 IF n \in ns THEN [bin |-> Frequency(type, n, job.len), len |-> job.len]
                 ELSE @[n]]]
    /\ UNCHANGED <<initVars, sendVars, queue, job, planLen, seen, event, recvVars>>

PostEvent ==
    /\ Work("post", "receive")
    /\ event' = [event EXCEPT ![job.signal] = TRUE]
    /\ UNCHANGED <<initVars, sendVars, queue, job, planLen, seen, dataVars, recvVars>>

----------------------------------------------------------------------------
\* FFT_CALC2_ is processed by its event.
RecvStart(s) ==
    /\ Running /\ SetFree(s) /\ event[s]
    /\ event' = [event EXCEPT ![s] = FALSE]
    /\ recvPc' = [recvPc EXCEPT ![s] = "lock"]
    /\ UNCHANGED <<initVars, sendVars, queue, workVars, dataVars, recvLen, recvStep, val, shown>>

\* It takes the lengths with the mutex held ...
RecvLock(s) ==
    /\ recvPc[s] = "lock" /\ MutexFree
    /\ recvLen' = [recvLen EXCEPT ![s] = IF lenOut[s] > Size[s] THEN Size[s] ELSE lenOut[s]]
    /\ recvStep' = [recvStep EXCEPT ![s] = stepLen[s]]
    /\ recvPc' = [recvPc EXCEPT ![s] = "copy1"]
    /\ UNCHANGED <<initVars, sendVars, queue, workVars, dataVars, event, val, shown>>

\* ... and copies the data after it has released it.  Until it has been processed,
\* its lock set is locked, so that nobody sees a part of the copy.
RecvCopy(s, half) ==
    /\ LET ns == HalfOf(half, recvLen[s], recvLen[s])
       IN  val' = [val EXCEPT ![s] =
              [cells |-> [n \in Positions |-> IF n \in ns THEN data[s][n] ELSE @.cells[n]],
               freqs |-> [n \in Positions |-> IF n \in ns THEN freq[s][n] ELSE @.freqs[n]]]]
    /\ \/ /\ half = 1 /\ recvPc[s] = "copy1"
          /\ recvPc' = [recvPc EXCEPT ![s] = "copy2"]
          /\ UNCHANGED shown
       \/ /\ half = 2 /\ recvPc[s] = "copy2"
          /\ recvPc' = [recvPc EXCEPT ![s] = "idle"]
          /\ shown' = [shown EXCEPT ![s] =
                [len |-> recvLen[s], step |-> recvStep[s],
                 cells |-> val'[s].cells, freqs |-> val'[s].freqs]]
    /\ UNCHANGED <<initVars, sendVars, queue, workVars, dataVars, event, recvLen, recvStep>>

----------------------------------------------------------------------------
Init ==
    /\ started = 0
    /\ maxLen = 0
    /\ re = [s \in Signals |-> [n \in Positions |-> 0]]
    /\ im = [s \in Signals |-> [n \in Positions |-> 0]]
    /\ got = [s \in Signals |-> <<0, 0>>]
    /\ measured = [s \in Signals |-> 0]
    /\ accepted = [s \in Signals |-> 0]
    /\ sendPc = [s \in Signals |-> "idle"]
    /\ queue = <<>>
    /\ workPc = "none"
    /\ job = [signal |-> Order[1].signal, len |-> 0]
    /\ planLen = [t \in {"C2C", "R2C"} |-> 0]
    /\ seen = {}
    /\ data = [s \in Signals |-> [n \in Positions |-> NoCell]]
    /\ freq = [s \in Signals |-> [n \in Positions |-> [bin |-> 0, len |-> 0]]]
    /\ lenOut = [s \in Signals |-> 0]
    /\ stepLen = [s \in Signals |-> 0]
    /\ event = [s \in Signals |-> FALSE]
    /\ recvPc = [s \in Signals |-> "idle"]
    /\ recvLen = [s \in Signals |-> 0]
    /\ recvStep = [s \in Signals |-> 0]
    /\ val = [s \in Signals |-> [cells |-> [n \in Positions |-> NoCell],
                                 freqs |-> [n \in Positions |-> [bin |-> 0, len |-> 0]]]]
    /\ shown = [s \in Signals |-> [len |-> 0, step |-> 0,
                                   cells |-> [n \in Positions |-> NoCell],
                                   freqs |-> [n \in Positions |-> [bin |-> 0, len |-> 0]]]]

Worker ==
    \/ CreatePlans \/ Receive \/ UpdatePlan \/ Lock
    \/ \E half \in 1..2 : ReadInput(half) \/ WriteOutput(half)
    \/ PostEvent

Send(s) == FetchA(s) \/ FetchB(s) \/ Post(s)
Recv(s) == RecvStart(s) \/ RecvLock(s) \/ \E half \in 1..2 : RecvCopy(s, half)

Next ==
    \/ InitRecord
    \/ \E s \in Signals : Send(s) \/ Recv(s)
    \/ Worker
    \/ PlanFailure

Spec == Init /\ [][Next]_vars

(***************************************************************************)
(* The worker and the callback threads never stop, and a record that is    *)
(* being processed goes on; who waits for room in the queue is first in    *)
(* line.  Nothing is assumed about when waveforms are measured.            *)
(***************************************************************************)
FairSpec ==
    /\ Spec
    /\ WF_vars(Worker)
    /\ \A s \in Signals : WF_vars(FetchB(s)) /\ SF_vars(Post(s)) /\ SF_vars(Recv(s))

----------------------------------------------------------------------------
TypeOK ==
    /\ started \in 0 .. Len(Order)
    /\ maxLen \in {0, Order[1].noa}
    /\ {re, im} \subseteq [Signals -> [Positions -> Nat]]
    /\ got \in [Signals -> Nat \X Nat]
    /\ {measured, accepted, lenOut, stepLen, recvLen, recvStep} \subseteq [Signals -> Nat]
    /\ sendPc \in [Signals -> {"idle", "fetch", "post"}]
    /\ queue \in Seq([signal : Signals, len : Nat])
    /\ Len(queue) <= QueueSize
    /\ workPc \in {"none", "start", "receive", "plan", "lock", "read1", "read2", "write1",
                   "write2", "post", "exited"}
    /\ job \in [signal : Signals, len : Nat]
    /\ planLen \in [{"C2C", "R2C"} -> Nat]
    /\ seen \subseteq Nat
    /\ data \in [Signals -> [Positions -> [bin : Int, of : SUBSET Nat, len : Nat]]]
    /\ freq \in [Signals -> [Positions -> [bin : Int, len : Nat]]]
    /\ event \in [Signals -> BOOLEAN]
    /\ recvPc \in [Signals -> {"idle", "lock", "copy1", "copy2"}]
    /\ val \in [Signals -> [cells : [Positions -> [bin : Int, of : SUBSET Nat, len : Nat]],
                            freqs : [Positions -> [bin : Int, len : Nat]]]]
    /\ shown \in [Signals -> [len : Nat, step : Nat,
                              cells : [Positions -> [bin : Int, of : SUBSET Nat, len : Nat]],
                              freqs : [Positions -> [bin : Int, len : Nat]]]]

\* The worker never writes outside the part of the shared buffer that belongs to
\* the signal, whichever record the buffer was sized by: each message asks for a
\* length whose bins, and frequencies, all have a place there.
WithinBuffers ==
    \A m \in {queue[i] : i \in DOMAIN queue} \cup {job} :
        \A n \in 0 .. OutLen(Type[m.signal], m.len) - 1 :
            m.len > 0 => {n, Position(Type[m.signal], n, m.len)} \subseteq 0 .. maxLen - 1

\* Nothing is on its way for signal s, and its last waveform was not refused.
Quiet(s) ==
    /\ accepted[s] > 0 /\ accepted[s] = measured[s]
    /\ SetFree(s) /\ ~event[s]
    /\ \A i \in DOMAIN queue : queue[i].signal # s
    /\ workPc \in {"receive", "exited"} \/ job.signal # s

\* However the worker and the records interleave, what is shown once they are
\* done is the transform of the last waveform, whole, with its length, and each
\* bin at its frequency; although messages point to arrays that are overwritten,
\* and results are copied with the mutex released.
Settled ==
    \A s \in Signals : Quiet(s) /\ workPc # "exited" =>
        /\ shown[s].len = OutLen(Type[s], SendLen(s))
        /\ shown[s].step = SendLen(s)
        /\ \A n \in 0 .. shown[s].len - 1 :
              /\ shown[s].cells[n].of = {measured[s]}
              /\ shown[s].cells[n].len = SendLen(s)
              /\ shown[s].freqs[n] = [bin |-> shown[s].cells[n].bin, len |-> SendLen(s)]

\* What the display shows of signal s: the latest waveform that its oldest sample
\* was computed from.
Oldest(s) ==
    IF shown[s].len = 0 THEN 0
    ELSE Min({Max(shown[s].cells[n].of) : n \in 0 .. shown[s].len - 1})

\* FFT implements Freshness: a torn result is possible, but never one that goes
\* back behind what was shown before, and what is posted is shown in the end
\* unless the worker has exited.
Fresh == INSTANCE Freshness
    WITH Counts <- 1 .. Max({MaxSends[s] : s \in Signals}),
         shown <- [s \in Signals |-> Oldest(s)],
         down <- (workPc = "exited")

StaysFresh == Fresh!Spec

\* A record waits for room in the queue, with its lock set locked, only as long
\* as the worker lives: unless the worker has exited, it gets through.
Unblocked ==
    \A s \in Signals : sendPc[s] = "post" ~> sendPc[s] = "idle" \/ workPc = "exited"
============================================================================
