-------------------------- MODULE Registers_proofs --------------------------
(***************************************************************************)
(* Lemmas about the operators of Registers, for the proofs about the       *)
(* components that use them: each keeps its variables typed, and says      *)
(* which registers, and which records, it leaves alone.                    *)
(***************************************************************************)
EXTENDS Registers, TLAPS

USE RegistersAssumption

----------------------------------------------------------------------------
\* DevReg::queue keeps the registers well typed.
LEMMA QueueTyped ==
    ASSUME RegistersTypeOK, NEW r \in Regs, NEW write \in BOOLEAN,
           NEW i \in Interests \cup {NoInterest}, Queue(r, write, i)
    PROVE  RegistersTypeOK'
<1>1. Action(i) \in SUBSET Interests  BY DEF Action
<1>2. CASE QueueIdle(r, write, i)
    BY <1>1, <1>2 DEF RegistersTypeOK, Queue, QueueIdle, Begin, flagVars, States
<1>3. CASE QueueWriteLater(r, write, i)
    BY <1>1, <1>3 DEF RegistersTypeOK, Queue, QueueWriteLater
<1>4. CASE QueueReadLater(r, write, i)
    BY <1>1, <1>4 DEF RegistersTypeOK, Queue, QueueReadLater
<1>5. CASE MergeRead(r, write, i)
    BY <1>1, <1>5 DEF RegistersTypeOK, Queue, MergeRead, flagVars
<1> QED  BY <1>2, <1>3, <1>4, <1>5 DEF Queue

\* The completion of an operation keeps them well typed, whatever becomes of
\* the cache.
LEMMA FinishTyped ==
    ASSUME RegistersTypeOK, NEW r \in Regs, Finish(r), UNCHANGED present,
           DOMAIN memRx' = Regs /\ \A q \in Regs : memRx'[q] \in [Offsets(q) -> Nat]
    PROVE  RegistersTypeOK'
<1>1. records' \in SUBSET (Regs \X Interests)
    BY DEF Finish, Handed, RegistersTypeOK
<1>2. CASE StartQueuedWrite(r)
    BY <1>1, <1>2 DEF RegistersTypeOK, StartQueuedWrite, Begin, States
<1>3. CASE StartQueuedRead(r)
    BY <1>1, <1>3 DEF RegistersTypeOK, StartQueuedRead, Begin, States
<1>4. CASE StartNothing(r)
    BY <1>1, <1>4 DEF RegistersTypeOK, StartNothing, States, flagVars
<1> QED  BY <1>2, <1>3, <1>4 DEF Finish

\* So does the cancellation of an operation that timed out.
LEMMA CancelTyped ==
    ASSUME RegistersTypeOK, NEW r \in Regs, Cancel(r)
    PROVE  RegistersTypeOK'
<1>1. records' \in SUBSET (Regs \X Interests)
    BY DEF Cancel, Cancelled, RegistersTypeOK
<1> QED  BY <1>1 DEF Cancel, RegistersTypeOK, States, flagVars

\* So does the reset of all of them.
LEMMA ResetTyped ==
    ASSUME RegistersTypeOK, Reset
    PROVE  RegistersTypeOK'
<1>1. ASSUME NEW r \in Regs PROVE Cancelled(r) \subseteq Regs \X Interests
    BY DEF Cancelled, RegistersTypeOK
<1>2. records' \in SUBSET (Regs \X Interests)
    BY <1>1 DEF Reset, RegistersTypeOK
<1>3. \A r \in Regs : NeverRead(r) \in [Offsets(r) -> Nat]
    BY DEF NeverRead
<1> QED  BY <1>2, <1>3 DEF Reset, RegistersTypeOK, States

----------------------------------------------------------------------------
\* DevReg::queue concerns one register, that exists, and a read never makes it
\* one that is written.
LEMMA QueueEffect ==
    ASSUME RegistersTypeOK, NEW r \in Regs, NEW write \in BOOLEAN,
           NEW i \in Interests \cup {NoInterest}, Queue(r, write, i)
    PROVE  /\ r \in present /\ present' = present
           /\ \A q \in Regs \ {r} : state'[q] = state[q] /\ writeQueued'[q] = writeQueued[q]
           /\ state'[r] \in States
           /\ ~write => /\ state'[r] \in {"Reading", state[r]}
                        /\ state'[r] = "InSync" => state[r] = "InSync"
                        /\ writeQueued'[r] = writeQueued[r]
<1>1. CASE QueueIdle(r, write, i)
    BY <1>1 DEF RegistersTypeOK, Queue, QueueIdle, Begin, flagVars, States
<1>2. CASE QueueWriteLater(r, write, i)
    BY <1>2 DEF RegistersTypeOK, Queue, QueueWriteLater, States
<1>3. CASE QueueReadLater(r, write, i)
    BY <1>3 DEF RegistersTypeOK, Queue, QueueReadLater, States
<1>4. CASE MergeRead(r, write, i)
    BY <1>4 DEF RegistersTypeOK, Queue, MergeRead, flagVars, States
<1> QED  BY <1>1, <1>2, <1>3, <1>4 DEF Queue

\* So does the end of an operation, which starts a write only if one was queued.
LEMMA FinishEffect ==
    ASSUME RegistersTypeOK, NEW r \in Regs, Finish(r)
    PROVE  /\ \A q \in Regs \ {r} : state'[q] = state[q] /\ writeQueued'[q] = writeQueued[q]
           /\ ~writeQueued[r] => /\ state'[r] \in {"Reading", "InSync"}
                                 /\ writeQueued'[r] = writeQueued[r]
<1>1. CASE StartQueuedWrite(r)
    BY <1>1 DEF RegistersTypeOK, StartQueuedWrite, Begin
<1>2. CASE StartQueuedRead(r)
    BY <1>2 DEF RegistersTypeOK, StartQueuedRead, Begin
<1>3. CASE StartNothing(r)
    BY <1>3 DEF RegistersTypeOK, StartNothing, flagVars
<1> QED  BY <1>1, <1>2, <1>3 DEF Finish

----------------------------------------------------------------------------
(***************************************************************************)
(* The lists of records.                                                   *)
(***************************************************************************)

\* DevReg::queue puts the record that asks on a list, and leaves others where
\* they are.
LEMMA QueueLists ==
    ASSUME RegistersTypeOK, NEW r \in Regs, NEW write \in BOOLEAN,
           NEW i \in Interests \cup {NoInterest}, Queue(r, write, i)
    PROVE  /\ records' = records
           /\ \A q \in Regs : \A j \in Interests \ {i} :
                 /\ j \in recordsInprog'[q] <=> j \in recordsInprog[q]
                 /\ j \in recordsWrite'[q] <=> j \in recordsWrite[q]
                 /\ j \in recordsRead'[q] <=> j \in recordsRead[q]
           /\ i \in Interests => i \in recordsInprog'[r] \cup recordsWrite'[r] \cup recordsRead'[r]
<1>1. i \in Interests => Action(i) = {i}  BY RegistersAssumption DEF Action
<1>2. \A j \in Interests \ {i} : j \notin Action(i)  BY DEF Action
<1>3. CASE QueueIdle(r, write, i)
    BY <1>1, <1>2, <1>3 DEF RegistersTypeOK, Queue, QueueIdle
<1>4. CASE QueueWriteLater(r, write, i)
    BY <1>1, <1>2, <1>4 DEF RegistersTypeOK, Queue, QueueWriteLater
<1>5. CASE QueueReadLater(r, write, i)
    BY <1>1, <1>2, <1>5 DEF RegistersTypeOK, Queue, QueueReadLater
<1>6. CASE MergeRead(r, write, i)
    BY <1>1, <1>2, <1>6 DEF RegistersTypeOK, Queue, MergeRead
<1> QED  BY <1>3, <1>4, <1>5, <1>6 DEF Queue

\* The end of an operation hands its records back, and keeps the queued ones.
LEMMA FinishLists ==
    ASSUME RegistersTypeOK, NEW r \in Regs, Finish(r)
    PROVE  /\ records' = records \cup Handed(r)
           /\ \A q \in Regs \ {r} : /\ recordsInprog'[q] = recordsInprog[q]
                                    /\ recordsWrite'[q] = recordsWrite[q]
                                    /\ recordsRead'[q] = recordsRead[q]
           /\ recordsInprog'[r] \cup recordsWrite'[r] \cup recordsRead'[r]
                = recordsWrite[r] \cup recordsRead[r]
<1>1. CASE StartQueuedWrite(r)
    BY <1>1 DEF RegistersTypeOK, StartQueuedWrite, Finish
<1>2. CASE StartQueuedRead(r)
    BY <1>2 DEF RegistersTypeOK, StartQueuedRead, Finish
<1>3. CASE StartNothing(r)
    BY <1>3 DEF RegistersTypeOK, StartNothing, Finish
<1> QED  BY <1>1, <1>2, <1>3 DEF Finish
=============================================================================
