--------------------------- MODULE Engine_proofs ---------------------------
(***************************************************************************)
(* Theorems about Engine, for every number of registers, words, records    *)
(* and message slots.                                                      *)
(***************************************************************************)
EXTENDS Engine, Registers_proofs, FiniteSetTheorems, TLAPS

USE RegistersAssumption, EngineAssumption, NoWordAssumption

----------------------------------------------------------------------------
(***************************************************************************)
(* Lemmas about the send queue.                                            *)
(***************************************************************************)

\* What reg_send.push_back() does.
LEMMA AppendFacts ==
    ASSUME NEW s \in Seq(Regs), NEW r \in Regs
    PROVE  /\ Append(s, r) \in Seq(Regs)
           /\ Len(Append(s, r)) = Len(s) + 1
           /\ \A k \in 1 .. Len(s) : Append(s, r)[k] = s[k]
           /\ Append(s, r)[Len(s) + 1] = r
    OBVIOUS

\* What reg_send.front() and reg_send.pop_front() do.
LEMMA TailFacts ==
    ASSUME NEW s \in Seq(Regs), s # <<>>
    PROVE  /\ Len(s) \in Nat /\ Len(s) >= 1
           /\ Head(s) = s[1] /\ s[1] \in Regs
           /\ Tail(s) \in Seq(Regs)
           /\ Len(Tail(s)) = Len(s) - 1
           /\ \A k \in 1 .. Len(s) - 1 : Tail(s)[k] = s[k + 1]
    OBVIOUS

\* The register at the front of reg_send has a word to send.
LEMMA HeadOfQueue ==
    ASSUME TypeOK, SendQueue, regSend # <<>>
    PROVE  /\ Head(regSend) \in Regs
           /\ InProgress(Head(regSend))
           /\ nextSend[Head(regSend)] < Size[Head(regSend)]
           /\ nextSend[Head(regSend)] \in Offsets(Head(regSend))
<1>1. regSend \in Seq(Regs)  BY DEF TypeOK, DeviceTypeOK
<1>2. /\ Head(regSend) = regSend[1] /\ regSend[1] \in Regs
      /\ 1 \in 1 .. Len(regSend)
    BY <1>1, TailFacts
<1>3. InProgress(regSend[1]) /\ nextSend[regSend[1]] < Size[regSend[1]]
    BY <1>2 DEF SendQueue
<1>4. nextSend[regSend[1]] \in Nat /\ Size[regSend[1]] \in Nat
    BY <1>2 DEF TypeOK, RegsTypeOK
<1> QED  BY <1>2, <1>3, <1>4 DEF Offsets

----------------------------------------------------------------------------
(***************************************************************************)
(* Lemmas about the handlers: what each does to the accounting of words.   *)
(***************************************************************************)

\* A request made of a register, by a record or by handle_state.
LEMMA QueueRegTyped ==
    ASSUME TypeOK, NEW r \in Regs, NEW write \in BOOLEAN,
           NEW i \in Interests \cup {NoInterest}, QueueReg(r, write, i)
    PROVE  /\ RegistersTypeOK'
           /\ nextSend' \in [Regs -> Nat]
           /\ received' \in [Regs -> SUBSET Nat]
           /\ nremaining' \in [Regs -> Nat]
           /\ regSend' \in Seq(Regs)
<1>1. RegistersTypeOK'  BY QueueTyped DEF QueueReg, TypeOK, RegsTypeOK
<1>2. CASE InProgress(r)
    BY <1>1, <1>2 DEF QueueReg, TypeOK, RegsTypeOK, DeviceTypeOK, regVars
<1>3. CASE ~InProgress(r)
  <2>1. Track(r)  BY <1>3 DEF QueueReg
  <2>2. regSend' \in Seq(Regs)  BY <2>1, AppendFacts DEF Track, TypeOK, DeviceTypeOK
  <2> QED  BY <1>1, <2>1, <2>2 DEF Track, TypeOK, RegsTypeOK
<1> QED  BY <1>2, <1>3

\* The slots lose words of register r, and nothing else.
OnlyDrops(r) ==
    /\ slotWord' \in [Slots -> [Pos -> Word \cup {NoWord}]]
    /\ slotState' = slotState
    /\ \A k \in Slots, j \in Pos :
          \/ slotWord'[k][j] = slotWord[k][j]
          \/ slotWord'[k][j] = NoWord /\ Carries(k, j, r)

\* ... so what they carry of the others is unchanged.
LEMMA OthersCarried ==
    ASSUME NEW r, OnlyDrops(r)
    PROVE  \A q \in Regs \ {r}, k \in Slots, j \in Pos :
              /\ Carries(k, j, q)' <=> Carries(k, j, q)
              /\ Carries(k, j, q) => slotWord'[k][j] = slotWord[k][j]
    BY DEF OnlyDrops, Carries

\* An operation begins on a register that is neither in reg_send nor in any
\* message: the accounting of every register holds.
LEMMA TrackSafe ==
    ASSUME Inv, NEW r \in Regs, NEW write \in BOOLEAN, Track(r), Begin(r, write), OnlyDrops(r),
           \A k \in 1 .. Len(regSend) : regSend[k] # r,
           \A k \in Slots, j \in Pos : ~Carries(k, j, r)',
           UNCHANGED resetReq
    PROVE  SendQueue' /\ SlotsCurrent' /\ WordsAccounted'
<1>2. /\ state' = [state EXCEPT ![r] = IF write THEN "Writing" ELSE "Reading"]
      /\ opSeq' = [opSeq EXCEPT ![r] = @ + 1]
      /\ received' = [received EXCEPT ![r] = {}]
      /\ nremaining' = [nremaining EXCEPT ![r] = Size[r]]
      /\ nextSend' = [nextSend EXCEPT ![r] = 0]
      /\ regSend' = Append(regSend, r)
    BY DEF Begin, Track
<1>3. /\ state \in [Regs -> States] /\ opSeq \in [Regs -> Nat] /\ nextSend \in [Regs -> Nat]
      /\ received \in [Regs -> SUBSET Nat] /\ nremaining \in [Regs -> Nat]
      /\ regSend \in Seq(Regs) /\ slotWord \in [Slots -> [Pos -> Word \cup {NoWord}]]
    BY DEF Inv, TypeOK, RegsTypeOK, RegistersTypeOK, SlotsTypeOK, DeviceTypeOK
<1>4. InProgress(r)' /\ \A q \in Regs \ {r} : state'[q] = state[q]
    BY <1>2, <1>3 DEF InProgress
<1>5. SendQueue'
  <2>2. /\ Len(regSend') = Len(regSend) + 1
        /\ \A k \in 1 .. Len(regSend) : regSend'[k] = regSend[k]
        /\ regSend'[Len(regSend) + 1] = r
      BY <1>2, <1>3, AppendFacts
  <2>3. Len(regSend) \in Nat  BY <1>3
  <2>4. ASSUME NEW q \in Regs
        PROVE  (\E k \in 1 .. Len(regSend') : regSend'[k] = q)
                   <=> InProgress(q)' /\ nextSend'[q] < Size[q]
    <3>1. CASE q = r  BY <3>1, <1>2, <1>3, <1>4, <2>2, <2>3
    <3>2. CASE q # r
      <4>1. (\E k \in 1 .. Len(regSend') : regSend'[k] = q)
                <=> \E k \in 1 .. Len(regSend) : regSend[k] = q
          BY <3>2, <2>2, <2>3
      <4>2. (\E k \in 1 .. Len(regSend) : regSend[k] = q)
                <=> InProgress(q) /\ nextSend[q] < Size[q]
          BY DEF Inv, SendQueue
      <4>3. nextSend'[q] = nextSend[q] /\ (InProgress(q)' <=> InProgress(q))
          BY <3>2, <1>2, <1>3, <1>4 DEF InProgress
      <4> QED  BY <4>1, <4>2, <4>3
    <3> QED  BY <3>1, <3>2
  <2>5. \A k, l \in 1 .. Len(regSend') : regSend'[k] = regSend'[l] => k = l
      BY <2>2, <2>3 DEF Inv, SendQueue
  <2>6. ASSUME NEW k \in 2 .. Len(regSend')  PROVE nextSend'[regSend'[k]] = 0
    <3>1. CASE k = Len(regSend) + 1  BY <3>1, <2>2, <1>2, <1>3
    <3>2. CASE k \in 2 .. Len(regSend)
      <4>1. nextSend[regSend[k]] = 0  BY <3>2 DEF Inv, SendQueue
      <4>2. k \in 1 .. Len(regSend)  BY <3>2, <2>3
      <4>3. regSend[k] \in Regs  BY <4>2, <1>3
      <4>4. regSend[k] # r  BY <4>2
      <4> QED  BY <4>1, <4>2, <4>3, <4>4, <2>2, <1>2, <1>3
    <3> QED  BY <3>1, <3>2, <2>2, <2>3
  <2> QED  BY <2>4, <2>5, <2>6 DEF SendQueue
<1>7. SlotsCurrent'
  <2> SUFFICES ASSUME NEW k \in Slots, NEW j \in Pos, NEW q \in Regs, Carries(k, j, q)'
               PROVE  /\ slotState'[k] # "Free"
                      /\ InProgress(q)'
                      /\ slotWord'[k][j].op = opSeq'[q]
                      /\ slotWord'[k][j].write = (state'[q] = "Writing")
      BY DEF SlotsCurrent
  <2>1. q # r  OBVIOUS
  <2>2. state'[q] = state[q] /\ opSeq'[q] = opSeq[q]  BY <2>1, <1>2, <1>3
  <2>3. Carries(k, j, q) /\ slotWord'[k][j] = slotWord[k][j]  BY <2>1, OthersCarried
  <2> QED  BY <2>2, <2>3 DEF Inv, SlotsCurrent, OnlyDrops, InProgress
<1>8. CarriedOnce'
    BY OthersCarried DEF Inv, WordsAccounted, CarriedOnce
<1>9. Tracked'
  <2> SUFFICES ASSUME NEW q \in Regs, InProgress(q)'
               PROVE  /\ nextSend'[q] <= Size[q]
                      /\ received'[q] \subseteq 0 .. nextSend'[q] - 1
                      /\ nremaining'[q] = Size[q] - Cardinality(received'[q])
                      /\ \A i \in Slots, j \in Pos : Carries(i, j, q)' =>
                            slotWord'[i][j].off \in (0 .. nextSend'[q] - 1) \ received'[q]
      BY DEF Tracked
  <2>1. CASE q = r  BY <2>1, <1>2, <1>3, FS_EmptySet
  <2>2. CASE q # r
    <3>1. /\ InProgress(q) /\ nextSend'[q] = nextSend[q] /\ received'[q] = received[q]
          /\ nremaining'[q] = nremaining[q]
        BY <2>2, <1>2, <1>3, <1>4 DEF InProgress
    <3> QED  BY <2>2, <3>1, OthersCarried DEF Inv, WordsAccounted, Tracked
  <2> QED  BY <2>1, <2>2
<1>10. Covered => Covered'
  <2> SUFFICES ASSUME Covered, NEW q \in Regs, InProgress(q)',
                      NEW o \in (0 .. nextSend'[q] - 1) \ received'[q]
               PROVE  \E i \in Slots, j \in Pos : Carries(i, j, q)' /\ slotWord'[i][j].off = o
      BY DEF Covered
  <2>1. q # r  BY <1>2, <1>3
  <2>2. InProgress(q) /\ nextSend'[q] = nextSend[q] /\ received'[q] = received[q]
      BY <2>1, <1>2, <1>3, <1>4 DEF InProgress
  <2>3. PICK i \in Slots, j \in Pos : Carries(i, j, q) /\ slotWord[i][j].off = o
      BY <2>2 DEF Covered
  <2> QED  BY <2>1, <2>3, OthersCarried
<1> QED  BY <1>5, <1>7, <1>8, <1>9, <1>10 DEF Inv, WordsAccounted

\* Asking for an operation keeps the accounting: the words of an operation that
\* begins are tracked as untouched, and a queued one tracks none.
LEMMA QueueRegSafe ==
    ASSUME Inv, NEW r \in Regs, NEW write \in BOOLEAN,
           NEW i \in Interests \cup {NoInterest}, QueueReg(r, write, i),
           UNCHANGED <<slotWord, slotState, resetReq>>
    PROVE  SendQueue' /\ SlotsCurrent' /\ WordsAccounted'
<1>1. CASE InProgress(r)
  <2>1. UNCHANGED <<state, opSeq, nextSend, received, nremaining, regSend>>
      BY <1>1 DEF QueueReg, Queue, QueueIdle, QueueWriteLater, QueueReadLater, MergeRead, regVars
  <2> QED  BY <2>1 DEF Inv, SendQueue, SlotsCurrent, WordsAccounted, CarriedOnce, Tracked,
                       Covered, InProgress, Carries
<1>2. CASE ~InProgress(r)
  <2>1. QueueIdle(r, write, i) /\ Track(r)
      BY <1>2 DEF QueueReg, Queue, QueueWriteLater, QueueReadLater, MergeRead, InProgress
  <2>2. OnlyDrops(r)  BY DEF OnlyDrops, Inv, TypeOK, SlotsTypeOK
  <2>3. \A k \in Slots, j \in Pos : ~Carries(k, j, r)'
      BY <1>2 DEF Inv, SlotsCurrent, Carries
  <2>4. \A k \in 1 .. Len(regSend) : regSend[k] # r  BY <1>2 DEF Inv, SendQueue
  <2> QED  BY <2>1, <2>2, <2>3, <2>4, TrackSafe DEF QueueIdle
<1> QED  BY <1>1, <1>2

\* A word of a message that carries words of an operation in progress.
LEMMA CarriedWord ==
    ASSUME Inv, NEW i \in Slots, NEW j \in Pos, slotWord[i][j] # NoWord
    PROVE  LET w == slotWord[i][j]
           IN  /\ w \in Word /\ w.reg \in Regs /\ w.off \in Nat /\ w.write \in BOOLEAN
               /\ Carries(i, j, w.reg) /\ InProgress(w.reg)
               /\ w.off \in (0 .. nextSend[w.reg] - 1) \ received[w.reg]
               /\ w.off \in Offsets(w.reg)
               /\ w.write = (state[w.reg] = "Writing")
<1> DEFINE w == slotWord[i][j]
<1>1. w \in Word /\ w.reg \in Regs /\ w.off \in Nat /\ w.write \in BOOLEAN
    BY DEF Inv, TypeOK, SlotsTypeOK, Word
<1>2. Carries(i, j, w.reg)  BY DEF Carries
<1>3. InProgress(w.reg) /\ w.write = (state[w.reg] = "Writing")
    BY <1>1, <1>2 DEF Inv, SlotsCurrent
<1>4. /\ w.off \in (0 .. nextSend[w.reg] - 1) \ received[w.reg]
      /\ nextSend[w.reg] <= Size[w.reg]
    BY <1>1, <1>2, <1>3 DEF Inv, WordsAccounted, Tracked
<1>5. nextSend[w.reg] \in Nat /\ Size[w.reg] \in Nat
    BY <1>1 DEF Inv, TypeOK, RegsTypeOK
<1>6. w.off \in Offsets(w.reg)  BY <1>1, <1>4, <1>5 DEF Offsets
<1> QED  BY <1>1, <1>2, <1>3, <1>4, <1>6

\* Counting one more word received.
LEMMA CountReceived ==
    ASSUME NEW n \in Nat, NEW R, R \subseteq 0 .. n - 1, NEW o \in (0 .. n - 1) \ R
    PROVE  /\ Cardinality(R \cup {o}) = Cardinality(R) + 1
           /\ Cardinality(R) \in Nat
           /\ Cardinality(R) + 1 <= n
           /\ Cardinality(R) + 1 = n => R \cup {o} = 0 .. n - 1
<1>1. IsFiniteSet(0 .. n - 1) /\ Cardinality(0 .. n - 1) = n
  <2>1. 0 \in Int /\ n - 1 \in Int /\ (0 > n - 1 => n = 0) /\ n - 1 - 0 + 1 = n  OBVIOUS
  <2> QED  BY <2>1, FS_Interval
<1>2. IsFiniteSet(R)  BY <1>1, FS_Subset
<1>3. Cardinality(R \cup {o}) = Cardinality(R) + 1 /\ Cardinality(R) \in Nat
    BY <1>2, FS_AddElement, FS_CardinalityType
<1>4. R \cup {o} \subseteq 0 .. n - 1  OBVIOUS
<1>5. /\ Cardinality(R \cup {o}) <= n
      /\ Cardinality(R \cup {o}) = n => R \cup {o} = 0 .. n - 1
    BY <1>1, <1>4, FS_Subset
<1> QED  BY <1>3, <1>5

\* handle_process stores one word of a reply, and perhaps ends the operation.
LEMMA ReceiveSafe ==
    ASSUME Inv, NEW i \in Slots, NEW j \in Pos, NEW data \in Nat,
           slotWord[i][j] # NoWord, Receive(i, j, slotWord[i][j], data)
    PROVE  /\ RegistersTypeOK' /\ slotWord' \in [Slots -> [Pos -> Word \cup {NoWord}]]
           /\ nextSend' \in [Regs -> Nat]
           /\ received' \in [Regs -> SUBSET Nat]
           /\ nremaining' \in [Regs -> Nat]
           /\ regSend' \in Seq(Regs)
           /\ SendQueue' /\ SlotsCurrent' /\ WordsAccounted'
<1>0. PICK w, r : w = slotWord[i][j] /\ r = w.reg  OBVIOUS
<1> DEFINE left == nremaining[r] - 1
<1>1. /\ w \in Word /\ r \in Regs /\ w.off \in Nat /\ w.write \in BOOLEAN
      /\ Carries(i, j, r) /\ InProgress(r)
      /\ w.off \in (0 .. nextSend[r] - 1) \ received[r]
      /\ w.off \in Offsets(r)
    BY <1>0, CarriedWord
<1>2. /\ state \in [Regs -> States] /\ opSeq \in [Regs -> Nat] /\ nextSend \in [Regs -> Nat]
      /\ received \in [Regs -> SUBSET Nat] /\ nremaining \in [Regs -> Nat]
      /\ regSend \in Seq(Regs) /\ slotWord \in [Slots -> [Pos -> Word \cup {NoWord}]]
      /\ Size[r] \in Nat
    BY <1>1 DEF Inv, TypeOK, RegsTypeOK, RegistersTypeOK, SlotsTypeOK, DeviceTypeOK
<1>3. /\ memRx' = IF w.write THEN memRx ELSE [memRx EXCEPT ![r][w.off] = data]
      /\ slotWord' = [slotWord EXCEPT ![i][j] = NoWord]
      /\ IF left = 0 THEN Finish(r)
         ELSE UNCHANGED <<state, flagVars, listVars, records, opSeq, devWritten>>
      /\ IF left = 0 /\ (writeQueued[r] \/ readQueued[r]) THEN Track(r)
         ELSE /\ received' = [received EXCEPT ![r] = @ \cup {w.off}]
              /\ nremaining' = [nremaining EXCEPT ![r] = left]
              /\ UNCHANGED <<nextSend, regSend>>
      /\ UNCHANGED <<present, slotState, slotSeq, expired, sendSeq, resetReq, linked>>
    BY <1>0, <1>1 DEF Receive
<1>4. /\ nextSend[r] <= Size[r] /\ received[r] \subseteq 0 .. nextSend[r] - 1
      /\ nremaining[r] = Size[r] - Cardinality(received[r])
    BY <1>1 DEF Inv, WordsAccounted, Tracked
<1>5. /\ Cardinality(received[r] \cup {w.off}) = Cardinality(received[r]) + 1
      /\ left = Size[r] - Cardinality(received[r] \cup {w.off})
      /\ left \in Nat
      /\ left = 0 => nextSend[r] = Size[r] /\ received[r] \cup {w.off} = 0 .. nextSend[r] - 1
  <2>1. nextSend[r] \in Nat  BY <1>1, <1>2
  <2>2. /\ Cardinality(received[r] \cup {w.off}) = Cardinality(received[r]) + 1
        /\ Cardinality(received[r]) \in Nat
        /\ Cardinality(received[r]) + 1 <= nextSend[r]
        /\ Cardinality(received[r]) + 1 = nextSend[r] =>
              received[r] \cup {w.off} = 0 .. nextSend[r] - 1
      BY <2>1, <1>1, <1>4, CountReceived
  <2> DEFINE c == Cardinality(received[r])
             d == Cardinality(received[r] \cup {w.off})
  <2>3. /\ d = c + 1 /\ c \in Nat /\ c + 1 <= nextSend[r] /\ nextSend[r] <= Size[r]
        /\ nremaining[r] = Size[r] - c /\ nremaining[r] \in Nat /\ Size[r] \in Nat
      BY <2>2, <1>1, <1>2, <1>4
  <2> HIDE DEF c, d
  <2>4. left = Size[r] - d /\ left \in Nat /\ (left = 0 => nextSend[r] = Size[r] /\ c + 1 = nextSend[r])
      BY <2>1, <2>3
  <2> QED  BY <2>2, <2>4 DEF c, d
<1>6. OnlyDrops(r)
    BY <1>1, <1>2, <1>3 DEF OnlyDrops
<1>7. /\ DOMAIN memRx' = Regs
      /\ \A q \in Regs : memRx'[q] \in [Offsets(q) -> Nat]
    BY <1>1, <1>3 DEF Inv, TypeOK, RegsTypeOK, RegistersTypeOK
<1>8. ASSUME NEW k \in Slots, NEW l \in Pos, Carries(k, l, r)'
      PROVE  /\ Carries(k, l, r) /\ slotWord'[k][l] = slotWord[k][l]
             /\ slotWord[k][l].off \in (0 .. nextSend[r] - 1) \ (received[r] \cup {w.off})
  <2>1. /\ Carries(k, l, r) /\ slotWord'[k][l] = slotWord[k][l] /\ ~(k = i /\ l = j)
    <3>1. slotWord' = [slotWord EXCEPT ![i][j] = NoWord]  BY <1>3
    <3>2. slotWord'[i][j] = NoWord  BY <3>1, <1>2
    <3>3. ~(k = i /\ l = j)  BY <3>2, <1>8 DEF Carries
    <3>4. slotWord'[k][l] = slotWord[k][l]  BY <3>1, <3>3, <1>2
    <3> QED  BY <3>3, <3>4, <1>8 DEF Carries
  <2>2. slotWord[k][l].off # w.off
      BY <2>1, <1>0, <1>1 DEF Inv, WordsAccounted, CarriedOnce
  <2>3. slotWord[k][l].off \in (0 .. nextSend[r] - 1) \ received[r]
      BY <2>1, <1>1 DEF Inv, WordsAccounted, Tracked
  <2> QED  BY <2>1, <2>2, <2>3
<1>9. CASE left = 0 /\ (writeQueued[r] \/ readQueued[r])
  <2>1. RegistersTypeOK'
      BY <1>1, <1>3, <1>7, <1>9, FinishTyped DEF Inv, TypeOK, RegsTypeOK
  <2>2. Track(r) /\ \E write \in BOOLEAN : Begin(r, write)
      BY <1>3, <1>9 DEF Finish, StartQueuedWrite, StartQueuedRead, StartNothing
  <2>3. \A k \in 1 .. Len(regSend) : regSend[k] # r
    <3>1. ~(InProgress(r) /\ nextSend[r] < Size[r])  BY <1>2, <1>5, <1>9
    <3> QED  BY <1>1, <3>1 DEF Inv, SendQueue
  <2>4. \A k \in Slots, l \in Pos : ~Carries(k, l, r)'
      BY <1>5, <1>8, <1>9
  <2>5. SendQueue' /\ SlotsCurrent' /\ WordsAccounted'
    <3>1. PICK write \in BOOLEAN : Begin(r, write)  BY <2>2
    <3> QED  BY <1>1, <1>3, <1>6, <2>2, <2>3, <2>4, <3>1, TrackSafe
  <2>6. regSend' \in Seq(Regs)
      BY <1>1, <1>2, <2>2, AppendFacts DEF Track
  <2> QED  BY <1>1, <1>2, <1>6, <2>1, <2>2, <2>5, <2>6 DEF Track, OnlyDrops
<1>10. CASE ~(left = 0 /\ (writeQueued[r] \/ readQueued[r]))
  <2>1. /\ received' = [received EXCEPT ![r] = @ \cup {w.off}]
        /\ nremaining' = [nremaining EXCEPT ![r] = left]
        /\ UNCHANGED <<nextSend, regSend, resetReq, slotState>>
      BY <1>3, <1>10
  <2>2. RegistersTypeOK'
    <3>1. CASE left = 0
        BY <3>1, <1>1, <1>3, <1>7, FinishTyped DEF Inv, TypeOK, RegsTypeOK
    <3>2. CASE left # 0
        BY <3>2, <1>3, <1>7 DEF Inv, TypeOK, RegsTypeOK, RegistersTypeOK, flagVars, listVars
    <3> QED  BY <3>1, <3>2
  <2>3. opSeq' = opSeq /\ state' = IF left = 0 THEN [state EXCEPT ![r] = "InSync"] ELSE state
      BY <1>3, <1>10 DEF Finish, StartQueuedWrite, StartQueuedRead, StartNothing
  <2>4. \A q \in Regs : InProgress(q)' <=> InProgress(q) /\ ~(q = r /\ left = 0)
      BY <1>1, <1>2, <2>3 DEF InProgress
  <2>5. SendQueue'
    <3>1. \A q \in Regs : InProgress(q)' /\ nextSend'[q] < Size[q]
                              <=> InProgress(q) /\ nextSend[q] < Size[q]
        BY <1>1, <1>2, <1>5, <2>1, <2>4
    <3> QED  BY <3>1, <2>1 DEF Inv, SendQueue
  <2>6. \A k \in Slots, l \in Pos : ~(left = 0 /\ Carries(k, l, r)')
      BY <1>5, <1>8
  <2>7. SlotsCurrent'
    <3> SUFFICES ASSUME NEW k \in Slots, NEW l \in Pos, NEW q \in Regs, Carries(k, l, q)'
                 PROVE  /\ slotState'[k] # "Free"
                        /\ InProgress(q)'
                        /\ slotWord'[k][l].op = opSeq'[q]
                        /\ slotWord'[k][l].write = (state'[q] = "Writing")
        BY DEF SlotsCurrent
    <3>1. Carries(k, l, q) /\ slotWord'[k][l] = slotWord[k][l]
        BY <1>6, <1>8, OthersCarried
    <3>2. ~(q = r /\ left = 0)  BY <2>6
    <3> QED  BY <3>1, <3>2, <1>1, <1>2, <2>1, <2>3, <2>4 DEF Inv, SlotsCurrent
  <2>8. CarriedOnce'
    <3>1. \A q \in Regs, k \in Slots, l \in Pos : Carries(k, l, q)' =>
              Carries(k, l, q) /\ slotWord'[k][l] = slotWord[k][l]
        BY <1>6, <1>8, OthersCarried
    <3> QED  BY <3>1 DEF Inv, WordsAccounted, CarriedOnce
  <2>9. Tracked'
    <3> SUFFICES ASSUME NEW q \in Regs, InProgress(q)'
                 PROVE  /\ nextSend'[q] <= Size[q]
                        /\ received'[q] \subseteq 0 .. nextSend'[q] - 1
                        /\ nremaining'[q] = Size[q] - Cardinality(received'[q])
                        /\ \A k \in Slots, l \in Pos : Carries(k, l, q)' =>
                              slotWord'[k][l].off \in (0 .. nextSend'[q] - 1) \ received'[q]
        BY DEF Tracked
    <3>1. CASE q = r  BY <3>1, <1>1, <1>2, <1>4, <1>5, <1>8, <2>1
    <3>2. CASE q # r
      <4>1. /\ InProgress(q) /\ nextSend'[q] = nextSend[q] /\ received'[q] = received[q]
            /\ nremaining'[q] = nremaining[q]
          BY <3>2, <1>2, <2>1, <2>4
      <4> QED  BY <3>2, <4>1, <1>6, OthersCarried DEF Inv, WordsAccounted, Tracked
    <3> QED  BY <3>1, <3>2
  <2>10. Covered => Covered'
    <3> SUFFICES ASSUME Covered, NEW q \in Regs, InProgress(q)',
                        NEW o \in (0 .. nextSend'[q] - 1) \ received'[q]
                 PROVE  \E k \in Slots, l \in Pos : Carries(k, l, q)' /\ slotWord'[k][l].off = o
        BY DEF Covered
    <3>1. /\ InProgress(q) /\ nextSend'[q] = nextSend[q] /\ o \notin received[q]
          /\ q = r => o # w.off
        BY <1>1, <1>2, <2>1, <2>4
    <3>2. PICK k \in Slots, l \in Pos : Carries(k, l, q) /\ slotWord[k][l].off = o
        BY <3>1 DEF Covered
    <3>3. ~(k = i /\ l = j)
        BY <3>1, <3>2, <1>0, <1>1 DEF Carries
    <3>4. slotWord'[k][l] = slotWord[k][l]
        BY <3>3, <1>2, <1>3
    <3> QED  BY <3>2, <3>4 DEF Carries
  <2> QED  BY <1>1, <1>2, <1>5, <1>6, <2>1, <2>2, <2>5, <2>7, <2>8, <2>9, <2>10
           DEF Inv, WordsAccounted, OnlyDrops
<1> QED  BY <1>9, <1>10

\* handle_send puts one word of the register at the front in a message.
LEMMA FillSafe ==
    ASSUME Inv, FillWord
    PROVE  /\ slotWord' \in [Slots -> [Pos -> Word \cup {NoWord}]]
           /\ slotState' \in [Slots -> {"Free", "Ready", "Sent"}]
           /\ nextSend' \in [Regs -> Nat]
           /\ regSend' \in Seq(Regs)
           /\ SendQueue' /\ SlotsCurrent' /\ WordsAccounted'
<1>a. PICK r, o : r = Head(regSend) /\ o = nextSend[r]  OBVIOUS
<1>b. regSend # <<>>  BY DEF FillWord
<1>0. PICK i \in Slots, j \in Pos :
          /\ slotWord[i][j] = NoWord
          /\ slotState' = [slotState EXCEPT ![i] = "Ready"]
          /\ nextSend' = [nextSend EXCEPT ![r] = o + 1]
          /\ regSend' = IF o + 1 >= Size[r] THEN Tail(regSend) ELSE regSend
          /\ slotWord' = [slotWord EXCEPT ![i][j] =
                 [reg |-> r, off |-> o, write |-> state[r] = "Writing", op |-> opSeq[r],
                  val |-> IF state[r] = "Writing" THEN memTx[r][o] ELSE 0]]
    BY <1>a DEF FillWord, First
<1>1. /\ r \in Regs /\ InProgress(r) /\ o \in Nat /\ o < Size[r] /\ o \in Offsets(r)
      /\ Size[r] \in Nat
    BY <1>a, <1>b, HeadOfQueue DEF Inv, Offsets
<1>2. /\ state \in [Regs -> States] /\ opSeq \in [Regs -> Nat] /\ nextSend \in [Regs -> Nat]
      /\ regSend \in Seq(Regs) /\ slotWord \in [Slots -> [Pos -> Word \cup {NoWord}]]
      /\ memTx[r] \in [Offsets(r) -> Nat]
      /\ slotState \in [Slots -> {"Free", "Ready", "Sent"}]
    BY <1>1 DEF Inv, TypeOK, RegsTypeOK, RegistersTypeOK, SlotsTypeOK, DeviceTypeOK
<1>3. UNCHANGED <<state, opSeq, received, nremaining, resetReq>>
    BY DEF FillWord, svcVars
<1>4. PICK w \in Word :
          /\ w.reg = r /\ w.off = o /\ w.op = opSeq[r] /\ w.write = (state[r] = "Writing")
          /\ slotWord' = [slotWord EXCEPT ![i][j] = w]
  <2>1. (IF state[r] = "Writing" THEN memTx[r][o] ELSE 0) \in Nat  BY <1>1, <1>2
  <2>2. (state[r] = "Writing") \in BOOLEAN  OBVIOUS
  <2>3. opSeq[r] \in Nat  BY <1>1, <1>2
  <2>4. [reg |-> r, off |-> o, write |-> state[r] = "Writing", op |-> opSeq[r],
         val |-> IF state[r] = "Writing" THEN memTx[r][o] ELSE 0] \in Word
      BY <2>1, <2>2, <2>3, <1>1 DEF Word
  <2> QED  BY <1>0, <2>4
<1>5. /\ slotWord' \in [Slots -> [Pos -> Word \cup {NoWord}]]
      /\ slotWord'[i][j] = w
      /\ \A k \in Slots, l \in Pos : ~(k = i /\ l = j) => slotWord'[k][l] = slotWord[k][l]
    BY <1>2, <1>4
<1>6. /\ nextSend'[r] = o + 1 /\ nextSend' \in [Regs -> Nat]
      /\ \A q \in Regs \ {r} : nextSend'[q] = nextSend[q]
    BY <1>a, <1>0, <1>1, <1>2
<1>7. \A q \in Regs : InProgress(q)' <=> InProgress(q)  BY <1>3 DEF InProgress
<1>8. \A k \in Slots, l \in Pos, q \in Regs : Carries(k, l, q)' <=>
          \/ k = i /\ l = j /\ q = r
          \/ Carries(k, l, q) /\ ~(k = i /\ l = j)
    BY <1>4, <1>5, NoWordAssumption DEF Carries
<1>9. /\ Len(regSend) \in Nat /\ Len(regSend) >= 1 /\ regSend[1] = r
      /\ Tail(regSend) \in Seq(Regs) /\ Len(Tail(regSend)) = Len(regSend) - 1
      /\ \A k \in 1 .. Len(regSend) - 1 : Tail(regSend)[k] = regSend[k + 1]
    BY <1>a, <1>b, <1>2, TailFacts
<1>10. \A k \in 2 .. Len(regSend) : regSend[k] \in Regs \ {r}
    BY <1>2, <1>9 DEF Inv, SendQueue
<1>11. SendQueue'
  <2>1. CASE o + 1 >= Size[r]
    <3>1. regSend' = Tail(regSend)  BY <1>0, <2>1
    <3>2. \A k \in 1 .. Len(regSend') : k + 1 \in 2 .. Len(regSend) /\ regSend'[k] = regSend[k + 1]
        BY <1>9, <3>1
    <3>3. ASSUME NEW q \in Regs
          PROVE  (\E k \in 1 .. Len(regSend') : regSend'[k] = q)
                     <=> InProgress(q)' /\ nextSend'[q] < Size[q]
      <4>1. CASE q = r
          BY <4>1, <3>2, <1>1, <1>6, <1>10, <2>1
      <4>2. CASE q # r
        <5>1. (\E k \in 1 .. Len(regSend) : regSend[k] = q)
                  <=> InProgress(q) /\ nextSend[q] < Size[q]
            BY DEF Inv, SendQueue
        <5>2. ASSUME NEW k \in 1 .. Len(regSend), regSend[k] = q
              PROVE  k - 1 \in 1 .. Len(regSend') /\ regSend'[k - 1] = q
            BY <5>2, <4>2, <1>9, <3>1
        <5>3. (\E k \in 1 .. Len(regSend') : regSend'[k] = q)
                  <=> \E k \in 1 .. Len(regSend) : regSend[k] = q
            BY <5>2, <3>2, <1>9
        <5> QED  BY <4>2, <5>1, <5>3, <1>6, <1>7
      <4> QED  BY <4>1, <4>2
    <3>4. \A k, l \in 1 .. Len(regSend') : regSend'[k] = regSend'[l] => k = l
        BY <3>2, <1>9 DEF Inv, SendQueue
    <3>5. ASSUME NEW k \in 2 .. Len(regSend')  PROVE nextSend'[regSend'[k]] = 0
      <4>1. k + 1 \in 2 .. Len(regSend) /\ regSend'[k] = regSend[k + 1]  BY <3>2, <1>9, <3>1
      <4>2. nextSend[regSend[k + 1]] = 0  BY <4>1 DEF Inv, SendQueue
      <4> QED  BY <4>1, <4>2, <1>6, <1>10
    <3> QED  BY <3>3, <3>4, <3>5 DEF SendQueue
  <2>2. CASE ~(o + 1 >= Size[r])
    <3>1. regSend' = regSend  BY <1>0, <2>2
    <3>2. ASSUME NEW q \in Regs
          PROVE  InProgress(q)' /\ nextSend'[q] < Size[q] <=> InProgress(q) /\ nextSend[q] < Size[q]
        BY <1>a, <1>0, <1>1, <1>6, <1>7, <2>2
    <3>3. \A k \in 2 .. Len(regSend') : nextSend'[regSend'[k]] = 0
        BY <3>1, <1>6, <1>10 DEF Inv, SendQueue
    <3> QED  BY <3>1, <3>2, <3>3 DEF Inv, SendQueue
  <2> QED  BY <2>1, <2>2
<1>12. SlotsCurrent'
  <2> SUFFICES ASSUME NEW k \in Slots, NEW l \in Pos, NEW q \in Regs, Carries(k, l, q)'
               PROVE  /\ slotState'[k] # "Free"
                      /\ InProgress(q)'
                      /\ slotWord'[k][l].op = opSeq'[q]
                      /\ slotWord'[k][l].write = (state'[q] = "Writing")
      BY DEF SlotsCurrent
  <2>1. slotState'[k] = "Ready" \/ slotState'[k] = slotState[k]  BY <1>0, <1>2
  <2>2. CASE k = i /\ l = j
    <3>1. q = r  BY <2>2, <1>8
    <3> QED  BY <2>2, <3>1, <1>a, <1>0, <1>1, <1>2, <1>3, <1>4, <1>5, <1>7
  <2>3. CASE ~(k = i /\ l = j)
      BY <2>1, <2>3, <1>3, <1>5, <1>7, <1>8 DEF Inv, SlotsCurrent
  <2> QED  BY <2>2, <2>3
<1>13. \A k \in Slots, l \in Pos : Carries(k, l, r) => slotWord[k][l].off < o /\ slotWord[k][l].off # o
  <2> SUFFICES ASSUME NEW k \in Slots, NEW l \in Pos, Carries(k, l, r)
               PROVE  slotWord[k][l].off < o /\ slotWord[k][l].off # o
      OBVIOUS
  <2>1. slotWord[k][l].off \in 0 .. nextSend[r] - 1
      BY <1>1 DEF Inv, WordsAccounted, Tracked
  <2> QED  BY <2>1, <1>a, <1>0, <1>1
<1>14. CarriedOnce'
  <2> SUFFICES ASSUME NEW q \in Regs, NEW k \in Slots, NEW m \in Slots, NEW l \in Pos, NEW n \in Pos,
                      Carries(k, l, q)', Carries(m, n, q)',
                      slotWord'[k][l].off = slotWord'[m][n].off
               PROVE  k = m /\ l = n
      BY DEF CarriedOnce
  <2>1. CASE ~(k = i /\ l = j) /\ ~(m = i /\ n = j)
    <3>1. Carries(k, l, q) /\ Carries(m, n, q)  BY <2>1, <1>8
    <3>2. slotWord[k][l].off = slotWord[m][n].off  BY <2>1, <1>5
    <3> QED  BY <3>1, <3>2 DEF Inv, WordsAccounted, CarriedOnce
  <2>2. CASE k = i /\ l = j /\ ~(m = i /\ n = j)
      BY <2>2, <1>4, <1>5, <1>8, <1>13
  <2>3. CASE m = i /\ n = j /\ ~(k = i /\ l = j)
      BY <2>3, <1>4, <1>5, <1>8, <1>13
  <2> QED  BY <2>1, <2>2, <2>3
<1>15. Tracked'
  <2> SUFFICES ASSUME NEW q \in Regs, InProgress(q)'
               PROVE  /\ nextSend'[q] <= Size[q]
                      /\ received'[q] \subseteq 0 .. nextSend'[q] - 1
                      /\ nremaining'[q] = Size[q] - Cardinality(received'[q])
                      /\ \A k \in Slots, l \in Pos : Carries(k, l, q)' =>
                            slotWord'[k][l].off \in (0 .. nextSend'[q] - 1) \ received'[q]
      BY DEF Tracked
  <2>1. /\ received[q] \subseteq 0 .. nextSend[q] - 1 /\ nextSend[q] <= Size[q]
        /\ nremaining[q] = Size[q] - Cardinality(received[q])
        /\ \A k \in Slots, l \in Pos : Carries(k, l, q) =>
              slotWord[k][l].off \in (0 .. nextSend[q] - 1) \ received[q]
      BY <1>7 DEF Inv, WordsAccounted, Tracked
  <2>2. CASE q = r
    <3>1. o \in (0 .. nextSend'[q] - 1) \ received'[q]
        BY <2>1, <2>2, <1>a, <1>0, <1>1, <1>3, <1>6
    <3>2. 0 .. nextSend[q] - 1 \subseteq 0 .. nextSend'[q] - 1
        BY <2>2, <1>a, <1>0, <1>1, <1>6
    <3>3. \A k \in Slots, l \in Pos : Carries(k, l, q)' =>
              slotWord'[k][l].off \in (0 .. nextSend'[q] - 1) \ received'[q]
        BY <2>1, <2>2, <3>1, <3>2, <1>3, <1>4, <1>5, <1>8
    <3> QED  BY <2>1, <2>2, <3>2, <3>3, <1>a, <1>0, <1>1, <1>3, <1>6
  <2>3. CASE q # r
      BY <2>1, <2>3, <1>3, <1>5, <1>6, <1>8
  <2> QED  BY <2>2, <2>3
<1>16. Covered => Covered'
  <2> SUFFICES ASSUME Covered, NEW q \in Regs, InProgress(q)',
                      NEW p \in (0 .. nextSend'[q] - 1) \ received'[q]
               PROVE  \E k \in Slots, l \in Pos : Carries(k, l, q)' /\ slotWord'[k][l].off = p
      BY DEF Covered
  <2>1. CASE q = r /\ p = o  BY <2>1, <1>4, <1>5, <1>8
  <2>2. CASE ~(q = r /\ p = o)
    <3>1. p \in (0 .. nextSend[q] - 1) \ received[q]
      <4>1. CASE q = r  BY <4>1, <2>2, <1>a, <1>1, <1>3, <1>6
      <4>2. CASE q # r  BY <4>2, <1>3, <1>6
      <4> QED  BY <4>1, <4>2
    <3>2. PICK k \in Slots, l \in Pos : Carries(k, l, q) /\ slotWord[k][l].off = p
        BY <3>1, <1>7 DEF Covered
    <3>3. ~(k = i /\ l = j)  BY <3>2, <1>0 DEF Carries
    <3> QED  BY <3>2, <3>3, <1>5, <1>8
  <2> QED  BY <2>1, <2>2
<1> QED
  <2>1. regSend' \in Seq(Regs)  BY <1>0, <1>2, <1>9
  <2>2. slotState' \in [Slots -> {"Free", "Ready", "Sent"}]  BY <1>0, <1>2
  <2> QED  BY <2>1, <2>2, <1>3, <1>5, <1>6, <1>11, <1>12, <1>14, <1>15, <1>16
           DEF Inv, WordsAccounted

\* A message times out, or handle_process refuses a word of its reply.
LEMMA TimeoutSafe ==
    ASSUME Inv, NEW i \in Slots, DoTimeout(i)
    PROVE  /\ RegistersTypeOK' /\ SlotsTypeOK'
           /\ regSend' \in Seq(Regs)
           /\ resetReq' = TRUE
           /\ SendQueue' /\ SlotsCurrent' /\ WordsAccounted'
<1>1. /\ resetReq' = TRUE
      /\ slotState' = [slotState EXCEPT ![i] = "Free"]
      /\ slotSeq' = [slotSeq EXCEPT ![i] = 0]
      /\ expired' = [expired EXCEPT ![i] = FALSE]
      /\ UNCHANGED <<nextSend, received, nremaining>>
    BY DEF DoTimeout, Clear, regVars
<1>2. /\ state \in [Regs -> States] /\ nextSend \in [Regs -> Nat]
      /\ regSend \in Seq(Regs) /\ slotWord \in [Slots -> [Pos -> Word \cup {NoWord}]]
      /\ slotState \in [Slots -> {"Free", "Ready", "Sent"}]
      /\ slotSeq \in [Slots -> 0 .. SeqMod - 1] /\ expired \in [Slots -> BOOLEAN]
    BY DEF Inv, TypeOK, RegsTypeOK, RegistersTypeOK, SlotsTypeOK, DeviceTypeOK
<1>3. 0 \in 0 .. SeqMod - 1  OBVIOUS
<1>4. CASE slotWord[i] = Empty /\ UNCHANGED <<svcVars, slotWord, regSend>>
  <2>1. UNCHANGED <<state, opSeq, slotWord, regSend>>  BY <1>4 DEF svcVars
  <2>2. RegistersTypeOK'
      BY <1>4 DEF Inv, TypeOK, RegsTypeOK, RegistersTypeOK, svcVars, flagVars, listVars
  <2>3. SlotsTypeOK'  BY <1>1, <1>2, <1>3, <2>1 DEF SlotsTypeOK
  <2>4. SendQueue'  BY <1>1, <2>1 DEF Inv, SendQueue, InProgress
  <2>5. SlotsCurrent'
    <3>1. \A j \in Pos, r \in Regs : ~Carries(i, j, r)  BY <1>4 DEF Carries, Empty
    <3>2. \A k \in Slots \ {i} : slotState'[k] = slotState[k]  BY <1>1, <1>2
    <3>3. \A k \in Slots, j \in Pos, r \in Regs : Carries(k, j, r)' => k # i /\ Carries(k, j, r)
        BY <3>1, <2>1 DEF Carries
    <3>4. \A r \in Regs : InProgress(r)' <=> InProgress(r)  BY <2>1 DEF InProgress
    <3> QED  BY <3>2, <3>3, <3>4, <2>1 DEF Inv, SlotsCurrent
  <2>6. WordsAccounted'
    <3>1. CarriedOnce'  BY <2>1 DEF Inv, WordsAccounted, CarriedOnce, Carries
    <3>2. Tracked'  BY <1>1, <2>1 DEF Inv, WordsAccounted, Tracked, Carries, InProgress
    <3> QED  BY <3>1, <3>2, <1>1 DEF WordsAccounted
  <2> QED  BY <1>1, <1>2, <2>1, <2>2, <2>3, <2>4, <2>5, <2>6
<1>5. ASSUME NEW j \in Pos, slotWord[i][j] # NoWord,
             slotWord' = Orphaned(i),
             regSend' = Unqueued(slotWord[i][j].reg),
             Cancel(slotWord[i][j].reg)
      PROVE  /\ RegistersTypeOK' /\ SlotsTypeOK' /\ regSend' \in Seq(Regs)
             /\ SendQueue' /\ SlotsCurrent' /\ WordsAccounted'
  <2>0. PICK r : r = slotWord[i][j].reg  OBVIOUS
  <2>1. r \in Regs /\ InProgress(r) /\ 0 < nextSend[r]
    <3>1. /\ r \in Regs /\ InProgress(r)
          /\ slotWord[i][j].off \in (0 .. nextSend[r] - 1) \ received[r]
        BY <1>5, <2>0, CarriedWord
    <3> QED  BY <3>1, <1>2
  <2>2. RegistersTypeOK'  BY <1>5, <2>0, <2>1, CancelTyped DEF Inv, TypeOK, RegsTypeOK
  <2>3. \A k \in Slots, l \in Pos : slotWord'[k][l] = NoWord
      BY <1>5 DEF Orphaned, Empty
  <2>4. SlotsTypeOK'
    <3>1. slotWord' \in [Slots -> [Pos -> Word \cup {NoWord}]]
        BY <1>5 DEF Orphaned, Empty
    <3> QED  BY <3>1, <1>1, <1>2, <1>3 DEF SlotsTypeOK
  <2>5. \A k \in Slots, l \in Pos, q \in Regs : ~Carries(k, l, q)'
      BY <2>3 DEF Carries
  <2>6. state' = [state EXCEPT ![r] = "Invalid"]  BY <1>5, <2>0 DEF Cancel
  <2>7. ~InProgress(r)' /\ \A q \in Regs \ {r} : InProgress(q)' <=> InProgress(q)
      BY <1>2, <2>1, <2>6 DEF InProgress
  <2>8. regSend' = Unqueued(r)  BY <1>5, <2>0
  <2>9. regSend' \in Seq(Regs) /\ SendQueue'
    <3>1. CASE regSend # <<>> /\ Head(regSend) = r
      <4>1. /\ Len(regSend) \in Nat /\ Len(regSend) >= 1 /\ regSend[1] = r
            /\ regSend' = Tail(regSend)
            /\ Tail(regSend) \in Seq(Regs) /\ Len(Tail(regSend)) = Len(regSend) - 1
            /\ \A k \in 1 .. Len(regSend) - 1 : Tail(regSend)[k] = regSend[k + 1]
          BY <3>1, <2>8, <1>2, TailFacts DEF Unqueued
      <4>2. \A k \in 1 .. Len(regSend') : k + 1 \in 2 .. Len(regSend) /\ regSend'[k] = regSend[k + 1]
          BY <4>1
      <4>3. \A k \in 2 .. Len(regSend) : regSend[k] # r
          BY <4>1 DEF Inv, SendQueue
      <4>4. ASSUME NEW q \in Regs
            PROVE  (\E k \in 1 .. Len(regSend') : regSend'[k] = q)
                       <=> InProgress(q)' /\ nextSend'[q] < Size[q]
        <5>1. CASE q = r  BY <5>1, <4>2, <4>3, <2>7
        <5>2. CASE q # r
          <6>1. (\E k \in 1 .. Len(regSend) : regSend[k] = q)
                    <=> InProgress(q) /\ nextSend[q] < Size[q]
              BY DEF Inv, SendQueue
          <6>2. ASSUME NEW k \in 1 .. Len(regSend), regSend[k] = q
                PROVE  k - 1 \in 1 .. Len(regSend') /\ regSend'[k - 1] = q
              BY <6>2, <5>2, <4>1
          <6>3. ASSUME NEW k \in 1 .. Len(regSend'), regSend'[k] = q
                PROVE  k + 1 \in 1 .. Len(regSend) /\ regSend[k + 1] = q
              BY <6>3, <4>1, <4>2
          <6>4. (\E k \in 1 .. Len(regSend') : regSend'[k] = q)
                    <=> \E k \in 1 .. Len(regSend) : regSend[k] = q
              BY <6>2, <6>3
          <6> QED  BY <5>2, <6>1, <6>4, <1>1, <2>7
        <5> QED  BY <5>1, <5>2
      <4>5. ASSUME NEW k \in 1 .. Len(regSend'), NEW l \in 1 .. Len(regSend'),
                   regSend'[k] = regSend'[l]
            PROVE  k = l
        <5>1. /\ k + 1 \in 1 .. Len(regSend) /\ l + 1 \in 1 .. Len(regSend)
              /\ regSend[k + 1] = regSend[l + 1]
            BY <4>1, <4>2, <4>5
        <5>2. k + 1 = l + 1  BY <5>1 DEF Inv, SendQueue
        <5> QED  BY <5>2
      <4>6. ASSUME NEW k \in 2 .. Len(regSend')  PROVE nextSend'[regSend'[k]] = 0
        <5>1. k + 1 \in 2 .. Len(regSend) /\ regSend'[k] = regSend[k + 1]  BY <4>1, <4>2
        <5>2. nextSend[regSend[k + 1]] = 0  BY <5>1 DEF Inv, SendQueue
        <5> QED  BY <5>1, <5>2, <1>1
      <4> QED  BY <4>1, <4>4, <4>5, <4>6 DEF SendQueue
    <3>2. CASE ~(regSend # <<>> /\ Head(regSend) = r)
      <4>1. regSend' = regSend  BY <3>2, <2>8 DEF Unqueued
      <4>2. \A k \in 1 .. Len(regSend) : regSend[k] # r
        <5> SUFFICES ASSUME NEW k \in 1 .. Len(regSend), regSend[k] = r  PROVE FALSE
            OBVIOUS
        <5>1. regSend # <<>> /\ Len(regSend) \in Nat  BY <1>2
        <5>2. Head(regSend) = regSend[1]  BY <5>1, <1>2, TailFacts
        <5>3. k # 1  BY <3>2, <5>1, <5>2
        <5>4. k \in 2 .. Len(regSend)  BY <5>1, <5>3
        <5> QED  BY <5>4, <2>1 DEF Inv, SendQueue
      <4>3. ASSUME NEW q \in Regs
            PROVE  (\E k \in 1 .. Len(regSend') : regSend'[k] = q)
                       <=> InProgress(q)' /\ nextSend'[q] < Size[q]
        <5>1. CASE q = r  BY <5>1, <4>1, <4>2, <2>7
        <5>2. CASE q # r
          <6>1. (\E k \in 1 .. Len(regSend) : regSend[k] = q)
                    <=> InProgress(q) /\ nextSend[q] < Size[q]
              BY DEF Inv, SendQueue
          <6>2. InProgress(q)' <=> InProgress(q)  BY <5>2, <2>7
          <6> QED  BY <6>1, <6>2, <4>1, <1>1
        <5> QED  BY <5>1, <5>2
      <4>4. /\ \A k, l \in 1 .. Len(regSend) : regSend[k] = regSend[l] => k = l
            /\ \A k \in 2 .. Len(regSend) : nextSend[regSend[k]] = 0
          BY DEF Inv, SendQueue
      <4> QED  BY <4>1, <4>3, <4>4, <1>1, <1>2 DEF SendQueue
    <3> QED  BY <3>1, <3>2
  <2>10. SlotsCurrent'  BY <2>5 DEF SlotsCurrent
  <2>11. WordsAccounted'
    <3>1. CarriedOnce'  BY <2>5 DEF CarriedOnce
    <3>2. Tracked'
      <4> SUFFICES ASSUME NEW q \in Regs, InProgress(q)'
                   PROVE  /\ nextSend'[q] <= Size[q]
                          /\ received'[q] \subseteq 0 .. nextSend'[q] - 1
                          /\ nremaining'[q] = Size[q] - Cardinality(received'[q])
                          /\ \A k \in Slots, l \in Pos : Carries(k, l, q)' =>
                                slotWord'[k][l].off \in (0 .. nextSend'[q] - 1) \ received'[q]
          BY DEF Tracked
      <4>1. InProgress(q)  BY <2>7
      <4> QED  BY <4>1, <1>1, <2>5 DEF Inv, WordsAccounted, Tracked
    <3> QED  BY <3>1, <3>2, <1>1 DEF WordsAccounted
  <2> QED  BY <2>2, <2>4, <2>9, <2>10, <2>11
<1> QED  BY <1>1, <1>4, <1>5 DEF DoTimeout, First
\* Device::reset leaves nothing in progress, queued or carried.
LEMMA ResetSafe ==
    ASSUME Inv, ResetAll
    PROVE  /\ RegsTypeOK' /\ SlotsTypeOK' /\ regSend' \in Seq(Regs) /\ resetReq' = FALSE
           /\ SendQueue' /\ SlotsCurrent' /\ WordsAccounted'
<1>1. /\ nextSend \in [Regs -> Nat] /\ received \in [Regs -> SUBSET Nat]
      /\ nremaining \in [Regs -> Nat] /\ uncommitted \in [Regs -> SUBSET Nat]
    BY DEF Inv, TypeOK, RegsTypeOK
<1>2. /\ state' = [r \in Regs |-> "Invalid"] /\ regSend' = <<>> /\ resetReq' = FALSE
      /\ slotWord' = [i \in Slots |-> Empty]
    BY DEF ResetAll, Reset
<1>3. RegsTypeOK'
  <2>1. RegistersTypeOK'  BY ResetTyped DEF Inv, TypeOK, RegsTypeOK, ResetAll
  <2>2. nextSend' \in [Regs -> Nat] /\ received' \in [Regs -> SUBSET Nat]
        /\ nremaining' \in [Regs -> Nat]
      BY <1>1 DEF ResetAll, Renewed
  <2>3. /\ DOMAIN memTx' = Regs /\ \A r \in Regs : memTx'[r] \in [Offsets(r) -> Nat]
        /\ uncommitted' \in [Regs -> SUBSET Nat]
      BY DEF ResetAll, Untouched
  <2> QED  BY <2>1, <2>2, <2>3 DEF RegsTypeOK
<1>4. SlotsTypeOK'
  <2>1. 0 \in 0 .. SeqMod - 1  OBVIOUS
  <2> QED  BY <2>1 DEF ResetAll, SlotsTypeOK, Empty
<1>5. \A r \in Regs : ~InProgress(r)'  BY <1>2 DEF InProgress
<1>6. \A i \in Slots, j \in Pos, r \in Regs : ~Carries(i, j, r)'  BY <1>2 DEF Carries, Empty
<1>7. SendQueue'
  <2>1. regSend' \in Seq(Regs) /\ Len(regSend') = 0  BY <1>2
  <2> QED  BY <2>1, <1>5 DEF SendQueue
<1>8. SlotsCurrent'  BY <1>6 DEF SlotsCurrent
<1>9. WordsAccounted'
    BY <1>5, <1>6 DEF WordsAccounted, CarriedOnce, Tracked, Covered
<1> QED  BY <1>2, <1>3, <1>4, <1>7, <1>8, <1>9

\* The accounting depends on these variables only, and on no slot that carries
\* a word becoming Free.
LEMMA AccountingUnchanged ==
    ASSUME Inv, UNCHANGED <<state, opSeq, regVars, slotWord, regSend, resetReq>>,
           \A i \in Slots : slotState'[i] = "Free" => slotState[i] = "Free" \/ slotWord[i] = Empty
    PROVE  SendQueue' /\ SlotsCurrent' /\ WordsAccounted'
<1>1. UNCHANGED <<nextSend, received, nremaining>>  BY DEF regVars
<1>2. \A r \in Regs : InProgress(r)' <=> InProgress(r)  BY DEF InProgress
<1>3. \A i \in Slots, j \in Pos, r \in Regs :
         /\ Carries(i, j, r)' <=> Carries(i, j, r)
         /\ Carries(i, j, r) => slotWord[i] # Empty
    BY DEF Carries, Empty
<1>4. SendQueue'  BY <1>1, <1>2 DEF Inv, SendQueue
<1>5. SlotsCurrent'  BY <1>2, <1>3 DEF Inv, SlotsCurrent
<1>6. CarriedOnce' /\ Tracked' /\ (resetReq' \/ Covered')
  <2>1. CarriedOnce'  BY <1>3 DEF Inv, WordsAccounted, CarriedOnce
  <2>2. Tracked'  BY <1>1, <1>2, <1>3 DEF Inv, WordsAccounted, Tracked
  <2>3. Covered => Covered'  BY <1>1, <1>2, <1>3 DEF Covered
  <2> QED  BY <2>1, <2>2, <2>3 DEF Inv, WordsAccounted
<1> QED  BY <1>4, <1>5, <1>6 DEF WordsAccounted

----------------------------------------------------------------------------
(***************************************************************************)
(* The invariant holds initially and every action keeps it.                *)
(***************************************************************************)

\* The driver starts with nothing in progress.
LEMMA InitInv == Init => Inv
<1> SUFFICES ASSUME Init  PROVE Inv  OBVIOUS
<1>1. RegsTypeOK
    BY DEF Init, RegistersInit, RegsTypeOK, RegistersTypeOK, States, NeverRead, Untouched
<1>2. SlotsTypeOK
  <2>1. 0 \in 0 .. SeqMod - 1  OBVIOUS
  <2> QED  BY <2>1 DEF Init, SlotsTypeOK, Empty
<1>3. DeviceTypeOK
  <2>1. <<>> \in Seq(Regs)  OBVIOUS
  <2> QED  BY <2>1 DEF Init, DeviceTypeOK
<1>4. WorkerTypeOK  BY DEF Init, WorkerTypeOK, Phases
<1>5. NetworkTypeOK  BY DEF Init, NetworkTypeOK, Untouched
<1>6. \A r \in Regs : ~InProgress(r)  BY DEF Init, RegistersInit, InProgress
<1>7. \A i \in Slots, j \in Pos, r \in Regs : ~Carries(i, j, r)  BY DEF Init, Carries, Empty
<1>8. SendQueue
  <2>1. regSend \in Seq(Regs) /\ Len(regSend) = 0  BY DEF Init
  <2> QED  BY <2>1, <1>6 DEF SendQueue
<1>9. SlotsCurrent /\ WordsAccounted
    BY <1>6, <1>7 DEF SlotsCurrent, WordsAccounted, CarriedOnce, Tracked, Covered
<1>10. Processed  BY DEF Init, Processed
<1> QED  BY <1>1, <1>2, <1>3, <1>4, <1>5, <1>8, <1>9, <1>10 DEF Inv, TypeOK

\* A step of the worker that changes nothing but its own variables.
LEMMA WorkerOnly ==
    ASSUME Inv,
           UNCHANGED <<svcVars, regVars, slotVars, devVars, netVars, callVars>>,
           WorkerTypeOK', Processed'
    PROVE  Inv'
<1>1. UNCHANGED <<state, opSeq, slotState, slotWord, regSend, resetReq>>
    BY DEF svcVars, slotVars, devVars
<1>2. SendQueue' /\ SlotsCurrent' /\ WordsAccounted'  BY <1>1, AccountingUnchanged
<1>3. RegsTypeOK'
    BY DEF Inv, TypeOK, RegsTypeOK, RegistersTypeOK, svcVars, flagVars, listVars, callVars, regVars
<1>4. SlotsTypeOK'  BY DEF Inv, TypeOK, SlotsTypeOK, slotVars
<1>5. DeviceTypeOK' /\ NetworkTypeOK'
    BY DEF Inv, TypeOK, DeviceTypeOK, NetworkTypeOK, devVars, netVars, callVars
<1> QED  BY <1>2, <1>3, <1>4, <1>5 DEF Inv, TypeOK

\* The worker takes the completion list and unlocks the device.
LEMMA UnlockSafe ==
    ASSUME Inv, Swap, pc' = "Unlocked", completed' = records,
           UNCHANGED <<regVars, slotState, slotWord, regSend, resetReq, rxVars, netVars, callVars>>,
           SlotsTypeOK', DeviceTypeOK'
    PROVE  Inv'
<1>1. UNCHANGED <<state, opSeq>>  BY DEF Swap
<1>2. SendQueue' /\ SlotsCurrent' /\ WordsAccounted'  BY <1>1, AccountingUnchanged
<1>3. RegsTypeOK'
    BY DEF Inv, TypeOK, RegsTypeOK, RegistersTypeOK, Swap, flagVars, listVars, callVars, regVars
<1>4. WorkerTypeOK' /\ NetworkTypeOK'
    BY DEF Inv, TypeOK, RegsTypeOK, RegistersTypeOK, WorkerTypeOK, NetworkTypeOK, rxVars, netVars,
           Phases
<1>5. Processed'  BY DEF Processed
<1> QED  BY <1>2, <1>3, <1>4, <1>5 DEF Inv, TypeOK

\* The actions of the worker that neither receive nor reset.
LEMMA SendStep ==
    ASSUME Inv, FillWord \/ FillDone \/ SendMessage \/ SendBlocked \/ SendDone
    PROVE  Inv'
<1>0. Inv  OBVIOUS
<1>1. CASE FillWord
  <2>1. /\ slotWord' \in [Slots -> [Pos -> Word \cup {NoWord}]]
        /\ slotState' \in [Slots -> {"Free", "Ready", "Sent"}]
        /\ nextSend' \in [Regs -> Nat] /\ regSend' \in Seq(Regs)
        /\ SendQueue' /\ SlotsCurrent' /\ WordsAccounted'
      BY <1>1, FillSafe
  <2>2. /\ pc = "Fill"
        /\ UNCHANGED <<svcVars, received, nremaining, slotSeq, expired, sendSeq, resetReq,
                       linked, pc, rxVars, completed, netVars, callVars>>
      BY <1>1 DEF FillWord
  <2>3. RegsTypeOK'
      BY <2>1, <2>2 DEF Inv, TypeOK, RegsTypeOK, RegistersTypeOK, svcVars, flagVars, listVars,
                        callVars
  <2>4. SlotsTypeOK' /\ DeviceTypeOK'
      BY <2>1, <2>2 DEF Inv, TypeOK, SlotsTypeOK, DeviceTypeOK, callVars
  <2>5. WorkerTypeOK' /\ NetworkTypeOK'
      BY <2>2 DEF Inv, TypeOK, WorkerTypeOK, NetworkTypeOK, rxVars, netVars
  <2>6. Processed'  BY <2>2 DEF Processed
  <2> QED  BY <2>1, <2>3, <2>4, <2>5, <2>6 DEF Inv, TypeOK
<1>2. CASE FillDone
  <2>1. /\ pc' = "Send"
        /\ UNCHANGED <<svcVars, regVars, slotVars, devVars, rxVars, completed, netVars, callVars>>
      BY <1>2 DEF FillDone
  <2>2. WorkerTypeOK' /\ Processed'
      BY <2>1 DEF Inv, TypeOK, WorkerTypeOK, Phases, Processed, rxVars
  <2> QED  BY <2>1, <2>2, WorkerOnly
<1>3. CASE SendMessage
  <2>1. PICK i \in Slots :
           /\ slotState[i] = "Ready"
           /\ slotSeq' = [slotSeq EXCEPT ![i] = SeqNumber]
           /\ slotState' = [slotState EXCEPT ![i] = "Sent"]
           /\ expired' = [expired EXCEPT ![i] = FALSE]
           /\ requests' = requests \cup
                 {[slot |-> i, seq |-> SeqNumber, stamp |-> sendSeq, words |-> slotWord[i]]}
      BY <1>3 DEF SendMessage, First, Ready
  <2>2. /\ pc = "Send" /\ sendSeq' = sendSeq + 1
        /\ UNCHANGED <<svcVars, regVars, slotWord, regSend, resetReq, linked, pc, rxVars,
                       completed, replies, devMem, callVars>>
      BY <1>3 DEF SendMessage
  <2>3. sendSeq \in Nat /\ SeqNumber \in 0 .. SeqMod - 1
      BY DEF SeqNumber, Inv, TypeOK, DeviceTypeOK
  <2>4. /\ slotState \in [Slots -> {"Free", "Ready", "Sent"}]
        /\ slotSeq \in [Slots -> 0 .. SeqMod - 1]
        /\ slotWord \in [Slots -> [Pos -> Word \cup {NoWord}]] /\ expired \in [Slots -> BOOLEAN]
      BY DEF Inv, TypeOK, SlotsTypeOK
  <2>5. RegsTypeOK'
      BY <2>2 DEF Inv, TypeOK, RegsTypeOK, RegistersTypeOK, svcVars, flagVars, listVars,
                  callVars, regVars
  <2>6. SlotsTypeOK' /\ DeviceTypeOK'
      BY <2>1, <2>2, <2>3, <2>4 DEF Inv, TypeOK, SlotsTypeOK, DeviceTypeOK, callVars
  <2>7. WorkerTypeOK'  BY <2>2 DEF Inv, TypeOK, WorkerTypeOK, rxVars
  <2>8. NetworkTypeOK'
    <3>1. [slot |-> i, seq |-> SeqNumber, stamp |-> sendSeq, words |-> slotWord[i]] \in Packet(Word)
        BY <2>3, <2>4 DEF Packet
    <3> QED  BY <2>1, <2>2, <3>1 DEF Inv, TypeOK, NetworkTypeOK
  <2>9. \A k \in Slots : slotState'[k] = "Free" => slotState[k] = "Free"
      BY <2>1, <2>4
  <2>10. UNCHANGED <<state, opSeq>>  BY <2>2 DEF svcVars
  <2>11. SendQueue' /\ SlotsCurrent' /\ WordsAccounted'
      BY <2>2, <2>9, <2>10, AccountingUnchanged
  <2>12. Processed'  BY <2>2 DEF Processed
  <2> QED  BY <2>5, <2>6, <2>7, <2>8, <2>11, <2>12 DEF Inv, TypeOK
<1>4. CASE SendBlocked
  <2>1. PICK i \in Slots : slotSeq' = [slotSeq EXCEPT ![i] = SeqNumber]
      BY <1>4 DEF SendBlocked
  <2>2. /\ sendSeq' = sendSeq + 1 /\ pc' = "Unlocked" /\ completed' = records /\ Swap
        /\ UNCHANGED <<regVars, slotState, slotWord, expired, regSend, resetReq, linked,
                       rxVars, netVars, callVars>>
      BY <1>4 DEF SendBlocked, Unlock
  <2>3. sendSeq \in Nat /\ SeqNumber \in 0 .. SeqMod - 1
      BY DEF SeqNumber, Inv, TypeOK, DeviceTypeOK
  <2>4. SlotsTypeOK' /\ DeviceTypeOK'
      BY <2>1, <2>2, <2>3 DEF Inv, TypeOK, SlotsTypeOK, DeviceTypeOK, callVars
  <2> QED  BY <2>2, <2>4, UnlockSafe
<1>5. CASE SendDone
  <2>1. /\ pc' = "Unlocked" /\ completed' = records /\ Swap
        /\ UNCHANGED <<regVars, slotVars, devVars, rxVars, netVars, callVars>>
      BY <1>5 DEF SendDone, Unlock
  <2>2. SlotsTypeOK' /\ DeviceTypeOK'
      BY <2>1 DEF Inv, TypeOK, SlotsTypeOK, DeviceTypeOK, slotVars, devVars, callVars
  <2>3. UNCHANGED <<slotState, slotWord, regSend, resetReq>>  BY <2>1 DEF slotVars, devVars
  <2> QED  BY <2>1, <2>2, <2>3, UnlockSafe
<1> QED  BY <1>1, <1>2, <1>3, <1>4, <1>5

\* The unlocked part of the worker's loop, and the passage of time.
LEMMA UnlockedStep ==
    ASSUME Inv, CompleteRecord \/ Poll \/ \E i \in Slots : Expire(i)
    PROVE  Inv'
<1>1. CASE CompleteRecord
  <2>1. /\ completed' \subseteq completed
        /\ UNCHANGED <<svcVars, regVars, slotVars, devVars, pc, rxVars, netVars, callVars>>
      BY <1>1 DEF CompleteRecord
  <2>2. WorkerTypeOK'  BY <2>1 DEF Inv, TypeOK, WorkerTypeOK, rxVars
  <2>3. Processed'  BY <2>1 DEF Inv, Processed, rxVars, slotVars
  <2> QED  BY <2>1, <2>2, <2>3, WorkerOnly
<1>2. CASE Poll
  <2>1. /\ pc' = "Recv" /\ nrecv' = 0
        /\ UNCHANGED <<svcVars, regVars, slotVars, devVars, packet, rxWord, completed,
                       netVars, callVars>>
      BY <1>2 DEF Poll
  <2>2. WorkerTypeOK' /\ Processed'
      BY <2>1 DEF Inv, TypeOK, WorkerTypeOK, Phases, Processed
  <2> QED  BY <2>1, <2>2, WorkerOnly
<1>3. CASE \E i \in Slots : Expire(i)
  <2>1. PICK i \in Slots :
           /\ pc = "Unlocked"
           /\ expired' = [expired EXCEPT ![i] = TRUE]
           /\ UNCHANGED <<svcVars, regVars, slotState, slotSeq, slotWord, devVars, pc, rxVars,
                          completed, netVars, callVars>>
      BY <1>3 DEF Expire
  <2>2. UNCHANGED <<state, opSeq, regSend, resetReq>>  BY <2>1 DEF svcVars, devVars
  <2>3. SendQueue' /\ SlotsCurrent' /\ WordsAccounted'  BY <2>1, <2>2, AccountingUnchanged
  <2>4. RegsTypeOK'
      BY <2>1 DEF Inv, TypeOK, RegsTypeOK, RegistersTypeOK, svcVars, flagVars, listVars,
                  callVars, regVars
  <2>5. SlotsTypeOK' /\ DeviceTypeOK'
      BY <2>1 DEF Inv, TypeOK, SlotsTypeOK, DeviceTypeOK, devVars, callVars
  <2>6. WorkerTypeOK' /\ NetworkTypeOK'
      BY <2>1 DEF Inv, TypeOK, WorkerTypeOK, NetworkTypeOK, rxVars, netVars
  <2>7. Processed'  BY <2>1 DEF Processed
  <2> QED  BY <2>3, <2>4, <2>5, <2>6, <2>7 DEF Inv, TypeOK
<1> QED  BY <1>1, <1>2, <1>3

\* The receipt of packets, except the processing of their words.
LEMMA PacketStep ==
    ASSUME Inv, (\E p \in replies : TakePacket(p)) \/ RecvDone \/ TimeoutDone
    PROVE  Inv'
<1>1. CASE \E p \in replies : TakePacket(p)
  <2>1. PICK p \in replies : TakePacket(p)  BY <1>1
  <2>2. /\ nrecv < NSlots /\ nrecv' = nrecv + 1 /\ pc = "Recv"
        /\ \/ packet' = p /\ rxWord' = 0 /\ pc' = "Word"
           \/ UNCHANGED <<packet, rxWord, pc>>
        /\ UNCHANGED <<svcVars, regVars, slotVars, devVars, completed, netVars, callVars>>
      BY <2>1 DEF TakePacket
  <2>3. WorkerTypeOK'
      BY <2>2 DEF Inv, TypeOK, WorkerTypeOK, NetworkTypeOK, Phases
  <2>4. Processed'  BY <2>2 DEF Processed
  <2> QED  BY <2>2, <2>3, <2>4, WorkerOnly
<1>2. CASE RecvDone \/ TimeoutDone
  <2>1. /\ pc' \in {"Timeout", "State"}
        /\ UNCHANGED <<svcVars, regVars, slotVars, devVars, rxVars, completed, netVars, callVars>>
      BY <1>2 DEF RecvDone, TimeoutDone
  <2>2. WorkerTypeOK' /\ Processed'
      BY <2>1 DEF Inv, TypeOK, WorkerTypeOK, Phases, Processed, rxVars
  <2> QED  BY <2>1, <2>2, WorkerOnly
<1> QED  BY <1>1, <1>2

\* A message is timed out, by handle_timeout or by handle_process.
LEMMA TimeoutStep ==
    ASSUME Inv, NEW i \in Slots, DoTimeout(i),
           UNCHANGED <<nrecv, packet, completed, netVars, callVars>>,
           WorkerTypeOK', Processed'
    PROVE  Inv'
<1>1. /\ RegistersTypeOK' /\ SlotsTypeOK' /\ regSend' \in Seq(Regs) /\ resetReq' = TRUE
      /\ SendQueue' /\ SlotsCurrent' /\ WordsAccounted'
    BY TimeoutSafe
<1>2. UNCHANGED <<regVars, sendSeq, linked>>  BY DEF DoTimeout
<1>3. RegsTypeOK' /\ DeviceTypeOK' /\ NetworkTypeOK'
    BY <1>1, <1>2 DEF Inv, TypeOK, RegsTypeOK, DeviceTypeOK, NetworkTypeOK, regVars, callVars, netVars
<1> QED  BY <1>1, <1>3 DEF Inv, TypeOK

\* The same for handle_timeout, whichever overdue message it takes.
LEMMA HandleTimeoutStep ==
    ASSUME Inv, HandleTimeout
    PROVE  Inv'
<1>1. PICK i \in Slots : DoTimeout(i)  BY DEF HandleTimeout
<1>2. pc = "Timeout" /\ UNCHANGED <<pc, rxVars, completed, netVars, callVars>>
    BY DEF HandleTimeout
<1>3. WorkerTypeOK' /\ Processed'
    BY <1>2 DEF Inv, TypeOK, WorkerTypeOK, Processed, rxVars
<1> QED  BY <1>1, <1>2, <1>3, TimeoutStep DEF rxVars

\* handle_process handles one word of a reply: it is stored, skipped or refused.
LEMMA ProcessWordStep ==
    ASSUME Inv, ProcessWord
    PROVE  Inv'
<1>0. PICK i, w, answer : i = packet.slot /\ w = slotWord[i][rxWord] /\ answer = packet.words[rxWord]
    OBVIOUS
<1>1. /\ pc = "Word" /\ rxWord < NReg /\ rxWord' = rxWord + 1
      /\ UNCHANGED <<pc, nrecv, packet, completed, netVars, callVars>>
    BY DEF ProcessWord
<1>2. /\ packet \in Packet(AnswerWord) /\ rxWord \in Pos /\ i \in Slots
      /\ answer \in AnswerWord \cup {NoWord}
  <2>1. packet \in Packet(AnswerWord) /\ rxWord \in 0 .. NReg
      BY <1>1 DEF Inv, TypeOK, WorkerTypeOK
  <2>2. rxWord \in Pos  BY <1>1, <2>1 DEF Pos
  <2> QED  BY <1>0, <2>1, <2>2 DEF Packet
<1>3. WorkerTypeOK'
    BY <1>1, <1>2 DEF Inv, TypeOK, WorkerTypeOK, Pos
<1>4. \A j \in 0 .. rxWord - 1 : slotWord[i][j] = NoWord
    BY <1>0, <1>1 DEF Inv, Processed
<1>5. slotWord \in [Slots -> [Pos -> Word \cup {NoWord}]]  BY DEF Inv, TypeOK, SlotsTypeOK
<1>6. CASE w = NoWord \/ ~InProgress(w.reg)
  <2>1. w = NoWord
    <3>1. SUFFICES ASSUME w # NoWord  PROVE FALSE  OBVIOUS
    <3> QED  BY <3>1, <1>0, <1>2, <1>6, CarriedWord
  <2>2. UNCHANGED <<svcVars, regVars, slotVars, devVars>>
      BY <1>0, <1>6 DEF ProcessWord
  <2>3. Processed'
    <3>1. rxWord \in Nat /\ slotWord[i][rxWord] = NoWord  BY <1>0, <1>2, <2>1 DEF Pos
    <3>2. \A j \in 0 .. rxWord : slotWord[i][j] = NoWord  BY <3>1, <1>4
    <3> QED  BY <1>0, <1>1, <2>2, <3>1, <3>2 DEF Processed, slotVars
  <2> QED  BY <1>1, <1>3, <2>2, <2>3, WorkerOnly
<1>7. CASE w # NoWord /\ InProgress(w.reg) /\ Echoes(answer, w)
  <2>1. Receive(i, rxWord, w, Data(answer))  BY <1>0, <1>7 DEF ProcessWord
  <2>2. Data(answer) \in Nat  BY <1>2 DEF Data, AnswerWord
  <2>3. /\ RegistersTypeOK' /\ slotWord' \in [Slots -> [Pos -> Word \cup {NoWord}]]
        /\ nextSend' \in [Regs -> Nat] /\ received' \in [Regs -> SUBSET Nat]
        /\ nremaining' \in [Regs -> Nat] /\ regSend' \in Seq(Regs)
        /\ SendQueue' /\ SlotsCurrent' /\ WordsAccounted'
      BY <1>0, <1>2, <1>7, <2>1, <2>2, ReceiveSafe
  <2>4. /\ slotWord' = [slotWord EXCEPT ![i][rxWord] = NoWord]
        /\ UNCHANGED <<present, slotState, slotSeq, expired, sendSeq, resetReq, linked>>
      BY <2>1 DEF Receive
  <2>5. RegsTypeOK' /\ SlotsTypeOK' /\ DeviceTypeOK' /\ NetworkTypeOK'
      BY <1>1, <2>3, <2>4 DEF Inv, TypeOK, RegsTypeOK, SlotsTypeOK, DeviceTypeOK,
                              NetworkTypeOK, callVars, netVars
  <2>6. Processed'
      BY <1>0, <1>1, <1>2, <1>4, <1>5, <2>4 DEF Processed, Pos
  <2> QED  BY <1>3, <2>3, <2>5, <2>6 DEF Inv, TypeOK
<1>8. CASE w # NoWord /\ InProgress(w.reg) /\ ~Echoes(answer, w)
  <2>1. DoTimeout(i)  BY <1>0, <1>8 DEF ProcessWord
  <2>2. slotWord' = Orphaned(i)
      BY <2>1, <1>0, <1>2, <1>8 DEF DoTimeout, Empty
  <2>3. Processed'
      BY <1>0, <1>1, <1>2, <2>2 DEF Processed, Orphaned, Empty, Pos
  <2> QED  BY <1>1, <1>2, <1>3, <2>1, <2>3, TimeoutStep
<1> QED  BY <1>6, <1>7, <1>8

\* ... and once all are handled the message is cleared.
LEMMA ProcessEndStep ==
    ASSUME Inv, ProcessEnd
    PROVE  Inv'
<1>0. PICK i : i = packet.slot  OBVIOUS
<1>1. /\ pc = "Word" /\ rxWord = NReg /\ pc' = "Recv" /\ packet' = NoPacket /\ rxWord' = 0
      /\ slotWord' = [slotWord EXCEPT ![i] = Empty] /\ Clear(i)
      /\ UNCHANGED <<svcVars, regVars, devVars, nrecv, completed, netVars, callVars>>
    BY <1>0 DEF ProcessEnd
<1>2. i \in Slots  BY <1>0, <1>1 DEF Inv, TypeOK, WorkerTypeOK, Packet
<1>3. /\ slotState \in [Slots -> {"Free", "Ready", "Sent"}]
      /\ slotSeq \in [Slots -> 0 .. SeqMod - 1]
      /\ slotWord \in [Slots -> [Pos -> Word \cup {NoWord}]] /\ expired \in [Slots -> BOOLEAN]
    BY DEF Inv, TypeOK, SlotsTypeOK
<1>4. slotWord[i] = Empty
  <2>1. \A j \in Pos : slotWord[i][j] = NoWord  BY <1>0, <1>1 DEF Inv, Processed, Pos
  <2> QED  BY <2>1, <1>2, <1>3 DEF Empty
<1>5. slotWord' = slotWord  BY <1>1, <1>2, <1>3, <1>4
<1>6. UNCHANGED <<state, opSeq, regSend, resetReq>>  BY <1>1 DEF svcVars, devVars
<1>7. SendQueue' /\ SlotsCurrent' /\ WordsAccounted'
  <2>1. \A k \in Slots \ {i} : slotState'[k] = slotState[k]  BY <1>1, <1>3 DEF Clear
  <2> QED  BY <2>1, <1>1, <1>4, <1>5, <1>6, AccountingUnchanged
<1>8. RegsTypeOK'
    BY <1>1 DEF Inv, TypeOK, RegsTypeOK, RegistersTypeOK, svcVars, flagVars, listVars,
                callVars, regVars
<1>9. SlotsTypeOK'
  <2>1. 0 \in 0 .. SeqMod - 1  OBVIOUS
  <2> QED  BY <2>1, <1>1, <1>3, <1>5 DEF Clear, SlotsTypeOK
<1>10. DeviceTypeOK' /\ WorkerTypeOK' /\ NetworkTypeOK'
    BY <1>1 DEF Inv, TypeOK, DeviceTypeOK, WorkerTypeOK, NetworkTypeOK, devVars, netVars,
                callVars, Phases
<1>11. Processed'  BY <1>1 DEF Processed
<1> QED  BY <1>7, <1>8, <1>9, <1>10, <1>11 DEF Inv, TypeOK

\* A read or a write is asked for.
LEMMA QueueStep ==
    ASSUME Inv, NEW r \in Regs, NEW write \in BOOLEAN,
           NEW i \in Interests \cup {NoInterest}, QueueReg(r, write, i),
           calls' = calls + 1,
           UNCHANGED <<slotVars, sendSeq, resetReq, linked, netVars>>,
           DOMAIN memTx' = Regs /\ \A q \in Regs : memTx'[q] \in [Offsets(q) -> Nat],
           uncommitted' \in [Regs -> SUBSET Nat],
           WorkerTypeOK', Processed'
    PROVE  Inv'
<1>1. TypeOK  BY DEF Inv
<1>2. /\ RegistersTypeOK' /\ regSend' \in Seq(Regs)
      /\ nextSend' \in [Regs -> Nat] /\ received' \in [Regs -> SUBSET Nat]
      /\ nremaining' \in [Regs -> Nat]
    BY <1>1, QueueRegTyped
<1>3. RegsTypeOK'  BY <1>2 DEF RegsTypeOK
<1>4. SlotsTypeOK' /\ DeviceTypeOK' /\ NetworkTypeOK'
    BY <1>1, <1>2 DEF TypeOK, SlotsTypeOK, DeviceTypeOK, NetworkTypeOK, slotVars, netVars
<1>5. UNCHANGED <<slotWord, slotState, resetReq>>  BY DEF slotVars
<1>6. SendQueue' /\ SlotsCurrent' /\ WordsAccounted'  BY <1>5, QueueRegSafe
<1> QED  BY <1>3, <1>4, <1>6 DEF Inv, TypeOK

\* Setting words of the send cache.
LEMMA WordsSet ==
    ASSUME TypeOK, NEW r \in Regs, NEW S, SetWords(r, S)
    PROVE  DOMAIN memTx' = Regs /\ \A q \in Regs : memTx'[q] \in [Offsets(q) -> Nat]
<1>1. DOMAIN memTx = Regs /\ \A q \in Regs : memTx[q] \in [Offsets(q) -> Nat]
    BY DEF TypeOK, RegsTypeOK
<1>2. calls + 1 \in Nat  BY DEF TypeOK, DeviceTypeOK
<1>3. memTx' = [memTx EXCEPT ![r] = [o \in Offsets(r) |-> IF o \in S THEN calls + 1 ELSE memTx[r][o]]]
    BY DEF SetWords
<1>4. ASSUME NEW q \in Regs  PROVE memTx'[q] \in [Offsets(q) -> Nat]
  <2>1. CASE q = r  BY <2>1, <1>1, <1>2, <1>3
  <2>2. CASE q # r  BY <2>2, <1>1, <1>3
  <2> QED  BY <2>1, <2>2
<1> QED  BY <1>1, <1>3, <1>4

\* handle_state, and the errors the worker catches.
LEMMA StateStep ==
    ASSUME Inv, StateReset \/ StateQueue \/ StateAttach \/ StateDone \/ WorkerError
    PROVE  Inv'
<1>1. CASE StateReset \/ WorkerError
  <2>1. /\ ResetAll /\ pc' = "Fill" /\ linked' \in BOOLEAN
        /\ UNCHANGED <<rxVars, completed, netVars, calls>>
      BY <1>1 DEF StateReset, WorkerError
  <2>2. /\ RegsTypeOK' /\ SlotsTypeOK' /\ regSend' \in Seq(Regs) /\ resetReq' = FALSE
        /\ SendQueue' /\ SlotsCurrent' /\ WordsAccounted'
      BY <2>1, ResetSafe
  <2>3. sendSeq' = sendSeq  BY <2>1 DEF ResetAll
  <2>4. DeviceTypeOK' /\ WorkerTypeOK' /\ NetworkTypeOK'
      BY <2>1, <2>2, <2>3 DEF Inv, TypeOK, DeviceTypeOK, WorkerTypeOK, NetworkTypeOK, rxVars,
                              netVars, Phases
  <2>5. Processed'  BY <2>1 DEF Processed
  <2> QED  BY <2>2, <2>4, <2>5 DEF Inv, TypeOK
<1>2. CASE StateQueue
  <2>1. PICK r \in Regs : QueueReg(r, FALSE, NoInterest)  BY <1>2 DEF StateQueue
  <2>2. /\ pc = "State" /\ calls' = calls + 1
        /\ UNCHANGED <<slotVars, sendSeq, resetReq, linked, pc, rxVars, completed, netVars,
                       memTx, uncommitted>>
      BY <1>2 DEF StateQueue
  <2>3. WorkerTypeOK'  BY <2>2 DEF Inv, TypeOK, WorkerTypeOK, rxVars
  <2>4. Processed'  BY <2>2 DEF Processed
  <2>5. /\ DOMAIN memTx' = Regs /\ \A q \in Regs : memTx'[q] \in [Offsets(q) -> Nat]
        /\ uncommitted' \in [Regs -> SUBSET Nat]
      BY <2>2 DEF Inv, TypeOK, RegsTypeOK
  <2> QED  BY <2>1, <2>2, <2>3, <2>4, <2>5, QueueStep
<1>3. CASE StateAttach
  <2>1. /\ Attach(Regs) /\ pc' = "Fill"
        /\ UNCHANGED <<regVars, slotVars, devVars, rxVars, completed, netVars, callVars>>
      BY <1>3 DEF StateAttach
  <2>2. UNCHANGED <<state, opSeq, slotState, slotWord, regSend, resetReq>>
      BY <2>1 DEF Attach, slotVars, devVars
  <2>3. SendQueue' /\ SlotsCurrent' /\ WordsAccounted'  BY <2>1, <2>2, AccountingUnchanged
  <2>4. RegsTypeOK'
      BY <2>1 DEF Inv, TypeOK, RegsTypeOK, RegistersTypeOK, Attach, flagVars, listVars, callVars,
                  regVars
  <2>5. SlotsTypeOK' /\ DeviceTypeOK' /\ WorkerTypeOK' /\ NetworkTypeOK'
      BY <2>1 DEF Inv, TypeOK, SlotsTypeOK, DeviceTypeOK, WorkerTypeOK, NetworkTypeOK, slotVars,
                  devVars, rxVars, netVars, callVars, Phases
  <2>6. Processed'  BY <2>1 DEF Processed
  <2> QED  BY <2>3, <2>4, <2>5, <2>6 DEF Inv, TypeOK
<1>4. CASE StateDone
  <2>1. /\ linked' \in {linked, TRUE} /\ pc' = "Fill"
        /\ UNCHANGED <<svcVars, regVars, slotVars, regSend, sendSeq, resetReq, rxVars,
                       completed, netVars, callVars>>
      BY <1>4 DEF StateDone
  <2>2. UNCHANGED <<state, opSeq, slotState, slotWord>>  BY <2>1 DEF svcVars, slotVars
  <2>3. SendQueue' /\ SlotsCurrent' /\ WordsAccounted'  BY <2>1, <2>2, AccountingUnchanged
  <2>4. RegsTypeOK'
      BY <2>1 DEF Inv, TypeOK, RegsTypeOK, RegistersTypeOK, svcVars, flagVars, listVars,
                  callVars, regVars
  <2>5. SlotsTypeOK' /\ DeviceTypeOK' /\ WorkerTypeOK' /\ NetworkTypeOK'
      BY <2>1 DEF Inv, TypeOK, SlotsTypeOK, DeviceTypeOK, WorkerTypeOK, NetworkTypeOK, slotVars,
                  rxVars, netVars, callVars, Phases
  <2>6. Processed'  BY <2>1 DEF Processed
  <2> QED  BY <2>3, <2>4, <2>5, <2>6 DEF Inv, TypeOK
<1> QED  BY <1>1, <1>2, <1>3, <1>4

\* What records do while the worker is unlocked.
LEMMA RecordStep ==
    ASSUME Inv, Record
    PROVE  Inv'
<1>1. CASE \E r \in Regs, i \in Interests \cup {NoInterest} : ReadRegister(r, i)
  <2>1. PICK r \in Regs, i \in Interests \cup {NoInterest} : ReadRegister(r, i)  BY <1>1
  <2>2. /\ pc = "Unlocked" /\ calls' = calls + 1 /\ QueueReg(r, FALSE, i)
        /\ UNCHANGED <<slotVars, sendSeq, resetReq, linked, pc, rxVars, completed, netVars,
                       memTx, uncommitted>>
      BY <2>1 DEF ReadRegister, Call
  <2>3. WorkerTypeOK'  BY <2>2 DEF Inv, TypeOK, WorkerTypeOK, rxVars
  <2>4. Processed'  BY <2>2 DEF Processed
  <2>5. /\ DOMAIN memTx' = Regs /\ \A q \in Regs : memTx'[q] \in [Offsets(q) -> Nat]
        /\ uncommitted' \in [Regs -> SUBSET Nat]
      BY <2>2 DEF Inv, TypeOK, RegsTypeOK
  <2> QED  BY <2>2, <2>3, <2>4, <2>5, QueueStep
<1>2. CASE \E r \in Regs, i \in Interests \cup {NoInterest} :
              \E S \in SUBSET Offsets(r) : WriteRegister(r, S, i)
  <2>0. PICK r \in Regs, i \in Interests \cup {NoInterest} :
            \E S \in SUBSET Offsets(r) : WriteRegister(r, S, i)
      BY <1>2
  <2>1. PICK S \in SUBSET Offsets(r) : WriteRegister(r, S, i)  BY <2>0
  <2>2. /\ pc = "Unlocked" /\ calls' = calls + 1 /\ QueueReg(r, TRUE, i)
        /\ SetWords(r, S) /\ uncommitted' = [uncommitted EXCEPT ![r] = {}]
        /\ UNCHANGED <<slotVars, sendSeq, resetReq, linked, pc, rxVars, completed, netVars>>
      BY <2>1 DEF WriteRegister, Call
  <2>3. WorkerTypeOK'  BY <2>2 DEF Inv, TypeOK, WorkerTypeOK, rxVars
  <2>4. Processed'  BY <2>2 DEF Processed
  <2>5. uncommitted' \in [Regs -> SUBSET Nat]  BY <2>2 DEF Inv, TypeOK, RegsTypeOK
  <2>6. DOMAIN memTx' = Regs /\ \A q \in Regs : memTx'[q] \in [Offsets(q) -> Nat]
      BY <2>2, WordsSet DEF Inv
  <2> QED  BY <2>2, <2>3, <2>4, <2>5, <2>6, QueueStep
<1>3. CASE \E r \in Regs : \E S \in SUBSET Offsets(r) \ {{}} : CacheRegister(r, S)
  <2>0. PICK r \in Regs : \E S \in SUBSET Offsets(r) \ {{}} : CacheRegister(r, S)  BY <1>3
  <2>1. PICK S \in SUBSET Offsets(r) \ {{}} : CacheRegister(r, S)  BY <2>0
  <2>2. /\ pc = "Unlocked" /\ calls' = calls + 1
        /\ SetWords(r, S) /\ uncommitted' = [uncommitted EXCEPT ![r] = @ \cup S]
        /\ UNCHANGED <<svcVars, regVars, slotVars, devVars, pc, rxVars, completed, netVars>>
      BY <2>1 DEF CacheRegister, Call
  <2>3. uncommitted' \in [Regs -> SUBSET Nat]
    <3>1. S \in SUBSET Nat  BY <2>1 DEF Offsets
    <3>2. uncommitted \in [Regs -> SUBSET Nat]  BY DEF Inv, TypeOK, RegsTypeOK
    <3> QED  BY <3>1, <3>2, <2>2
  <2>4. RegsTypeOK'
      BY <2>2, <2>3, WordsSet DEF Inv, TypeOK, RegsTypeOK, RegistersTypeOK, svcVars, flagVars,
                                  listVars, regVars
  <2>5. UNCHANGED <<state, opSeq, slotState, slotWord, regSend, resetReq>>
      BY <2>2 DEF svcVars, slotVars, devVars
  <2>6. SendQueue' /\ SlotsCurrent' /\ WordsAccounted'  BY <2>2, <2>5, AccountingUnchanged
  <2>7. SlotsTypeOK' /\ DeviceTypeOK' /\ WorkerTypeOK' /\ NetworkTypeOK'
      BY <2>2 DEF Inv, TypeOK, SlotsTypeOK, DeviceTypeOK, WorkerTypeOK, NetworkTypeOK, slotVars,
                  devVars, rxVars, netVars
  <2>8. Processed'  BY <2>2 DEF Processed
  <2> QED  BY <2>4, <2>6, <2>7, <2>8 DEF Inv, TypeOK
<1>4. CASE RequestReset
  <2>1. /\ pc = "Unlocked" /\ calls' = calls + 1 /\ resetReq' = TRUE
        /\ UNCHANGED <<svcVars, regVars, slotVars, regSend, sendSeq, linked, pc, rxVars,
                       completed, netVars, memTx, uncommitted>>
      BY <1>4 DEF RequestReset, Call
  <2>2. UNCHANGED <<state, opSeq, slotState, slotWord, nextSend, received, nremaining>>
      BY <2>1 DEF svcVars, slotVars, regVars
  <2>3. SendQueue' /\ SlotsCurrent'
      BY <2>1, <2>2 DEF Inv, SendQueue, SlotsCurrent, InProgress, Carries
  <2>4. WordsAccounted'
    <3>1. CarriedOnce'  BY <2>2 DEF Inv, WordsAccounted, CarriedOnce, Carries
    <3>2. Tracked'  BY <2>2 DEF Inv, WordsAccounted, Tracked, Carries, InProgress
    <3> QED  BY <3>1, <3>2, <2>1 DEF WordsAccounted
  <2>5. RegsTypeOK'
      BY <2>1 DEF Inv, TypeOK, RegsTypeOK, RegistersTypeOK, svcVars, flagVars, listVars, regVars
  <2>6. SlotsTypeOK' /\ DeviceTypeOK' /\ WorkerTypeOK' /\ NetworkTypeOK'
      BY <2>1 DEF Inv, TypeOK, SlotsTypeOK, DeviceTypeOK, WorkerTypeOK, NetworkTypeOK, slotVars,
                  rxVars, netVars
  <2>7. Processed'  BY <2>1 DEF Processed
  <2> QED  BY <2>3, <2>4, <2>5, <2>6, <2>7 DEF Inv, TypeOK
<1> QED  BY <1>1, <1>2, <1>3, <1>4 DEF Record

\* The device executes a request, at any time.
LEMMA ServeStep ==
    ASSUME Inv, NEW q \in requests, Serve(q)
    PROVE  Inv'
<1>1. /\ UNCHANGED <<present, state, flagVars, listVars, records, opSeq, memRx, regVars,
                     slotVars, devVars, pc, rxVars, completed, requests, callVars>>
      /\ devMem' = [r \in Regs |-> [o \in Offsets(r) |->
            LET new == {w \in Writes(q, r) : w.off = o}
            IN  IF new = {} THEN devMem[r][o] ELSE (CHOOSE w \in new : TRUE).val]]
      /\ devWritten' = [r \in Regs |-> devWritten[r] \cup
            {w.off : w \in {v \in Writes(q, r) : state[r] = "Writing" /\ v.op = opSeq[r]}}]
    BY DEF Serve
<1>2. q \in Packet(Word)  BY DEF Inv, TypeOK, NetworkTypeOK
<1>3. ASSUME NEW r \in Regs, NEW w \in Writes(q, r)  PROVE w.off \in Nat /\ w.val \in Nat
  <2>1. PICK j \in Pos : w = q.words[j] /\ w # NoWord  BY DEF Writes
  <2> QED  BY <2>1, <1>2 DEF Packet, Word
<1>4. UNCHANGED <<slotState, slotWord, regSend, resetReq>>  BY <1>1 DEF slotVars, devVars
<1>5. SendQueue' /\ SlotsCurrent' /\ WordsAccounted'  BY <1>1, <1>4, AccountingUnchanged
<1>6. RegsTypeOK'
  <2>1. devWritten \in [Regs -> SUBSET Nat]  BY DEF Inv, TypeOK, RegsTypeOK, RegistersTypeOK
  <2>2. devWritten' \in [Regs -> SUBSET Nat]  BY <2>1, <1>1, <1>3
  <2> QED  BY <2>2, <1>1 DEF Inv, TypeOK, RegsTypeOK, RegistersTypeOK, flagVars, listVars,
                             regVars, callVars
<1>7. DOMAIN devMem' = Regs /\ \A r \in Regs : devMem'[r] \in [Offsets(r) -> Nat]
  <2>1. ASSUME NEW r \in Regs, NEW o \in Offsets(r)  PROVE devMem'[r][o] \in Nat
    <3>1. PICK new : new = {w \in Writes(q, r) : w.off = o}  OBVIOUS
    <3>2. devMem'[r][o] = IF new = {} THEN devMem[r][o] ELSE (CHOOSE w \in new : TRUE).val
        BY <1>1, <3>1
    <3>3. CASE new = {}  BY <3>2, <3>3 DEF Inv, TypeOK, NetworkTypeOK
    <3>4. CASE new # {}
      <4>1. (CHOOSE w \in new : TRUE) \in new  BY <3>4
      <4> QED  BY <4>1, <3>1, <3>2, <3>4, <1>3
    <3> QED  BY <3>3, <3>4
  <2>2. ASSUME NEW r \in Regs  PROVE devMem'[r] = [o \in Offsets(r) |-> devMem'[r][o]]
      BY <1>1
  <2> QED  BY <2>1, <2>2, <1>1
<1>8. replies' \subseteq Packet(AnswerWord)
  <2>1. PICK bad :
           replies' = replies \cup
              {[slot |-> q.slot, seq |-> q.seq, stamp |-> q.stamp,
                words |-> [j \in Pos |-> IF j \in bad THEN NoWord ELSE Answer(q.words[j])]]}
      BY DEF Serve
  <2>2. ASSUME NEW j \in Pos  PROVE Answer(q.words[j]) \in AnswerWord \cup {NoWord}
    <3>1. q.words[j] \in Word \cup {NoWord}  BY <1>2 DEF Packet
    <3>2. CASE q.words[j] = NoWord  BY <3>2 DEF Answer
    <3>3. CASE q.words[j] # NoWord
      <4>1. q.words[j] \in Word  BY <3>1, <3>3
      <4>2. opSeq[q.words[j].reg] \in Nat
          BY <4>1 DEF Word, Inv, TypeOK, RegsTypeOK, RegistersTypeOK
      <4> QED  BY <4>1, <4>2, <3>3 DEF Answer, Word, AnswerWord
    <3> QED  BY <3>2, <3>3
  <2>3. [slot |-> q.slot, seq |-> q.seq, stamp |-> q.stamp,
         words |-> [j \in Pos |-> IF j \in bad THEN NoWord ELSE Answer(q.words[j])]]
           \in Packet(AnswerWord)
      BY <1>2, <2>2 DEF Packet
  <2> QED  BY <2>1, <2>3 DEF Inv, TypeOK, NetworkTypeOK
<1>9. SlotsTypeOK' /\ DeviceTypeOK' /\ WorkerTypeOK' /\ NetworkTypeOK'
    BY <1>1, <1>7, <1>8 DEF Inv, TypeOK, SlotsTypeOK, DeviceTypeOK, WorkerTypeOK, NetworkTypeOK,
                            slotVars, devVars, rxVars, callVars
<1>10. Processed'  BY <1>1 DEF Inv, Processed, rxVars, slotVars
<1> QED  BY <1>5, <1>6, <1>9, <1>10 DEF Inv, TypeOK

\* Inv is inductive: every action of the worker, of the records, of the network
\* and of the device keeps it.
LEMMA NextInv == Inv /\ [Next]_vars => Inv'
<1> SUFFICES ASSUME Inv, [Next]_vars  PROVE Inv'  OBVIOUS
<1>1. CASE Worker
    BY <1>1, SendStep, UnlockedStep, PacketStep, ProcessWordStep, ProcessEndStep,
       HandleTimeoutStep, StateStep DEF Worker
<1>2. CASE SendBlocked  BY <1>2, SendStep
<1>3. CASE WorkerError  BY <1>3, StateStep
<1>4. CASE \E i \in Slots : Expire(i)  BY <1>4, UnlockedStep
<1>5. CASE Record  BY <1>5, RecordStep
<1>6. CASE \E q \in requests : Serve(q)  BY <1>6, ServeStep
<1>7. CASE UNCHANGED vars
  <2>1. UNCHANGED <<svcVars, regVars, slotVars, devVars, pc, rxVars, completed, netVars, callVars>>
      BY <1>7 DEF vars
  <2>2. WorkerTypeOK'  BY <2>1 DEF Inv, TypeOK, WorkerTypeOK, rxVars
  <2>3. Processed'  BY <2>1 DEF Inv, Processed, rxVars, slotVars
  <2> QED  BY <2>1, <2>2, <2>3, WorkerOnly
<1> QED  BY <1>1, <1>2, <1>3, <1>4, <1>5, <1>6, <1>7 DEF Next

----------------------------------------------------------------------------
\* Inv holds in every reachable state.
THEOREM InvHolds == Spec => []Inv
<1> QED  BY InitInv, NextInv, PTL DEF Spec

\* Every variable of the driver keeps its type; in particular the worker never
\* indexes a slot or a word that does not exist.
THEOREM TypesHold == Spec => []TypeOK
<1>1. Inv => TypeOK  BY DEF Inv
<1> QED  BY <1>1, InvHolds, PTL

\* reg_send is, at all times, exactly the registers with words still to send.
THEOREM SendQueueHolds == Spec => []SendQueue
<1>1. Inv => SendQueue  BY DEF Inv
<1> QED  BY <1>1, InvHolds, PTL

\* No message slot carries a word of an operation that is over.
THEOREM SlotsStayCurrent == Spec => []SlotsCurrent
<1>1. Inv => SlotsCurrent  BY DEF Inv
<1> QED  BY <1>1, InvHolds, PTL

\* No word of an operation in progress is lost or carried twice by the driver,
\* so an operation is complete only when all of its words were received.
THEOREM NoWordLost == Spec => []WordsAccounted
<1>1. Inv => WordsAccounted  BY DEF Inv
<1> QED  BY <1>1, InvHolds, PTL
============================================================================
