---------------------------- MODULE Acquisition ----------------------------
(***************************************************************************)
(* The acquisition of waveforms from a device, and its two kinds of users. *)
(*                                                                         *)
(* The device fills banks of memory, one after the other, with samples of  *)
(* the channels of its mask (chan_keep), interleaved.  Told to             *)
(* (circle_buf_flip), it presents the bank it is filling, when that is     *)
(* full, with the tag (dsp_tag) it had at the beginning and at the end of  *)
(* the bank.  A user that increments the tag after changing a setting can  *)
(* tell from it whether a waveform was sampled with that setting.          *)
(*                                                                         *)
(* One user is the IOC: the records of feed_wf_acquire_base.template and   *)
(* feed_wf_acquire_signal.template with device support, and leep/ca.py     *)
(* that looks at them.  The others are clients that talk to the device     *)
(* themselves (leep/raw.py).                                               *)
(***************************************************************************)
EXTENDS Slices

CONSTANTS
    NChannels,   \* 12 in feed_wf_acquire_base.template
    Size,        \* words of circle_data
    Masks,       \* channel masks that users choose
    TagMod,      \* 256
    Sizes,       \* what RecInfo::size may hold in the WF of each channel: nothing sets it
    Users,       \* who may use the device: "ioc", or "raw" for the Clients
    Clients,     \* of leep/raw.py
    MaxPuts, MaxTags,   \* bounds, for each kind of user: mask changes, tag increments
    MaxFlips            \* and banks presented

Channels == 0 .. NChannels - 1

ASSUME AcquisitionAssumption ==
    /\ NChannels \in Nat \ {0} /\ Size \in Nat \ {0} /\ TagMod \in Nat \ {0}
    /\ Masks \subseteq SUBSET Channels /\ {} \notin Masks
    /\ Sizes \subseteq [Channels -> Nat]
    /\ Users \subseteq {"ioc", "raw"}
    /\ {MaxPuts, MaxTags} \subseteq [{"ioc", "raw"} -> Nat] /\ MaxFlips \in Nat

VARIABLES
    user,        \* who uses the device
    puts, tags,  \* mask changes, and tag increments, so far
    \* the device
    keep, tag, ready,
    bank,        \* being filled: its number, and the mask and the tag it began with
    armed,       \* it is to be presented
    words,       \* circle_data: the channel and the bank of each word
    slow,        \* slow_data: tags at begin and end, and the bank
    \* the IOC
    mask,        \* MASK2_, and so the send cache of chan_keep
    tagRbv,      \* TAG_RBV
    regState,    \* "idle", "writing", "queued" behind a write in progress
    sending,     \* registers in reg_send, in order
    wire,        \* messages to the device, in order
    chain,       \* what the chain of records started by CMD waits for
    memRx, slowRx,   \* receive caches of circle_data and slow_data
    config,      \* CONFIG_ of each channel's records
    changed,     \* channels whose CONFIG_ has not seen the last change
    offset, step, size,   \* of RecInfo of the channel's WF record
    wf,          \* WF
    slowRaw,     \* SLOWRAW
    \* of the IOC's last increment of the tag (history)
    asked,       \* puts by then
    overtakes,   \* it goes to the device before the mask: a write waits behind another
    late,        \* channels whose CONFIG_ had not seen the mask
    inUse,       \* the tag was in use already
    \* clients
    at,          \* what a client does next
    T,           \* the tag it has chosen
    chosen,      \* the mask it wants
    gotSlow,     \* what it has read of slow_data
    gotKeep, got,    \* in get_channels: the mask, and the waveforms it returns
    \* what happened to clients (history)
    since,       \* the bank that was being filled when it changed its settings
    disturbed,   \* those whose mask another has changed since
    reused,      \* those that chose a tag that was in use already
    setBack      \* one has written a tag older than the device's

devVars == <<keep, tag, ready, bank, armed, words, slow>>
incremented == <<asked, overtakes, late, inUse>>
iocVars == <<mask, tagRbv, regState, sending, wire, chain, memRx, slowRx, config, changed,
             offset, step, size, wf, slowRaw, incremented>>
noted == <<since, disturbed, reused, setBack>>
rawVars == <<at, T, chosen, gotSlow, gotKeep, got, noted>>
vars == <<user, puts, tags, devVars, iocVars, rawVars>>

----------------------------------------------------------------------------
\* The device.

\* Tags are eight bits.
NextTag_Unmasked(t) == t + 1
NextTag_Same(t) == t
NextTag(t) == (t + 1) % TagMod

\* The channels of a mask, and the one that word i is sampled from.
Selected(m) == {ch \in Channels : NChannels - 1 - ch \in m}

ChannelOf(m, i) ==
    CHOOSE ch \in Selected(m) :
        Cardinality({c \in Selected(m) : c < ch}) = i % Cardinality(Selected(m))

\* circle_buf_flip is written.
Flip ==
    /\ ready' = FALSE
    /\ armed' = TRUE
    /\ UNCHANGED <<keep, tag, bank, words, slow>>

\* The bank is full, and the next one begins; the mask, or the tag, may have changed
\* while it was filled.
Fill ==
    /\ armed
    /\ armed' = FALSE
    /\ ready' = TRUE
    /\ words' = [i \in 0 .. Size - 1 |->
                    [channel |-> ChannelOf(IF i < Size \div 2 THEN bank.keep ELSE keep, i),
                     acq |-> bank.number]]
    /\ slow' = [old |-> bank.tag, new |-> tag, acq |-> bank.number]
    /\ bank' = [number |-> bank.number + 1, keep |-> keep, tag |-> tag]
    /\ UNCHANGED <<user, puts, tags, keep, tag, iocVars, rawVars>>

----------------------------------------------------------------------------
\* The IOC.  The worker sends what is queued, in order; a write carries what the
\* send cache holds when it leaves.
Send ==
    /\ sending # <<>>
    /\ LET r == Head(sending)
       IN  wire' = Append(wire, [reg |-> r, value |-> CASE r = "keep" -> mask
                                                        [] r = "tag" -> tagRbv
                                                        [] OTHER -> {}])
    /\ sending' = Tail(sending)
    /\ UNCHANGED <<user, puts, tags, devVars, mask, tagRbv, regState, chain, memRx, slowRx,
                   config, changed, offset, step, size, wf, slowRaw, incremented, rawVars>>

\* A write of r is queued: DevReg::queue.
QueueWrite(r) ==
    /\ regState' = [regState EXCEPT ![r] = IF @ = "idle" THEN "writing" ELSE "queued"]
    /\ sending' = IF regState[r] = "idle" THEN Append(sending, r) ELSE sending

\* The device answers the write at the head of the wire: the operation ends, and a
\* write that is queued begins.
Written(r) ==
    /\ wire # <<>> /\ Head(wire).reg = r
    /\ wire' = Tail(wire)
    /\ regState' = [regState EXCEPT ![r] = IF @ = "queued" THEN "writing" ELSE "idle"]

WrittenKeep ==
    /\ Written("keep")
    /\ keep' = Head(wire).value
    /\ sending' = IF regState["keep"] = "queued" THEN Append(sending, "keep") ELSE sending
    /\ UNCHANGED <<user, puts, tags, tag, ready, bank, armed, words, slow, mask, tagRbv, chain,
                   memRx, slowRx, config, changed, offset, step, size, wf, slowRaw, incremented,
                   rawVars>>

WrittenTag ==
    /\ Written("tag")
    /\ tag' = Head(wire).value
    /\ UNCHANGED <<user, puts, tags, keep, ready, bank, armed, words, slow, mask, tagRbv,
                   sending, chain, memRx, slowRx, config, changed, offset, step, size, wf,
                   slowRaw, incremented, rawVars>>

\* CMD_ has been written, or RDY_RBV_ has seen no ready bit: it reads the register.
Ask(r) ==
    /\ chain' = r
    /\ sending' = Append(sending, r)

WrittenFlip ==
    /\ Written("flip")
    /\ Flip
    /\ Ask("ready")
    /\ UNCHANGED <<user, puts, tags, mask, tagRbv, memRx, slowRx, config, changed, offset, step,
                   size, wf, slowRaw, incremented, rawVars>>

\* A read of the chain is answered; the next record of the chain asks for its own.
Read(r) ==
    /\ wire # <<>> /\ Head(wire).reg = r
    /\ wire' = Tail(wire)
    /\ UNCHANGED <<user, puts, tags, devVars, mask, tagRbv, regState, config, changed, offset,
                   step, size, wf, slowRaw, incremented, rawVars>>

ReadReady ==
    /\ Read("ready")
    /\ Ask(IF ready THEN "circle" ELSE "ready")
    /\ UNCHANGED <<memRx, slowRx>>

ReadCircle ==
    /\ Read("circle")
    /\ memRx' = words
    /\ Ask("slow")
    /\ UNCHANGED slowRx

ReadSlow ==
    /\ Read("slow")
    /\ slowRx' = slow
    /\ chain' = "copy"
    /\ UNCHANGED <<memRx, sending>>

\* NEXT_FOUT_ processes the signals: the WF of each that is selected takes its slice
\* of the cache, which has been read already; then SLOWRAW is processed.
Copy ==
    /\ chain = "copy"
    /\ chain' = "off"
    /\ wf' = [ch \in Channels |->
                IF config[ch] = -1 THEN wf[ch]
                ELSE Slice(memRx, Size, offset[ch], step[ch], size[ch], Size)]
    /\ slowRaw' = slowRx
    /\ UNCHANGED <<user, puts, tags, devVars, mask, tagRbv, regState, sending, wire, memRx, slowRx,
                   config, changed, offset, step, size, incremented, rawVars>>

\* CMD is processed, by an operator, or again after the holdoff time.
Command ==
    /\ user = "ioc" /\ chain = "off" /\ bank.number <= MaxFlips
    /\ chain' = "flip"
    /\ QueueWrite("flip")
    /\ UNCHANGED <<user, puts, tags, devVars, mask, tagRbv, wire, memRx, slowRx, config, changed,
                   offset, step, size, wf, slowRaw, incremented, rawVars>>

\* MASK is put: MASK2_ writes chan_keep, without waiting, and MASK3_ splits the mask.
PutMask(m) ==
    /\ user = "ioc" /\ puts < MaxPuts["ioc"]
    /\ puts' = puts + 1
    /\ mask' = m
    /\ QueueWrite("keep")
    /\ changed' = Channels
    /\ UNCHANGED <<user, tags, devVars, tagRbv, wire, chain, memRx, slowRx, config, offset, step,
                   size, wf, slowRaw, incremented, rawVars>>

\* The monitor of a channel processes CONFIG_; OFFSET and STEP follow it, unless the
\* channel is not selected.  Both refuse values that make no sense.
Configure_OnChange(ch) ==
    /\ ch \in changed
    /\ changed' = changed \ {ch}
    /\ LET slot == SplitBits(mask, NChannels)[ch]
           new == slot >= 0 /\ slot # config[ch]
       IN  /\ config' = [config EXCEPT ![ch] = slot]
           /\ offset' = IF new THEN [offset EXCEPT ![ch] = slot] ELSE offset
           /\ step' = IF new THEN [step EXCEPT ![ch] = CountBits(mask, NChannels)] ELSE step
    /\ UNCHANGED <<user, puts, tags, devVars, mask, tagRbv, regState, sending, wire, chain, memRx,
                   slowRx, size, wf, slowRaw, incremented, rawVars>>

Configure(ch) ==
    /\ ch \in changed
    /\ changed' = changed \ {ch}
    /\ LET slot == SplitBits(mask, NChannels)[ch]
           count == CountBits(mask, NChannels)
       IN  /\ config' = [config EXCEPT ![ch] = slot]
           /\ offset' = IF slot >= 0 THEN [offset EXCEPT ![ch] = slot] ELSE offset
           /\ step' = IF slot >= 0 /\ count > 0 THEN [step EXCEPT ![ch] = count] ELSE step
    /\ UNCHANGED <<user, puts, tags, devVars, mask, tagRbv, regState, sending, wire, chain, memRx,
                   slowRx, size, wf, slowRaw, incremented, rawVars>>

\* ca.py increments the tag, after its settings: TAGINC_CMD, then TAG_RBV.  It
\* waits neither for chan_keep to be written nor for the monitors to be delivered.
IncrementTag ==
    /\ user = "ioc" /\ tags < MaxTags["ioc"]
    /\ regState["tag"] = "idle"
    /\ tags' = tags + 1
    /\ tagRbv' = NextTag(tagRbv)
    /\ QueueWrite("tag")
    /\ asked' = puts
    /\ overtakes' = (regState["keep"] = "queued")
    /\ late' = changed
    /\ inUse' = (NextTag(tagRbv) \in {tag, bank.tag, slow.old, slowRaw.old})
    /\ UNCHANGED <<user, puts, devVars, mask, wire, chain, memRx, slowRx, config, changed, offset,
                   step, size, wf, slowRaw, rawVars>>

----------------------------------------------------------------------------
\* The clients of leep/raw.py.  An exchange that is not answered in time raises;
\* whether a write was executed is then not known.
Raises(c) == at' = [at EXCEPT ![c] = "idle"]

Goto(c, place) == at' = [at EXCEPT ![c] = place]

OfClient(c, place) == user = "raw" /\ at[c] = place

\* Settings are written: here, the mask.  (A client that writes none is one that
\* chooses the mask the device has.)
ChooseMask(c) ==
    /\ OfClient(c, "idle") /\ puts < MaxPuts["raw"]
    /\ puts' = puts + 1
    /\ since' = [since EXCEPT ![c] = bank.number]
    /\ \E m \in Masks :
          /\ chosen' = [chosen EXCEPT ![c] = m]
          /\ \/ keep' = m /\ Goto(c, "readTag")
             \/ keep' \in {keep, m} /\ Raises(c)
    /\ disturbed' = (disturbed \ {c})
           \cup {d \in Clients \ {c} : at[d] \notin {"idle", "done"} /\ keep' # keep}
    /\ UNCHANGED <<user, tags, tag, ready, bank, armed, words, slow, iocVars, T, gotSlow,
                   gotKeep, got, reused, setBack>>

\* wait_for_acq(tag=True).  Another client may read the same tag before this one has
\* written the next.
ReadTag(c) ==
    /\ OfClient(c, "readTag")
    /\ T' = [T EXCEPT ![c] = NextTag(tag)]
    /\ reused' = IF NextTag(tag) \in {bank.tag, slow.old} THEN reused \cup {c} ELSE reused \ {c}
    /\ Goto(c, "writeTag") \/ Raises(c)
    /\ UNCHANGED <<user, puts, tags, devVars, iocVars, chosen, gotSlow, gotKeep, got, since,
                   disturbed, setBack>>

WriteTag(c) ==
    /\ OfClient(c, "writeTag") /\ tags < MaxTags["raw"]
    /\ tags' = tags + 1
    /\ \/ tag' = T[c] /\ Goto(c, "arm")
       \/ tag' \in {tag, T[c]} /\ Raises(c)
    /\ setBack' = (setBack \/ tag' \notin {tag, NextTag(tag)})
    /\ UNCHANGED <<user, puts, keep, ready, bank, armed, words, slow, iocVars, T, chosen,
                   gotSlow, gotKeep, got, since, disturbed, reused>>

Arm(c) ==
    /\ OfClient(c, "arm") /\ bank.number <= MaxFlips
    /\ \/ Flip /\ (Goto(c, "poll") \/ Raises(c))
       \/ UNCHANGED devVars /\ Raises(c)
    /\ UNCHANGED <<user, puts, tags, iocVars, T, chosen, gotSlow, gotKeep, got, noted>>

\* The wait ends when the device is ready, or with a timeout.
Poll(c) ==
    /\ OfClient(c, "poll")
    /\ \/ ready /\ Goto(c, "readSlow")
       \/ Raises(c)
    /\ UNCHANGED <<user, puts, tags, devVars, iocVars, T, chosen, gotSlow, gotKeep, got, noted>>

ReadSlowData(c) ==
    /\ OfClient(c, "readSlow")
    /\ gotSlow' = [gotSlow EXCEPT ![c] = slow]
    /\ Goto(c, "compare") \/ Raises(c)
    /\ UNCHANGED <<user, puts, tags, devVars, iocVars, T, chosen, gotKeep, got, noted>>

TagMatch_EndOnly(c) == gotSlow[c].new = T[c]

TagMatch(c) == gotSlow[c].old = T[c] /\ gotSlow[c].new = gotSlow[c].old

\* All done; or the waveform is the one before, and it tries again; or another
\* client has changed the tag.
Compare(c) ==
    /\ OfClient(c, "compare")
    /\ IF TagMatch(c) THEN Goto(c, "readKeep")
       ELSE IF (gotSlow[c].old - T[c]) % TagMod = TagMod - 1 THEN Goto(c, "arm")
       ELSE Raises(c)
    /\ UNCHANGED <<user, puts, tags, devVars, iocVars, T, chosen, gotSlow, gotKeep, got, noted>>

\* get_channels, of the channels it chose, which have to be kept.
ReadKeep(c) ==
    /\ OfClient(c, "readKeep")
    /\ gotKeep' = [gotKeep EXCEPT ![c] = keep]
    /\ \/ chosen[c] \subseteq keep /\ Goto(c, "readData")
       \/ Raises(c)
    /\ UNCHANGED <<user, puts, tags, devVars, iocVars, T, chosen, gotSlow, got, noted>>

\* Extra samples are lopped off, so that each channel has the same number.
ReadData(c) ==
    /\ OfClient(c, "readData")
    /\ LET count == CountBits(gotKeep[c], NChannels)
           whole == Size - (Size % count)
       IN  got' = [got EXCEPT ![c] = [ch \in Channels |->
                    IF ch \in Selected(gotKeep[c])
                    THEN Slice(words, whole, SplitBits(gotKeep[c], NChannels)[ch], count, 0, Size)
                    ELSE <<>>]]
    /\ Goto(c, "done") \/ Raises(c)
    /\ UNCHANGED <<user, puts, tags, devVars, iocVars, T, chosen, gotSlow, gotKeep, noted>>

Return(c) ==
    /\ OfClient(c, "done")
    /\ Goto(c, "idle")
    /\ UNCHANGED <<user, puts, tags, devVars, iocVars, T, chosen, gotSlow, gotKeep, got, noted>>

----------------------------------------------------------------------------
Init ==
    /\ user \in Users
    /\ puts = 0 /\ tags = 0
    /\ mask \in Masks /\ keep = mask
    /\ asked = 0 /\ overtakes = FALSE /\ late = {} /\ inUse = FALSE
    /\ tagRbv = 0
    /\ tag = IF user = "ioc" THEN 0 ELSE TagMod - 1
    /\ ready = FALSE /\ armed = FALSE
    /\ bank = [number |-> 1, keep |-> keep, tag |-> tag]
    /\ words = [i \in 0 .. Size - 1 |-> [channel |-> -1, acq |-> 0]]
    /\ memRx = words
    /\ slow = [old |-> tag, new |-> tag, acq |-> 0]
    /\ slowRx = slow /\ slowRaw = slow
    /\ regState = [r \in {"keep", "tag", "flip"} |-> "idle"]
    /\ sending = <<>> /\ wire = <<>>
    /\ chain = "off"
    /\ changed = {}
    /\ config = SplitBits(mask, NChannels)
    /\ offset = [ch \in Channels |-> IF config[ch] >= 0 THEN config[ch] ELSE 0]
    /\ step = [ch \in Channels |-> CountBits(mask, NChannels)]
    /\ size \in Sizes
    /\ wf = [ch \in Channels |-> <<>>]
    /\ at = [c \in Clients |-> "idle"]
    /\ T = [c \in Clients |-> 0]
    /\ chosen = [c \in Clients |-> {}] /\ gotKeep = chosen
    /\ gotSlow = [c \in Clients |-> slow]
    /\ got = [c \in Clients |-> wf]
    /\ since = [c \in Clients |-> 0]
    /\ disturbed = {} /\ reused = {} /\ setBack = FALSE

Ioc ==
    \/ Send \/ WrittenKeep \/ WrittenTag \/ WrittenFlip
    \/ ReadReady \/ ReadCircle \/ ReadSlow \/ Copy \/ Command
    \/ \E m \in Masks : PutMask(m)
    \/ \E ch \in Channels : Configure(ch)
    \/ IncrementTag

Client(c) ==
    \/ ChooseMask(c) \/ ReadTag(c) \/ WriteTag(c) \/ Arm(c) \/ Poll(c)
    \/ ReadSlowData(c) \/ Compare(c) \/ ReadKeep(c) \/ ReadData(c) \/ Return(c)

Next == Fill \/ Ioc \/ \E c \in Clients : Client(c)

Spec == Init /\ [][Next]_vars

----------------------------------------------------------------------------
TypeOK ==
    LET Tags == 0 .. TagMod - 1
        Registers == {"keep", "tag", "flip", "ready", "circle", "slow"}
        Data == [0 .. Size - 1 -> [channel : {-1} \cup Channels, acq : Nat]]
        Slow == [old : Tags, new : Tags, acq : Nat]
        Samples == Seq([channel : {-1} \cup Channels, acq : Nat])
    IN  /\ user \in {"ioc", "raw"}
        /\ {puts, tags, asked} \subseteq Nat
        /\ {keep, mask} \subseteq Masks
        /\ {tag, tagRbv} \subseteq Tags
        /\ {ready, armed, overtakes, inUse, setBack} \subseteq BOOLEAN
        /\ bank \in [number : Nat, keep : Masks, tag : Tags]
        /\ {words, memRx} \subseteq Data
        /\ {slow, slowRx, slowRaw} \subseteq Slow
        /\ regState \in [{"keep", "tag", "flip"} -> {"idle", "writing", "queued"}]
        /\ sending \in Seq(Registers)
        /\ \A i \in DOMAIN wire : wire[i].reg \in Registers
        /\ chain \in {"off", "flip", "ready", "circle", "slow", "copy"}
        /\ {changed, late} \subseteq SUBSET Channels
        /\ {disturbed, reused} \subseteq SUBSET Clients
        /\ config \in [Channels -> Int]
        /\ {offset, step, size} \subseteq [Channels -> Nat]
        /\ since \in [Clients -> Nat]
        /\ wf \in [Channels -> Samples]
        /\ at \in [Clients -> {"idle", "readTag", "writeTag", "arm", "poll", "readSlow",
                               "compare", "readKeep", "readData", "done"}]
        /\ T \in [Clients -> Tags]
        /\ {chosen, gotKeep} \subseteq [Clients -> Masks \cup {{}}]
        /\ gotSlow \in [Clients -> Slow]
        /\ got \in [Clients -> [Channels -> Samples]]

\* SLOWRAW shows the tag that ca.py has waited for, and nothing has been changed since
\* it was incremented.
TagShown ==
    /\ user = "ioc" /\ tags > 0 /\ puts = asked /\ ~inUse
    /\ slowRaw.old = tagRbv /\ slowRaw.new = tagRbv

\* The waveform of a channel is its samples of the acquisition SLOWRAW is of, all of
\* those among the first n words.
Reflects(ch, n) ==
    /\ Len(wf[ch]) = Cardinality({i \in 0 .. n - 1 : ChannelOf(mask, i) = ch})
    /\ \A k \in 1 .. Len(wf[ch]) : wf[ch][k] = [channel |-> ch, acq |-> slowRaw.acq]

\* "Wait for the next acquisition which includes the side-effects of all preceding
\* register writes" (ca.py): once SLOWRAW has the tag, the waveform of each channel
\* selected before the tag was incremented holds that channel's samples, up to the
\* size its record has, of one acquisition; whatever is in flight, and although the
\* mask goes to the device and to the records of the channel on different ways.
\* Excused are an increment that overtakes the mask, and channels whose CONFIG_ had
\* not seen it.
ReflectsSettings ==
    TagShown /\ ~overtakes =>
        \A ch \in Selected(mask) \ late : Reflects(ch, SliceEnd(Size, size[ch]))

\* What ca.py says, without excuse for the increment that overtakes the mask.
SettingsIncluded ==
    TagShown =>
        \A ch \in Selected(mask) \ late : Reflects(ch, SliceEnd(Size, size[ch]))

\* The size limit is optional (devsignal.cpp): where nobody has set one, as for any WF
\* record of the templates, a waveform has all samples of its channel.
AllSamples ==
    TagShown /\ ~overtakes => \A ch \in Selected(mask) \ late : Reflects(ch, Size)

\* The same promise of raw.py, among clients that choose tags by a read and a write,
\* between which others do the same, and whose exchanges may fail half way: a tag
\* that matches is that of an acquisition begun after the client's settings, unless
\* it was in use when the client chose it; and what get_channels then returns are
\* samples of the channels asked for, from that acquisition or a later one, although
\* mask and data are read one after the other while other clients start
\* acquisitions, unless another has changed the mask meanwhile.
OwnSamples ==
    \A c \in Clients \ reused :
        /\ at[c] \in {"readKeep", "readData", "done"} => gotSlow[c].acq > since[c]
        /\ at[c] = "done" /\ c \notin disturbed =>
              \A ch \in Selected(chosen[c]) :
                  /\ Len(got[c][ch]) = Size \div CountBits(gotKeep[c], NChannels)
                  /\ \A k \in 1 .. Len(got[c][ch]) :
                         got[c][ch][k].channel = ch /\ got[c][ch][k].acq > since[c]

\* When that can be: a user, the IOC or a client, chooses a tag in use only if a client
\* has set the tag back, or when the tags have come round.  Two clients that choose the
\* same tag do no harm.
TagsFresh ==
    /\ inUse => tags >= TagMod
    /\ reused # {} => setBack \/ tags + 1 >= TagMod

\* What raw.py says, without excuse for a tag that was in use: a tag that matches is
\* that of an acquisition begun after the client's settings.
TagTells ==
    \A c \in Clients : at[c] \in {"readKeep", "readData", "done"} => gotSlow[c].acq > since[c]
=============================================================================
