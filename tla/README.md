# FEED core: a TLA+ model of the driver and its device support

`feed-core` lets EPICS records read and write the registers of LEEP devices
over UDP. This directory holds a formal model of the part of it that is hard
to test: the worker that carries registers to and from a device, the life of a
connection, the records that wait for both, the acquisition of waveforms and its
two kinds of clients, the thread that transforms waveforms, the readers of what a
device says of itself, and the launcher of programs. It says what is modelled, what
TLC checks on small instances, and what TLAPS proves for every size.

Paths below are relative to the repository (`src/driver/` is the driver,
`documentation/` its user documentation); `PROJECT.json` names, for each
definition of the modules, the lines it models.

## 1. Inventory

| Component | State | Operations | Hard behaviour |
|---|---|---|---|
| Registers, `DevReg` (device.cpp:75-194) | `state`, queued flags, three lists of waiting records, caches `mem_rx`, `mem_tx`, address tracking | `queue`, `process`, `reset` | requests that arrive while an operation is in progress: merged, queued, cancelled |
| Message engine, `Device::run`, `handle_send`, `handle_process`, `handle_timeout`, `do_timeout` | `inflight` slots, `reg_send`, `send_seq`, `records` | fill and send messages, match replies, time out | lost, late, duplicated, reordered packets; a send that blocks half way; wrap of the sequence number; partial timeouts |
| Connection, `handle_state`, `reset`, `handle_inspect` | `current`, `peer_addr`, requests for a reset or an error, `reg_by_name`, `reg_interested` | set address, force error, poll, read ROM, associate records, reset | requests made while the worker is unlocked in the middle of `handle_inspect`; replies of an earlier device; exceptions |
| Register records (devreg.cpp, devutil.cpp) | PACT, alarm, pointer to the register | process, complete, `connected` | a record is processed twice per operation, in two threads, with resets in between |
| Watch (devwatch.cpp) | retry callback | start, complete, retry, cancel | a register that changes, or vanishes, between reply and completion |
| Sync and device-wide records (devmain.cpp) | `wait_for` | start, count, finish; set address, force error, and copies of strings and counters | counts completions of several registers; takes no lock |
| Signal records (devsignal.cpp) | `offset`, `step`, `size`, `scale` of a register record | set one of them | change between the arrival of a register and its copy |
| ROM and JSON readers (util/rom.cpp, util/jblob.cpp, util/zpp.cpp) | `context` of a document | prepare, parse | boundaries of descriptors; state shared by the objects of a document |
| Simulator (sim/) | register storage, acquisition state | answer requests, stop | interruption, waveform acquisition |
| FFT worker (rf/fftmain.c, rf/fftdev.c) | queue of messages, results | post, transform, fetch | pointers into records, a bounded queue, a mutex that covers half of the copy |
| Waveform calculations (rf/asub.c, rf/calc.c) | a compiled expression | arithmetic; channel masks | a cache of compiled code |
| Launcher (python/feed_launcher.py) | child process, command queue | start, stop, abort, SIGCHLD | commands and exits in any order; reconnection |
| Client (python/leep/) | a socket | exchange, read, write, wait for acquisition | lost replies, two clients |
| Waveform records (common/wf/Db) | mask, tag, the chain of records of an acquisition | arm, wait, read, distribute | a mask and a tag written while waveforms are sampled; offsets that follow by monitors |
| Other databases, displays, build | – | – | – |

How they interact. Records call `DevReg::queue` with the device's lock held and
go busy. The worker holds the lock except while it calls records back and
polls (device.cpp:899-998) and while it tells records that they are connected
(device.cpp:793-804). When an operation ends its records move to
`Device::records`; the next iteration takes that list and completes each,
unlocked. Timeouts ask for a reset, which `handle_state` performs at the end of
the same iteration.

What makes each correct:

* registers: an operation completes only with words of that operation; nobody
  waits on a list that nothing will serve; a queued write carries the newest
  cache;
* engine: every word of an operation is accounted for; a slot is never matched
  with the wrong reply; whatever is lost, the waiting record is called back;
* connection: everything the driver believes comes from one device, the one
  at the current address; requests to stop or move are heeded;
* records: a busy record is completed exactly when what it waits for is over,
  and its value or alarm says what happened;
* acquisition: a waveform whose tag matches was sampled with the settings made
  before the tag was chosen, and each channel gets its own samples;
* FFT: what is shown is never older than what was shown before, and ends as the
  transform of the last waveform;
* ROM and JSON: what is written is read back; no register takes properties of
  another;
* launcher: one child, no command twice, and a status that tells the truth.

## 2. Modules

| Module | Models | Kind |
|---|---|---|
| `Registers` | `DevReg` and its lists; shared by all modules below | operators over shared variables |
| `RegisterService` | what the driver promises to records | abstract specification |
| `Engine` | `Device::run` moving words over a network, with the device | detailed; implements `RegisterService` |
| `Registers_proofs` | lemmas about the operators of `Registers`, for the three modules that use them | TLAPS proofs |
| `Engine_refines` | `Engine` implements `RegisterService`; what a device holds, and who waits | TLAPS proofs over `Engine_proofs` |
| `Engine_proofs`, `Connection_proofs`, `Records_proofs`, `FFT_proofs`, `Tools_proofs`, `Acquisition_proofs` | theorems about the module named (`Acquisition_proofs` also about `Slices`; `Tools_proofs` about `Launcher`, `Generator` and `Descriptor`) | TLAPS proofs |
| `Connection` | `Device::current`, requests, reset, ROM, association | specification over `Registers` |
| `Records` | records, Watch, Sync, I/O Intr, over registers that are received word by word | specification over `Registers` |
| `Slices` | channel masks, offsets and steps; the copy of a channel out of a register | pure operators |
| `Acquisition` | a device that samples waveforms, the IOC's records, and clients that talk to the device | specification over `Slices` |
| `Freshness` | what the FFT worker promises to displays | abstract specification |
| `FFT` | the FFT thread, its queue and the records of each signal | detailed; implements `Freshness` |
| `Descriptor` | `ROM::prepare`, `ROM::parse`, and the callbacks of `JBlob::parse` | specification |
| `Generator` | the waveform calculator and its compiled expression | specification |
| `Launcher` | `ProcControl`, its commands and its child | specification |
| `MCEngine`, `MCConnection`, `MCRecords`, `MCFFT`, `MCAcquisition` | instances for TLC | constants |
| `MCTools` | an instance of `Descriptor`, `Generator` and `Launcher`, which share nothing: a behavior is one of one of them | instances |

`Engine`, `Connection` and `Records` unroll the same loop, `Device::run`. One action is
what happens between two points where another thread or the network can interfere, or
one iteration of an inner loop; `pc` says where the worker is.

**Data.** A word read is represented by *when* it was sampled (`memRx` holds the
number of the operation during which the device sampled it); a word written by
the client call that set it. Registers, records and addresses are model values.
The order of the records within one list is left out: all of them are called
back in one iteration.

**Registers.** `Queue` is `DevReg::queue` with one disjunct per case of its
switch. `Finish` is the end of `handle_process` when the last word has come:
queued write first, else queued read, else `InSync`. `Cancel` is what
`do_timeout` does to a register, `Reset` what `Device::reset` does to all.

**Engine.** `FillWord`/`FillDone` are the first pass of `handle_send`,
`SendMessage`/`SendBlocked`/`SendDone` the second; `CompleteRecord` and `Poll`
the unlocked part of `run`; `TakePacket`, `ProcessWord`, `ProcessEnd`
`handle_process`; `HandleTimeout` `handle_timeout` with `do_timeout`;
`StateReset`, `StateQueue`, `StateAttach`, `StateDone` `handle_state`, of which
only what matters to words is kept (`linked`: current is neither Error nor
Idle). `WorkerError` is the catch of `run`, reached where a socket throws.
Requests and replies are sets that only grow; a packet is deliverable while
fewer than `Lifetime` later messages have been sent, so packets are lost,
delayed and duplicated at will. `Resend` says whether the network may execute
a request twice or after its timeout, `Corrupt` whether the device may answer
a word with another address: both are facts about the environment, set per run.
`do_timeout` empties *every* slot of the first register it finds in the message,
as the code does (its inner loop does not compare the register).

**Connection.** A register is one request and one reply here; `sentTo`, `source`
and `owner` record which address was asked, which device filled a cache, and
whose ROM named the registers. `SetAddress` copies the uninitialised address
that `write_address` copies for an empty name: any address. The `bootstrap` flag of a
register that was deleted may read as anything (device.cpp:364): `ResetDevice` chooses
for each record, and `spared` (history) has the records left with such a register.
What is done with a register after it was deleted is not modelled: `Queue` takes one
that is present. `handle_state`
leaves Idle when a name has been set (device.cpp:819-824), but `write_address`
also asks for a reset, which always comes first: the step has no action, and
`StateSame` in Idle is guarded by an empty name, so that the deadlock check
shows that none is missing.

**Records.** Engine's slots are abstracted to "a word of this operation arrives"
(`ReceiveWord`, in any order of words) and "the operation times out" (`Timeout`);
`regSend` and `partly` keep what Sync looks at. `Process` is the device support entry
called when a record is processed, `Again` the second call made by `RecInfo::complete`.
`SyncBegin` may act at any point of the worker because `read_sync` takes no lock; it is
one step, so a torn walk of the deque is not covered. The Error sweep of
device.cpp:903-913 is in `Send`. Other threads process records whenever the worker is
unlocked, also while it tells records that they are connected (device.cpp:793-804);
`overtaken` (history) has the write records that `Tell` then found busy. One of them may
stand on two lists of its register, or twice on one, since it can be processed again at
once; on a list of the model it stands once, which no property tells apart, as the
record is excused until the next connection. `Tell` may also leave a record alone, as it
does one whose value is undefined (devreg.cpp:349-350). The Idle state and the polling
of bootstrap registers are left to `Connection`. `awaits`, `done`, `wrote` and `got` are
also history: they record what was asked and what arrived, and guard nothing.

**Slices, Acquisition.** A mask is the set of its bits, a sample its channel and
the number of the bank (the acquisition) it comes from. The device is modelled
from what its users expect of it (`raw.py:314-335`: a waveform may begin before a
setting and end after it): it fills one bank after the other, with a mask and a
tag that may change in between (`Fill`), and presents the bank that it is filling
when it is armed (`Flip`). The order of samples in a bank is
`Simulator_RFS::acquire`'s, which itself acquires at once. `user` is the IOC or
the clients of `raw.py`; they do not share a device, since neither's tag is of
use when the other increments it (`raw.py:328-331`). Of the driver, `Acquisition`
keeps what decides the order of writes: one operation of a register at a time, a
second one queued behind it, `reg_send` in order (`QueueWrite`, `Send`,
`Written`). `PutMask` is `MASK`, `MASK2_` and `MASK3_`; `Configure` the monitor of
one channel, which may come any time later; `WrittenFlip`, `ReadReady`,
`ReadCircle`, `ReadSlow` and `Copy` the chain from `CMD_` to `SLOWRAW`. A step of
a client is one exchange, which is answered, or raises, its write done or not.
The increment of the tag is two exchanges (`ReadTag`, `WriteTag`), between which
other clients read and write it too. `get_channels` is one read of the mask and one of
the data; a read of more than 127 words is several packets (raw.py:502-506), but one
step here. So a bank presented by another client between two of them is not seen to
mix: `OwnSamples` speaks of one reading of the memory. `Sizes` are what
`RecInfo::size`, which nothing initialises, may hold for each channel. The increment of
the IOC comes at any time; `overtakes`, `late` and `inUse` (history) record whether a
write of the mask was waiting behind another, which channels had not seen the mask, and
whether the tag was in use; `disturbed`, `reused` and `setBack` record the like of
clients. They are read by properties, and guard nothing.

**FFT, Freshness.** A message carries the length by value and the arrays by
reference: `ReadInput` reads them when the worker gets there. Loops over arrays
are cut in two halves, so that a loop in one thread may meet one in another. The
mutex is held from `read1` to `write2`; `RecvLock` takes the lengths while it is
free and `RecvCopy` runs without it. A sample is the number of the waveform it is
from, a bin the set of waveforms of its input: a torn result is one with two.
A record shows its arrays when it has been processed, not while it is being
processed with its lock held: `val` is VALA..VALD of the record, `shown` what others
can read. `Freshness` says that what is shown never goes back, and catches up; the
mapping takes, for a result, the newest waveform in its oldest bin.

**Descriptor.** Bytes are numbers, a word of the ROM four bytes; `hostOrder` is
the `prepare` of words, `swap` the argument of `parse`. The header has its real
shifts and masks; `SizeLimit` stands for 0x4000. zlib is a prefix with a length.
An integer of a document is wider than what it is stored in: `Stored` and `Signed` are
the narrowing of jblob.cpp:71-78, and `OutOfRange` tests the bits that the mask of
jblob.cpp:74 has, so that 2^32 + 6 passes for 6. `AddrSize` and `WordSize` are 2^24 and
2^32, and 64 and 1024 in the runs, where enumerating integers must stay cheap.
`nesting` is what yajl keeps of a document; every call that yajl can make of the
callbacks is an action, and the variables below it are those of `context`.
`defined` is history.

**Generator.** A value of an expression is the expression with its arguments, so
that a result shows what it was computed from. An expression is one element; given as
an array of CHAR (calc.c:106-109), it counts as many as it has characters (calc.c:206),
which only makes the arrays it may be evaluated for longer.

**Launcher.** `loop` says where the cothread is: it yields in `EventQueue.Wait`
and in each `caput`, and anything may happen there. `Delta` is called for each
update and loss of a command record, one by one: cothread may merge updates that come
faster than they are handled, and then the number of the last one counts; a command
given between two others is lost with its update.

## 3. Runs

| Run | Question | States (about) |
|---|---|---|
| `engine_core` | a register of two words, one to a message, beside another, sequence numbers modulo 2, duplicated and late packets: is every word accounted for (`WordsAccounted`, `SendQueue`, `SlotsCurrent`), is a late reply ever taken for the answer to another request (`InFlight`), and does Engine implement `RegisterService` (`ServiceSpec`)? | 298 thousand |
| `engine_writes` | a register of two words, reads, writes and cached words between any two steps, a socket that blocks once: does the device end with the cache (`DeviceHasCache`), and do records wait only where they will be served (`WaitsServed`)? | 2.9 million |
| `engine_fair` | two words in one message, a device that corrupts either: `CalledBack` | 99 thousand |
| `connection_core` | two devices, two records, three calls and one fault, freed memory that says anything: `OneDevice`, `Associated`, `HaltedInError`, `SentToOwner` | 1.2 million |
| `connection_fair` | one device, one record, three calls and one fault: `ErrorForced` and `Connects` under fairness | 327 thousand |
| `records_core` | a read, a write and a Sync record, two registers, four calls, one fault: `NobodyForgotten`, `SyncCounts`, `ReadFresh`, `WriteDone`, `SyncWaits`, and `Returned` under fairness | 295 thousand |
| `records_shared` | two Watches, an I/O Intr record, and writes, on one register, four calls, one fault: `WatchReads`, `IntrUpToDate` | 970 thousand |
| `fft` | a complex and a real signal of up to four samples share a worker with a queue of one message, whose plans may fail: `WithinBuffers`, `Settled`, the refinement `StaysFresh`, and `Unblocked` | 34 thousand |
| `acquisition` | the IOC, with two changes of the mask and two increments of the tag, or two clients, with four of each; two channels, five words, two acquisitions: `ReflectsSettings`, `OwnSamples`, `TagsFresh` | 2.7 million |
| `tools` | lists of up to two descriptors in an image that may be too small; documents of up to ten calls; two inputs and outputs of up to three samples, three times; three commands, two children and one lost connection: `RomReadBack`, `JsonRead`, `HeldInputs`, `NoReplay`, `StatusSettles`, `AbortKills` | 870 thousand |
| `records_watch`, `acquisition_hurried` | two statements of the documentation that the code does not keep (section 5) | each stops at its counterexample |

Bounds, and why they are enough. `MaxCalls` counts requests by records (and
retries of a Watch): two suffice for an operation and one queued behind it,
three for both kinds queued or for an address change, a reconnection and a
request, four for a read, a write, a Sync and a reset, or for two Watches that ask twice
each. `MaxFaults` counts
timeouts and exceptions: each ends in a full reset, after which no slot,
list or flag of the past remains, so that a second one starts from a state the
first already reached, apart from late packets, which `engine_core` covers with
repeated timeouts. `SeqMod` 2 makes the 24-bit counter wrap at once.
`MaxSends` bounds after how many sends the socket no longer blocks. Every
register has one or two words: two are enough for an operation to be half done. A
register larger than all message slots together is in no run: the theorems
`NoWordLost` and `ServiceImplemented` cover it, and a device that answers with other
words (`Corrupt`), which of the runs only `engine_fair` has.
The operation numbers are bounded by the calls and by the driver's own polling
being enabled only when idle. Symmetry is used in `acquisition` only: the
other instances are asymmetric.

`fft`: two waveforms of one signal and one of the other meet in a queue of one, so
that a sender waits, refills its arrays before they are read, and changes the
length of a plan; three and four samples are an odd and an even length. A queue of
`2 * FFT_MAX_SIG` would only delay the same cases. `acquisition`: two channels and
five words make the last sample of one channel missing, as with an odd number of
channels of twelve; two masks make each change one to the other, also in the middle of
a bank; the size of one record is zero, that of the other cuts its waveform. The tag
wraps at 4 instead of 256: a client can set it back, and it can come round. The two
clients are interchangeable (`Symmetric`). `tools`:
descriptors of an odd and an even number of bytes and of digits, of which two fit
or do not; integers that are out of range, negative, and too wide but small in their low
bits; ten calls are enough for two objects of which one defines what the
other leaves out, or for an array or an object that does not belong; the launcher
needs two children for one to end while a second is asked for.

Deadlock is checked where the loop of the worker never stops: in the runs of
`Engine`, `Connection` and `Records`. It is not in `fft`, `acquisition` and
`tools` (`CHECK_DEADLOCK FALSE`): the worker of `FFT` may exit, all measurements
and acquisitions may have been made, and a ROM or a document ends.

Fairness. `WF(Worker)`: the loop of `Device::run` is a thread that never stops,
its only wait, `poll`, has a timeout, and `poke_runner` ends it early. In
`Engine`, `SF(Expire(i))`: each iteration of the loop polls, which takes time,
so a message that stays unanswered becomes overdue; nothing is assumed of the
network or the device. `Connection` and `Records`
replace the clock by a bounded number of faults and so assume that what is
asked after the last fault is answered (strong fairness, since the enabling of a
receipt comes and goes with the loop; in `Connection`, of the receipt of some
answer that is expected). In `Records`,
`SF(Send /\ Sending' = {})` says that what is queued is eventually put into
messages; that this is what `handle_send` does is `SendQueue` and
`CalledBack` of `Engine`. Nothing is assumed about when records are processed.
In `FFT` the worker's thread goes on (`WF(Worker)`; failing to make a plan is not
part of it), a record that is being processed goes on (`WF(FetchB)`), a sender that
waits for room gets it before those that come later, as `epicsMessageQueueSend`
lets it (`SF(Post)`), and an event that was posted is processed, although the
mutex is taken and released meanwhile (`SF(Recv)`). In `Launcher` the scheduler of
cothreads runs what is ready (`WF(Loop)`, `WF(Poke)`), and a child that was sent
SIGKILL ends.

Properties that hold only on an instance chosen for it. `DeviceHasCache` is
stated for `Resend = FALSE`: the protocol has no defence against a write that
the network repeats later. `IntrUpToDate` speaks of registers of the ROM: for bootstrap
registers `reset` asks for no scan. `WithinBuffers` rests on `OrderAssumption`.

Properties with an excuse. Where the code breaks what the documentation says, a
property says all that holds besides, and names the case as an excuse which the
history variables record; the statement without the excuse is a definition of the same
module, which TLC finds violated (section 5).
`Associated` excepts records that `reset` left with a register it had deleted
(`spared`); `WriteDone` write records that `persistSettings` found busy (`overtaken`),
until the next connection; `WatchReads` lets a Watch end without a match when
another operation has begun on its register, and excludes bootstrap registers, which a
reset leaves there, not in sync; `ReflectsSettings` excepts an increment that overtakes
the mask (`overtakes`), channels that had not seen it (`late`), a tag in use, and
samples beyond the size of the record; `OwnSamples` a tag in use (`reused`), and, for
the channels of what is returned, a mask that another client changed meanwhile
(`disturbed`). `TagsFresh` bounds the last excuse but one: a tag in use is chosen only
where a client has set the tag back, or tags have come round. `AbortKills` excepts a
loop that an exception has ended.

## 4. Proofs

All theorems hold for every value of the constants that their modules assume: any
number of registers, words, records, slots, addresses, signals, commands and
children, and any number of calls and faults.

| Module | Theorem | States |
|---|---|---|
| `Engine_proofs` | `TypesHold` | `Spec => []TypeOK` |
| | `SendQueueHolds` | `Spec => []SendQueue`: `reg_send` holds, once each, exactly the registers with words to send, and only its front is partly sent |
| | `SlotsStayCurrent` | `Spec => []SlotsCurrent`: a slot carries only words of the operation its register is in |
| | `NoWordLost` | `Spec => []WordsAccounted`: each word of an operation is in exactly one place, unless a reset is about to happen |
| `Engine_refines` | `ServiceImplemented` | `Spec => ServiceSpec`: Engine implements RegisterService |
| | `RepliesTrue` | `Spec => []InFlight`: no reply is taken for the answer to another request, and what a slot will accept happened since the operation of the slot's word began |
| | `WaitersServed` | `Spec => []WaitsServed`: records wait only where they will be served |
| | `DeviceWritten` | `Spec => []DeviceHasCache`, assuming `Resend = FALSE` |
| | `CacheAccounted` | `Spec => []CacheKept`, assuming `Resend = FALSE`: each word of a write has reached the device, is awaited, or will be sent |
| `Connection_proofs` | `TypesHold` | `Spec => []TypeOK` |
| | `NeverMistaken` | `Spec => []OneDevice`: while no reset is pending, all that was read comes from the device at the current address |
| | `StaysHalted` | `Spec => []HaltedInError`: Force Error, once heeded, keeps the device in Error until its address is set |
| | `AskedOfOwner` | `Spec => SentToOwner`: a register of the ROM is asked of the device whose ROM named it |
| | `StaysAssociated` | `Spec => []Associated`: a record points to its register exactly while there is one, but for those that `reset` spared because of what freed memory said |
| `Records_proofs` | `TypesHold` | `Spec => []TypeOK` |
| | `CountsRight` | `Spec => []SyncCounts`: a busy Sync waits for as many completions as will come |
| | `NoneForgotten` | `Spec => []NobodyForgotten`: a busy record is on a list |
| | `ChangesSeen` | `Spec => []IntrUpToDate`, assuming `IntrOfRom` |
| | `SyncsLast` | `Spec => SyncWaits`: a Sync succeeds only after what had words to be sent has completed |
| | `ReadsFresh` | `Spec => ReadFresh`: a read record succeeds only with words of one operation, the one it joined or a later one |
| | `WritesDone` | `Spec => WriteDone`: a write record succeeds only after its write has completed, or, since the last connection, `persistSettings` found it busy |
| | `WatchTrue` | `Spec => WatchReads`: a Watch on a register of the ROM ends with words read since it was processed, on a match or because another operation has begun |
| `FFT_proofs` | `NeverOutside` | `Spec => []WithinBuffers`: the worker stays within its buffers |
| | `TypesHold` | `Spec => []TypeOK` |
| | `LastShown` | `Spec => []Settled`: with nothing on its way, a record shows the transform of the last waveform |
| | `NeverBack` | `Spec => Fresh!Safe`: what is shown never goes back, the safety part of `StaysFresh` |
| `Tools_proofs` | `OnlyOneChild`, `NeverReplayed`, `StatusTrue` | `LauncherSpec => []OneChild`, `[]NoReplay`, `[]StatusSettles` |
| | `ResultsCurrent` | `GeneratorSpec => []HeldInputs`: what a run without alarm puts out is computed from its own inputs and the expression given last |
| | `DefinitionsRead` | `DescriptorSpec => []JsonRead`: each register is as its last well-formed definition says, `info32` as the metadata say, cut to the bits they are stored in |
| | `ReadBack` | `DescriptorSpec => []RomReadBack`: what `prepare` has written, `parse` reads back, in either byte order |
| `Acquisition_proofs` | `TypeCorrect` | `Spec => []TypeOK` |
| | `ReflectsSettingsHold` | `Spec => []ReflectsSettings`: once the tag is there, a WF record holds the samples of its channel, up to its size, of one acquisition begun after the settings, unless the increment overtook the mask, the tag was in use, or the channel had not seen the mask |
| | `OwnSamplesHold` | `Spec => []OwnSamples`: a tag that matches is of a bank begun after the client's settings, unless it was in use; and what the client then reads are its own channels, unless another has changed the mask |
| | `TagsFreshHold` | `Spec => []TagsFresh`: a tag in use is chosen only after a client has set the tag back, or when tags have come round |
| | `NumbersAgree`, `NumbersDistinct` | the two subroutines that number channels agree, and number each channel of a mask differently |
| | `CopyWithin` | a copy out of a register stays within it, and within the record |

Assumptions. `RegistersAssumption`, `EngineAssumption`, `ConnectionAssumption`,
`RecordsAssumption`, `FFTAssumption`, `AcquisitionAssumption`, `LauncherAssumption`,
`ArgumentsAssumption`, `DocumentAssumption` and `RomAssumption` say what the constants
are: sizes are positive, `NoInterest` is not a record, at most 255 slots, finitely many
registers; the arguments of an expression are finitely many; `__metadata__` is no
register; a text in the ROM is made of bytes, a BigInt of hexadecimal digits (of any
other character `unhexchar` makes 0, rom.cpp:35-36, so that it would not be read back),
and no descriptor is Invalid, as one makes `prepare` throw (rom.cpp:147-148); and a
header has room for the limit on the size, 0x4000 (rom.cpp:175-177). No bootstrap
register can be written (device.cpp:39, 53, 60). Two say more. `OrderAssumption`: the
FFT record that is initialised first is the longest of all, since it sizes the shared
buffer (fftdev.c:85), and no check of the code compares the others with it. `IntrOfRom`:
I/O Intr records read registers of the ROM, since `reset` asks for no scan of bootstrap
registers (device.cpp:364-365). Three theorems assume something of the run besides:
`ChangesSeen` assumes `IntrOfRom`, `DeviceWritten` and `CacheAccounted` that the network
does not repeat a request, nor deliver it after its timeout (`Resend = FALSE`). What a
property excuses is part of its statement (section 3); no theorem assumes it away.

**Engine.** All four follow from one inductive invariant, `Inv`: the conjunction of
the four and `Processed`. None is inductive alone. `WordsAccounted` needs
`SendQueue` to know that a word about to be put in a slot is not there already,
and `SlotsCurrent` to know that `queue` finds no slot left over from the
operation before; `SlotsCurrent` needs `WordsAccounted`, because an operation
ends when `nremaining` reaches zero and only the count of received words says
that none is left in a slot. `Processed` says that while a reply is being
processed the words before `rxWord` have left their message, so that the slot
can be freed at the end of it. `WordsAccounted` is weakened by `resetReq`
because `do_timeout` empties other registers' slots as well, and a reset
follows before any other thread gets the lock. Two of the four are the asserts of
`do_timeout`: that a register found in a slot is in progress (`SlotsCurrent`), and
that one fully sent is not in `reg_send` (`SendQueue`). The proof has one lemma per
handler (`TrackSafe`, `ReceiveSafe`, `FillSafe`, `TimeoutSafe`, `ResetSafe`: what
each does to the accounting) and one step per action.

**Engine implements RegisterService.** A step of `Engine` is one of the service or
leaves its variables alone; the step to justify is `ProcessWord`, which stores a word
that the service samples, or writes, in the same step: the reply must tell of
something the device did since the operation began. `InFlight` is that fact,
stated of all that is on its way. `Headers`: a packet keeps the number it was sent
with, so that two with the same number that are both deliverable are one, as
`Lifetime` is no more than `SeqMod`. `RequestsKept`: a slot that waits for a
request carries words of that request alone. `AnswersTrue`: a word of a reply that the
driver would accept was executed by the device for the operation in progress, and
`WordsTrue`: so were those received. `PacketLive`: the reply being processed is such
a reply, unless a word of it was refused. `CacheKept` is the same for what the
device holds: in a register with no write queued, the words received hold there what
they hold in the send cache, and the words in a slot are about to (`WordsSettled`),
since a request that waits to be executed stores only words that are awaited
(`RequestsAwaited`) and a reply tells of what is stored (`AnswersStored`). It needs
`Resend = FALSE`: a request repeated by the network after the next write would undo
it.

**Connection.** `OneDevice` needs to know where replies that are already in `inbox`
come from (`Replies`), that a bootstrap register that is in sync has been read and
not written (`BootRead`: otherwise the ROM could be taken from a cache nobody
filled), and that no reset can have been missed while records are told that they are
connected (`Telling`). `HaltedInError` is strengthened by `Halt`: when the reset of
an error has been served nothing is on its way, so that no timeout can follow and
ask for another reset, which would end the Error state. `Known` says that registers
without an entry have no operation. `Associated` is inductive beside this `Inv`: a reset
leaves a pointer to a deleted register with exactly the records that it adds to `spared`
(`ResetKeepsAssociated`), and every other step takes pointers and registers together
(`NextAssociated`).

**Records.** Four invariants. `BusyInv` says where a record may be: a Sync is, for
each register, in at most one of `records_inprog`, `records` and the completion list
taken by the worker (`Once`), and `wait_for` is the number of registers for which it
is in one of them. `SyncCounts` alone says nothing of a Sync that is idle; the
invariant must add that such a Sync is nowhere, or the next start would count it
twice, except in the completion list of the Error sweep (device.cpp:903-913), which
completes every record. `Taken` says that this list is empty whenever the worker holds
the lock again. `IntrInv` is for I/O Intr records: `UpToDate` is `IntrUpToDate`
without the condition that the register exists, so that it survives resets, and
`Unknown` says that a register that does not exist is not valid.

`ServedInv` adds to `BusyInv` which operation a waiting record waits for, in each place
where it may be. A read record, or a write record that is not in `overtaken`
(`Careful`), is in one place, of the register it names
(`Placed`). Queued, it waits for an operation not after the next one; in
`records_inprog`, for one not after the current one, and of its own kind; handed back,
for one that has completed (`WriteOK`), or whose words are all there if the register is
still valid (`ReadOK`). The last is the delicate one: the next operation on the register
may begin, and overwrite the words, before the record is completed. It cannot: the
worker completes its list before it receives again, and what it has received meanwhile
is for a register that is still to be sent (the last conjunct of `ReadOK`; `queue` puts
it at the end of `reg_send`, behind what is sent in part). `SyncDone` says the same for
each register a Sync waits for, unless the connection is lost or about to be (`Fallen`);
then the Sync is not completed before the reset, and ends with an alarm. `Early` says
that no record waits while there is no connection, so that none of them is carried over
into the next one. A Sync that has one completion left is still in `records_inprog` of
no other register: that is where `SyncsLast` uses that `wait_for` counts right.

`WatchInv` is for a Watch among any number of other records that read, write and watch
its register. `WatchPlace`: it waits for its timer, or for one read of its register, or
to be completed after one. Were it in two places, a retry could begin while a completion
is due. Without a register it is on no list by the time a connection can bring the
register back, although its timer may still be pending. `WatchWords`: wherever it waits,
the operation that will complete it is not before the one it asked for or joined, and
from the end of that operation until the completion the register holds words of that
operation or later ones. Another operation may begin in between and overwrite them: the
words it brings are later still, and none is lost (`Further` is what every step but a
reset does to a register). Before a reset the words may be anybody's (`Doomed`); the
Watch then ends with an alarm.

**FFT.** `Posted`: the lengths in the queue are even and no longer than the first
record's array. An odd length would put the middle bin before the buffer, as `-len/2`
rounds away from zero (`EvenFits`).

`Follow` says where the latest waveform of a signal is: in the last message of the
signal in the queue, in the worker, in the shared buffer with an event posted, with the
record that is copying it, or shown, and that whoever holds it holds its length. What
makes it inductive is the order in which a sender refills its arrays and posts: a
message that is posted later carries the arrays as they are then, so that an earlier
one that is read too late reads newer samples, never older ones.

`Age` orders the stages instead: for every pair of a sample that is shown and one that
is being copied, one that is copied and one in the buffer, one in the buffer and one
being computed, the earlier stage is no older (`Newer`, `Newest`, `Computed`,
`Sampled`). The worker may store a result while the record copies the one before
(fftdev.c:307), so that a copy may be torn, but only between a result and a newer one.
The bins of a stage are compared one by one (`Before`); the oldest bin and its newest
waveform then come from the least number principle, and are the two quantities that
`Freshness` speaks of. The first attempt at this proof failed where `shown` was filled
half by half: `StaysFresh` had held on TLC's arrays of four samples and need not hold on
longer ones, where bins of two results may alternate. What the proof needed was in the
code and missing from the model: the record is locked from the first word of the copy to
the last, and nobody sees it before (`val`).

**Acquisition.** Two invariants over the same types (`Typed`), one for each kind of
user (`OneUser`). For clients, `Age` is the number of increments a tag is away from
the one the device began with, as long as tags do not come round. `TagsGrow`: while no
client has set the tag back and tags have not come round, neither the bank nor what
was presented has a newer tag than the device's, so that the next tag is in use nowhere,
which is `TagsFresh`. `Before` needs no such condition: what was begun before a
client's settings does not have the tag it chose, since it looked at both tags when it
chose (`reused`), and a bank takes a tag only when it begins. `Kept`: from when a client
has written its mask until it is done, unless another has written a mask (`disturbed`),
the device has that mask, and so have the bank and the words of anything begun since.
The slice `get_channels` takes is then of one channel (`ChannelSlice`).

For the records, a write has two ways to go, and `Flights` is one of them: the
registers in `sending`, then those on the wire, numbered from one end to the other, so
that `Send` moves none of them. `OneEach`: a register is under way once, and only while
it is being written or the chain of records waits for it. `Current`: what is under way
carries the mask and the tag that the records have now, or, of the mask, will be
written again. `Configured` is the other way: the records of a channel whose monitor
has been processed. `Quiet`: while the chain reads, no bank can be presented, so that
`memRx` and `slowRx` are of the same one. `IncrementTag` may come before the mask is
written. What saves `ReflectsSettings` is order: a mask that is being written is on its
way (`OnItsWay`), and since the tag is put behind it, it stays ahead (`KeepFirst`),
unless a second mask waits for the answer to the first, which is the excuse
(`overtakes`). `SettledFor` then follows the tag from the device to `SLOWRAW`: when the
device has the last tag it has the mask; a bank, what was presented, and what was
copied, if they carry the last tag and nothing was changed since, are of the mask. That
nothing carries this tag already is `inUse`; by `Counted` it needs as many increments as
there are tags. Lengths come from `WholeChannel`: with the number of the channel as
offset and the number of channels as step, a slice of the first words has exactly
as many as the bank has samples of the channel among them; the size of the record
decides how many words are looked at (`SliceEnd`).

**Launcher.** `StatusPending`: the status on its way to the record is the child's, or
a SIGCHLD is still to be handled. `StatusHolds`: a status that says that no child runs
stays true, as only the loop starts one; it is what makes it safe to look before a
caput that yields. `LossSeen`: the client has seen every loss of a connection.

**Generator.** `Compiled`: the code that is kept, if there is any, is that of the text in
`prev`, and that text compiles. With it one run computes what `HeldInputs` says.
`Evaluations` is a recursive function over the samples; that there is one which meets its
equation (`EvaluationExists`) takes an induction, which the provers do by the least number
principle: the least number of samples for which there is none is not zero, nor does it
follow one for which there is one. `EvaluationsEquation` is then all that the steps need.

**JSON.** While the document has not failed, `DocumentInv` relates the context of the
callbacks to the history `defined`. `Deep`: at least `depth` maps are open in yajl's
nesting, so that an accepted document has none left half read. `Named`: in the object of
a register its name has been read. `ScratchHolds`: `ignoreScratch` says that something
ill-formed was given to the object being read, and otherwise the scratch register is
`RegisterOf` of what it has been given so far; between objects it is blank. This is what
is lost if `jblob_end_map` does not clear it. `RegisterOf` takes of each number what is
left of it in the type it is stored in (`Stored`), so that nothing is assumed of how
large the integers of a document are. `RegistersHold` and `InfoHolds` are `JsonRead` for
the objects that have ended.

**ROM.** `Position` is where each descriptor of the list begins; that there are such
positions, that they grow and that the last is the length `Fits` speaks of are lemmas
(`PositionExists`, `PositionsGrow`, `FlattenedLength`), by the least number principle.
`Carries`: each descriptor written so far stands at its position, and what was there
before follows. `Parsed`: what has been read is the beginning of the list, the next word
is at the position that follows, and more has been read than was written only where the
words were not cleared. The steps rest on what each conversion undoes: the header's
type and size (`HeaderRead`), the pairs of bytes (`PairsRead`), padding of texts, digits
and compressed texts (`TextRead`, `DigitsRead`, `JsonTextRead`), and the order of bytes
(`ReversedTwice`). That a failure means want of room needs that an ill-formed header
is never one that was written (`ReadsWritten`) nor a cleared word (`ReadsRest`).

Only model-checked: liveness (`CalledBack`, `ErrorForced`, `Connects`, `Returned`,
`Unblocked`, `AbortKills`, and `CatchesUp` of `Freshness`, a part of `StaysFresh`),
which is out of the prover's reach.
Every safety property that a passing run checks is stated by a theorem. `OneChild` of
`Launcher` is a theorem without a run: only the loop starts children.

## 5. Where the code and its documentation differ

Kept as runs that must find a counterexample:

* `records_watch`: the retry of a Watch finds its register gone and queues
  nothing: the record stays busy (devwatch.cpp:103; devsup.rst:138).
* `acquisition_hurried`: the second of two writes of a mask waits for the answer
  to the first, and the tag that is incremented next overtakes it; a waveform that
  was sampled with the old mask then carries the new tag (device.cpp:174;
  ca.py:163-172, 183-184).

Known deviations for which the modules have a definition without the excuse. TLC finds
it violated when it is added to the run named:

* A word set with `commit=false` leaves with a write of the register that is being
  cut into messages (device.cpp:408; devsup.rst:121-123): `engine_writes` with the
  invariant `NotSentUncommitted`.
* `reset` reads the `bootstrap` flag of a register it has deleted (device.cpp:364).
  With memory that is reused a record keeps its pointer: `connection_core` with the
  invariant `NoDangling`.
* Sync waits for registers with words still to send, not for those that are sent
  and unanswered (devmain.cpp:370; devsup.rst:153-154): `records_core` with the
  property `SyncWaitsAll`.
* A Watch completes as if it had matched when another request has begun before its
  completion (devwatch.cpp:69; devsup.rst:138): `records_shared` with the property
  `WatchMatches`. A reset completes a Watch on a bootstrap register the same way, as
  that register is still there and not in sync (`Boot = {x}`).
* `persistSettings` completes a record that another thread has made busy
  (devreg.cpp:361): `records_core` with the property `WriteWaits`.
* `RecInfo::size` is optional (devsignal.cpp:151-153) and not initialised (dev.h:39):
  the waveform of a record that has a size by chance is cut (devutil.cpp:195-204).
  `acquisition` with the invariant `AllSamples`.
* Two clients of `raw.py` read the same tag. One writes the next, then increments it
  again, and a bank begins with that; now the other writes the one it chose at first,
  and the tag goes back. Its next increment chooses the tag of the bank that is already
  being filled, and a waveform begun before the settings matches (raw.py:274-277;
  raw.py:268-269, 325); the check for a collision (raw.py:328-331) does not see it:
  `acquisition` with the invariant `TagTells`.
* An address that the mask of `jblob_integer` does not see is taken for another, that of
  its low 32 bits (jblob.cpp:74, 76, 78; proto.rst:260-263 has addresses of 24 bits):
  `tools` with the invariant `AddressGiven`.
* `prepare` requires room for an end descriptor and writes none (rom.cpp:203;
  proto.rst:192, 239-242): in a buffer that was not cleared, `parse` reads on. `tools`
  with the invariant `RomEnds`. The storage of the simulator is cleared.

Known deviations that no property states, seen with the same models:

* Set Address and Force Error that are both pending are served by one reset,
  into Error: an address set after the error does not leave Error
  (device.cpp:811; devsup.rst:212-214).
* An I/O Intr record may copy words of two reads (devreg.cpp:221;
  devsup.rst:81-84); the scan that follows the second puts it right.
* A register that has only been written is `InSync`, with a read cache that was
  never filled (device.cpp:558; device.h:64).
* A number of digits that is not a multiple of four comes back padded.
* `jblob.cpp` takes "__metadata__" for a register with no properties as well, keeps
  taking what follows for metadata when its value is not an object, and keeps the
  low eight bits of a negative width.
* An expression that does not compile is not tried again, as its text has not
  changed: the record then evaluates what `postfix` left of it (calc.c:113-117).
* The example for `asub_split_bits` (asub.c:100-107) has the order of bits reversed;
  `nset` examples of asub.c:177 write 5 as 0b0111.
* The check of a length in `fft_calc_send` (fftdev.c:195) is against the record's
  own size, not the shared buffer's.
* An exception in `ProcControl.loop` ends it: a child it started goes on, and
  commands are queued and never handled (feed_launcher.py:104-106).
* feed_wf_acquire_base.template:310 says that bit 14 is set when data is spread
  across two buffers; `unwrap_fault` (calc.c:1048, 1072) takes the data from this one
  when it is set.

## 6. Not modelled, and why

Strings, counters, timestamps, logging and `meta` fields feed no decision. The rest
of `asub.c` and `calc.c` is floating-point arithmetic without state. Sign extension
and scaling of the words copied are arithmetic too. `KeepAlive` writes a counter;
the command lines, the file and register listings of `leep/` convert and print. The
HIRES simulator and the loop of the simulator serve tests. Failures of `malloc` in
the FFT worker, most of which leave a null pointer behind, are left out; message
types out of range are not checked in the code and not sent by it. The other
databases and the displays are configuration. Data races are modelled only as far
as `read_sync` acting between any two steps of the worker, and the copies of `FFT`.

## 7. Plan

Done: all the modules of section 2, with their runs; the proofs of section 4.

What remains: starvation of a queued read by writes; register sizes that change with
the ROM; the Idle state and the polling of bootstrap registers in `Records`.
