# PowerDAQ Linux driver: models, checks and proofs

This directory specifies the data-acquisition driver in `src/` (kernel part in
`src/powerdaq*.c`, firmware-level library in `src/pdfw_lib/`, user library in
`src/lib/`) in TLA+. TLC checks small instances; TLAPS proves the safety
properties (all but two, see the end of section 4) for every value of the constants.

    tlc -workers 2 -config MCAIn_stream.cfg MCAInAcquisition
    tlc -workers 2 -config UEv_counter.cfg UserEvents
    tlc -workers 2 -config Int_shared.cfg InterruptControl
    tlc -workers 2 -config AOut_output.cfg MCAOutBuffer
    tlc -workers 2 -config Files_shared.cfg DeviceFiles
    tlc -workers 2 -config Dsp_start.cfg MCDspHandshake
    tlc -workers 2 -config Lib_library.cfg MCUserLibrary
    tlapm AInStream_proofs.tla
    tlapm DspHandshake_proofs.tla
    tlapm UserLibrary_proofs.tla

## 1. The system

A PowerDAQ board is a PCI card with a DSP, an analog-input FIFO, analog output,
digital I/O and counter/timers. The driver has one `pd_board` structure per board, and one
spinlock, `pd_fw_lock`, for all of them. An ioctl runs under it from beginning to end
(`powerdaq_osal.c:949`); so does the bottom half (`powerdaq_isr.c:41`), and so does the interrupt
service but for its first look at the interrupt status (`powerdaq_isr.c:177-262`). What is
left to interleave is the board itself, which goes on converting, latching and
requesting; the two ioctls that drop the lock (registering and unregistering a
buffer); a sleeping `PdWaitForEvent`; open, close and mmap, which never take it; the
application reading or filling the mapped DAQ buffer; the DSP behind its FIFOs; and the
processes that share the user library's memory segment.

| Component | State | Operations | Interacts with | Hard because | Must hold |
|---|---|---|---|---|---|
| Buffered analog input (`pdl_aio.c`, `pdl_int.c`, `pdl_ain.c`) | `AinSS`: `SubsysState`, `BufInfo` (Count, Head, Tail, ScanIndex, modes), `dwEventsNew`, transfer buffer | register, init, start, stop, term, reset, AInGetScans, ImmediateUpdate; FIFO drain by the bottom half | board FIFO, bottom half, user events | two writers of one ring with separate rules, wrap, full and empty look alike, the handler stops the run by itself | lossless ordered stream; nothing dropped silently; scans handed out stay put |
| Interrupt service and bottom half (`powerdaq_isr.c`, `pdl_brd.c`) | host interrupt switch, `intMutex`, `bTestInt`, work queue | ISR, bottom half, enable, test | all subsystems | the switch is shared, and switched by the ISR, the bottom half, starts, stops and an ioctl | a running subsystem is served |
| User events (`pdl_event.c`, `pdl_int.c:1130`, `powerdaq_osal.c:216-668`) | board status and mask latches, `FwEventsConfig/Status`, `dwEventsNotify/Status/New`, `notifiedEvents` | set, clear, get, wait, notify | interrupt, processes | an event passes five places, each emptied by another step | no asserted event is lost; a wait for it ends |
| Buffered analog output (`pdl_aio.c`, `pdl_int.c`, `pdl_ao.c`) | `AoutSS`, output ring, board FIFO | register, init, start, stop, term, reset, AOutGetScans; put_xbuf and put_samples by the bottom half | board FIFO, bottom half, the application refilling | three parties at one ring, two-piece wrapped copies, an end that only an underrun tells | values leave once, in order, and only when refilled; an output without data stops |
| DAQ buffer lifecycle, open/close (`powerdaq.c:760-900`, `powerdaq_osal.c:672-836`) | `bInUse`, `open`, `fd[]`, `BufInfo.databuf`, mappings | open, close, register, unregister, mmap, release | processes that die, AIn, AOut | no lock, two records of one buffer (pointer and size), release on behalf of the dead | one holder per subsystem; every buffer freed once, whole, and none left |
| DSP handshake and firmware start (`pdl_fwi.c`, `firmware.c`) | host command and status registers | commands with their words both ways; reset, loader, segments, execute | everything | a wait that gives up leaves the DSP to answer later; a load over what an earlier one left | no answer is taken for another's; what is started is what was downloaded |
| Initialisation, EEPROM, calibration | `pd_board`, EEPROM copy | probe, read, write | all | little; straight-line | the initial states below |
| Digital I/O, counter/timers (`pdl_dio.c`, `pdl_dao.c`, `pdl_uct.c`, `pdl_dspuct.c`) | none in the driver | register reads and writes | DSP handshake, user events | several commands in a call, one of which fails | as for the handshake |
| Diagnostics (`pdl_test.c`) | none | self-tests | DSP | none | - |
| OS layer (`powerdaq.c`, `powerdaq_osal.c`, `kvmem.c`) | device table, wait queues | ioctl, sleep, notify, mmap | all | sleeping without the lock | see user events |
| User library (`src/lib/`) | the boards' descriptions in a System V segment, `fd[]` of the driver | load, unload, one function per ioctl | ioctls, other instances | nothing is locked: find, create, attach, count, remove; one uncleared union for every request | every board is described; the segment goes; no word nobody set is used, no failure hidden |
| Examples, other language bindings | none | calls of the user library | user library | none | - |

## 2. The modules

| Module | What it is |
|---|---|
| `AInAcquisition` | buffered analog input: board FIFO, bottom half, DAQ buffer, ioctls |
| `SampleStream` | what it promises an application: a bounded, lossless, ordered stream |
| `AInStream` | the refinement mapping (`ImplementsStream`) |
| `MCAInAcquisition` | buffer modes for TLC |
| `UserEvents` | an event's way from the board's latch to the waiting process |
| `InterruptControl` | who turns the host interrupt on and off, for input and output together |
| `AOutBuffer`, `MCAOutBuffer` | buffered analog output, and its buffer modes for TLC |
| `OutputRing` | what it promises an application: a ring whose values go out in order, each filled since it went out last |
| `AOutRing` | the refinement mapping (`ImplementsRing`) |
| `DeviceFiles` | who may open which file, and which buffer a call, a close or a death releases |
| `DspCommands` | each function of the firmware interface as the sequence of its register accesses |
| `DspHandshake`, `MCDspHandshake` | the driver running these against the DSP; a firmware for TLC |
| `DriverRequests` | what each ioctl does with the words of its request |
| `LibraryCalls` | each function of the user library as the requests it makes of the driver |
| `UserLibrary`, `MCUserLibrary` | loading and unloading the library, and calling it |
| `Arithmetic` | quotient and remainder lemmas |
| `AInStream_proofs` | theorems on the indices and the count of the input buffer, on the samples in it, and that it implements `SampleStream` |
| `DspHandshake_proofs` | theorems on the driver and the DSP in step |
| `UserEvents_proofs`, `InterruptControl_proofs`, `AOutBuffer_proofs`, `DeviceFiles_proofs`, `UserLibrary_proofs` | theorems on these modules |

The state machines are separate modules of the same driver, each with the
part of the state its questions need; what another module decides appears as
an open choice (`InterruptControl` leaves open when the data stops a subsystem,
`AInAcquisition` and `AOutBuffer` leave open which DSP command fails, which is what
`DspHandshake` is about). `DspHandshake` is built on `DspCommands`, `UserLibrary` on
`LibraryCalls` and this on `DriverRequests`.

### AInAcquisition

A sample is its ordinal number; 0 is a word that is no sample. Variables have the
names of the C fields. An ioctl is one action. The bottom half is three, with
`phase` as the held lock: `ReadBoardStatus` (`pd_process_events` reads the event
registers), one of the `Process...` actions (`pd_process_driver_events` with
`pd_process_pd_ain_get_samples`: fetch, make room, two-piece copy, events, automatic
stop), `NotifyUserEvents`. Only `Convert` (if `RacingConversions`) and the two buffer
ioctls that drop the lock run between them. `ImmediateUpdate` is the same handler with
its polling loop. `GetScans` does everything `pd_ain_get_scans` does: computes the
available scans, advances ScanIndex, releases the frames before it, subtracts from
the u32 `Count`, and fails if Count is then zero.

History variables (`base`, `good`, `closed`, `delivered`, `loan`, `initialised`) only
remember what the properties compare; no action's guard depends on them, except that
`setups` counts towards the bound `MaxSetups`. A run is *closed* when the driver has
stopped it, or when its FIFO had lost conversions before it began.

What the model abstracts: one buffer geometry in a behaviour; a DSP command that
times out is the switch `DspFaults` (both outcomes at the board are taken), a
failed read of the board's status is a handler that does not run; words left in the
transfer buffer by an earlier transfer are 0; `NumScans = 0` is not requested; the
polling loop of ImmediateUpdate, which never ends if the DSP stops answering in the
middle of it, is modelled when it ends.

### UserEvents

One subsystem whose events the board asserts: `DigitalIn`, `CounterTimer`, or
unbuffered `AnalogIn` scans. Latch (`SC`), mask (`Im`), request, host interrupt, work
queue, `FwEventsStatus`, `dwEventsNotify/Status/New`, `notifiedEvents` and the waiter
are separate variables, because separate steps empty them. `keepSC` is the status
half of `FwEventsConfig`: until an event has been enabled it is 0 and every write
clears the latches. The board is external; the assumption about it is the
comment at `pdl_event.c:39-42` (clearing the status bit re-enables the event interrupt): a
status bit that becomes 1 while unmasked requests the interrupt once, until cleared.
`armed` and `owed` are history: events set and not notified since, and of these the
ones asserted since. `pd_event_wait` sleeps without the lock, and three steps end its loop
(`powerdaq_osal.c:329-340`): `WakeUp` when `notifiedEvents` is set, `TimeOut`, and `Signal` when one is
pending for the process. `EndWait` is the rest of `pd_sleep_on_event`, once the lock is granted: whatever ended the sleep, it
returns `notifiedEvents` and empties it. Not modelled: SIGIO notification (`pd_kill_fasync`), DSP faults,
the field `wakeupEvents` (written, never read), and the branch for `bUseHeavyIsr`
(nothing sets it).

A third history, `unreturned`, counts the assertions of each event that no wait has returned, up to the bound
`MaxUnreturned`; with 0 nothing is counted.

### InterruptControl

The subsystem states of input and output, `intMutex`, the switch, the request and the
work queue. `Switch` is PD_BRDINTEN; when it times out the outcome at the board is
open and `timedOut` says so. `ServeBoard` acknowledges, which disables the host interrupt (and may time out), and then
either queues the bottom half or, if `bTestInt` announces the interrupt test, returns (`powerdaq_isr.c:189-203`); `TestInterrupt` is
the ioctl that announces it and makes the board raise the interrupt. `tested` is history: the last interrupt that was
served was taken for the test, and nothing has switched the interrupt on or off since. `MayStopAIn`/`MayStopAOut` are the automatic stops, under
the conditions on which `pd_process_driver_events` reaches them. AInReset changes none
of these variables and is not an action; AOutReset clears `bRev3Mode`.

### AOutBuffer

A value is the position in the DAQ buffer it was taken from, so that order, loss and repetition
show in the FIFO; `NoValue` is a word of the transfer buffer nothing was copied to. `layout` is
the way `pd_aout_put_xbuf` fills the transfer buffer: two 16-bit values to a word (`pairs`, the
MF boards), one (`direct`), or with a channel (`fixed`, `listed16`). `PutXBuf` is that function: how
much may be put, the two-piece copy, what the FIFO takes, the new head. The bottom half is one step for
each block of `pd_process_driver_events` that looks at one status bit (`ProcessHalfDone`,
`ProcessBufDone`, `ProcessUndRunErr`, or `ProcessOldWay` for an output that AsyncStart has not started), because the
board converts between them (`Play`). `GetScans` is `pd_aout_get_scans`; `Refill` is the application
filling what it was granted. `fresh` (positions filled since they were last put), `granted` and
`initialised` are history; the guard of `Refill` alone looks at `granted`, which is the
application's own knowledge. `OutputRing` has their abstract counterparts: `next` is head, `ready` what the handler may still
put, `filled` is `fresh` and `lent` is `granted`, all of them followed while the output runs in a queue mode and nothing has failed. `MaxFaults` commands or allocations fail, with both outcomes at the
board. Abstracted: one geometry in a behaviour, values, the triggers and the DMA start.

### DeviceFiles

`inUse`, `opens`, `databuf`, `bufSize` are the fields of `pd_board`; `call[p]` is where process p is in
open, register, unregister, release or close, because none of these holds the lock across its
steps; `memory` lists the buffers ever allocated and whether they live; `mapped` the mappings. A
process that dies is one that unmaps and closes without having released. `OpensOverlap` and
`BufferCallsOverlap` say whether two such calls may be under way at a time, which is
up to the kernel and the applications. `pd_board.fd[]` is written by these calls but
decides nothing here (it does in `UserLibrary`).

### DspCommands, DspHandshake

A script is a sequence of accesses: put a command, write a word, read a word, expect an
acknowledgement, set or await flags. `DspCommands` has one per function of `pdl_fwi.c`, `pdl_brd.c`,
`pdl_ain.c`, `pdl_ao.c`, `pdl_dio.c`, `pdl_dao.c`, `pdl_uct.c` and `pdl_dspuct.c` that talks to the DSP,
and `After` for those that go on according to a word read. `DspHandshake` runs them: the driver one access
at a time with the lock held, the DSP in its own time. Any wait of the driver may give up: the word is
then dropped, or reads as `NoAnswer`, or the script ends in failure as in the code. `own` marks what
belongs to the call the driver is in; it and `late`, `failed`, `mixed` are history. The DSP is
external: it takes, for each command, the words and gives the answers that the driver's functions
presuppose. The firmware has two short segments in place of `firmware.c`. Loading and unloading the
driver several times on one power cycle is part of the model. Not modelled: the commands without an
answer (PD_BRDINTACK, PD_DIAGPCIINT, the block transfer), and the fast reads that do not wait.

### DriverRequests, LibraryCalls, UserLibrary

Every request travels in one `tCmd`, a union on the caller's stack that nobody clears.
`DriverRequests` says of each case of `pd_driver_ioctl` which words it uses, which it writes,
and how it may fail, and which requests a kind of board refuses. `LibraryCalls` says of each function of
`powerdaq32.c`, `pwrdaqct.c`, `pwrdaqes.c`, and of some of `pd_hcaps.c` and `pxi.c`, which requests
it makes in which order, which words it sets and hands out, how it makes its result, and (`Checked`) whether there are arguments with
which it returns an error before its first request: a subsystem without a file, a negative handle, too many samples or channels, a
counter that does not exist. A word is
reduced to who wrote it last: the stack, the caller, or the driver.

`UserLibrary` adds the part with state. `at[p]` is where an instance is in `my_init` or `my_fini`, one step
for each system call; `key`, `exists` and `made` are the kernel's System V segments, `infos` their
contents per board, `fd` the driver's table of files for `BoardLevel`. `FillBoard` is the body of
`__PdGetAdapterInfo` with its CLOSESUBSYSTEM, whose failure ends `my_init`. Two instances that fill in
the same board at once count gains and ranges in the same words, and may leave it `mixed`. `Hold` and
`LetGo` are an application that acquires the same file. `disturbed` is history: a death, a failed request,
a segment removed while in use, an application's hold on a board being described. A call (`Make`) is
one step with its outcome in `last`, or its `Refusal`; calls touch nothing that loading does.

## 3. The runs

| Run | Shows | Instance |
|---|---|---|
| `stream` | in single-run and wrapped buffers: queue bookkeeping (`QueueOK`), unread samples intact, unbroken ordered stream, all stored scans available, scans handed out undisturbed, no silent drop, eFrameDone on every frame, conversions off unless running, and the refinement `ImplementsStream` | 2 frames of 2 scans, 4-deep FIFO with blocks of 2, 7 conversions, 3 setups, no faults |
| `recycle` | violated: a recycled buffer that the reader does not keep up with drops a sample it has fetched (section 6) | 3 frames, 12 conversions, `Word` 16 |
| `robust` | with every fault, racing conversions, ImmediateUpdate and all modes: indices in range, a failing AInGetScans takes nothing | 2 frames of one two-value scan, 4 conversions |
| `counter` | two counter/timer events: no asserted event is lost on its way, a wait that is woken returns an event, a wait for an asserted event ends | 2 events |
| `returned` | with a second thread that sets and clears, the interrupt test and buffered initialisations: no assertion is returned by two waits (`ReturnedOnce`); the type invariant, which ties the events set to notification bits, mask bits and `FwEventsConfig` | 2 counter/timer events, up to 3 assertions of each not returned |
| `shared` | input and output share the switch under DSP faults and interrupt tests: `UsersCounted`, `RunningIsServed`, `RequestServed` | `intMutex` up to 4 |
| `output` | straight and wrapped output: bookkeeping (`QueueOK`), nothing is put that was not refilled (`PendingIsFresh`), nothing is offered for refilling that is still to be put (`GrantedIsPlayed`), values leave in order (`OutputInOrder`), the refinement `ImplementsRing`, eFrameDone on every frame, conversions off unless running, and an output without data ends (`EndOfDataStops`) | 2 frames of 4 values in pairs, FIFO of 6 words, requests of 3 scans, 3 setups, one fault |
| `files` | no subsystem has two holders, `bInUse` is true of the holders, no buffer is left after the last close, unless one was registered over another, and what is freed is alive and of the size it is freed with | 2 processes, 5 files, 2 sizes, 2 buffers |
| `dsp` | unless a wait has timed out, driver and DSP are in step after every call and no word of one call is taken for another's; an accepted first start has loaded the firmware whole; only a time-out makes a call fail | FIFOs of 2, 3 loads, 2 calls of every function |
| `library` | three instances load and unload at once: the segment goes with its last user (`SegmentGoes`), and every board is described although instances end each other's loading (`EveryBoardDescribed`); every call on every kind of board with every failure: no unset word is used or handed out (`OnlyWordsSet`), a negative result means that a request failed or that none was made, and the reverse (`ResultIsTheDrivers`), but for the functions listed with these properties | 3 processes, 2 with the same file number, 2 boards, 3 loads, one death or failure |
| `othersstop`, `retried` | violated (section 6) | minimal |

*Bounds.* 7 conversions in a buffer of 4 pass the wrap with a full buffer, a
partial block and a reader at every position of it; three setups allow register,
init and a second init after a stop. In `recycle` 12 conversions pass the 6 values of
the buffer twice: once so that the driver recycles past the reader and Count goes below zero, once more to meet the
full buffer with that Count. `Word` stands for 2^32: it is
larger than twice the buffer, which is all the unsigned arithmetic needs (assumed as
`TransferAssumption`), and small enough to see it wrap. `MaxUsers` 4 lets the count
exceed the two subsystems by failed starts and automatic stops. `counter` and `returned` take the counter/timers, the one
subsystem with several events; the others differ from it in how an event is cleared, and the theorems are about them all. `MaxUnreturned` is 3 since an event has at most three copies (in the
latch, `dwEventsNew` and `notifiedEvents`), so that a fourth assertion that is not returned finds one there; a count that stops at 3 is
below the true one, which only makes `ReturnedOnce` stronger. In the other configurations it is 0. In `output` blocks of 3 pairs in a buffer of 8
values wrap in the middle of a block at two different places; recycled output buffers and the
other layouts are left to smaller instances and to the proofs. In `files` two
processes and two buffers let one process register over, or release, the other's. In `dsp` a FIFO of
2 is filled by every function that sends three words; the second of the three loads can fail and
the third find what it left; two calls suffice for one to meet the other's late answer. In
`library` two instances fill the segment while the third ends, or all three find none; calls are
made when one application has the library, since they share nothing with the others, and at most
one thing goes wrong. No symmetry is used.

*Fairness.* Liveness is stated in `UserEvents`, `InterruptControl` and `AOutBuffer`. In the last, the
board's clock converts (`Play`), a raised interrupt starts the handler, and the handler goes on: each weakly
fair. In the other two, weak
fairness of the interrupt service (a level-triggered PCI interrupt is served when it is
enabled), of the queued work (the kernel's work queue), and of a woken process. Strong
fairness of `EndWait`: it needs the spinlock, which is repeatedly taken by the bottom
half and granted in turn. Nothing is assumed there of the board, of signals or of a wait's time-out, and nowhere of the application.
`EventEndsWait` has the premise that the host interrupt is enabled;
`RequestServed` that a subsystem is running. The wait-queue loop without a time-out is
within it, since `TimeOut` is never forced.

*Deadlock* is checked in every run but `dsp` and `retried`, where loads and calls are bounded and the driver may
simply stay loaded with nothing left to do.

## 4. The proofs

All constants are arbitrary within the named assumptions (positive geometry, a block
no larger than the transfer buffer, `Word` greater than twice the buffer; finitely many processes, and a board, for
the library). A theorem that needs more says so in an `ASSUME` of its own; the list below repeats it.

**Buffered input, the indices** (`AInStream_proofs`, no further assumption)

* `TypeCorrect`: `TypeOK` is inductive by itself. The work is
  in arithmetic: Head stays a position and Tail a frame start through `RoomTail`, `EndHead`
  and `ToTail`, and ScanIndex * ScanSize + ScanSize never exceeds the buffer
  (lemmas `FrameOfScan`, `ScansInside`, `StoreInside`, `FetchInside`).
* `QueueCorrect`: `Count` is the distance from Tail to Head, or the
  buffer is full with the two equal, and the reader is between them. The inductive
  invariant is `TypeOK /\ QueueOK`; one lemma per writer (`StoreKeepsQueue` for the
  handler, `GetScansKeepsQueue` for the reader, on `ScansPlace` and `ReleasePlace`).

**Buffered input, the samples** (same module). Each result stands on the one before.

* `NumbersIInv` ties the indices to the history: Head is `good` and the reader `Len(delivered)` modulo the
  buffer, and the difference of the two is what `Count` says. From it `FailedGetScansCorrect`, `FrameDoneCorrect` and
  `ScansAvailableCorrect`, with every fault allowed: all three are about positions that the code compares and
  numbers that it does not know. `DropsReportedCorrect` and `StoppedCorrect` assume that no DSP command fails.
* `LoanUndisturbedCorrect`, with every fault, if no mode recycles. `LoanIInv`: the scans lent lie
  between Tail and Head, because the call moves Tail no further than the frame in which they begin; and the handler
  stores from Head up to Tail.
* `UnreadIntactCorrect` and `StreamUnbrokenCorrect` assume `Undisturbed`: no DSP fault, no conversion in the middle of a handler, no
  ImmediateUpdate. Each of the three makes them false: a fetch that fails half way drops what it read, and the polling loop
  stores over its own samples (`MCAIn_immediate`). `ValuesIInv` needs the
  FIFO in it (`FifoFollows`: what is in the FIFO continues what is in the buffer) and the board's latched bits
  (`BoardFollowed`: a half-full bit that is believed has a block behind it), because a block is read without asking again.
* `ImplementsStreamCorrect`: the same, if no mode recycles; `RefinementIInv` is `ValuesIInv` with `LoanIInv`, and the lemma
  `NextStream` takes each action to the step of `SampleStream` it is: a setup begins a run, a handler stores or
  stores and closes, `GetScans` takes, the rest stutters.
* `RecycleCorrect`: in the recycled modes the buffer holds the newest samples under two further assumptions. `KeepsUp`, a
  condition on the application, says that it does not call AInGetScans when Tail has passed its reader; without it the property
  is false, which is the run `recycle`. And the transfer buffer must leave one frame of the buffer free, since
  the handler makes room for one transfer by moving Tail by whole frames (`XferBufValues <= MaxValues - FrameValues`);
  the driver does not check this.

**Events** (`UserEvents_proofs`)

* `EventsTypeCorrect`, and `EventsOnTheirWay` for `OnItsWay`, under the
  assumptions that the interrupt test and buffered initialisation are not used (with them it is
  false, see section 6). The strengthening `ArmedIsClear` says that the latch of an event
  that is set and has not been asserted is clear, so that the next assertion does request the
  interrupt; without it a new assertion could fall on a set latch and never be seen.
* `WokenCorrect`, if no other thread sets events while a process waits: PdSetUserEvents empties `notifiedEvents`, and
  would leave it awake with nothing. It is about waits that are woken; one that its time or a signal ends may return no event.
* `ReturnedOnceCorrect`, with no assumption on the calls; `MaxUnreturned` must be at least 3. `ReturnedOnce` looks at `notifiedEvents` only; the strengthening `ReturnedIInv` counts for each event
  the places that hold it (the latch, `dwEventsNew`, `notifiedEvents`) and says that
  at least as many assertions have not been returned; it contains `TypeOK`, which bounds the count. It is kept because what the bottom half has read is still latched when it clears it,
  because `ClearEvents` empties the latch of exactly the events that enter `dwEventsNew`, and because an event that is new already keeps its latch.

**The interrupt switch** (`InterruptControl_proofs`): `EveryUserCounted` and `RunningStaysServed`, if the
application stops only an input it started and does not disable the interrupt by
itself; the interrupt test is allowed. `RunningIsServed` is not inductive: that a stop is the last one must follow
from the count. The strengthening is `UsersCounted` with `CountedIsServed`: while `intMutex > 0`,
the last command to the switch did not time out and no test has taken an interrupt since, the switch is on or the bottom half is queued.

**Buffered output** (`AOutBuffer_proofs`)

* `OutputTypeCorrect` (`TypeOK` with the bound on the FIFO is inductive; the work is that
  head, tail and scanIndex stay inside for every layout), `FrameDoneCorrect` and `StoppedCorrect`, whose
  case distinction over the steps that fail nothing is the lemma `Steps`.
* `OutputQueueCorrect`: the bookkeeping of a buffer that is not recycled. `QueueOK` needs
  that standby means a full buffer and that tail is on a frame boundary.
* `PendingIsFreshCorrect` and `GrantedIsPlayedCorrect` rest on `RunningIsFresh`: what is between tail and the reader is
  either filled or granted, what is pending is filled, and nothing is both granted and pending. Neither property is inductive
  without it, since the handler moves head, AOutGetScans moves tail and scanIndex, and the application
  fills at any time between. `OutputInOrderCorrect` is for the layouts `direct` and `pairs`.
* `ImplementsRingCorrect`, with no further assumption: a block that is put is a `Put`, AOutGetScans a `Lend` (of what has been
  put and not lent since), the application's filling a `Return`. It needs the converse of `RunningIsFresh`, `RunningIsStale`: between
  the reader and head nothing has been filled or lent yet. Without it AOutGetScans could offer a value twice, or offer
  one that the application has just filled. `PendingIsAhead` is the lemma that the positions pending are the next ones in ring order.

**Files and buffers** (`DeviceFiles_proofs`): `FilesTypeCorrect` from `FilesInv` (shapes, the count of open files, and where a
call may be). `OneHolderCorrect` and `InUseCorrect` assume that opens and closes do not overlap; `HoldersInv`
adds that one process at a time changes a flag and that it found the flag clear. `NothingLeftCorrect` and
`FreedOnceWholeCorrect` rest on `BuffersInv`: a buffer that lives is the one `databuf` names, with its
size, and somebody has a file open through which it will be released.

**User library** (`UserLibrary_proofs`, no further assumption; two processes may have any numbers for their files)

* `SegmentGoesCorrect`. `SegmentIInv`: a segment nobody is attached to is the concern of a process that is about to attach to it,
  or to look whether it was the last. A process that gives up its concern has attached, removed the
  segment, or found that somebody else is attached, who will be concerned in turn.
* `EveryBoardDescribedCorrect`. The property speaks of moments when nobody loads, and says nothing while they do.
  `BoardsIInv` supplies, for each board not described yet, somebody who will do it (`Covered`). An instance counts for the boards after the one it
  is at only if it holds the driver's entry for that board (`Passing`): the others will be ended by
  CLOSESUBSYSTEM. That the entry, when there is one, belongs to one of those who have the file open is `OneOfUsEntered`, and
  fails once an application holds the file too. There must be one segment only (`OneSegment`), and each load makes one at most
  (`EnoughSegments`, by counting).
* `ResultIsTheDriversCorrect`. By `LibraryReports` every function either makes one request and returns its result, or makes several up
  to the first failure, or makes none, or is named among those that hide one. `OutcomeIsTheRequests` concludes from that alone, for every outcome of the requests;
  a function that refuses its arguments has asked nothing and says so.

**The handshake** (`DspHandshake_proofs`; any firmware, FIFO depth and number of loads and calls)

* `InStepCorrect`: `Spec => (StartsInStep <=> []InStep)`. `StartsInStep` is the part of `InStep` that is about the start: an
  accepted one leaves nothing under way. With it `NoMixingCorrect` and `FailsOnlyLateCorrect` hold as well. It is a
  hypothesis because it depends on the firmware's words (see below). TLC checks it in the run `dsp`, where it
  follows from `InStep`; what the theorems add is everything that comes after the start.
* `Session(s, o)` says that a script of the driver and the operations of the DSP agree, exchange by exchange, to the end: they are
  in a set of such pairs closed under the exchanges. It is a set, and not a recursion over the script, because the provers
  cannot unfold one; and being closed it needs no induction either.
* `EveryCallAgrees`: all the calls of `AllCalls` are sessions that end with nothing left. A `Round` is a script with which a session may begin,
  whatever session follows; rounds are put one after the other (`RoundAfterRound`), and the helpers of `pdl_fwi.c` are rounds for each
  command that answers as they expect. The commands with counts, blocks, lists or samples are taken one by one.
* `InStepIInv`: while a call runs, the words under way are accounted for. Either all of them go to the DSP and, whatever it does with
  them, it then agrees with the driver (`DownAgrees`), or all come from it, and once the driver has read them it agrees with the DSP
  (`UpAgrees`): a script never has words under way in both directions. A command not taken yet counts as taken (`ToDo`). Where no
  firmware runs, which an accepted start does not exclude (item 2 of section 6), nothing answers (`Deaf`), and the first read times out
  (`Waits`). The invariant ranges over all closed sets and is beyond TLC; its consequences are the properties of the run.

*Only model-checked.*

* All liveness, `EndOfDataStops` among it: TLAPS has no ENABLED here.
* `OnlyWordsSet`: it is about the fixed tables of requests and calls, which no constant changes. TLC
  evaluates every call with every outcome on every kind of board, and so its check is complete; and the words
  are a recursion over the requests of a call, which the provers cannot unfold.
* `LoadedWhole`, and that an accepted start leaves the two sides in step. The scripts of a start are a recursion over the
  firmware's segments. And neither is true of every firmware: replies are told apart by their values only. With a
  single segment of one word at address 0 and a start address of 1, every reply to the download is 1, and so is an acknowledgement; TLC then finds a start that is accepted
  without the firmware. With no segment at all it finds one that is accepted out of step. The run takes a
  firmware of two segments with different counts and addresses.

## 5. Not modelled

Bus-master page transfers (`pd_process_ain_move_samples`) and the DMA of output; a handler that works with
the indices of a buffer of another geometry; the DSP's commands without an answer; PCI resources and the
sizing of the FIFO from the EEPROM; memory mapping itself (`kvmem.c`); self-tests; notification by SIGIO; in
the user library the conversion between raw data and volts, the capability tables and `_PdPXIConnect`; the
examples, the bindings and the ports to real-time kernels, which repeat the same logic around other system
calls. Reasons per component are in `PROJECT.json`.

## 6. Where the code and its documentation differ

Items 1 to 3 are runs that TLC ends with a counterexample. Items 4 to 16 have a configuration beside
the project that does the same (`tlc -config <name>.cfg <module>`).

1. `othersstop`: stopping an input that does not run turns off the interrupt a running output
   depends on.
2. `retried`: a firmware start that times out while the DSP takes a segment leaves the rest of it in the FIFO. The next
   start finds the loader's flag already set, does not reset the DSP, and its first header is stored as code; the
   replies still match, and the start is accepted.
3. `recycle`: a recycled buffer should be a wrapped one "except that the Tail moves (by frame size increments) when buffer becomes
   full" (`pdl_int.c:83-85`). If the driver has recycled frames that the reader has not read, it has taken them off Count; the
   next AInGetScans takes them off again (`pdl_aio.c:1376-1395`), and Count, unsigned, goes below zero. At a later transfer
   `Count + NumSamplesRead >= MaxValues` (`pdl_int.c:215`) then is false of a full buffer, Tail does not move, the copy ends at Tail, and a
   sample that was fetched is dropped in the middle of a run that goes on, without an event.
4. `Int_testtakes`: an interrupt that arrives after PdAdapterTestInterrupt has announced its own is taken for it (`powerdaq_isr.c:189-203`): the
   acknowledgement disables the host interrupt, and no bottom half is queued to enable it again, though "After all events have been
   processed, the interrupt should be re-enabled" (`pdl_fwi.c:295-297`). A subsystem that runs is not served any more, unless something else
   switches the interrupt on.
5. `UEv_stalenew`: setting an event should "enable event notification upon assertion of this event and clear event status bit"
   (`pdl_event.c:307-308`). One that was asserted before it was set is left in `dwEventsNew`, and the next interrupt of any
   kind notifies it.
6. `UEv_clearsets`: clearing digital-input or counter/timer events should "disable event notification of this event"
   (`pdl_event.c:472-473`). It sets the notification bits of all the others and leaves those of the cleared (`pdl_event.c:570, 586`).
7. `UEv_clearwaits`: "All DLL calls waiting on the events that are cleared are signalled" (`pdl_event.c:480-481`); nothing
   signals them.
8. `MCAIn_full`: a single-run acquisition that has filled its buffer cannot be read: Head is back
   at 0 and equals ScanIndex, which `pd_ain_get_scans` takes for empty.
9. `MCAIn_immediate`: the polling loop of ImmediateUpdate stores over the samples the same call
   fetched before.
10. `UEv_latched`: an event asserted while not set is reported by GetUserEvents only until
   the next bottom half.
11. `UEv_initlost`: buffered initialisation clears the latched events of the other
   subsystems (`pdl_aio.c:659, 916` hand `pd_enable_events` the configuration itself).
12. `Files_othersbuffer`: the release that is to follow a crash (`powerdaq.c:841`) frees a buffer while another process has it
   mapped.
13. `Files_twoholders`: two overlapping opens both find `bInUse` clear (kernels from 2.6.27 on hold no lock
   around open).
14. `Dsp_lateack`: the acknowledgement of a command that timed out is taken for that of the next
    (`pdl_fwi.c:191`: "TRUE: command succeeded").
15. `Lib_twofirst` (`MCUserLibrary`): two instances of the library both find no segment, and since IPC_EXCL is not
    given both take themselves for "the first instance of the DLL" (`powerdaq32.c:4710`) and fill in
    the same descriptions at once.
16. `Lib_removed` (`MCUserLibrary`): a segment is destroyed "if nobody else is using it" (`powerdaq32.c:4770`), but
    a process may attach between IPC_STAT and IPC_RMID. It then shares its segment with nobody who comes
    later; and should a newcomer fill a new segment while it is still filling the old one, the two
    end each other's loading and a board stays undescribed.

Met while modelling.

* Input: the half-full bit latched during one
  drain makes the next read a block from a FIFO that is not half full.
* Events: setting an event leaves it
  reported from the cached status; a notification made before an event was cleared stands, and wakes the next wait for
  it; a wait that a signal ends returns 0, neither an event nor `eTimeout`, while PdWaitForEvent's description
  (`powerdaq32.c:4333-4342`) knows events, a time-out and errors only; a second notification before the process ran replaces
  the events of the first; a queued bottom half enables an interrupt the application has
  just disabled; the interrupt test takes a real event's interrupt for its own; `pd_get_buf_status` always
  reports the analog input's state; digital output is notified on one wait queue and waits on another.
* Output: `AoutSS.dwEventsNew` is zeroed by every handler run; a straight buffer ends by underrun though the comment at
  `pdl_int.c:654` says it stops at its end; a wrapped buffer that has been refilled completely looks empty to the handler
  (`pdl_int.c:743-755`; the property `EmptyMeansEmpty` is false); the two-piece copies of the layouts `fixed` and `listed16` use wrong
  lengths (`OutputInOrder` is false of them); a command that times out answers -1, a count larger than any
  limit, so that everything is written and head moves on.
* Files: a file table is kept but never consulted for access; registering again leaks the old buffer; the
  buffer is freed before `databuf` is cleared, without the lock the bottom half holds.
* DSP: a word that finds no room is dropped silently; several calls report success though the DSP never answered
  (`pd_ain_get_status`, `pd_aout_get_status`, `pd_dio256_read_input`, `pd_din_read_inputs`, `pd_uct_read`,
  `pd_dsp_reg_read`); `pd_ao96_reset` leaves the last converter alone (`pdl_dao.c:70`); the check of
  `pd_init_calibration` can never be true; the EEPROM's cached copy is updated even if the write fails.
* User library: a channel list exactly as long as the longest (`powerdaq.h:131`) is not copied into the request, and the
  driver uses what the stack held (`powerdaq32.c:1250, 1359`); `bRes &=` turns every failure into success in the five
  functions that switch or reset all ports or channels ("Negative error code or 0"); the counter functions write
  back a status they failed to read; PdAcquireSubsystem ignores whether the driver entered the file; the driver always
  answers -ENODEV to AIGETSAMPLECOUNT and TESTEVENTS; PdPXISaveSettings and PdPXIRestoreSettings acquire a subsystem
  without a file, and the lines' description is looked up for boards that do not exist only; an instance that attaches
  does not wait until the first has filled in the segment, and one whose shmat fails leaves a pointer of -1 that
  `_PdGetAdapterInfo` takes for a valid one.

## 7. Plan

1. Done: `AInAcquisition`, `SampleStream`, `AInStream`, `UserEvents`, `InterruptControl`, `AOutBuffer`, `OutputRing`, `AOutRing`,
   `DeviceFiles`,
   `DspCommands`, `DspHandshake`, `DriverRequests`, `LibraryCalls`, `UserLibrary`, and the theorems of section 4.
2. Theorems left: the interrupt switch without the proviso on stops, for a driver whose check at `pdl_aio.c:1145` is not
   commented out; a condition on the firmware's words from which `StartsInStep` follows.
3. `AInAcquisition` and `AOutBuffer` with `DeviceFiles`: the bottom half at a buffer that is being freed, and the indices
   of a larger buffer on a smaller one.
4. `AInPages`: the bus-master mode and FIFO sizing.
