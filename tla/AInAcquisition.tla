--------------------------- MODULE AInAcquisition ---------------------------
(***************************************************************************)
(* Buffered analog input of one board, in the programmed-I/O transfer      *)
(* modes: the board converts samples into its FIFO, the interrupt bottom   *)
(* half (pd_process_events) drains the FIFO into the DAQ buffer, and the   *)
(* application takes scans out of the DAQ buffer with AInGetScans.         *)
(*                                                                         *)
(* A sample is its ordinal number, counted from the first conversion; 0 is *)
(* a word that is no sample (never written, or read from an empty FIFO).   *)
(* Every ioctl handler and the bottom half run under the device spinlock,  *)
(* so a handler is one step, except the bottom half: the board goes on     *)
(* converting between the reading of its status and the draining of its    *)
(* FIFO, which are therefore two steps with the lock held throughout       *)
(* (phase # "idle" keeps the ioctls out).  Registering and unregistering a *)
(* buffer drop the lock, and may come between those steps.                 *)
(***************************************************************************)
EXTENDS Integers, Sequences

CONSTANTS
  ScanSize,          \* values in a scan (BufInfo.ScanValues)
  FrameSize,         \* scans in a frame (BufInfo.FrameSize)
  NumFrames,         \* frames in the DAQ buffer (BufInfo.NumFrames)
  FifoSize,          \* samples the board's FIFO holds
  BlkXferValues,     \* samples a block transfer reads: half the FIFO
  XferBufValues,     \* capacity of the driver's transfer buffer
  Word,              \* modulus of the driver's u32 arithmetic (2^32)
  MaxSamples,        \* bound: conversions the board makes in a behaviour
  DspFaults,         \* may a command to the DSP fail (time out)?
  RacingConversions, \* may a conversion end while the handler runs?
  ImmediateUpdates,  \* does the application call ImmediateUpdate?
  Modes,             \* the buffer modes registered: a set of [wrap, recycle]
  MaxSetups,         \* bound: (un)registrations, initialisations and resets
  Waits              \* may new events find the application (not) waiting?

FrameValues == FrameSize * ScanSize
MaxValues   == FrameValues * NumFrames
MaxScans    == FrameSize * NumFrames

ASSUME GeometryAssumption ==
  /\ ScanSize \in Nat \ {0}
  /\ FrameSize \in Nat \ {0}
  /\ NumFrames \in Nat \ {0}

ASSUME TransferAssumption ==
  /\ FifoSize \in Nat \ {0}
  /\ BlkXferValues \in 1 .. XferBufValues
  /\ XferBufValues \in Nat
  /\ Word \in Nat \ {0}
  /\ Word > 2 * MaxValues
  /\ MaxSamples \in Nat /\ MaxSetups \in Nat

ASSUME SwitchAssumption ==
  /\ DspFaults \in BOOLEAN
  /\ RacingConversions \in BOOLEAN
  /\ ImmediateUpdates \in BOOLEAN
  /\ Modes \subseteq [wrap : BOOLEAN, recycle : BOOLEAN]
  /\ Waits \subseteq BOOLEAN

VARIABLES
  SubsysState,    \* AinSS.SubsysState
  databuf,        \* BufInfo.databuf: "never" registered, "none", or "set"
  bWrap,          \* BufInfo.bWrap
  bRecycle,       \* BufInfo.bRecycle
  count,          \* BufInfo.Count, a u32
  head,           \* BufInfo.Head
  tail,           \* BufInfo.Tail
  scanIndex,      \* BufInfo.ScanIndex
  bCheckHalfDone, \* AinSS.bCheckHalfDone; bCheckFifoError always equals it
  eventsNew,      \* AinSS.dwEventsNew, as a set of events
  buf,            \* what the DAQ buffer holds
  phase,          \* where the bottom half is: idle, process or notify
  status,         \* FwEventsStatus as read by the bottom half
  converting,     \* board: conversions enabled and triggered
  fifo,           \* board: the FIFO
  made,           \* board: conversions so far
  FHFSC,          \* board: latched half-full status bit
  FFSC,           \* board: latched full status bit
  initialised,    \* history: buffer cleared since it was registered
  base,           \* history: the run's samples are base+1, base+2, ...
  good,           \* history: samples stored in this run before it closed
  closed,         \* history: the driver has stopped the run, or never may
                  \*          promise an unbroken one
  delivered,      \* history: samples handed out by AInGetScans in this run
                  \*          (kept up to the end of what `good' counts)
  loan,           \* history: the last AInGetScans: first scan, scans, return
  setups          \* counts what MaxSetups bounds

bufInfo == <<databuf, bWrap, bRecycle, count, head, tail, scanIndex>>
board   == <<converting, fifo, made, FHFSC, FFSC>>
history == <<initialised, base, good, closed, delivered, loan>>
vars    == <<SubsysState, bufInfo, bCheckHalfDone, eventsNew, buf, phase, status, board, history, setups>>

-----------------------------------------------------------------------------
Positions == 0 .. MaxValues - 1
FrameStarts == {f * FrameValues : f \in 0 .. NumFrames - 1}
Samples   == 0 .. MaxSamples
Events    == {"eStopped", "eBufferError", "eDataAvailable", "eBufferDone", "eFrameDone",
              "eFrameRecycled", "eBufferWrapped"}

NoLoan    == [first |-> 0, scans |-> 0, ok |-> TRUE]
NoStatus  == [ff |-> FALSE, fhf |-> FALSE, imm |-> FALSE]
Blank     == [p \in Positions |-> 0]

Least(a, b)     == IF a < b THEN a ELSE b
Greatest(a, b)  == IF a < b THEN b ELSE a
Distance(a, b)  == IF b >= a THEN b - a ELSE (MaxValues - a) + b
FrameOf(p)      == p \div FrameValues

\* The FIFO holds every conversion since some moment: none was lost in between.
Unbroken == \A i \in 1 .. Len(fifo) : fifo[i] = made - Len(fifo) + i

Init ==
  /\ SubsysState = "ssConfig"
  /\ databuf = "never" /\ bWrap = FALSE /\ bRecycle = FALSE
  /\ count = 0 /\ head = 0 /\ tail = 0 /\ scanIndex = 0
  /\ bCheckHalfDone = FALSE
  /\ eventsNew = {}
  /\ buf = Blank
  /\ phase = "idle" /\ status = NoStatus
  /\ converting = FALSE /\ fifo = <<>> /\ made = 0 /\ FHFSC = FALSE /\ FFSC = FALSE
  /\ initialised = FALSE /\ base = 0 /\ good = 0 /\ closed = TRUE
  /\ delivered = <<>> /\ loan = NoLoan /\ setups = 0

-----------------------------------------------------------------------------
(* The board (external): converting samples into the FIFO.  A conversion   *)
(* that finds the FIFO full is lost.                                       *)

Convert ==
  /\ converting /\ made < MaxSamples
  /\ phase = "idle" \/ RacingConversions
  /\ made' = made + 1
  /\ fifo' = IF Len(fifo) < FifoSize THEN Append(fifo, made + 1) ELSE fifo
  /\ FHFSC' = (FHFSC \/ Len(fifo') >= BlkXferValues)
  /\ FFSC' = (FFSC \/ Len(fifo') = FifoSize)
  /\ UNCHANGED <<SubsysState, bufInfo, bCheckHalfDone, eventsNew, buf, phase, status,
                 converting, history, setups>>

-----------------------------------------------------------------------------
(* The application's ioctls.                                               *)

Locked   == phase = "idle" /\ UNCHANGED <<phase, status>>
Unlocked == UNCHANGED <<phase, status>>
Counted  == setups < MaxSetups /\ setups' = setups + 1
Ioctl    == Locked /\ UNCHANGED setups
Setup    == Locked /\ Counted

ForgetRun ==
  /\ initialised' = FALSE /\ closed' = TRUE
  /\ good' = 0 /\ delivered' = <<>> /\ loan' = NoLoan

\* IOCTL_PWRDAQ_REGISTER_BUFFER.  Nothing in the driver looks at the state of
\* the subsystem here, and the indices of an earlier buffer stay as they are.
RegisterDaqBuffer(mode, allocated) ==
  /\ Unlocked /\ Counted
  /\ allocated \/ DspFaults
  /\ databuf' = IF allocated THEN "set" ELSE "none"
  /\ bWrap' = mode.wrap /\ bRecycle' = mode.recycle
  /\ buf' = Blank
  /\ ForgetRun
  /\ UNCHANGED <<SubsysState, count, head, tail, scanIndex, bCheckHalfDone, eventsNew,
                 board, base>>

UnregisterDaqBuffer ==
  /\ Unlocked /\ Counted
  /\ databuf = "set"
  /\ databuf' = "none"
  /\ buf' = Blank
  /\ ForgetRun
  /\ UNCHANGED <<SubsysState, bWrap, bRecycle, count, head, tail, scanIndex, bCheckHalfDone,
                 eventsNew, board, base>>

\* pd_clear_daq_buffer, called by pd_ain_async_init.  The FIFO itself is not
\* cleared: a run on a FIFO that has lost conversions starts closed.
ClearDaqBuffer ==
  /\ count' = 0 /\ head' = 0 /\ tail' = 0 /\ scanIndex' = 0
  /\ bCheckHalfDone' = TRUE
  /\ eventsNew' = {}
  /\ initialised' = TRUE
  /\ base' = made - Len(fifo) /\ good' = 0 /\ closed' = ~Unbroken
  /\ delivered' = <<>> /\ loan' = NoLoan

\* Every failure after the buffer is cleared leaves the subsystem in ssConfig.
\* pd_enable_events is handed the configuration it updates, and so clears all
\* the status bits, the full bit among them.
AsyncInit(ok) ==
  /\ Setup
  /\ SubsysState # "ssRunning"
  /\ databuf = "set"
  /\ ok \/ DspFaults
  /\ SubsysState' = IF ok THEN "ssStandby" ELSE "ssConfig"
  /\ ClearDaqBuffer
  /\ \/ FHFSC' = FALSE /\ FFSC' = FALSE
     \/ ~ok /\ UNCHANGED <<FHFSC, FFSC>>
  /\ UNCHANGED <<databuf, bWrap, bRecycle, buf, converting, fifo, made>>

AsyncInitUnregistered ==
  /\ Ioctl
  /\ SubsysState # "ssRunning"
  /\ databuf # "set"
  /\ SubsysState' = "ssConfig"
  /\ UNCHANGED <<bufInfo, bCheckHalfDone, eventsNew, buf, board, history>>

AsyncStart(ok) ==
  /\ Ioctl
  /\ SubsysState = "ssStandby"
  /\ ok \/ DspFaults
  /\ SubsysState' = IF ok THEN "ssRunning" ELSE SubsysState
  /\ converting' \in IF ok THEN {TRUE} ELSE {converting, TRUE}
  /\ UNCHANGED <<bufInfo, bCheckHalfDone, eventsNew, buf, fifo, made, FHFSC, FFSC, history>>

\* (Mutant: the command is never sent.)
ForgetToStop(ok)    == converting' \in {converting}

\* A command that times out may or may not have reached the DSP.
StopConversions(ok) == converting' \in IF ok THEN {FALSE} ELSE {converting, FALSE}

AsyncStop(ok) ==
  /\ Ioctl
  /\ ok \/ DspFaults
  /\ StopConversions(ok)
  /\ SubsysState' = IF ok THEN "ssStopped" ELSE SubsysState
  /\ UNCHANGED <<bufInfo, bCheckHalfDone, eventsNew, buf, fifo, made, FHFSC, FFSC, history>>

AsyncTerm(ok) ==
  /\ Ioctl
  /\ ok \/ DspFaults
  /\ StopConversions(ok)
  /\ SubsysState' = IF ok THEN "ssConfig" ELSE SubsysState
  /\ bCheckHalfDone' = (bCheckHalfDone /\ ~ok)
  /\ UNCHANGED <<bufInfo, eventsNew, buf, fifo, made, FHFSC, FFSC, history>>

\* AInReset: the DSP stops converting and clears its buffers and status; the
\* driver's own record of the subsystem does not change.
Reset ==
  /\ Setup
  /\ converting' = FALSE /\ fifo' = <<>> /\ FHFSC' = FALSE /\ FFSC' = FALSE
  /\ closed' = TRUE
  /\ UNCHANGED <<SubsysState, bufInfo, bCheckHalfDone, eventsNew, buf, made,
                 initialised, base, good, delivered, loan>>

\* AInClearData: the FIFO is emptied, conversions go on.
ClearData ==
  /\ Setup
  /\ fifo' = <<>>
  /\ closed' = TRUE
  /\ UNCHANGED <<SubsysState, bufInfo, bCheckHalfDone, eventsNew, buf, converting, made,
                 FHFSC, FFSC, initialised, base, good, delivered, loan>>

-----------------------------------------------------------------------------
(* AInGetScans: the oldest scans not yet handed out, up to the end of the  *)
(* buffer, and the release of the frames before them.                      *)

HeadScan   == head \div ScanSize

\* (Mutants: an empty buffer taken for a full one; scans past the end forgotten.)
AvailScansWhenEmpty  == IF scanIndex < HeadScan THEN HeadScan - scanIndex ELSE MaxScans - scanIndex
AvailScansBeforeHead == IF scanIndex < HeadScan THEN HeadScan - scanIndex ELSE 0

AvailScans == IF scanIndex < HeadScan THEN HeadScan - scanIndex
              ELSE IF HeadScan < scanIndex THEN MaxScans - scanIndex
              ELSE 0
ValidScans(numScans) == Least(numScans, AvailScans)

\* (Mutant: the frame being handed out is released with those before it.)
ScanFrameReleased == scanIndex \div FrameSize + 1

ScanFrame == scanIndex \div FrameSize
TailFrame == (tail \div ScanSize) \div FrameSize

\* The tail after the frames before the current scan index are released, and
\* the number of values that go with them.
ReleasedTo == IF ~(bWrap \/ bRecycle) THEN tail
              ELSE IF ScanFrame > TailFrame THEN ScanFrame * FrameValues
              ELSE IF ScanFrame < TailFrame THEN 0
              ELSE tail

\* (Mutant: the frames released at the end of the buffer are not subtracted.)
ReleasedUncounted ==
  IF (bWrap \/ bRecycle) /\ ScanFrame > TailFrame THEN ScanFrame * FrameValues - tail ELSE 0

Released   == IF ~(bWrap \/ bRecycle) \/ ScanFrame = TailFrame THEN 0
              ELSE IF ScanFrame > TailFrame THEN ScanFrame * FrameValues - tail
              ELSE MaxValues - tail

GetScans(numScans) ==
  LET valid == ValidScans(numScans)
      ok    == count' # 0
  IN
  /\ Ioctl
  /\ databuf # "never"
  /\ scanIndex' = (scanIndex + valid) % MaxScans
  /\ tail' = ReleasedTo
  /\ count' = (count - Released) % Word
  /\ loan' = [first |-> scanIndex, scans |-> valid, ok |-> ok]
  /\ delivered' = IF ok /\ ~(closed /\ Len(delivered) >= good)
                  THEN delivered \o [i \in 1 .. valid * ScanSize |->
                                       buf[scanIndex * ScanSize + i - 1]]
                  ELSE delivered
  /\ UNCHANGED <<SubsysState, databuf, bWrap, bRecycle, head, bCheckHalfDone, eventsNew,
                 buf, board, initialised, base, good, closed>>

-----------------------------------------------------------------------------
(* The bottom half (and ImmediateUpdate, which runs the same handler from  *)
(* the ioctl).  Step one: read the board's status.                         *)

ReadBoardStatus(imm) ==
  /\ phase = "idle"
  /\ phase' = "process"
  /\ status' = [ff  |-> FFSC \/ Len(fifo) = FifoSize,
                fhf |-> FHFSC \/ Len(fifo) >= BlkXferValues,
                imm |-> imm]
  /\ UNCHANGED <<SubsysState, bufInfo, bCheckHalfDone, eventsNew, buf, board, history,
                 setups>>

BottomHalf      == ReadBoardStatus(FALSE)
ImmediateUpdate == ImmediateUpdates /\ ReadBoardStatus(TRUE)

(* Step two, pd_process_driver_events: the samples fetched from the FIFO   *)
(* into the transfer buffer, and from there into the DAQ buffer.           *)

\* A block transfer reads its fixed number of words whatever the FIFO holds;
\* the samples beyond it are fetched only if DoGetSamples is configured.
FetchedFromFifo(drain) ==
  Least(Len(fifo), IF status.fhf /\ ~drain THEN BlkXferValues ELSE XferBufValues)
FetchedWords(drain) ==
  IF status.fhf THEN Greatest(BlkXferValues, FetchedFromFifo(drain)) ELSE FetchedFromFifo(drain)

\* Under ImmediateUpdate everything left is then fetched in a polling loop,
\* which stores it from the start of the transfer buffer again.
Polled(drain) == IF status.imm THEN Len(fifo) - FetchedFromFifo(drain) ELSE 0

XferBuf(drain) ==
  LET got  == FetchedFromFifo(drain)
      more == Polled(drain)
  IN  [i \in 1 .. FetchedWords(drain) + more |->
         IF i <= more THEN fifo[got + i] ELSE IF i <= got THEN fifo[i] ELSE 0]

\* (Mutant: every mode makes room like recycle mode.)
RecyclesAlways(n) == (count + n) % Word >= MaxValues

\* Recycle mode: when n samples do not fit, the tail moves to the frame
\* boundary past the head they will reach.
Recycles(n)  == bRecycle /\ (count + n) % Word >= MaxValues

RoomTail(n)  == IF Recycles(n) THEN FrameOf((head + n + FrameValues) % MaxValues) * FrameValues
                ELSE tail
RoomCount(n) == IF Recycles(n) THEN (count - Distance(tail, RoomTail(n))) % Word ELSE count

\* (Mutant: a full buffer still takes samples.)
BufferFullLate == ~bRecycle /\ count > MaxValues

BufferFull   == ~bRecycle /\ count = MaxValues

\* First up to the end of the buffer, when the head is not behind the tail,
\* then up to the tail.
ToEnd(n)     == IF head >= RoomTail(n) THEN Least(n, MaxValues - head) ELSE 0

\* (Mutant: the head is not wrapped at the end of the buffer.)
EndHeadUnwrapped(n) == head + ToEnd(n)

EndHead(n)   == (head + ToEnd(n)) % MaxValues

\* (Mutant: the copy from the start of the buffer does not stop at the tail.)
ToTailPast(n) == IF EndHead(n) < RoomTail(n) THEN n - ToEnd(n) ELSE 0

ToTail(n)    == IF EndHead(n) < RoomTail(n) THEN Least(n - ToEnd(n), RoomTail(n) - EndHead(n))
                ELSE 0
Copied(n)    == ToEnd(n) + ToTail(n)
NewHead(n)   == EndHead(n) + ToTail(n)
NewCount(n)  == (RoomCount(n) + Copied(n)) % Word

\* (Mutant: a transfer that ends with the buffer does not count as a wrap.)
WrappedPast(n) == ToEnd(n) > 0 /\ EndHead(n) = 0 /\ ToTail(n) > 0

Wrapped(n)   == ToEnd(n) > 0 /\ EndHead(n) = 0
NowFull(n)   == ~bRecycle /\ NewCount(n) = MaxValues

\* (Mutant: the stop of a full wrapped buffer is not reported as an error.)
FullEventsQuiet == {"eStopped"}

FullEvents      == {"eStopped"} \cup (IF bWrap THEN {"eFrameRecycled", "eBufferError"} ELSE {})
StoreEvents(n)  ==
  {"eDataAvailable"}
  \cup (IF Recycles(n) THEN {"eFrameRecycled"} ELSE {})
  \cup (IF Wrapped(n) THEN {"eBufferDone"} ELSE {})
  \cup (IF Wrapped(n) /\ (bWrap \/ bRecycle) THEN {"eBufferWrapped"} ELSE {})
  \cup (IF Wrapped(n) \/ FrameOf(NewHead(n)) > FrameOf(head) THEN {"eFrameDone"} ELSE {})
  \cup (IF NowFull(n) THEN FullEvents ELSE {})

Store(xfer) ==
  LET n == Len(xfer) IN
  /\ count' = NewCount(n) /\ head' = NewHead(n) /\ tail' = RoomTail(n)
  /\ buf' = [p \in Positions |-> IF Distance(head, p) < Copied(n) THEN xfer[Distance(head, p) + 1]
                                 ELSE buf[p]]

KeepBuffer == UNCHANGED <<count, head, tail, buf>>

\* The FIFO full bit stops the run before the samples are looked at.
FifoError  == bCheckHalfDone /\ status.ff
ErrorEvents == IF FifoError THEN {"eStopped", "eBufferError"} ELSE {}

\* What the handler does after the fetch: `new' are the events it raised, `k'
\* the samples it stored in this run's buffer.
Conclude(new, k) ==
  /\ eventsNew' = eventsNew \cup new
  /\ IF "eStopped" \in new
     THEN SubsysState' = "ssStopped" /\ StopConversions(~DspFaults)
     ELSE UNCHANGED <<SubsysState, converting>>
  /\ FHFSC' = (FHFSC /\ ~(bCheckHalfDone /\ status.fhf /\ "eStopped" \notin eventsNew'))
  /\ good' = IF closed \/ FifoError THEN good ELSE good + k
  /\ closed' = (closed \/ "eStopped" \in new)

Process ==
  /\ phase = "process"
  /\ phase' = "notify"
  /\ UNCHANGED <<status, databuf, bWrap, bRecycle, scanIndex, bCheckHalfDone, made, FFSC,
                 initialised, base, delivered, loan, setups>>

ProcessNothing ==
  /\ Process /\ ~bCheckHalfDone
  /\ Conclude({}, 0)
  /\ KeepBuffer /\ UNCHANGED fifo

ProcessUnregistered ==
  /\ Process /\ bCheckHalfDone /\ databuf # "set"
  /\ Conclude(ErrorEvents \cup {"eStopped"}, 0)
  /\ KeepBuffer /\ UNCHANGED fifo

\* The fetch fails: what was already read is dropped, without an event.
ProcessFetchFails ==
  /\ Process /\ bCheckHalfDone /\ databuf = "set"
  /\ DspFaults
  /\ Conclude(ErrorEvents, 0)
  /\ \E lost \in {FetchedFromFifo(FALSE), FetchedFromFifo(TRUE)}
                   \cup (IF status.fhf THEN {} ELSE {0}) :
        fifo' = SubSeq(fifo, lost + 1, Len(fifo))
  /\ KeepBuffer

ProcessSamples(drain) ==
  LET xfer == XferBuf(drain)
      n    == Len(xfer)
  IN
  /\ Process /\ bCheckHalfDone /\ databuf = "set"
  /\ drain => status.fhf
  /\ fifo' = SubSeq(fifo, FetchedFromFifo(drain) + Polled(drain) + 1, Len(fifo))
  /\ IF n = 0 THEN Conclude(ErrorEvents, 0) /\ KeepBuffer
     ELSE IF BufferFull THEN Conclude(ErrorEvents \cup FullEvents, 0) /\ KeepBuffer
     ELSE Conclude(ErrorEvents \cup StoreEvents(n), Copied(n)) /\ Store(xfer)

(* Step three, pd_notify_user_events: when the application waits for one   *)
(* of the new events they are all handed over, else they stay.             *)
NotifyUserEvents(waitedFor) ==
  /\ phase = "notify"
  /\ phase' = "idle" /\ status' = NoStatus
  /\ eventsNew' = IF waitedFor THEN {} ELSE eventsNew
  /\ UNCHANGED <<SubsysState, bufInfo, bCheckHalfDone, buf, board, history, setups>>

ProcessDriverEvents ==
  \/ ProcessNothing
  \/ ProcessUnregistered
  \/ ProcessFetchFails
  \/ \E drain \in BOOLEAN : ProcessSamples(drain)

Application ==
  \/ \E mode \in Modes, allocated \in BOOLEAN : RegisterDaqBuffer(mode, allocated)
  \/ UnregisterDaqBuffer
  \/ \E ok \in BOOLEAN : AsyncInit(ok) \/ AsyncStart(ok) \/ AsyncStop(ok) \/ AsyncTerm(ok)
  \/ AsyncInitUnregistered
  \/ Reset
  \/ ClearData
  \/ \E numScans \in 1 .. MaxScans : GetScans(numScans)
  \/ ImmediateUpdate

Handler ==
  \/ BottomHalf
  \/ ProcessDriverEvents
  \/ \E waitedFor \in Waits : NotifyUserEvents(waitedFor)

Next == Convert \/ Application \/ Handler

Spec == Init /\ [][Next]_vars

-----------------------------------------------------------------------------
(* What should hold.                                                       *)

\* Every index stays inside the buffer, whatever mode it was registered in and
\* whatever fails: head is a position, tail the start of a frame, scanIndex a
\* scan of the buffer.  pd_process_pd_ain_get_samples and pd_ain_get_scans use
\* them to address memory without a further check.
TypeOK ==
  /\ SubsysState \in {"ssConfig", "ssStandby", "ssRunning", "ssStopped"}
  /\ databuf \in {"never", "none", "set"}
  /\ bWrap \in BOOLEAN /\ bRecycle \in BOOLEAN
  /\ count \in 0 .. Word - 1
  /\ head \in Positions
  /\ tail \in FrameStarts
  /\ scanIndex \in 0 .. MaxScans - 1
  /\ bCheckHalfDone \in BOOLEAN
  /\ eventsNew \subseteq Events
  /\ buf \in [Positions -> Samples]
  /\ phase \in {"idle", "process", "notify"}
  /\ status \in [ff : BOOLEAN, fhf : BOOLEAN, imm : BOOLEAN]
  /\ converting \in BOOLEAN
  /\ fifo \in Seq(Samples) /\ Len(fifo) <= FifoSize
  /\ made \in Samples
  /\ FHFSC \in BOOLEAN /\ FFSC \in BOOLEAN
  /\ initialised \in BOOLEAN /\ closed \in BOOLEAN
  /\ base \in Int /\ good \in Nat
  /\ delivered \in Seq(Samples)
  /\ setups \in Nat
  /\ loan \in [first : 0 .. MaxScans - 1, scans : 0 .. MaxScans, ok : BOOLEAN]

\* Once initialised, a buffer that is not recycled is a queue: count is the
\* number of values from tail to head, the buffer is full only when the two
\* meet, and the reader is somewhere between them.  The driver keeps the four
\* numbers separately, in two functions that update them by different rules.
QueueOK ==
  initialised /\ ~bRecycle =>
    /\ count = Distance(tail, head) \/ (count = MaxValues /\ head = tail)
    /\ Distance(tail, scanIndex * ScanSize) <= count

\* The samples stored and not yet handed out are in the buffer, in the order
\* they were converted, up to the one at which the run was closed.
UnreadIntact ==
  initialised /\ ~bRecycle =>
    \A i \in Len(delivered) + 1 .. good : buf[(i - 1) % MaxValues] = base + i

\* What the application is given is an unbroken, ordered stream of conversions:
\* none missing, none twice, up to the point where a stop was reported.
StreamUnbroken ==
  initialised /\ ~bRecycle =>
    \A i \in 1 .. Least(Len(delivered), good) : delivered[i] = base + i

\* The scans an AInGetScans has handed out are read by the application from the
\* mapped buffer, without a lock: nothing overwrites them until its next call.
LoanedPositions == loan.first * ScanSize .. (loan.first + loan.scans) * ScanSize - 1
LoanUndisturbed ==
  [][ ~bRecycle /\ loan' = loan => \A p \in LoanedPositions : buf'[p] = buf[p] ]_vars

\* AInGetScans returns every stored scan up to the end of the buffer: while the
\* run goes on, the reader cannot be stuck behind samples that are there.
ScansAvailable == [][
  \A numScans \in 1 .. MaxScans :
    GetScans(numScans) /\ initialised /\ ~bRecycle /\ ~closed =>
      loan'.scans = Least(numScans, Least((good - Len(delivered)) \div ScanSize,
                                          MaxScans - scanIndex)) ]_vars

\* An AInGetScans that reports failure (an empty buffer) has not moved the
\* reader past scans the application will then never see.
FailedGetScansTakesNothing ==
  [][ ~loan'.ok /\ initialised /\ ~bRecycle => scanIndex' = scanIndex ]_vars

\* Samples that leave the FIFO and do not reach the DAQ buffer are never lost
\* quietly: the step that drops them stops the run and, in a wrapped buffer,
\* raises eBufferError.
NothingDroppedSilently ==
  [][ phase = "process" /\ phase' = "notify" /\ bCheckHalfDone /\ ~closed /\ ~bRecycle
      /\ Len(fifo) - Len(fifo') > good' - good
      => /\ "eStopped" \in eventsNew' /\ SubsysState' = "ssStopped"
         /\ bWrap \/ status.ff => "eBufferError" \in eventsNew' ]_vars

\* However many samples one interrupt moves, and wherever the buffer wraps, the
\* completion of a frame raises eFrameDone, the event applications wait for.
FrameDoneRaised ==
  [][ good' > good /\ initialised /\ ~bRecycle /\ good' \div FrameValues > good \div FrameValues
      => "eFrameDone" \in eventsNew' ]_vars

\* The driver's record and the board agree: conversions run only while the
\* subsystem is recorded as running.
StoppedMeansIdle == converting => SubsysState = "ssRunning"

-----------------------------------------------------------------------------
(* What the documentation and the comments say, and the code does not do.  *)

\* doc/powerdaq32.txt:586, "pNumValidScans -- OUT: ptr to number of valid scans
\* available": once a single-run acquisition has filled its buffer and stopped,
\* its unread scans are available.
FullBufferIsReadable == [][
  \A numScans \in 1 .. MaxScans :
    GetScans(numScans) /\ initialised /\ ~bWrap /\ ~bRecycle
      /\ good = MaxValues /\ Len(delivered) < MaxValues =>
      loan'.scans > 0 ]_vars

\* pdl_int.c:83-85, "Recycled buffer, same as wrapped buffer, except that the
\* Tail moves (by frame size increments) when buffer becomes full": room is made
\* for every sample fetched, and so the values from tail to head are always the
\* newest samples, in order, however far behind the reader is.
RecycleKeepsNewest ==
  initialised /\ bRecycle /\ ~closed =>
    \A d \in 1 .. Distance(tail, head) :
      buf[(head + MaxValues - d) % MaxValues] = base + good + 1 - d
=============================================================================
