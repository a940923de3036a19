----------------------------- MODULE AOutBuffer -----------------------------
(***************************************************************************)
(* Buffered analog output of one board: the application fills the DAQ      *)
(* buffer, the driver copies blocks of it through the transfer buffer into *)
(* the board's FIFO (pd_aout_put_xbuf), from which the board converts, and *)
(* AOutGetScans tells the application which part it may refill.            *)
(*                                                                         *)
(* A value is the position of the DAQ buffer it is taken from; NoValue is  *)
(* a word of the transfer buffer nothing was copied to, Old a word in the  *)
(* FIFO from before the buffer was last initialised.  The bottom half      *)
(* holds the device spinlock from the reading of the board's status to the *)
(* notification (phase # "idle").  It is one step for each block of        *)
(* pd_process_driver_events that looks at one status bit, because the      *)
(* board goes on converting between them; the reading of the status and    *)
(* the half done block, between which nothing is accessed, are one step.   *)
(***************************************************************************)
EXTENDS Integers, Sequences

CONSTANTS
  ScanSize,    \* values in a scan (BufInfo.ScanValues)
  FrameSize,   \* scans in a frame (BufInfo.FrameSize)
  NumFrames,   \* frames in the DAQ buffer (BufInfo.NumFrames)
  TranSize,    \* AoutSS.TranSize: words the driver takes the FIFO to hold
  FifoSize,    \* words the board's FIFO holds
  Word,        \* modulus of the driver's u32 arithmetic (2^32)
  Layouts,     \* how boards and data widths fill the transfer buffer
  Modes,       \* the buffer modes registered: a set of [wrap, recycle]
  Reconfigures,\* does the application call AOutReset and AOutSetCfg?
  Checks,      \* may AOB_BUFMODE1, which asks for FIFO checks, be configured?
  Requests,    \* the numbers of scans the application asks AOutGetScans for
  MaxSetups,   \* bound: calls that register or initialise a buffer
  MaxFaults    \* bound: commands to the DSP, or allocations, that fail

FrameValues == FrameSize * ScanSize
MaxValues   == FrameValues * NumFrames
MaxScans    == FrameSize * NumFrames

ASSUME AOutGeometryAssumption ==
  /\ ScanSize \in Nat \ {0}
  /\ FrameSize \in Nat \ {0}
  /\ NumFrames \in Nat \ {0}

ASSUME AOutTransferAssumption ==
  /\ TranSize \in Nat \ {0}
  /\ FifoSize \in Nat \ {0}
  /\ Word \in Nat /\ Word > MaxValues

\* Two WORDs make one transfer word of an MF(S) board: a buffer of an odd
\* number of them is not modelled.
ASSUME LayoutAssumption ==
  /\ Layouts \subseteq {"pairs", "direct", "fixed", "listed16"}
  /\ "pairs" \in Layouts => MaxValues % 2 = 0

ASSUME AOutSwitchAssumption ==
  /\ Modes \subseteq [wrap : BOOLEAN, recycle : BOOLEAN]
  /\ Reconfigures \in BOOLEAN
  /\ Checks \subseteq BOOLEAN /\ Requests \subseteq Nat /\ MaxSetups \in Nat /\ MaxFaults \in Nat

VARIABLES
  layout,          \* board type and data width, fixed for a behaviour
  SubsysState,     \* AoutSS.SubsysState
  databuf,         \* BufInfo.databuf: "never" registered, "none", or "set"
  bWrap,           \* BufInfo.bWrap
  bRecycle,        \* BufInfo.bRecycle
  count,           \* BufInfo.Count, a u32
  head,            \* BufInfo.Head: the next value to put
  tail,            \* BufInfo.Tail: where the refilled values end
  scanIndex,       \* BufInfo.ScanIndex: the next scan to refill
  bAsyncMode,      \* AoutSS.bAsyncMode
  bCheckFifoError, \* AoutSS.bCheckFifoError
  bRev3Mode,       \* AoutSS.bRev3Mode
  regenerate,      \* SubsysConfig & AOB_REGENERATE
  eventsNew,       \* AoutSS.dwEventsNew, as a set of events
  phase,           \* where the bottom half is
  status,          \* AOutIntr as read by the bottom half
  converting,      \* board: conversions enabled and triggered
  fifo,            \* board: the FIFO
  HalfDoneSC,      \* board: latched status, the FIFO is at most half full
  BufDoneSC,       \* board: latched status, the FIFO is empty
  UndRunErrSC,     \* board: latched status, a conversion found it empty
  fresh,           \* application: positions filled since they were last put
                   \* (not kept for a recycled buffer)
  granted,         \* application: values AOutGetScans told it to refill
  initialised,     \* history: buffer initialised since it was registered
  setups,          \* counts what MaxSetups bounds
  faults           \* counts what MaxFaults bounds

bufInfo  == <<databuf, bWrap, bRecycle, count, head, tail, scanIndex>>
config   == <<bCheckFifoError, bRev3Mode, regenerate>>
latches  == <<HalfDoneSC, BufDoneSC, UndRunErrSC>>
handler  == <<phase, status>>
refill   == <<fresh, granted>>
vars     == <<layout, SubsysState, bufInfo, bAsyncMode, config, eventsNew, handler,
              converting, fifo, latches, refill, initialised, setups, faults>>

-----------------------------------------------------------------------------
Positions == 0 .. MaxValues - 1
NoValue   == MaxValues
Old       == MaxValues + 1
Values    == Positions \cup {NoValue, Old}
Events    == {"eStopped", "eBufferError", "eBufferDone", "eFrameDone"}
NoStatus  == [half |-> FALSE, done |-> FALSE, under |-> FALSE]

Least(a, b)    == IF a < b THEN a ELSE b
Distance(a, b) == IF b >= a THEN b - a ELSE (MaxValues - a) + b
FrameOf(p)     == p \div FrameValues

\* The positions from a up to b, going round: none if they are equal.
Between(a, b) == {p \in Positions : Distance(a, p) < Distance(a, b)}

Init ==
  /\ layout \in Layouts
  /\ SubsysState = "ssConfig"
  /\ databuf = "never" /\ bWrap = FALSE /\ bRecycle = FALSE
  /\ count = 0 /\ head = 0 /\ tail = 0 /\ scanIndex = 0
  /\ bAsyncMode = FALSE /\ bCheckFifoError = FALSE /\ bRev3Mode = FALSE
  /\ regenerate = FALSE
  /\ eventsNew = {}
  /\ phase = "idle" /\ status = NoStatus
  /\ converting = FALSE /\ fifo = <<>>
  /\ HalfDoneSC = FALSE /\ BufDoneSC = FALSE /\ UndRunErrSC = FALSE
  /\ fresh = {} /\ granted = {}
  /\ initialised = FALSE /\ setups = 0 /\ faults = 0

-----------------------------------------------------------------------------
(* The board (external).  Each conversion takes a word from the FIFO and   *)
(* latches the status that then holds; a conversion that finds the FIFO    *)
(* empty is an underrun.  In regenerate mode the board replays the FIFO by *)
(* itself, which changes nothing here.                                     *)

Play ==
  /\ converting /\ ~regenerate
  /\ fifo' = IF fifo = <<>> THEN fifo ELSE Tail(fifo)
  /\ HalfDoneSC' = (HalfDoneSC \/ Len(fifo') <= FifoSize \div 2)
  /\ BufDoneSC' = (BufDoneSC \/ fifo' = <<>>)
  /\ UndRunErrSC' = (UndRunErrSC \/ fifo = <<>>)
  /\ UNCHANGED <<layout, SubsysState, bufInfo, bAsyncMode, config, eventsNew, handler,
                 converting, refill, initialised, setups, faults>>

-----------------------------------------------------------------------------
(* pd_aout_put_xbuf: the next block of values goes to the board.           *)

Adj == IF layout = "pairs" THEN 2 ELSE 1

\* The values between head and tail, at most what the FIFO takes.
AvlSamples    == IF head >= tail THEN MaxValues - head + tail ELSE tail - head
NumToCopy(n)  == Least(Adj * Least(n, TranSize), AvlSamples)
SamplesA(n)   == Least(NumToCopy(n), MaxValues - head)
SamplesB(n)   == NumToCopy(n) - SamplesA(n)
XFerSize(n)   == NumToCopy(n) \div Adj

\* Word i of the transfer buffer, by the six cases of the source.  "direct":
\* cases 2, 4 and 6; "pairs": case 1, named by the first of the two values;
\* "fixed": case 5, whose second memcpy starts at the first word again;
\* "listed16": case 3, whose second loop writes all its values to one word.
\* (Mutant: the second piece is taken from the head again.)
InTurnFromHead(n, i) == IF i <= SamplesA(n) THEN head + i - 1 ELSE head + i - SamplesA(n) - 1

InTurn(n, i) == IF i <= SamplesA(n) THEN head + i - 1 ELSE i - SamplesA(n) - 1

XFerWord(n, i) ==
  IF layout = "direct" THEN InTurn(n, i)
  ELSE IF layout = "pairs" THEN InTurn(n, 2 * i - 1)
  ELSE IF layout = "fixed" THEN
    IF i <= SamplesB(n) THEN i - 1 ELSE IF i <= SamplesA(n) THEN head + i - 1 ELSE NoValue
  ELSE
    IF i <= SamplesA(n) THEN head + i - 1
    ELSE IF i = SamplesA(n) + 1 THEN SamplesB(n) - 1 ELSE NoValue

\* (Mutant: a head that reaches the end exactly stays there.)
HeadAfterLate(words) == IF head + words * Adj > MaxValues THEN head + words * Adj - MaxValues
                        ELSE head + words * Adj

HeadAfter(words) == IF head + words * Adj >= MaxValues THEN head + words * Adj - MaxValues
                    ELSE head + words * Adj

NoLongerToldApart(k) == [i \in 1 .. k |-> Old]

\* The board allows `words' and `arrive' of them get there.  The head moves by
\* the words written, whatever the acknowledgement says.
PutWords(n, words, arrive) ==
  /\ fifo' = IF arrive = words THEN fifo \o [i \in 1 .. arrive |-> XFerWord(n, i)]
             ELSE NoLongerToldApart(Len(fifo) + arrive)
  /\ head' = HeadAfter(words)
  /\ tail' = IF bRecycle THEN head ELSE tail
  /\ count' = (count + words * Adj) % Word
  /\ fresh' = IF bRecycle THEN {} ELSE fresh \ {(head + d) % MaxValues : d \in 0 .. words * Adj - 1}

FifoRoom == FifoSize - Len(fifo)

Taken(n) == Least(FifoRoom, XFerSize(n))

\* A command that times out answers -1, and everything is written.
PutXBuf(n, ok) ==
  IF ok THEN PutWords(n, Taken(n), Taken(n))
  ELSE \E words \in {Taken(n), XFerSize(n)}, arrive \in {0, Taken(n)} : PutWords(n, words, arrive)

\* Commands to the DSP and allocations can fail.
Outcome(ok) == IF ok THEN UNCHANGED faults ELSE faults < MaxFaults /\ faults' = faults + 1

-----------------------------------------------------------------------------
(* The application's ioctls and its refilling of the buffer.               *)

Unlocked == UNCHANGED <<layout, handler>>
Locked   == phase = "idle" /\ Unlocked
Counted  == setups < MaxSetups /\ setups' = setups + 1
Ioctl    == Locked /\ UNCHANGED setups
Setup    == Locked /\ Counted

\* Registering drops the lock; the indices of an earlier buffer stay.
RegisterDaqBuffer(mode, allocated) ==
  /\ Unlocked /\ Counted
  /\ Outcome(allocated)
  /\ databuf' = IF allocated THEN "set" ELSE "none"
  /\ bWrap' = mode.wrap /\ bRecycle' = mode.recycle
  /\ fresh' = {} /\ granted' = {} /\ initialised' = FALSE
  /\ UNCHANGED <<SubsysState, count, head, tail, scanIndex, bAsyncMode, config, eventsNew,
                 converting, fifo, latches>>

UnregisterDaqBuffer ==
  /\ Unlocked /\ UNCHANGED setups
  /\ databuf = "set"
  /\ databuf' = "none"
  /\ fresh' = {} /\ granted' = {} /\ initialised' = FALSE
  /\ UNCHANGED <<SubsysState, bWrap, bRecycle, count, head, tail, scanIndex, bAsyncMode,
                 config, eventsNew, converting, fifo, latches, faults>>

\* The buffer is taken to be full of data.  A recycled buffer that fits into
\* the FIFO is regenerated by the board.  Every failure after the clearing
\* leaves the subsystem in ssConfig.
AsyncInit(ok, regen, check) ==
  /\ Setup
  /\ SubsysState # "ssRunning"
  /\ databuf = "set"
  /\ Outcome(ok)
  /\ SubsysState' = IF ok THEN "ssStandby" ELSE "ssConfig"
  /\ count' = 0 /\ head' = 0 /\ tail' = 0 /\ scanIndex' = 0
  /\ bAsyncMode' = TRUE
  /\ bCheckFifoError' = check
  /\ regenerate' = (regen \/ (bRecycle /\ MaxValues <= TranSize))
  /\ bRev3Mode' = FALSE
  /\ eventsNew' = {}
  /\ IF regenerate' \/ ~ok THEN UNCHANGED latches
     ELSE HalfDoneSC' = FALSE /\ BufDoneSC' = FALSE /\ UndRunErrSC' = FALSE
  /\ fresh' = (IF bRecycle THEN {} ELSE Positions) /\ granted' = {}
  /\ initialised' = TRUE /\ fifo' = NoLongerToldApart(Len(fifo))
  /\ UNCHANGED <<databuf, bWrap, bRecycle, converting>>

AsyncInitUnregistered ==
  /\ Ioctl
  /\ SubsysState # "ssRunning"
  /\ databuf # "set"
  /\ SubsysState' = "ssConfig"
  /\ UNCHANGED <<bufInfo, bAsyncMode, config, eventsNew, converting, fifo, latches, refill,
                 initialised, faults>>

\* The first block is put before conversions are enabled.  The replies to the
\* commands that enable them are not looked at.  The application has filled
\* what it was given before it starts the output.
StartCount == IF MaxValues <= TranSize THEN MaxValues ELSE TranSize \div 2

AsyncStart(ok, enabled) ==
  /\ Ioctl
  /\ SubsysState = "ssStandby" /\ granted = {}
  /\ Outcome(ok /\ enabled)
  /\ PutXBuf(StartCount, ok)
  /\ bRev3Mode' = TRUE
  /\ IF ok THEN SubsysState' = "ssRunning" /\ converting' = (enabled \/ converting)
     ELSE UNCHANGED <<SubsysState, converting>>
  /\ UNCHANGED <<databuf, bWrap, bRecycle, scanIndex, bAsyncMode, bCheckFifoError, regenerate,
                 eventsNew, latches, granted, initialised>>

\* (Mutant: the command is never sent.)
ForgetToStop(ok)    == converting' \in {converting}

StopConversions(ok) == converting' \in IF ok THEN {FALSE} ELSE {converting, FALSE}

AsyncStop(ok) ==
  /\ Ioctl
  /\ SubsysState = "ssRunning"
  /\ Outcome(ok)
  /\ StopConversions(ok)
  /\ IF ok THEN SubsysState' = "ssStopped" /\ bRev3Mode' = FALSE
     ELSE UNCHANGED <<SubsysState, bRev3Mode>>
  /\ UNCHANGED <<bufInfo, bAsyncMode, bCheckFifoError, regenerate, eventsNew, fifo, latches, refill,
                 initialised>>

AsyncStopIdle ==
  /\ Ioctl
  /\ SubsysState # "ssRunning"
  /\ SubsysState' = "ssStopped"
  /\ UNCHANGED <<bufInfo, bAsyncMode, config, eventsNew, converting, fifo, latches, refill,
                 initialised, faults>>

AsyncTerm(ok) ==
  /\ Ioctl
  /\ Outcome(ok)
  /\ StopConversions(ok)
  /\ IF ok THEN SubsysState' = "ssConfig" /\ bAsyncMode' = FALSE /\ bCheckFifoError' = FALSE
     ELSE UNCHANGED <<SubsysState, bAsyncMode, bCheckFifoError>>
  /\ UNCHANGED <<bufInfo, bRev3Mode, regenerate, eventsNew, fifo, latches, refill, initialised>>

\* AOutReset: the DSP stops and forgets; the driver's record of the subsystem
\* keeps its state, only the handler goes back to its old way.
Reset ==
  /\ Ioctl /\ Reconfigures
  /\ bRev3Mode' = FALSE
  /\ converting' = FALSE /\ fifo' = <<>>
  /\ HalfDoneSC' = FALSE /\ BufDoneSC' = FALSE /\ UndRunErrSC' = FALSE
  /\ UNCHANGED <<SubsysState, bufInfo, bAsyncMode, bCheckFifoError, regenerate, eventsNew, refill,
                 initialised, faults>>

SetConfig ==
  /\ Ioctl /\ Reconfigures
  /\ bRev3Mode' = FALSE
  /\ UNCHANGED <<SubsysState, bufInfo, bAsyncMode, bCheckFifoError, regenerate, eventsNew,
                 converting, fifo, latches, refill, initialised, faults>>

(* AOutGetScans: the oldest scans that may be refilled, up to the end of   *)
(* the buffer; the frames before them are handed back to the driver.       *)

HeadScan   == head \div ScanSize

\* (Mutant: with nothing new to refill, the rest of the buffer is offered.)
AvailScansWhenNone == IF scanIndex < HeadScan THEN HeadScan - scanIndex ELSE MaxScans - scanIndex

AvailScans == IF scanIndex < HeadScan THEN HeadScan - scanIndex
              ELSE IF HeadScan < scanIndex THEN MaxScans - scanIndex
              ELSE 0
ValidScans(numScans) == Least(numScans, AvailScans)
\* (Mutant: the reader is not moved past the scans it is given.)
ScanIndexStays(numScans) == scanIndex

ScanIndexAfter(numScans) == (scanIndex + ValidScans(numScans)) % MaxScans

\* (Mutant: the frame still being refilled is handed back with those before.)
ScanFrameEarly == (scanIndex \div FrameSize + 1) % NumFrames

ScanFrame == scanIndex \div FrameSize
TailFrame == (tail \div ScanSize) \div FrameSize
Queued    == bWrap /\ ~bRecycle
RefilledTo == IF ~Queued \/ ScanFrame = TailFrame THEN tail
              ELSE IF ScanFrame > TailFrame THEN ScanFrame * FrameValues
              ELSE 0

\* (Mutant: the frames handed back at the end of the buffer are not subtracted.)
RefilledUncounted == IF Queued /\ ScanFrame > TailFrame THEN ScanFrame * FrameValues - tail ELSE 0

Refilled   == IF ~Queued \/ ScanFrame = TailFrame THEN 0
              ELSE IF ScanFrame > TailFrame THEN ScanFrame * FrameValues - tail
              ELSE MaxValues - tail

\* The values offered.  (A subsystem that is not running is offered others, by
\* the code's last lines; nothing of them is output any more.)
Offered(numScans) ==
  IF SubsysState = "ssRunning"
  THEN scanIndex * ScanSize .. (scanIndex + ValidScans(numScans)) * ScanSize - 1
  ELSE {}

GetScans(numScans) ==
  /\ Ioctl
  /\ databuf # "never"
  /\ granted = {}
  /\ scanIndex' = ScanIndexAfter(numScans)
  /\ tail' = RefilledTo
  /\ count' = (count - Refilled) % Word
  /\ granted' = Offered(numScans)
  /\ UNCHANGED <<SubsysState, databuf, bWrap, bRecycle, head, bAsyncMode, config, eventsNew,
                 converting, fifo, latches, fresh, initialised, faults>>

\* The application writes what it was given into the mapped buffer, without a
\* lock, before it asks for more.
Refill ==
  /\ granted # {}
  /\ fresh' = IF bRecycle THEN {} ELSE fresh \cup granted
  /\ granted' = {}
  /\ UNCHANGED <<layout, SubsysState, bufInfo, bAsyncMode, config, eventsNew, handler, converting,
                 fifo, latches, initialised, setups, faults>>

-----------------------------------------------------------------------------
(* The bottom half: the AOut part of pd_process_driver_events, one status  *)
(* bit after the other.                                                    *)

InHandler == UNCHANGED <<layout, databuf, bWrap, bRecycle, scanIndex, config, granted, initialised,
                         setups>>

ReadBoardStatus(next) ==
  /\ phase = "idle" /\ phase' = next
  /\ HalfDoneSC \/ BufDoneSC \/ UndRunErrSC
  /\ status' = [half |-> HalfDoneSC, done |-> BufDoneSC, under |-> UndRunErrSC]
  /\ InHandler

At(here, next) ==
  /\ phase = here /\ phase' = next
  /\ status' = IF next = "under" THEN status ELSE NoStatus
  /\ InHandler

KeepRing   == UNCHANGED <<fifo, head, tail, count, fresh>>
NothingPut == KeepRing /\ UNCHANGED <<SubsysState, bAsyncMode, converting, faults>>

\* pd_stop_and_disable_aout: a failing command does not keep the driver from
\* recording the stop.
StopAndDisable(ok, events) ==
  /\ Outcome(ok) /\ StopConversions(ok)
  /\ eventsNew' = events \cup (IF SubsysState = "ssRunning" THEN {"eStopped"} ELSE {})
  /\ SubsysState' = "ssStopped"
  /\ bAsyncMode' = FALSE

\* pd_process_aout_put_samples, with the events raised so far in this run of
\* the handler.
Finished   == ~bWrap /\ ~bRecycle /\ count >= MaxValues

NothingLeft == Queued /\ head = tail

\* (Mutant: a frame that ends with the buffer is not noticed.)
PutEventsNoWrap == IF FrameOf(head') > FrameOf(head) THEN {"eFrameDone"} ELSE {}

PutEvents  == IF head > head' THEN {"eBufferDone", "eFrameDone"}
              ELSE IF FrameOf(head') > FrameOf(head) THEN {"eFrameDone"} ELSE {}

PutSamples(ok, events) ==
  \/ /\ ~bAsyncMode \/ databuf # "set"
     /\ StopAndDisable(ok, events) /\ KeepRing
  \/ /\ bAsyncMode /\ databuf = "set" /\ Finished
     /\ eventsNew' = events \cup {"eBufferDone"}
     /\ ok /\ NothingPut
  \/ /\ bAsyncMode /\ databuf = "set" /\ NothingLeft
     /\ eventsNew' = events \cup {"eBufferError"}
     /\ bAsyncMode' = FALSE
     /\ ok /\ KeepRing /\ UNCHANGED <<SubsysState, converting, faults>>
  \/ /\ bAsyncMode /\ databuf = "set" /\ ~Finished /\ ~NothingLeft
     /\ Outcome(ok) /\ PutXBuf(TranSize \div 2, ok)
     /\ eventsNew' = events \cup PutEvents
     /\ UNCHANGED <<SubsysState, bAsyncMode, converting>>

\* The status is read, and the half done bit served first.
ProcessHalfDone(ok) ==
  /\ bRev3Mode /\ ReadBoardStatus("done")
  /\ UNCHANGED latches
  /\ \/ HalfDoneSC /\ SubsysState = "ssRunning" /\ PutSamples(ok, {})
     \/ /\ ~(HalfDoneSC /\ SubsysState = "ssRunning")
        /\ eventsNew' = IF HalfDoneSC THEN {"eFrameDone"} ELSE {}
        /\ ok /\ NothingPut

FifoErrorEvents == IF bCheckFifoError THEN {"eBufferError"} ELSE {}

ProcessBufDone(ok) ==
  /\ At("done", "under")
  /\ UNCHANGED latches
  /\ LET seen == status.done /\ ~regenerate IN
     \/ seen /\ SubsysState = "ssRunning" /\ PutSamples(ok, eventsNew \cup FifoErrorEvents)
     \/ /\ ~(seen /\ SubsysState = "ssRunning")
        /\ eventsNew' = IF seen THEN eventsNew \cup {"eBufferError", "eBufferDone"} ELSE eventsNew
        /\ ok /\ NothingPut

\* (Mutant: an underrun stops the output only if FIFO errors are checked.)
UnderrunIfChecked == status.under /\ ~regenerate /\ bCheckFifoError

UnderrunSeen == status.under /\ ~regenerate

\* The last block, and the clearing of the status bits the handler has seen.
\* The underrun bit is cleared in asynchronous mode only.
ProcessUndRunErr(ok) ==
  /\ At("under", "notify")
  /\ IF UnderrunSeen THEN StopAndDisable(ok, eventsNew \cup {"eBufferError"})
     ELSE ok /\ UNCHANGED <<SubsysState, bAsyncMode, converting, eventsNew, faults>>
  /\ HalfDoneSC' = (HalfDoneSC /\ ~status.half)
  /\ BufDoneSC' = (BufDoneSC /\ ~(status.done /\ ~regenerate))
  /\ UndRunErrSC' = (UndRunErrSC /\ ~(UnderrunSeen /\ bAsyncMode))
  /\ KeepRing

\* Without bRev3Mode nothing is put: the bits only become events.
ProcessOldWay ==
  /\ ~bRev3Mode
  /\ phase = "idle" /\ phase' = "notify" /\ UNCHANGED status
  /\ HalfDoneSC \/ BufDoneSC \/ UndRunErrSC
  /\ InHandler
  /\ eventsNew' = (IF bCheckFifoError /\ UndRunErrSC THEN {"eBufferError"} ELSE {})
                  \cup (IF HalfDoneSC THEN {"eFrameDone"} ELSE {})
                  \cup (IF BufDoneSC THEN {"eBufferDone"} ELSE {})
  /\ HalfDoneSC' = FALSE /\ BufDoneSC' = FALSE
  /\ UndRunErrSC' = (UndRunErrSC /\ ~bCheckFifoError)
  /\ NothingPut

\* The new events are handed over together when one of them is waited for;
\* the others are dropped by the next run, before anything else reads them.
NotifyUserEvents ==
  /\ At("notify", "idle")
  /\ eventsNew' = {}
  /\ NothingPut /\ UNCHANGED latches

Application ==
  \/ \E mode \in Modes, allocated \in BOOLEAN : RegisterDaqBuffer(mode, allocated)
  \/ UnregisterDaqBuffer
  \/ \E ok, regen \in BOOLEAN, check \in Checks : AsyncInit(ok, regen, check)
  \/ AsyncInitUnregistered
  \/ \E ok, enabled \in BOOLEAN : AsyncStart(ok, enabled)
  \/ \E ok \in BOOLEAN : AsyncStop(ok) \/ AsyncTerm(ok)
  \/ AsyncStopIdle
  \/ Reset
  \/ SetConfig
  \/ \E numScans \in Requests : GetScans(numScans)
  \/ Refill

ServeBoard == ProcessOldWay \/ \E ok \in BOOLEAN : ProcessHalfDone(ok)
Serve      == NotifyUserEvents \/ \E ok \in BOOLEAN : ProcessBufDone(ok) \/ ProcessUndRunErr(ok)

Next == Play \/ Application \/ ServeBoard \/ Serve

Spec == Init /\ [][Next]_vars

\* The board converts; the interrupt of a latched bit that is not masked is
\* served (half done and buffer done are enabled, underrun is not), and the
\* handler runs to its end.
Interrupt == (HalfDoneSC \/ BufDoneSC) /\ ServeBoard
Fairness  == WF_vars(Play) /\ WF_vars(Interrupt) /\ WF_vars(Serve)
FairSpec  == Spec /\ Fairness

-----------------------------------------------------------------------------
(* What should hold.                                                       *)

\* Head and tail are positions of the buffer and scanIndex one of its scans,
\* whatever mode it was registered in and whatever fails: pd_aout_put_xbuf and
\* pd_aout_get_scans address memory by them without a further check.
TypeOK ==
  /\ layout \in Layouts
  /\ SubsysState \in {"ssConfig", "ssStandby", "ssRunning", "ssStopped"}
  /\ databuf \in {"never", "none", "set"}
  /\ bWrap \in BOOLEAN /\ bRecycle \in BOOLEAN
  /\ count \in 0 .. Word - 1
  /\ head \in Positions /\ tail \in Positions
  /\ scanIndex \in 0 .. MaxScans - 1
  /\ bAsyncMode \in BOOLEAN /\ bCheckFifoError \in BOOLEAN /\ bRev3Mode \in BOOLEAN
  /\ regenerate \in BOOLEAN
  /\ eventsNew \subseteq Events
  /\ phase \in {"idle", "done", "under", "notify"}
  /\ status \in [half : BOOLEAN, done : BOOLEAN, under : BOOLEAN]
  /\ converting \in BOOLEAN
  /\ fifo \in Seq(Values)
  /\ HalfDoneSC \in BOOLEAN /\ BufDoneSC \in BOOLEAN /\ UndRunErrSC \in BOOLEAN
  /\ fresh \subseteq Positions
  /\ granted \subseteq Positions
  /\ initialised \in BOOLEAN
  /\ setups \in 0 .. MaxSetups /\ faults \in 0 .. MaxFaults

\* Once initialised, a buffer that is not recycled is a queue: count is the
\* number of values from tail to head, those put and not yet handed back, and
\* the reader of AOutGetScans is among them.  The driver keeps the numbers in
\* two functions that update them by different rules.  (A start that fails after
\* its block was put, and is tried again, goes past this.)
QueueOK ==
  initialised /\ ~bRecycle /\ faults = 0 =>
    /\ count = Distance(tail, head) \/ (count = MaxValues /\ head = tail)
    /\ Distance(tail, scanIndex * ScanSize) <= count

\* The values still to be put: those from head to tail, all of them when the
\* two meet and nothing has been put since the buffer was full.
Pending == IF head # tail THEN Between(head, tail) ELSE IF count = 0 THEN Positions ELSE {}

\* Every value the driver may yet put was filled by the application after it
\* was last put: no value goes out twice.
PendingIsFresh ==
  initialised /\ ~bRecycle /\ faults = 0 /\ SubsysState = "ssRunning" => Pending \subseteq fresh

\* AOutGetScans never gives the application values of a running output that
\* are still to be put: it would overwrite them before they are output.
GrantedIsPlayed ==
  initialised /\ ~bRecycle /\ faults = 0 /\ SubsysState = "ssRunning" => granted \cap Pending = {}

\* The board's FIFO holds the last values before the head, in order: none is
\* skipped, repeated or made up, wherever the buffer wraps.
OutputInOrder ==
  initialised =>
    \A i \in 1 .. Len(fifo) :
      fifo[i] # Old => fifo[i] = (head - (Len(fifo) - i + 1) * Adj) % MaxValues

\* A block that completes a frame raises eFrameDone, by which the application
\* learns that it may refill the frame.
FrameDoneRaised ==
  [][ SubsysState = "ssRunning" /\ FrameOf(head') # FrameOf(head) => "eFrameDone" \in eventsNew' ]_vars

\* The driver's record and the board agree: conversions run only while the
\* subsystem is recorded as running.
StoppedMeansIdle == converting /\ faults = 0 => SubsysState = "ssRunning"

\* An output that has come to the end of its data (a straight buffer put to
\* its end, a wrapped one found empty) is stopped, although the enabled
\* interrupts do not include that of the underrun.
EndOfData ==
  faults = 0 /\ SubsysState = "ssRunning" /\ bRev3Mode /\ ~regenerate /\ (Finished \/ ~bAsyncMode)
EndOfDataStops == EndOfData ~> ~EndOfData

-----------------------------------------------------------------------------
(* What the comments say, and the code does not do.                        *)

\* pdl_int.c:657-659, "Wrapped buffer ... Stop output when buffer becomes
\* empty (underrun)": the buffer the driver finds empty, and reports as a
\* buffer error, is not one the application has refilled completely.
EmptyMeansEmpty ==
  [][ initialised /\ SubsysState' = "ssRunning"
      /\ bAsyncMode /\ ~bAsyncMode' => fresh # Positions ]_vars
=============================================================================
