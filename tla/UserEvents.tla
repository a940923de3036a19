----------------------------- MODULE UserEvents ------------------------------
(***************************************************************************)
(* User events of one subsystem whose events are asserted by the board:    *)
(* digital input (eDInEvent), the counter/timers (eUct0Event, ...) and the *)
(* unbuffered scans of analog input (eScanDone).  An event goes from the   *)
(* status bit the board latches, through the interrupt, the work queue and *)
(* the bottom half, to the process that sleeps in PdWaitForEvent.          *)
(*                                                                         *)
(* Everything in the driver runs under the device spinlock except the      *)
(* sleep itself.  The bottom half holds the lock from its reading of the   *)
(* board's status to its re-enabling of the interrupt; the board goes on   *)
(* meanwhile, so it is three steps (phase # "idle" keeps the rest out).    *)
(***************************************************************************)
EXTENDS FiniteSets, Naturals

CONSTANTS
  Subsystem,       \* "AnalogIn", "DigitalIn" or "CounterTimer"
  Events,          \* the events of the subsystem
  EnableArgs,      \* what the application calls PdAdapterEnableInterrupt with
  ConcurrentCalls, \* may one thread set and clear events while another waits?
  Diagnostics,     \* is the interrupt test called?
  BufferedInits,   \* is buffered output (or input) initialised meanwhile?
  MaxUnreturned    \* bound: the assertions of an event that are counted

ASSUME EventsAssumption ==
  /\ Subsystem \in {"AnalogIn", "DigitalIn", "CounterTimer"}
  /\ IsFiniteSet(Events)
  /\ EnableArgs \subseteq BOOLEAN
  /\ ConcurrentCalls \in BOOLEAN /\ Diagnostics \in BOOLEAN /\ BufferedInits \in BOOLEAN
  /\ MaxUnreturned \in Nat

VARIABLES
  SC,            \* board: latched status bits, one per event
  Im,            \* board: interrupt mask bits (and their copy in FwEventsConfig)
  keepSC,        \* the status bits of FwEventsConfig are 1: written, they leave SC
  request,       \* board: an unmasked event has asked for the interrupt
  intEnabled,    \* board: host interrupt enabled
  bTestInt,      \* pd_board.bTestInt
  scheduled,     \* the bottom half is in the work queue
  phase,         \* where the bottom half is: idle, process or notify
  FwEventsStatus,\* the status bits as the bottom half last read them
  eventsNotify,  \* dwEventsNotify
  eventsStatus,  \* dwEventsStatus
  eventsNew,     \* dwEventsNew
  notified,      \* synch->notifiedEvents
  waiter,        \* PdWaitForEvent: "no", "asleep", "woken", "timedout" or "signalled"
  armed,         \* history: events set for notification, not notified since
  owed,          \* history: of these, the events asserted since they were set
  unreturned     \* history: assertions of each event that no wait has returned

board   == <<SC, Im, request, intEnabled>>
driver  == <<keepSC, FwEventsStatus, eventsNotify, eventsStatus, eventsNew>>
history == <<armed, owed, unreturned>>
vars    == <<board, bTestInt, scheduled, phase, driver, notified, waiter, history>>

Init ==
  /\ SC = {} /\ Im = {} /\ request = FALSE /\ intEnabled = FALSE
  /\ bTestInt = FALSE /\ scheduled = FALSE /\ phase = "idle"
  /\ keepSC = FALSE /\ FwEventsStatus = {} /\ eventsNotify = {} /\ eventsStatus = {} /\ eventsNew = {}
  /\ notified = {} /\ waiter = "no"
  /\ armed = {} /\ owed = {} /\ unreturned = [e \in Events |-> 0]

-----------------------------------------------------------------------------
(* The board (external).  A status bit that becomes set while it is not    *)
(* masked asks for the interrupt once, until the driver clears the bit.    *)

Assert(e) ==
  /\ SC' = SC \cup {e}
  /\ request' = (request \/ (e \in Im /\ e \notin SC))
  /\ owed' = owed \cup ({e} \cap armed)
  /\ unreturned' = [unreturned EXCEPT ![e] = IF @ < MaxUnreturned THEN @ + 1 ELSE @]
  /\ UNCHANGED <<Im, intEnabled, bTestInt, scheduled, phase, driver, notified, waiter,
                 armed>>

\* An event of another subsystem asks for the same interrupt.
AssertOther ==
  /\ ~request
  /\ request' = TRUE
  /\ UNCHANGED <<SC, Im, intEnabled, bTestInt, scheduled, phase, driver, notified, waiter,
                 history>>

-----------------------------------------------------------------------------
(* The interrupt: pd_isr_serve_board, then the bottom half.                *)

\* The acknowledgement clears the request and disables the host interrupt.
\* An interrupt that the test has announced is taken for the test's own.
ServeBoard ==
  /\ phase = "idle"
  /\ request /\ intEnabled
  /\ request' = FALSE /\ intEnabled' = FALSE
  /\ bTestInt' = FALSE
  /\ scheduled' = (scheduled \/ ~bTestInt)
  /\ UNCHANGED <<SC, Im, phase, driver, notified, waiter, history>>

ReadBoardStatus ==
  /\ phase = "idle" /\ scheduled
  /\ phase' = "process" /\ scheduled' = FALSE
  /\ FwEventsStatus' = SC
  /\ UNCHANGED <<board, bTestInt, keepSC, eventsNotify, eventsStatus, eventsNew, notified,
                 waiter, history>>

\* (Mutants: every latched bit is cleared, also one that came after the reading;
\* only the events somebody waits for are cleared.)
ClearEventsUnread == SC
ClearEventsSet    == FwEventsStatus \cap eventsNotify

\* An event that is new already keeps its status bit.  (The register also has
\* events of other subsystems, whose clearing sets keepSC as well.)
ClearEvents == FwEventsStatus \ eventsNew

ProcessDriverEvents ==
  /\ phase = "process" /\ phase' = "notify"
  /\ eventsNew' = eventsNew \cup FwEventsStatus
  /\ SC' = SC \ ClearEvents
  /\ keepSC' \in {keepSC \/ ClearEvents # {}, TRUE}
  /\ UNCHANGED <<Im, request, intEnabled, bTestInt, scheduled, FwEventsStatus, eventsNotify,
                 eventsStatus, notified, waiter, history>>

\* (Mutants: only all the events that are set together are reported; an interrupt
\* without events is.)
NotifyUserAll   == eventsNotify # {} /\ eventsNotify \subseteq eventsNew
NotifyUserEmpty == eventsNotify \cap eventsNew # {} \/ eventsNew = {}

NotifyUser == eventsNotify \cap eventsNew # {}

NotifyUserEvents ==
  /\ phase = "notify" /\ phase' = "idle"
  /\ IF NotifyUser
     THEN /\ notified' = eventsNew
          /\ eventsNotify' = eventsNotify \ eventsNew
          /\ eventsStatus' = eventsStatus \cup eventsNew
          /\ eventsNew' = {}
          /\ armed' = armed \ eventsNew /\ owed' = owed \ eventsNew
     ELSE UNCHANGED <<notified, eventsNotify, eventsStatus, eventsNew, armed, owed>>
  /\ intEnabled' = TRUE
  /\ UNCHANGED <<SC, Im, request, bTestInt, keepSC, scheduled, FwEventsStatus,
                 waiter, unreturned>>

-----------------------------------------------------------------------------
(* The application's ioctls.                                               *)

Ioctl ==
  /\ phase = "idle" /\ (waiter = "no" \/ ConcurrentCalls)
  /\ UNCHANGED <<scheduled, phase, waiter, unreturned>>

\* (Mutant: the events set before are forgotten.)
SetNotifyOver(events) == events

SetNotify(events) == eventsNotify \cup events

SetUserEvents(events) ==
  /\ Ioctl
  /\ notified' = {}
  /\ eventsNotify' = SetNotify(events)
  /\ eventsStatus' = eventsStatus \ events
  /\ Im' = Im \cup events
  /\ SC' = SC \ events /\ keepSC' = TRUE
  /\ armed' = armed \cup events /\ owed' = owed \ events
  /\ UNCHANGED <<request, intEnabled, bTestInt, FwEventsStatus, eventsNew>>

\* Digital input and counter/timers set the bits of the other events, and mask
\* the cleared ones; eScanDone keeps its mask.  FwEventsConfig is then written
\* as it is, and until an event has been enabled all its status bits are 0.
ClearedNotify(events) == IF Subsystem = "AnalogIn" THEN eventsNotify \ events
                         ELSE eventsNotify \cup (Events \ events)
ClearedMask(events)   == IF Subsystem = "AnalogIn" THEN Im ELSE Im \ events

ClearUserEvents(events) ==
  /\ Ioctl
  /\ eventsNotify' = ClearedNotify(events)
  /\ eventsStatus' = eventsStatus \ events
  /\ Im' = ClearedMask(events)
  /\ SC' = IF keepSC THEN SC ELSE {}
  /\ armed' = armed \ events /\ owed' = owed \ events
  /\ UNCHANGED <<request, intEnabled, bTestInt, keepSC, FwEventsStatus, eventsNew, notified>>

\* What GetUserEvents returns; it changes nothing.
UserEventStatus == eventsStatus \cup FwEventsStatus

\* The end of pd_aout_async_init (and of pd_ain_async_init, where Subsystem is
\* not analog input): pd_enable_events is handed FwEventsConfig itself as the
\* events to enable and to clear.
InitBuffered ==
  /\ Ioctl /\ BufferedInits
  /\ SC' = IF keepSC THEN {} ELSE SC
  /\ UNCHANGED <<Im, request, intEnabled, bTestInt, driver, notified, armed, owed>>

EnableInterrupt(val) ==
  /\ Ioctl
  /\ val \in EnableArgs
  /\ intEnabled' = val
  /\ UNCHANGED <<SC, Im, request, bTestInt, driver, notified, armed, owed>>

\* PdAdapterTestInterrupt: the board is told to raise its interrupt.
TestInterrupt ==
  /\ Ioctl /\ Diagnostics
  /\ bTestInt' = TRUE /\ request' = TRUE
  /\ UNCHANGED <<SC, Im, intEnabled, driver, notified, armed, owed>>

\* PdWaitForEvent: pd_sleep_on_event gives up the lock to sleep, and the events
\* already notified keep it from sleeping.  A wake-up, the time-out and a signal
\* to the process end the sleep; what is returned is read only after the lock is
\* taken again: eTimeout is added if the time ran out, and nothing for a signal.
BeginWait ==
  /\ phase = "idle" /\ waiter = "no"
  /\ waiter' = "asleep"
  /\ UNCHANGED <<board, bTestInt, scheduled, phase, driver, notified, history>>

WakeUp ==
  /\ waiter = "asleep" /\ notified # {}
  /\ waiter' = "woken"
  /\ UNCHANGED <<board, bTestInt, scheduled, phase, driver, notified, history>>

TimeOut ==
  /\ waiter = "asleep"
  /\ waiter' = "timedout"
  /\ UNCHANGED <<board, bTestInt, scheduled, phase, driver, notified, history>>

Signal ==
  /\ waiter = "asleep"
  /\ waiter' = "signalled"
  /\ UNCHANGED <<board, bTestInt, scheduled, phase, driver, notified, history>>

EndWait ==
  /\ phase = "idle" /\ waiter \in {"woken", "timedout", "signalled"}
  /\ waiter' = "no" /\ notified' = {}
  /\ unreturned' = [e \in Events |-> IF e \in notified /\ unreturned[e] > 0
                                     THEN unreturned[e] - 1 ELSE unreturned[e]]
  /\ UNCHANGED <<board, bTestInt, scheduled, phase, driver, armed, owed>>

-----------------------------------------------------------------------------
BottomHalf == ReadBoardStatus \/ ProcessDriverEvents \/ NotifyUserEvents

OtherIoctls == (\E val \in BOOLEAN : EnableInterrupt(val)) \/ InitBuffered \/ TestInterrupt

WaitSteps == BeginWait \/ WakeUp \/ TimeOut \/ Signal

Application ==
  \/ \E events \in SUBSET Events \ {{}} : SetUserEvents(events) \/ ClearUserEvents(events)
  \/ OtherIoctls
  \/ WaitSteps \/ EndWait

Next ==
  \/ \E e \in Events : Assert(e)
  \/ AssertOther
  \/ ServeBoard
  \/ BottomHalf
  \/ Application

Spec == Init /\ [][Next]_vars

\* The processor serves an interrupt that is asserted, the kernel runs queued
\* work and woken processes, and its spinlock is granted in turn.
Fairness ==
  /\ WF_vars(ServeBoard)
  /\ WF_vars(BottomHalf)
  /\ WF_vars(WakeUp)
  /\ SF_vars(EndWait)

FairSpec == Spec /\ Fairness

-----------------------------------------------------------------------------
(* What should hold.                                                       *)

\* The driver's view of what the application has asked for: every event set by
\* PdSetUserEvents and not notified since has its notification and mask bits.
TypeOK ==
  /\ SC \subseteq Events /\ Im \subseteq Events
  /\ request \in BOOLEAN /\ intEnabled \in BOOLEAN
  /\ bTestInt \in BOOLEAN /\ scheduled \in BOOLEAN
  /\ phase \in {"idle", "process", "notify"}
  /\ FwEventsStatus \subseteq Events /\ eventsStatus \subseteq Events
  /\ eventsNotify \subseteq Events /\ eventsNew \subseteq Events
  /\ notified \subseteq Events
  /\ waiter \in {"no", "asleep", "woken", "timedout", "signalled"}
  /\ owed \subseteq armed /\ armed \subseteq eventsNotify /\ armed \subseteq Im
  /\ keepSC \in BOOLEAN /\ (armed # {} => keepSC)
  /\ unreturned \in [Events -> 0 .. MaxUnreturned]

\* An event asserted since it was set, and not notified yet, is on its way: its
\* status bit is latched and an interrupt, queued work or the running bottom
\* half is going to look at it, or it is about to be notified.  The latch, the
\* request and the queue are emptied by different steps, and the bottom half
\* clears only what it has read.
OnItsWay ==
  \A e \in owed :
    \/ e \in SC /\ (request \/ scheduled \/ (phase = "process" /\ e \in FwEventsStatus))
    \/ phase = "notify" /\ e \in eventsNew

\* A process that waits while an event it has set is asserted returns, however
\* the board's other interrupts and the application's own calls interleave.
EventEndsWait ==
  \A e \in Events : e \in owed /\ waiter = "asleep" /\ intEnabled ~> waiter = "no"

\* A wait that neither its time nor a signal has ended returns an event: no
\* step between the wake-up and the return takes the events away.
WokenWithEvents == waiter = "woken" => notified # {}

\* For each assertion of an event at most one wait returns it, although the
\* event is kept in the board's latch, in dwEventsNew and in notifiedEvents,
\* which different steps fill and empty, and although it may be asserted, set and
\* cleared again at any of them: what a process is about to be given has
\* happened since it was given it last.  (A count that stops at MaxUnreturned
\* must leave room for the three places.)
ReturnedOnce == \A e \in notified : unreturned[e] > 0

-----------------------------------------------------------------------------
(* What the documentation and the comments say, and the code does not do.  *)

\* pdl_event.c:321, "User events operate in latched mode and must be cleared
\* either by calling PdSetUserEvents or PdClearUserEvents": an event that
\* GetUserEvents reports is reported until the application sets or clears it.
ReportedUntilCleared == [][
  \A e \in UserEventStatus :
    \/ e \in UserEventStatus'
    \/ \E events \in SUBSET Events :
         e \in events /\ (SetUserEvents(events) \/ ClearUserEvents(events)) ]_vars

\* pdl_event.c:307-308, "enable event notification upon assertion of this event
\* and clear event status bit", and 472-473, "disable event notification of this
\* event": what a process is notified of includes an event that is set and has
\* been asserted since it was set.
NotifiedAsSet == [][ notified' \notin {{}, notified} => notified' \cap owed # {} ]_vars

\* pdl_event.c:480-481, "All DLL calls waiting on the events that are cleared
\* are signalled": a process that sleeps while an event it has set is cleared has
\* something to wake up for.
ClearedIsSignalled == [][
  \A events \in SUBSET Events :
    ClearUserEvents(events) /\ waiter = "asleep" /\ events \cap armed # {} => notified' # {} ]_vars
=============================================================================
