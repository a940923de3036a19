------------------------- MODULE UserEvents_proofs --------------------------
(***************************************************************************)
(* Theorems about user events, for every subsystem, set of events and way  *)
(* of calling the driver.                                                  *)
(***************************************************************************)
EXTENDS UserEvents, TLAPS

LEMMA InitTypeOK == Init => TypeOK
<1>1. [e \in Events |-> 0] \in [Events -> 0 .. MaxUnreturned]
  BY EventsAssumption DEF EventsAssumption
<1> QED
  BY <1>1 DEF Init, TypeOK

\* One step per action: the board, the interrupt and the bottom half, the
\* application.
LEMMA NextTypeOK == TypeOK /\ [Next]_vars => TypeOK'
<1> SUFFICES ASSUME TypeOK, [Next]_vars PROVE TypeOK'
  OBVIOUS
<1> USE DEF TypeOK
<1>1. ASSUME NEW e \in Events, Assert(e) PROVE TypeOK'
  <2>1. unreturned' \in [Events -> 0 .. MaxUnreturned]
    BY <1>1, EventsAssumption DEF Assert, EventsAssumption
  <2> QED
    BY <1>1, <2>1 DEF Assert, driver
<1>2. CASE AssertOther
  BY <1>2 DEF AssertOther, driver, history
<1>3. CASE ServeBoard
  BY <1>3 DEF ServeBoard, driver, history
<1>4. CASE ReadBoardStatus
  BY <1>4 DEF ReadBoardStatus, board, history
<1>5. CASE ProcessDriverEvents
  BY <1>5 DEF ProcessDriverEvents, ClearEvents, history
<1>6. CASE NotifyUserEvents
  BY <1>6 DEF NotifyUserEvents
<1>7. ASSUME NEW events \in SUBSET Events, SetUserEvents(events) PROVE TypeOK'
  BY <1>7 DEF SetUserEvents, SetNotify, Ioctl
<1>8. ASSUME NEW events \in SUBSET Events, ClearUserEvents(events) PROVE TypeOK'
  BY <1>8 DEF ClearUserEvents, ClearedNotify, ClearedMask, Ioctl
<1>9. ASSUME NEW val \in BOOLEAN, EnableInterrupt(val) PROVE TypeOK'
  BY <1>9 DEF EnableInterrupt, Ioctl, driver
<1>10. CASE TestInterrupt \/ InitBuffered
  BY <1>10 DEF TestInterrupt, InitBuffered, Ioctl, driver, history
<1>11. CASE WaitSteps
  BY <1>11 DEF WaitSteps, BeginWait, WakeUp, TimeOut, Signal, board, driver, history
<1>12. CASE EndWait
  <2>1. unreturned' \in [Events -> 0 .. MaxUnreturned]
    BY <1>12, EventsAssumption DEF EndWait, EventsAssumption
  <2> QED
    BY <1>12, <2>1 DEF EndWait, board, driver
<1>13. CASE UNCHANGED vars
  BY <1>13 DEF vars, board, driver, history
<1> QED
  BY <1>1, <1>2, <1>3, <1>4, <1>5, <1>6, <1>7, <1>8, <1>9, <1>10, <1>11, <1>12, <1>13
  DEF Next, BottomHalf, Application, OtherIoctls

\* What the application has set, and has not been notified of, is what the
\* driver's notification and mask bits say, in every subsystem and although
\* digital input and counter/timers also set bits nobody asked for.
THEOREM EventsTypeCorrect == Spec => []TypeOK
<1> QED
  BY InitTypeOK, NextTypeOK, PTL DEF Spec

-----------------------------------------------------------------------------
(* Events on their way.                                                    *)

\* The status bit of an event that is set and has not been asserted since is
\* clear: the next assertion will ask for the interrupt.
ArmedIsClear == \A e \in armed \ owed : e \notin SC

EventsIInv == TypeOK /\ OnItsWay /\ ArmedIsClear /\ ~bTestInt

LEMMA InitEventsIInv == Init => EventsIInv
BY InitTypeOK DEF Init, EventsIInv, OnItsWay, ArmedIsClear

LEMMA NextEventsIInv ==
  ASSUME Diagnostics = FALSE, BufferedInits = FALSE
  PROVE  EventsIInv /\ [Next]_vars => EventsIInv'
<1> SUFFICES ASSUME EventsIInv, [Next]_vars PROVE OnItsWay' /\ ArmedIsClear' /\ ~bTestInt'
  BY NextTypeOK DEF EventsIInv
<1> USE DEF EventsIInv, OnItsWay, ArmedIsClear
<1>1. ASSUME NEW e \in Events, Assert(e) PROVE OnItsWay' /\ ArmedIsClear' /\ ~bTestInt'
  <2>1. ASSUME NEW f \in owed'
        PROVE  \/ f \in SC' /\ (request' \/ scheduled' \/ (phase' = "process" /\ f \in FwEventsStatus'))
               \/ phase' = "notify" /\ f \in eventsNew'
    <3>1. CASE f \in owed
      BY <1>1, <3>1 DEF Assert, driver
    <3>2. CASE f \notin owed
      <4>1. f = e /\ e \in armed /\ e \notin SC /\ e \in Im
        BY <1>1, <2>1, <3>2 DEF Assert, TypeOK
      <4> QED
        BY <1>1, <4>1 DEF Assert
    <3> QED
      BY <3>1, <3>2
  <2>2. ArmedIsClear'
    BY <1>1 DEF Assert
  <2> QED
    BY <1>1, <2>1, <2>2 DEF Assert
<1>2. CASE AssertOther
  BY <1>2 DEF AssertOther, driver, history
<1>3. CASE ServeBoard
  BY <1>3 DEF ServeBoard, driver, history
<1>4. CASE ReadBoardStatus
  BY <1>4 DEF ReadBoardStatus, board, history, TypeOK
<1>5. CASE ProcessDriverEvents
  BY <1>5 DEF ProcessDriverEvents, ClearEvents, history
<1>6. CASE NotifyUserEvents
  BY <1>6 DEF NotifyUserEvents, NotifyUser, TypeOK
<1>7. ASSUME NEW events \in SUBSET Events, SetUserEvents(events)
      PROVE  OnItsWay' /\ ArmedIsClear' /\ ~bTestInt'
  BY <1>7 DEF SetUserEvents, Ioctl
<1>8. ASSUME NEW events \in SUBSET Events, ClearUserEvents(events)
      PROVE  OnItsWay' /\ ArmedIsClear' /\ ~bTestInt'
  BY <1>8 DEF ClearUserEvents, Ioctl, TypeOK
<1>9. ASSUME NEW val \in BOOLEAN, EnableInterrupt(val)
      PROVE  OnItsWay' /\ ArmedIsClear' /\ ~bTestInt'
  BY <1>9 DEF EnableInterrupt, Ioctl, driver
<1>10. CASE TestInterrupt \/ InitBuffered
  BY <1>10 DEF TestInterrupt, InitBuffered
<1>11. CASE WaitSteps
  BY <1>11 DEF WaitSteps, BeginWait, WakeUp, TimeOut, Signal, board, driver, history
<1>12. CASE EndWait
  BY <1>12 DEF EndWait, board, driver, history
<1>13. CASE UNCHANGED vars
  BY <1>13 DEF vars, board, driver, history
<1> QED
  BY <1>1, <1>2, <1>3, <1>4, <1>5, <1>6, <1>7, <1>8, <1>9, <1>10, <1>11, <1>12, <1>13
  DEF Next, BottomHalf, Application, OtherIoctls

\* As long as nobody runs the interrupt test or initialises buffered I/O, no
\* event that is asserted after it was set gets lost between the board's latch, the interrupt, the work
\* queue and the notification, for any number of events and any interleaving.
THEOREM EventsOnTheirWay ==
  ASSUME Diagnostics = FALSE, BufferedInits = FALSE
  PROVE  Spec => []OnItsWay
<1>1. EventsIInv => OnItsWay
  BY DEF EventsIInv
<1> QED
  BY <1>1, InitEventsIInv, NextEventsIInv, PTL DEF Spec

-----------------------------------------------------------------------------
(* Waiting.                                                                *)

\* The steps that change what a waiting process is going to be given.
LEMMA NotifiedSteps ==
  ASSUME [Next]_vars
  PROVE  \/ UNCHANGED <<notified, waiter>>
         \/ notified' = notified /\ waiter' \in {"asleep", "timedout", "signalled"}
         \/ WakeUp /\ notified' = notified
         \/ NotifyUserEvents /\ notified' = eventsNew /\ NotifyUser /\ waiter' = waiter
         \/ notified' = {} /\ waiter' = "no"
         \/ ConcurrentCalls /\ notified' = {} /\ waiter' = waiter
<1>1. ASSUME NEW e \in Events, Assert(e)
      PROVE  UNCHANGED <<notified, waiter>>
  BY <1>1 DEF Assert
<1>2. CASE AssertOther \/ ServeBoard \/ ReadBoardStatus \/ ProcessDriverEvents
  BY <1>2 DEF AssertOther, ServeBoard, ReadBoardStatus, ProcessDriverEvents
<1>3. CASE NotifyUserEvents
  BY <1>3 DEF NotifyUserEvents
<1>4. ASSUME NEW events \in SUBSET Events, SetUserEvents(events)
      PROVE  /\ notified' = {}
             /\ waiter' = "no" \/ (ConcurrentCalls /\ waiter' = waiter)
  BY <1>4 DEF SetUserEvents, Ioctl
<1>5. ASSUME \/ \E events \in SUBSET Events : ClearUserEvents(events)
             \/ \E val \in BOOLEAN : EnableInterrupt(val)
             \/ InitBuffered \/ TestInterrupt
      PROVE  UNCHANGED <<notified, waiter>>
  BY <1>5 DEF ClearUserEvents, EnableInterrupt, InitBuffered, TestInterrupt, Ioctl
<1>6. CASE BeginWait \/ TimeOut \/ Signal
  BY <1>6 DEF BeginWait, TimeOut, Signal
<1>7. CASE WakeUp
  BY <1>7 DEF WakeUp
<1>8. CASE EndWait
  BY <1>8 DEF EndWait
<1>9. CASE UNCHANGED vars
  BY <1>9 DEF vars
<1> QED
  BY <1>1, <1>2, <1>3, <1>4, <1>5, <1>6, <1>7, <1>8, <1>9
  DEF Next, BottomHalf, Application, OtherIoctls, WaitSteps

\* For every subsystem and any number of events: a process that is woken, and
\* whose wait neither its time nor a signal has ended, finds events to return
\* when it has the lock again, as long as no other thread sets events while it
\* waits (PdSetUserEvents empties notifiedEvents).
THEOREM WokenCorrect ==
  ASSUME ConcurrentCalls = FALSE
  PROVE  Spec => []WokenWithEvents
<1>1. Init => WokenWithEvents
  BY DEF Init, WokenWithEvents
<1>2. WokenWithEvents /\ [Next]_vars => WokenWithEvents'
  <2> SUFFICES ASSUME WokenWithEvents, [Next]_vars, waiter' = "woken"
               PROVE  notified' # {}
    BY DEF WokenWithEvents
  <2>1. CASE UNCHANGED <<notified, waiter>>
    BY <2>1 DEF WokenWithEvents
  <2>2. CASE WakeUp /\ notified' = notified
    BY <2>2 DEF WakeUp
  <2>3. CASE NotifyUserEvents /\ notified' = eventsNew /\ NotifyUser
    BY <2>3 DEF NotifyUser
  <2> QED
    BY <2>1, <2>2, <2>3, NotifiedSteps
<1> QED
  BY <1>1, <1>2, PTL DEF Spec

-----------------------------------------------------------------------------
(* What a wait returns.                                                    *)

In(e, S) == IF e \in S THEN 1 ELSE 0

\* The places an event is kept in: each keeps an assertion no wait has returned.
Places(e) == In(e, SC) + In(e, eventsNew) + In(e, notified)

ReturnedIInv ==
  /\ TypeOK
  /\ phase = "process" => FwEventsStatus \subseteq SC
  /\ \A e \in Events : Places(e) <= unreturned[e]

LEMMA InitReturnedIInv == Init => ReturnedIInv
BY InitTypeOK DEF Init, ReturnedIInv, Places, In

\* Counting, in all states that are of their types.
LEMMA PlacesCounted ==
  ASSUME TypeOK, NEW e \in Events
  PROVE  unreturned[e] \in Nat /\ unreturned[e] <= MaxUnreturned /\ MaxUnreturned \in Nat
BY EventsAssumption DEF TypeOK, EventsAssumption

\* The steps that neither assert an event nor return from a wait put an event
\* into one place only as they take it out of another.
LEMMA OtherStepsKeepPlaces ==
  ASSUME ReturnedIInv, TypeOK', unreturned' = unreturned,
         phase' = "process" => FwEventsStatus' \subseteq SC',
         \A e \in Events : Places(e)' <= Places(e)
  PROVE  ReturnedIInv'
<1>1. ASSUME NEW e \in Events PROVE Places(e)' <= unreturned'[e]
  BY PlacesCounted DEF ReturnedIInv, Places, In
<1> QED
  BY <1>1 DEF ReturnedIInv

LEMMA NextReturnedIInv ==
  ASSUME MaxUnreturned >= 3
  PROVE  ReturnedIInv /\ [Next]_vars => ReturnedIInv'
<1> SUFFICES ASSUME ReturnedIInv, [Next]_vars PROVE ReturnedIInv'
  OBVIOUS
<1>0. TypeOK /\ TypeOK'
  BY NextTypeOK DEF ReturnedIInv
<1>1. ASSUME NEW e \in Events, Assert(e) PROVE ReturnedIInv'
  <2>1. /\ SC' = SC \cup {e} /\ eventsNew' = eventsNew /\ notified' = notified
        /\ FwEventsStatus' = FwEventsStatus /\ phase' = phase
        /\ unreturned' = [unreturned EXCEPT ![e] = IF @ < MaxUnreturned THEN @ + 1 ELSE @]
    BY <1>1 DEF Assert, driver
  <2>2. ASSUME NEW f \in Events PROVE Places(f)' <= unreturned'[f]
    <3>1. /\ Places(f) <= unreturned[f] /\ unreturned[f] \in Nat
          /\ unreturned[f] <= MaxUnreturned /\ MaxUnreturned \in Nat
      BY <1>0, PlacesCounted DEF ReturnedIInv
    <3>2. CASE f = e
      <4>1. unreturned'[f] = IF unreturned[f] < MaxUnreturned THEN unreturned[f] + 1 ELSE unreturned[f]
        BY <1>0, <2>1, <3>2 DEF TypeOK
      <4> QED
        BY <2>1, <3>1, <4>1 DEF Places, In
    <3>3. CASE f # e
      <4>1. unreturned'[f] = unreturned[f]
        BY <1>0, <2>1, <3>3 DEF TypeOK
      <4> QED
        BY <2>1, <3>1, <3>3, <4>1 DEF Places, In
    <3> QED
      BY <3>2, <3>3
  <2> QED
    BY <1>0, <2>1, <2>2 DEF ReturnedIInv
<1>2. ASSUME NEW events \in SUBSET Events, SetUserEvents(events) PROVE ReturnedIInv'
  <2>1. /\ SC' = SC \ events /\ eventsNew' = eventsNew /\ notified' = {}
        /\ phase = "idle" /\ phase' = phase /\ unreturned' = unreturned
    BY <1>2 DEF SetUserEvents, Ioctl
  <2>2. \A e \in Events : Places(e)' <= Places(e)
    BY <2>1 DEF Places, In
  <2> QED
    BY <1>0, <2>1, <2>2, OtherStepsKeepPlaces
<1>3. ASSUME NEW events \in SUBSET Events, ClearUserEvents(events) PROVE ReturnedIInv'
  <2>1. /\ SC' \in {SC, {}} /\ eventsNew' = eventsNew /\ notified' = notified
        /\ phase = "idle" /\ phase' = phase /\ unreturned' = unreturned
    BY <1>3 DEF ClearUserEvents, Ioctl
  <2>2. \A e \in Events : Places(e)' <= Places(e)
    BY <2>1 DEF Places, In
  <2> QED
    BY <1>0, <2>1, <2>2, OtherStepsKeepPlaces
<1>4. CASE EndWait
  <2>1. /\ SC' = SC /\ eventsNew' = eventsNew /\ notified' = {}
        /\ FwEventsStatus' = FwEventsStatus /\ phase' = phase
        /\ unreturned' = [e \in Events |-> IF e \in notified /\ unreturned[e] > 0
                                           THEN unreturned[e] - 1 ELSE unreturned[e]]
    BY <1>4 DEF EndWait, board, driver
  <2>2. ASSUME NEW e \in Events PROVE Places(e)' <= unreturned'[e]
    <3>1. Places(e) <= unreturned[e] /\ unreturned[e] \in Nat
      BY <1>0, PlacesCounted DEF ReturnedIInv
    <3> QED
      BY <2>1, <3>1 DEF Places, In
  <2> QED
    BY <1>0, <2>1, <2>2 DEF ReturnedIInv
<1>5. CASE ReadBoardStatus
  <2>1. /\ SC' = SC /\ eventsNew' = eventsNew /\ notified' = notified
        /\ FwEventsStatus' = SC /\ unreturned' = unreturned
    BY <1>5 DEF ReadBoardStatus, board, history
  <2>2. \A e \in Events : Places(e)' <= Places(e)
    BY <2>1 DEF Places, In
  <2> QED
    BY <1>0, <2>1, <2>2, OtherStepsKeepPlaces
<1>6. CASE ProcessDriverEvents
  <2>1. /\ SC' = SC \ (FwEventsStatus \ eventsNew)
        /\ eventsNew' = eventsNew \cup FwEventsStatus /\ notified' = notified
        /\ phase = "process" /\ phase' = "notify" /\ unreturned' = unreturned
    BY <1>6 DEF ProcessDriverEvents, ClearEvents, history
  <2>2. FwEventsStatus \subseteq SC
    BY <2>1 DEF ReturnedIInv
  <2>3. \A e \in Events : Places(e)' <= Places(e)
    BY <2>1, <2>2 DEF Places, In
  <2> QED
    BY <1>0, <2>1, <2>3, OtherStepsKeepPlaces
<1>7. CASE NotifyUserEvents
  <2>1. /\ SC' = SC /\ phase' = "idle" /\ unreturned' = unreturned
        /\ \/ notified' = eventsNew /\ eventsNew' = {}
           \/ notified' = notified /\ eventsNew' = eventsNew
    BY <1>7 DEF NotifyUserEvents
  <2>2. \A e \in Events : Places(e)' <= Places(e)
    BY <2>1 DEF Places, In
  <2> QED
    BY <1>0, <2>1, <2>2, OtherStepsKeepPlaces
<1>8. CASE AssertOther \/ ServeBoard \/ OtherIoctls \/ WaitSteps \/ UNCHANGED vars
  <2>1. /\ SC' \in {SC, {}} /\ eventsNew' = eventsNew /\ notified' = notified
        /\ FwEventsStatus' = FwEventsStatus /\ phase' = phase
        /\ SC' = SC \/ phase = "idle"
        /\ unreturned' = unreturned
    BY <1>8 DEF AssertOther, ServeBoard, OtherIoctls, EnableInterrupt, InitBuffered,
                TestInterrupt, Ioctl, WaitSteps, BeginWait, WakeUp, TimeOut, Signal,
                vars, board, driver, history
  <2>2. \A e \in Events : Places(e)' <= Places(e)
    BY <2>1 DEF Places, In
  <2>3. phase' = "process" => FwEventsStatus' \subseteq SC'
    BY <2>1 DEF ReturnedIInv
  <2> QED
    BY <1>0, <2>1, <2>2, <2>3, OtherStepsKeepPlaces
<1> QED
  BY <1>1, <1>2, <1>3, <1>4, <1>5, <1>6, <1>7, <1>8 DEF Next, BottomHalf, Application

\* For every subsystem and any number of events, whatever the board asserts, the
\* threads set and clear, and the interrupt test and buffered initialisation do:
\* no assertion of an event is returned by two waits.
THEOREM ReturnedOnceCorrect ==
  ASSUME MaxUnreturned >= 3
  PROVE  Spec => []ReturnedOnce
<1>1. ReturnedIInv => ReturnedOnce
  <2> SUFFICES ASSUME ReturnedIInv, NEW e \in notified PROVE unreturned[e] > 0
    BY DEF ReturnedOnce
  <2>1. e \in Events /\ Places(e) <= unreturned[e]
    BY DEF ReturnedIInv, TypeOK
  <2>2. unreturned[e] \in Nat
    BY <2>1, PlacesCounted DEF ReturnedIInv
  <2> QED
    BY <2>1, <2>2 DEF Places, In
<1> QED
  BY <1>1, InitReturnedIInv, NextReturnedIInv, PTL DEF Spec
=============================================================================
