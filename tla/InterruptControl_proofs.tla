----------------------- MODULE InterruptControl_proofs -----------------------
(***************************************************************************)
(* Theorems about the sharing of the host interrupt by buffered input and  *)
(* output, for every bound on the users and with every fault allowed.      *)
(***************************************************************************)
EXTENDS InterruptControl, TLAPS

LEMMA CountBounds == 0 \in 0 .. MaxUsers /\ MaxUsers \in Nat
BY ControlAssumption DEF ControlAssumption

LEMMA InitTypeOK == Init => TypeOK
BY CountBounds DEF Init, TypeOK, States

\* What each group of commands does to the interrupt and its count.
LEMMA SwitchType ==
  ASSUME TypeOK, NEW ok \in BOOLEAN, NEW val \in BOOLEAN, Switch(ok, val)
  PROVE  /\ intEnabled' \in BOOLEAN /\ timedOut' \in BOOLEAN /\ tested' \in BOOLEAN
         /\ ~timedOut' => intEnabled' = val
BY DEF Switch, TypeOK

LEMMA ProcessEventsType ==
  ASSUME TypeOK, ProcessEvents
  PROVE  /\ ainState' \in States /\ aoutState' \in States
         /\ ainState' = "ssRunning" => ainState = "ssRunning"
         /\ aoutState' = "ssRunning" => aoutState = "ssRunning"
         /\ UNCHANGED <<bCheckHalfDone, ainStarted, regenerate, bRev3Mode, intMutex>>
BY DEF ProcessEvents, MayStopAIn, MayStopAOut, TypeOK, States

-----------------------------------------------------------------------------
(* The inductive invariant.                                                *)

\* While the count has users the interrupt is on or about to be on again.
CountedIsServed == intMutex > 0 /\ ~timedOut /\ ~tested => intEnabled \/ scheduled

ControlIInv == TypeOK /\ UsersCounted /\ CountedIsServed

LEMMA InitControlIInv == Init => ControlIInv
BY InitTypeOK DEF Init, ControlIInv, UsersCounted, CountedIsServed, AInUses, AOutUses, Counted

LEMMA UseInterruptKeeps ==
  ASSUME TypeOK, CountedIsServed, UseInterrupt
  PROVE  /\ intMutex' = intMutex + 1 /\ intMutex' \in 0 .. MaxUsers
         /\ intEnabled' \in BOOLEAN /\ timedOut' \in BOOLEAN /\ tested' \in BOOLEAN
         /\ UNCHANGED <<request, scheduled, bTestInt>>
         /\ CountedIsServed'
<1>1. CASE intMutex = 0
  <2>1. Switch(TRUE, TRUE) /\ intMutex' = intMutex + 1 /\ UNCHANGED <<request, scheduled, bTestInt>>
    BY <1>1 DEF UseInterrupt, UsersAfterStart, queue
  <2>2. intEnabled' \in BOOLEAN /\ timedOut' \in BOOLEAN /\ tested' \in BOOLEAN /\ (~timedOut' => intEnabled')
    BY <2>1, SwitchType
  <2>3. intMutex' \in 0 .. MaxUsers
    BY <1>1, <2>1, CountBounds DEF UseInterrupt, TypeOK
  <2> QED
    BY <2>1, <2>2, <2>3 DEF CountedIsServed
<1>2. CASE intMutex # 0
  BY <1>2, CountBounds DEF UseInterrupt, UsersAfterStart, CountedIsServed, TypeOK, switch, queue
<1> QED
  BY <1>1, <1>2

\* A count that is released was one at least, if a subsystem was counted in it.
LEMMA ReleaseInterruptKeeps ==
  ASSUME TypeOK, CountedIsServed, ReleaseInterrupt
  PROVE  /\ intMutex' \in 0 .. MaxUsers
         /\ intMutex > 0 => intMutex' = intMutex - 1
         /\ intEnabled' \in BOOLEAN /\ timedOut' \in BOOLEAN /\ tested' \in BOOLEAN
         /\ UNCHANGED <<request, scheduled, bTestInt>>
         /\ CountedIsServed'
<1>1. CASE LastUser
  <2>1. Switch(TRUE, FALSE) /\ UNCHANGED <<request, scheduled, bTestInt>>
    BY <1>1 DEF ReleaseInterrupt, queue
  <2>2. intMutex = 1 /\ intMutex' = 0
    BY <1>1, SMT DEF ReleaseInterrupt, LastUser, TypeOK
  <2>3. intEnabled' \in BOOLEAN /\ timedOut' \in BOOLEAN /\ tested' \in BOOLEAN
    BY <2>1, SwitchType
  <2> QED
    BY <2>1, <2>2, <2>3, CountBounds DEF CountedIsServed
<1>2. CASE ~LastUser
  BY <1>2, CountBounds DEF ReleaseInterrupt, LastUser, CountedIsServed, TypeOK, switch, queue
<1> QED
  BY <1>1, <1>2

LEMMA CannotEnableKeeps ==
  ASSUME TypeOK, CannotEnable
  PROVE  /\ UNCHANGED <<intMutex, request, scheduled, bTestInt>>
         /\ intEnabled' \in BOOLEAN /\ timedOut' \in BOOLEAN /\ tested' \in BOOLEAN
         /\ CountedIsServed'
BY SwitchType DEF CannotEnable, CountedIsServed, TypeOK, queue

LEMMA CannotStopKeeps ==
  ASSUME TypeOK, CountedIsServed, CannotStop
  PROVE  /\ UNCHANGED <<intMutex, request, scheduled, bTestInt, ain, aout>>
         /\ intEnabled' \in BOOLEAN /\ timedOut' \in BOOLEAN /\ tested' \in BOOLEAN
         /\ CountedIsServed'
<1>1. CASE Switch(FALSE, FALSE)
  <2>1. timedOut'
    BY <1>1 DEF Switch
  <2> QED
    BY <1>1, <2>1, SwitchType DEF CannotStop, CountedIsServed, queue
<1>2. CASE UNCHANGED switch
  BY <1>2 DEF CannotStop, CountedIsServed, TypeOK, switch, queue
<1> QED
  BY <1>1, <1>2 DEF CannotStop

-----------------------------------------------------------------------------
(* Every step keeps it.                                                    *)

LEMMA NextControlIInv ==
  ASSUME Disciplined = TRUE, EnableArgs \subseteq {TRUE}
  PROVE  ControlIInv /\ [Next]_vars => ControlIInv'
<1> SUFFICES ASSUME ControlIInv, [Next]_vars PROVE ControlIInv'
  OBVIOUS
<1> USE DEF ControlIInv
<1>1. CASE Request
  BY <1>1 DEF Request, ain, aout, switch, TypeOK, UsersCounted, CountedIsServed, AInUses, AOutUses
<1>2. ASSUME NEW ok \in BOOLEAN, ServeBoard(ok) PROVE ControlIInv'
  BY <1>2 DEF ServeBoard, ain, aout, TypeOK, UsersCounted, CountedIsServed, AInUses, AOutUses
<1>3. ASSUME NEW ok \in BOOLEAN, BottomHalf(ok) PROVE ControlIInv'
  <2>1. ProcessEvents /\ Switch(ok, TRUE) /\ ~scheduled' /\ UNCHANGED <<request, bTestInt>>
    BY <1>3 DEF BottomHalf, Reenabled
  <2>2. intEnabled' \in BOOLEAN /\ timedOut' \in BOOLEAN /\ tested' \in BOOLEAN
    BY <2>1, SwitchType
  <2>3. scheduled' \in BOOLEAN
    BY <1>3 DEF BottomHalf
  <2>4. TypeOK'
    BY <2>1, <2>2, <2>3, ProcessEventsType DEF TypeOK
  <2>5. UsersCounted'
    BY <2>1, ProcessEventsType DEF UsersCounted, AInUses, AOutUses, Counted, TypeOK
  <2>6. CountedIsServed'
    BY <2>1, SwitchType DEF CountedIsServed
  <2> QED
    BY <2>4, <2>5, <2>6
<1>4. CASE ImmediateUpdate
  <2>1. TypeOK'
    BY <1>4, ProcessEventsType DEF ImmediateUpdate, intr, switch, queue, TypeOK
  <2>2. UsersCounted'
    BY <1>4, ProcessEventsType DEF ImmediateUpdate, UsersCounted, AInUses, AOutUses, Counted, TypeOK
  <2>3. CountedIsServed'
    BY <1>4, ProcessEventsType DEF ImmediateUpdate, intr, switch, queue, CountedIsServed
  <2> QED
    BY <2>1, <2>2, <2>3
<1>5. ASSUME NEW ok \in BOOLEAN, AInAsyncInit(ok) PROVE ControlIInv'
  <2>1. /\ ainState # "ssRunning" /\ ainState' \in {"ssStandby", "ssConfig"}
        /\ bCheckHalfDone' \in {TRUE, bCheckHalfDone}
        /\ UNCHANGED <<ainStarted, aout, intMutex, intr>>
    BY <1>5 DEF AInAsyncInit
  <2>2. TypeOK'
    <3>1. ainState' \in States /\ bCheckHalfDone' \in BOOLEAN
      BY <2>1 DEF TypeOK, States
    <3> QED
      BY <2>1, <3>1 DEF aout, intr, switch, queue, TypeOK
  <2>3. UsersCounted' /\ CountedIsServed'
    BY <2>1 DEF aout, intr, switch, queue, UsersCounted, CountedIsServed, AInUses, AOutUses, Counted
  <2> QED
    BY <2>2, <2>3
<1>6. ASSUME NEW ok \in BOOLEAN, NEW regen \in BOOLEAN, AOutAsyncInit(ok, regen) PROVE ControlIInv'
  <2>1. /\ aoutState # "ssRunning" /\ aoutState' \in {"ssStandby", "ssConfig"}
        /\ regenerate' \in {regen, regenerate} /\ bRev3Mode' \in {FALSE, bRev3Mode}
        /\ UNCHANGED <<ain, intMutex, intr>>
    BY <1>6 DEF AOutAsyncInit
  <2>2. ~AOutUses /\ ~AOutUses' /\ UNCHANGED <<ainState, ainStarted, intMutex>>
    BY <2>1 DEF AOutUses, ain
  <2>3. TypeOK'
    <3>1. aoutState' \in States /\ regenerate' \in BOOLEAN /\ bRev3Mode' \in BOOLEAN
      BY <1>6, <2>1 DEF States, TypeOK
    <3> QED
      BY <2>1, <3>1 DEF ain, intr, switch, queue, TypeOK
  <2>4. UsersCounted'
    BY <2>2 DEF UsersCounted, AInUses, Counted
  <2>5. CountedIsServed'
    BY <2>1 DEF intr, switch, queue, CountedIsServed
  <2> QED
    BY <2>3, <2>4, <2>5
<1>7. CASE AInAsyncTerm
  <2>1. ainState' \in States /\ bCheckHalfDone' \in BOOLEAN
    BY <1>7 DEF AInAsyncTerm, States
  <2>2. TypeOK'
    BY <1>7, <2>1 DEF AInAsyncTerm, aout, intr, switch, queue, TypeOK
  <2>3. UsersCounted' /\ CountedIsServed'
    BY <1>7 DEF AInAsyncTerm, aout, intr, switch, queue, TypeOK, UsersCounted, CountedIsServed,
              AInUses, AOutUses, Counted
  <2> QED
    BY <2>2, <2>3
<1>8. CASE AOutAsyncTerm
  <2>1. aoutState' \in States
    BY <1>8 DEF AOutAsyncTerm, States
  <2>2. TypeOK'
    BY <1>8, <2>1 DEF AOutAsyncTerm, ain, intr, switch, queue, TypeOK
  <2>3. UsersCounted' /\ CountedIsServed'
    BY <1>8 DEF AOutAsyncTerm, ain, intr, switch, queue, TypeOK, UsersCounted, CountedIsServed,
              AInUses, AOutUses, Counted
  <2> QED
    BY <2>2, <2>3
<1>9. CASE AOutReset
  BY <1>9 DEF AOutReset, ain, intr, switch, queue, TypeOK, UsersCounted, CountedIsServed, AInUses, AOutUses
<1>10. CASE AInAsyncStart
  BY <1>10, UseInterruptKeeps
  DEF AInAsyncStart, aout, TypeOK, States, UsersCounted, AInUses, AOutUses, Counted
<1>11. CASE AInStartFails
  <2>1. TypeOK' /\ CountedIsServed' /\ intMutex' >= intMutex
    BY <1>11, UseInterruptKeeps, CannotEnableKeeps, CountBounds
    DEF AInStartFails, ain, aout, TypeOK
  <2> QED
    BY <1>11, <2>1 DEF AInStartFails, ain, aout, UsersCounted, AInUses, AOutUses, Counted, TypeOK
<1>12. CASE AOutAsyncStart
  <2>1. CASE regenerate
    BY <1>12, <2>1 DEF AOutAsyncStart, UseInterruptUnlessRegenerated, ain, intr, switch, queue, TypeOK, States,
                       UsersCounted, CountedIsServed, AInUses, AOutUses, Counted
  <2>2. CASE ~regenerate
    BY <1>12, <2>2, UseInterruptKeeps
    DEF AOutAsyncStart, UseInterruptUnlessRegenerated, ain, TypeOK, States,
        UsersCounted, AInUses, AOutUses, Counted
  <2> QED
    BY <2>1, <2>2 DEF TypeOK
<1>13. CASE AOutStartFails
  <2>1. TypeOK' /\ CountedIsServed' /\ intMutex' >= intMutex
    <3>1. CASE ~regenerate /\ CannotEnable /\ UNCHANGED bRev3Mode
      BY <1>13, <3>1, CannotEnableKeeps, CountBounds DEF AOutStartFails, ain, TypeOK
    <3>2. CASE regenerate /\ UNCHANGED <<intMutex, intr>> /\ bRev3Mode' = TRUE
      BY <1>13, <3>2, CountBounds DEF AOutStartFails, ain, intr, switch, queue, TypeOK, CountedIsServed
    <3>3. CASE ~regenerate /\ UseInterrupt /\ bRev3Mode' = TRUE
      BY <1>13, <3>3, UseInterruptKeeps, CountBounds DEF AOutStartFails, ain, TypeOK
    <3> QED
      BY <1>13, <3>1, <3>2, <3>3 DEF AOutStartFails, UseInterruptUnlessRegenerated, TypeOK
  <2> QED
    BY <1>13, <2>1 DEF AOutStartFails, ain, UsersCounted, AInUses, AOutUses, Counted, TypeOK
<1>14. CASE AInAsyncStop
  <2>1. ainStarted /\ intMutex > 0 /\ Counted(AOutUses) <= intMutex - 1
    BY <1>14 DEF AInAsyncStop, UsersCounted, AInUses, AOutUses, Counted, TypeOK
  <2>2. /\ ReleaseInterrupt /\ ainState' = "ssStopped" /\ ainStarted' = FALSE
        /\ UNCHANGED <<bCheckHalfDone, aoutState, regenerate, bRev3Mode>>
    BY <1>14 DEF AInAsyncStop, aout
  <2>3. CountedIsServed' /\ intMutex' = intMutex - 1
    BY <2>1, <2>2, ReleaseInterruptKeeps
  <2>4. TypeOK'
    BY <2>2, ReleaseInterruptKeeps DEF TypeOK, States
  <2>5. UsersCounted'
    BY <2>1, <2>2, <2>3 DEF UsersCounted, AInUses, AOutUses, Counted, TypeOK
  <2> QED
    BY <2>3, <2>4, <2>5
<1>15. CASE AInStopFails \/ AOutStopFails
  BY <1>15, CannotStopKeeps
  DEF AInStopFails, AOutStopFails, ain, aout, TypeOK, UsersCounted, AInUses, AOutUses, Counted
<1>16. CASE AOutStopIdle
  <2>1. aoutState' \in States
    BY <1>16 DEF AOutStopIdle, States
  <2>2. TypeOK'
    BY <1>16, <2>1 DEF AOutStopIdle, ain, intr, switch, queue, TypeOK
  <2>3. UsersCounted' /\ CountedIsServed'
    BY <1>16 DEF AOutStopIdle, ain, intr, switch, queue, TypeOK, UsersCounted, CountedIsServed,
              AInUses, AOutUses, Counted
  <2> QED
    BY <2>2, <2>3
<1>17. CASE AOutAsyncStop
  <2>1. CASE regenerate
    BY <1>17, <2>1 DEF AOutAsyncStop, ain, intr, switch, queue, TypeOK, States, UsersCounted, CountedIsServed,
                       AInUses, AOutUses, Counted
  <2>2. CASE ~regenerate
    <3>1. intMutex > 0 /\ Counted(ainStarted) <= intMutex - 1
      BY <1>17, <2>2 DEF AOutAsyncStop, UsersCounted, AOutUses, Counted, TypeOK
    <3>2. /\ ReleaseInterrupt /\ aoutState' = "ssStopped" /\ bRev3Mode' = FALSE
          /\ UNCHANGED <<ainState, bCheckHalfDone, ainStarted, regenerate>>
      BY <1>17, <2>2 DEF AOutAsyncStop, ain
    <3>3. CountedIsServed' /\ intMutex' = intMutex - 1
      BY <3>1, <3>2, ReleaseInterruptKeeps
    <3>4. TypeOK'
      BY <3>2, ReleaseInterruptKeeps DEF TypeOK, States
    <3>5. UsersCounted'
      BY <3>1, <3>2, <3>3 DEF UsersCounted, AInUses, AOutUses, Counted, TypeOK
    <3> QED
      BY <3>3, <3>4, <3>5
  <2> QED
    BY <2>1, <2>2 DEF TypeOK
<1>18. ASSUME NEW val \in BOOLEAN, EnableInterrupt(val) PROVE ControlIInv'
  <2>1. PICK ok \in BOOLEAN : Switch(ok, TRUE)
    BY <1>18 DEF EnableInterrupt
  <2> QED
    BY <1>18, <2>1, SwitchType
    DEF EnableInterrupt, ain, aout, queue, TypeOK, UsersCounted, CountedIsServed, AInUses, AOutUses
<1>19. CASE TestInterrupt
  BY <1>19 DEF TestInterrupt, ain, aout, switch, TypeOK, UsersCounted, CountedIsServed,
               AInUses, AOutUses
<1>20. CASE UNCHANGED vars
  BY <1>20 DEF vars, ain, aout, intr, switch, queue, TypeOK, UsersCounted, CountedIsServed, AInUses, AOutUses
<1> QED
  BY <1>1, <1>2, <1>3, <1>4, <1>5, <1>6, <1>7, <1>8, <1>9, <1>10, <1>11, <1>12, <1>13, <1>14,
     <1>15, <1>16, <1>17, <1>18, <1>19, <1>20
  DEF Next, Application

\* What intMutex counts covers every subsystem that runs on interrupts, as long
\* as the application stops only an input it started and leaves the switch on.
THEOREM EveryUserCounted ==
  ASSUME Disciplined = TRUE, EnableArgs \subseteq {TRUE}
  PROVE  Spec => []UsersCounted
<1>1. ControlIInv => UsersCounted
  BY DEF ControlIInv
<1> QED
  BY <1>1, InitControlIInv, NextControlIInv, PTL DEF Spec

\* And then a running subsystem finds the host interrupt on, or the bottom half
\* queued that turns it on, in any order of starts, stops, failures, automatic
\* stops, interrupts and tests: unless the command that switched it last timed
\* out, or a test took an interrupt and nothing has switched it on since.
THEOREM RunningStaysServed ==
  ASSUME Disciplined = TRUE, EnableArgs \subseteq {TRUE}
  PROVE  Spec => []RunningIsServed
<1>1. ControlIInv => RunningIsServed
  BY DEF ControlIInv, RunningIsServed, UsersCounted, CountedIsServed, Counted, TypeOK
<1> QED
  BY <1>1, InitControlIInv, NextControlIInv, PTL DEF Spec
=============================================================================
