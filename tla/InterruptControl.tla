-------------------------- MODULE InterruptControl --------------------------
(***************************************************************************)
(* Who turns the board's one host interrupt on and off: buffered analog    *)
(* input and output share it and count its users in intMutex, the          *)
(* interrupt service disables it until the bottom half has run, and the    *)
(* driver stops either subsystem by itself without telling the count.  The *)
(* interrupt test makes the service take the next interrupt for its own.   *)
(*                                                                         *)
(* Every action runs under the device spinlock, the bottom half included.  *)
(* What makes the driver stop a subsystem (a full buffer, an overrun, an   *)
(* underrun) is in the data and is left open here.                         *)
(***************************************************************************)
EXTENDS Integers

CONSTANTS
  DspFaults,   \* may a command to the DSP time out?
  Disciplined, \* does the application stop only an input it has started?
  Diagnostics, \* is the interrupt test called?
  EnableArgs,  \* what the application calls PdAdapterEnableInterrupt with
  MaxUsers     \* bound: intMutex, which some paths never decrement

ASSUME ControlAssumption ==
  /\ DspFaults \in BOOLEAN /\ Disciplined \in BOOLEAN /\ Diagnostics \in BOOLEAN
  /\ EnableArgs \subseteq BOOLEAN
  /\ MaxUsers \in Nat

VARIABLES
  ainState,       \* AinSS.SubsysState
  bCheckHalfDone, \* AinSS.bCheckHalfDone
  aoutState,      \* AoutSS.SubsysState
  regenerate,     \* AOB_REGENERATE in AoutSS.SubsysConfig
  bRev3Mode,      \* AoutSS.bRev3Mode
  intMutex,       \* pd_board.intMutex
  intEnabled,     \* board: host interrupt enabled
  request,        \* board: interrupt requested
  scheduled,      \* the bottom half is in the work queue
  bTestInt,       \* pd_board.bTestInt
  ainStarted,     \* history: the application started input and has not stopped it
  timedOut,       \* history: the last command that switched the interrupt timed out
  tested          \* history: an interrupt was taken for the test, and none switched on since

ain  == <<ainState, bCheckHalfDone, ainStarted>>
aout == <<aoutState, regenerate, bRev3Mode>>
switch == <<intEnabled, timedOut, tested>>
queue  == <<request, scheduled, bTestInt>>
intr == <<switch, queue>>
vars == <<ain, aout, intMutex, intr>>

States == {"ssConfig", "ssStandby", "ssRunning", "ssStopped"}

Init ==
  /\ ainState = "ssConfig" /\ bCheckHalfDone = FALSE /\ ainStarted = FALSE
  /\ aoutState = "ssConfig" /\ regenerate = TRUE /\ bRev3Mode = FALSE
  /\ intMutex = 0
  /\ intEnabled = FALSE /\ request = FALSE /\ scheduled = FALSE
  /\ bTestInt = FALSE /\ timedOut = FALSE /\ tested = FALSE

\* PD_BRDINTEN, the interrupt switch; one that times out may have been carried out.
Switch(ok, val) ==
  /\ ok \/ DspFaults
  /\ intEnabled' \in IF ok THEN {val} ELSE {val, intEnabled}
  /\ timedOut' = ~ok /\ tested' = FALSE

-----------------------------------------------------------------------------
(* The board and the interrupt.                                            *)

\* (External: any unmasked event.)
Request ==
  /\ ~request /\ request' = TRUE
  /\ UNCHANGED <<ain, aout, intMutex, switch, scheduled, bTestInt>>

\* The acknowledgement clears the request and disables the host interrupt; one
\* that times out may have done so.  An interrupt the test has announced is
\* taken for the test's: the bottom half, which would enable the host interrupt
\* again, is not scheduled.
ServeBoard(ok) ==
  /\ request /\ intEnabled
  /\ ok \/ DspFaults
  /\ \/ request' = FALSE /\ intEnabled' = FALSE
     \/ ~ok /\ UNCHANGED <<request, intEnabled>>
  /\ timedOut' = (timedOut \/ ~ok)
  /\ bTestInt' = FALSE /\ tested' = bTestInt
  /\ scheduled' = (scheduled \/ ~bTestInt)
  /\ UNCHANGED <<ain, aout, intMutex>>

\* pd_stop_and_disable_ain, where the handler calls it.
MayStopAIn == ainState' \in {ainState} \cup (IF bCheckHalfDone THEN {"ssStopped"} ELSE {})

\* pd_stop_and_disable_aout: while output runs, and after an underrun in any state.
MayStopAOut ==
  aoutState' \in {aoutState} \cup (IF bRev3Mode /\ (aoutState = "ssRunning" \/ ~regenerate)
                                   THEN {"ssStopped"} ELSE {})

ProcessEvents ==
  /\ MayStopAIn /\ MayStopAOut
  /\ UNCHANGED <<bCheckHalfDone, ainStarted, regenerate, bRev3Mode, intMutex>>

\* (Mutant: the interrupt is enabled again only for a second user.)
ReenabledForOthers == intMutex > 1

Reenabled == TRUE

BottomHalf(ok) ==
  /\ scheduled /\ scheduled' = FALSE
  /\ ProcessEvents
  /\ Switch(ok, Reenabled)
  /\ UNCHANGED <<request, bTestInt>>

ImmediateUpdate ==
  /\ ProcessEvents
  /\ UNCHANGED intr

-----------------------------------------------------------------------------
(* Initialisation and termination.                                         *)

\* An initialisation that fails leaves the subsystem in ssConfig; it may fail
\* before or after the buffer is cleared, and for other reasons than the DSP.
AInAsyncInit(ok) ==
  /\ ainState # "ssRunning"
  /\ ainState' = IF ok THEN "ssStandby" ELSE "ssConfig"
  /\ bCheckHalfDone' \in IF ok THEN {TRUE} ELSE {bCheckHalfDone, TRUE}
  /\ UNCHANGED <<ainStarted, aout, intMutex, intr>>

AOutAsyncInit(ok, regen) ==
  /\ aoutState # "ssRunning"
  /\ \/ /\ aoutState' = IF ok THEN "ssStandby" ELSE "ssConfig"
        /\ regenerate' = regen /\ bRev3Mode' = FALSE
     \/ ~ok /\ aoutState' = "ssConfig" /\ UNCHANGED <<regenerate, bRev3Mode>>
  /\ UNCHANGED <<ain, intMutex, intr>>

AInAsyncTerm ==
  /\ ainState' = "ssConfig" /\ bCheckHalfDone' = FALSE
  /\ UNCHANGED <<ainStarted, aout, intMutex, intr>>

AOutAsyncTerm ==
  /\ aoutState' = "ssConfig"
  /\ UNCHANGED <<ain, regenerate, bRev3Mode, intMutex, intr>>

AOutReset ==
  /\ bRev3Mode' = FALSE
  /\ UNCHANGED <<ain, aoutState, regenerate, intMutex, intr>>

-----------------------------------------------------------------------------
(* Start: the first user enables the interrupt.                            *)

\* (Mutants: a user is counted only when it enables the interrupt, or twice.)
UsersWhenFirst == IF intMutex = 0 THEN 1 ELSE intMutex
UsersTwice     == intMutex + 2

UsersAfterStart == intMutex + 1

UseInterrupt ==
  /\ intMutex < MaxUsers
  /\ IF intMutex = 0 THEN Switch(TRUE, TRUE) ELSE UNCHANGED switch
  /\ intMutex' = UsersAfterStart
  /\ UNCHANGED queue

\* Enabling fails: nothing is counted.
CannotEnable ==
  /\ intMutex = 0 /\ Switch(FALSE, TRUE)
  /\ UNCHANGED <<intMutex, queue>>

AInAsyncStart ==
  /\ ainState = "ssStandby"
  /\ UseInterrupt
  /\ ainState' = "ssRunning" /\ ainStarted' = TRUE
  /\ UNCHANGED <<bCheckHalfDone, aout>>

\* A later command fails: the user stays counted, and input stays in standby.
AInStartFails ==
  /\ ainState = "ssStandby"
  /\ CannotEnable \/ (DspFaults /\ UseInterrupt)
  /\ UNCHANGED <<ain, aout>>

UseInterruptUnlessRegenerated == IF regenerate THEN UNCHANGED <<intMutex, intr>> ELSE UseInterrupt

AOutAsyncStart ==
  /\ aoutState = "ssStandby"
  /\ UseInterruptUnlessRegenerated
  /\ aoutState' = "ssRunning" /\ bRev3Mode' = TRUE
  /\ UNCHANGED <<ain, regenerate>>

AOutStartFails ==
  /\ aoutState = "ssStandby"
  /\ \/ ~regenerate /\ CannotEnable /\ UNCHANGED bRev3Mode
     \/ DspFaults /\ UseInterruptUnlessRegenerated /\ bRev3Mode' = TRUE
  /\ UNCHANGED <<ain, aoutState, regenerate>>

-----------------------------------------------------------------------------
(* Stop: the last user disables the interrupt.                             *)

\* (Mutant: every user that stops disables the interrupt.)
LastUserAny == intMutex > 0

LastUser == intMutex = 1

ReleaseInterrupt ==
  /\ IF LastUser THEN Switch(TRUE, FALSE) ELSE UNCHANGED switch
  /\ intMutex' = IF intMutex > 0 THEN intMutex - 1 ELSE 0
  /\ UNCHANGED queue

\* A stop that fails, before the interrupt is switched or there, changes no
\* state of the driver: the subsystem counts as running.
CannotStop ==
  /\ DspFaults
  /\ (LastUser /\ Switch(FALSE, FALSE)) \/ UNCHANGED switch
  /\ UNCHANGED <<intMutex, queue, ain, aout>>

\* Not only a running input is stopped: the check of its state does not return.
AInAsyncStop ==
  /\ Disciplined => ainStarted
  /\ ReleaseInterrupt
  /\ ainState' = "ssStopped" /\ ainStarted' = FALSE
  /\ UNCHANGED <<bCheckHalfDone, aout>>

AInStopFails == (Disciplined => ainStarted) /\ CannotStop

AOutStopIdle ==
  /\ aoutState # "ssRunning"
  /\ aoutState' = "ssStopped"
  /\ UNCHANGED <<ain, regenerate, bRev3Mode, intMutex, intr>>

AOutAsyncStop ==
  /\ aoutState = "ssRunning"
  /\ IF regenerate THEN UNCHANGED <<intMutex, intr>> ELSE ReleaseInterrupt
  /\ aoutState' = "ssStopped" /\ bRev3Mode' = FALSE
  /\ UNCHANGED <<ain, regenerate>>

AOutStopFails == aoutState = "ssRunning" /\ ~regenerate /\ CannotStop

EnableInterrupt(val) ==
  /\ val \in EnableArgs
  /\ \E ok \in BOOLEAN : Switch(ok, val)
  /\ UNCHANGED <<ain, aout, intMutex, queue>>

\* PdAdapterTestInterrupt: the board is told to raise its interrupt.
TestInterrupt ==
  /\ Diagnostics
  /\ bTestInt' = TRUE /\ request' = TRUE
  /\ UNCHANGED <<ain, aout, intMutex, switch, scheduled>>

-----------------------------------------------------------------------------
Application ==
  \/ \E ok \in BOOLEAN : AInAsyncInit(ok) \/ \E regen \in BOOLEAN : AOutAsyncInit(ok, regen)
  \/ AInAsyncTerm \/ AOutAsyncTerm \/ AOutReset
  \/ AInAsyncStart \/ AInStartFails \/ AOutAsyncStart \/ AOutStartFails
  \/ AInAsyncStop \/ AInStopFails \/ AOutStopIdle \/ AOutAsyncStop \/ AOutStopFails
  \/ ImmediateUpdate
  \/ \E val \in BOOLEAN : EnableInterrupt(val)
  \/ TestInterrupt

Next ==
  \/ Request
  \/ \E ok \in BOOLEAN : ServeBoard(ok)
  \/ \E ok \in BOOLEAN : BottomHalf(ok)
  \/ Application

Spec == Init /\ [][Next]_vars

\* The processor serves an interrupt, the kernel runs queued work.
FairSpec ==
  /\ Spec
  /\ WF_vars(\E ok \in BOOLEAN : ServeBoard(ok))
  /\ WF_vars(\E ok \in BOOLEAN : BottomHalf(ok))

-----------------------------------------------------------------------------
(* What should hold.                                                       *)

\* The subsystems that depend on the interrupt (output that the board
\* regenerates by itself does not).
AInUses  == ainState = "ssRunning"
AOutUses == aoutState = "ssRunning" /\ ~regenerate

\* Types.  intMutex never goes below zero, whatever stops, fails or is terminated
\* in between, and each start counts one user.
TypeOK ==
  /\ ainState \in States /\ aoutState \in States
  /\ bCheckHalfDone \in BOOLEAN /\ regenerate \in BOOLEAN /\ bRev3Mode \in BOOLEAN
  /\ intMutex \in 0 .. MaxUsers
  /\ intEnabled \in BOOLEAN /\ request \in BOOLEAN /\ scheduled \in BOOLEAN
  /\ bTestInt \in BOOLEAN /\ tested \in BOOLEAN
  /\ ainStarted \in BOOLEAN /\ timedOut \in BOOLEAN

\* intMutex counts every subsystem that runs on interrupts, and what was started
\* and not stopped: the stop of one is never taken for the stop of the last.
\* (It may count too many: automatic stops, terminations and failed starts leave
\* their user in the count, and nothing corrects it.)
Counted(b) == IF b THEN 1 ELSE 0
UsersCounted ==
  /\ AInUses => ainStarted
  /\ Counted(ainStarted) + Counted(AOutUses) <= intMutex

\* A subsystem that runs on interrupts can be interrupted: the host interrupt is
\* on, or the bottom half that will turn it on again is queued; unless the last
\* command to the switch timed out, or the interrupt test has taken an interrupt
\* and nothing has switched it on since.  Two subsystems start, are stopped by the
\* application or by the driver, and fail to start or stop, in any order around
\* an interrupt in progress, and around tests.
RunningIsServed ==
  (AInUses \/ AOutUses) /\ ~timedOut /\ ~tested => intEnabled \/ scheduled

\* So what a running subsystem requests is served in the end, or the subsystem
\* stopped, a command to the switch timed out or a test took an interrupt.
RequestServed ==
  request /\ (AInUses \/ AOutUses)
    ~> ~request \/ ~(AInUses \/ AOutUses) \/ timedOut \/ tested

-----------------------------------------------------------------------------
(* What a comment says, and the code does not do.                          *)

\* pdl_fwi.c:295-297, "Servicing an interrupt does not re-enable the interrupt.
\* After all events have been processed, the interrupt should be re-enabled":
\* an interrupt that was served for a running subsystem is enabled again, also
\* if the test took it.
ServedIsReenabled ==
  (AInUses \/ AOutUses) /\ ~intEnabled ~> intEnabled \/ ~(AInUses \/ AOutUses)
=============================================================================
