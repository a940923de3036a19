------------------------------ MODULE AOutRing ------------------------------
(***************************************************************************)
(* Buffered analog output implements the ring of OutputRing.               *)
(***************************************************************************)
EXTENDS AOutBuffer

\* The output is followed in the queue modes, until something fails.
Followed == initialised /\ ~bRecycle /\ faults = 0 /\ SubsysState = "ssRunning"

Ring == INSTANCE OutputRing WITH
  Size    <- MaxValues,
  running <- Followed,
  next    <- IF Followed THEN head ELSE 0,
  ready   <- IF Followed THEN MaxValues - count ELSE 0,
  filled  <- IF Followed THEN fresh ELSE {},
  lent    <- IF Followed THEN granted ELSE {}

\* Every step of the driver, of the board and of the application is a step of
\* the ring: values go out in order, each filled since it went out last, and
\* AOutGetScans offers only values that have gone out and were not offered since.
ImplementsRing == Ring!RingSpec
=============================================================================
