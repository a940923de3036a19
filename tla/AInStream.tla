----------------------------- MODULE AInStream -----------------------------
(***************************************************************************)
(* Buffered analog input implements the lossless stream of SampleStream.   *)
(***************************************************************************)
EXTENDS AInAcquisition

Stream == INSTANCE SampleStream WITH
  Capacity <- MaxValues,
  open     <- ~closed,
  stored   <- good,
  out      <- [i \in 1 .. Least(Len(delivered), good) |-> delivered[i] - base]

\* Every step of the driver and of the board is, for the application, a step of
\* the bounded lossless stream (in the two queue modes of the buffer).
ImplementsStream == Stream!StreamSpec
=============================================================================
