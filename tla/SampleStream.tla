--------------------------- MODULE SampleStream ----------------------------
(***************************************************************************)
(* What buffered input promises an application that reads a queue buffer   *)
(* (single run or wrapped): a run is a bounded lossless stream.  Samples   *)
(* are stored in the order they were converted and taken in that order,    *)
(* never more of them stored than the buffer has room for, until the run   *)
(* is closed; a closed run stores nothing more.                            *)
(***************************************************************************)
EXTENDS Integers, Sequences

CONSTANT Capacity    \* values the DAQ buffer holds, a natural number

VARIABLES
  open,      \* the run is under way
  stored,    \* how many samples of the run have been stored
  out        \* the samples taken, numbered from the beginning of the run

streamVars == <<open, stored, out>>

StreamInit == ~open /\ stored = 0 /\ out = <<>>

Begin ==
  /\ open' \in BOOLEAN
  /\ stored' = 0 /\ out' = <<>>

\* The step that fills the buffer may close the run as well.
StoreSamples(n) ==
  /\ open
  /\ open' \in BOOLEAN
  /\ stored' = stored + n
  /\ stored' - Len(out) <= Capacity
  /\ UNCHANGED out

TakeSamples(n) ==
  /\ Len(out) + n <= stored
  /\ out' = out \o [i \in 1 .. n |-> Len(out) + i]
  /\ UNCHANGED <<open, stored>>

Close ==
  /\ open' = FALSE
  /\ UNCHANGED <<stored, out>>

StreamNext ==
  \/ Begin
  \/ \E n \in 1 .. Capacity : StoreSamples(n) \/ TakeSamples(n)
  \/ Close

StreamSpec == StreamInit /\ [][StreamNext]_streamVars
=============================================================================
