----------------------------- MODULE OutputRing -----------------------------
(***************************************************************************)
(* What buffered output promises an application that keeps a queue buffer  *)
(* (single run or wrapped) filled: while the output runs, values are put   *)
(* in ring order, each after it was filled and once for each time it was;  *)
(* and a value is lent to be refilled only when it has been put.           *)
(***************************************************************************)
EXTENDS Integers

CONSTANT Size      \* values in the DAQ buffer, a positive number

VARIABLES
  running,   \* the output is under way
  next,      \* the next value to put
  ready,     \* how many values from there on the driver may put
  filled,    \* the values filled since they were last put
  lent       \* the values the application has been told to refill

ringVars == <<running, next, ready, filled, lent>>

Slots    == 0 .. Size - 1
Ahead(n) == {(next + i) % Size : i \in 0 .. n - 1}

Stopped == ~running /\ next = 0 /\ ready = 0 /\ filled = {} /\ lent = {}

Begin ==
  /\ ~running /\ running'
  /\ next' \in Slots /\ ready' \in 0 .. Size
  /\ filled' \in SUBSET Slots /\ Ahead(ready)' \subseteq filled'
  /\ lent' = {}

Put(n) ==
  /\ running /\ n <= ready
  /\ next' = (next + n) % Size
  /\ ready' = ready - n
  /\ filled' = filled \ Ahead(n)
  /\ UNCHANGED <<running, lent>>

\* What was lent before has come back; n values more may be put.
Lend(n) ==
  /\ running /\ lent = {}
  /\ ready + n <= Size /\ Ahead(ready + n) \subseteq filled
  /\ ready' = ready + n
  /\ lent' \in SUBSET (Slots \ filled)
  /\ UNCHANGED <<running, next, filled>>

Return ==
  /\ filled' = filled \cup lent
  /\ lent' = {}
  /\ UNCHANGED <<running, next, ready>>

RingNext ==
  \/ Begin
  \/ \E n \in 0 .. Size : Put(n) \/ Lend(n)
  \/ Return
  \/ Stopped'

RingSpec == Stopped /\ [][RingNext]_ringVars
=============================================================================
