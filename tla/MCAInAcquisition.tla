------------------------- MODULE MCAInAcquisition --------------------------
(***************************************************************************)
(* Instances of buffered analog input for TLC: the buffer modes an         *)
(* application can register.                                               *)
(***************************************************************************)
EXTENDS AInStream

SingleRun == [wrap |-> FALSE, recycle |-> FALSE]
Wrap      == [wrap |-> TRUE, recycle |-> FALSE]
Recycle   == [wrap |-> FALSE, recycle |-> TRUE]
Both      == [wrap |-> TRUE, recycle |-> TRUE]

QueueModes   == {SingleRun, Wrap}
RecycleModes == {Recycle}
AllModes     == {SingleRun, Wrap, Recycle, Both}
=============================================================================
