---------------------------- MODULE MCAOutBuffer ----------------------------
(***************************************************************************)
(* Instances of buffered analog output for TLC: the buffer modes an        *)
(* application can register.                                               *)
(***************************************************************************)
EXTENDS AOutRing

SingleRun == [wrap |-> FALSE, recycle |-> FALSE]
Wrap      == [wrap |-> TRUE, recycle |-> FALSE]
Recycle   == [wrap |-> FALSE, recycle |-> TRUE]
Both      == [wrap |-> TRUE, recycle |-> TRUE]

Queues    == {SingleRun, Wrap}
AllModes == {SingleRun, Wrap, Recycle, Both}
=============================================================================
