---------------------------- MODULE MCUserLibrary ----------------------------
(* Three applications; two of them get the same number for a file.         *)
EXTENDS UserLibrary

TwoAlike == [p \in Processes |-> IF p = 3 THEN 4 ELSE 3]
=============================================================================
