--------------------------- MODULE MCDspHandshake ---------------------------
(* Instances of DspHandshake for TLC.                                      *)
EXTENDS DspHandshake

\* Two segments in two memories, one of them at address 0, as in pdfw_mf_iM.h.
TwoSegments == << [dwMemType |-> 1, dwMemAdrs |-> 3, dwMemData |-> <<5, 6>>],
                  [dwMemType |-> 3, dwMemAdrs |-> 0, dwMemData |-> <<7>>] >>

Loader == [dwMemAdrs |-> 4, dwMemData |-> <<9>>]
=============================================================================
