--------------------------- MODULE MCRepeatedJobs ---------------------------
(* Small instances of RepeatedJobs for TLC.                                *)
EXTENDS RepeatedJobs

CONSTANTS j1, j2, j3, e1, e2, e3

ThreeJobs    == {j1, j2, j3}
ThreeEntries == {e1, e2, e3}
=============================================================================
