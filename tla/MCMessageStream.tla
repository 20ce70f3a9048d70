--------------------------- MODULE MCMessageStream ---------------------------
(* Small instances of MessageStream for TLC.                               *)
EXTENDS MessageStream

CONSTANTS short, long, huge

ThreeSizes == [m \in {short, long, huge} |-> IF m = short THEN 3 ELSE IF m = long THEN 5 ELSE 7]
=============================================================================
