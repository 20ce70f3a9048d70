-------------------------- MODULE MCReadWriteBlocks --------------------------
(* A small instance of ReadWriteBlocks for TLC.                            *)
EXTENDS ReadWriteBlocks

CONSTANTS r1, w1, w2
=============================================================================
