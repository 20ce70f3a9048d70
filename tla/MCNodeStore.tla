---------------------------- MODULE MCNodeStore ----------------------------
(* A small instance of NodeStore for TLC.                                  *)
EXTENDS NodeStore, TLC

CONSTANTS a, b, e1, e2, e3, e4

TwoNamed    == {a, b}
MCNodeIds   == TwoNamed \cup 0..10
MCPrimes    == {5, 11}
FourEntries == {e1, e2, e3, e4}

(* The named ids collide with each other in both tables, and with some of  *)
(* the numeric ones.                                                       *)
MCHash == [id \in MCNodeIds |->
             CASE id = a -> 1
               [] id = b -> 56
               [] OTHER  -> id + 1]

Symmetry == Permutations(Entries)
=============================================================================
