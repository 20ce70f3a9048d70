--------------------------- MODULE MCPublishBlock ---------------------------
(* A small instance of PublishBlock for TLC.                                *)
EXTENDS PublishBlock, TLC

CONSTANTS p1, p2, fb, v1, c1, c2

(* Two devices with a function block of the same name                      *)
SameOutput  == [p \in {p1, p2} |-> v1]
OneOwner    == [v \in Variables |-> fb]

Symmetry == Permutations(Connections)
=============================================================================
