------------------------------ MODULE MCServer ------------------------------
(* Two peers of a server with the nodes of namespace 0.                    *)
EXTENDS Server

CONSTANTS c1, c2, admin, null

MCIds == NodesOf(Additions)
=============================================================================
