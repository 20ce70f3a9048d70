------------------------------- MODULE Server -------------------------------
(***************************************************************************)
(* The life of a server: UA_Server_new builds namespace 0, one addition    *)
(* after the other, and then ServerLoop runs it.                           *)
(***************************************************************************)
EXTENDS Namespace0, ServerLoop

vars == <<space, loopVars>>

Init == BuildInit /\ LoopInit

Next ==
    \/ \E fails \in Shortages \union {{}} : AddNext(fails) /\ UNCHANGED loopVars
    \/ LoopNext /\ LeaveNodes

Spec == Init /\ [][Next]_vars /\ WF_vars(ServerStep /\ LeaveNodes)
=============================================================================
