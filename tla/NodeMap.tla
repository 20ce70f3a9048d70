------------------------------ MODULE NodeMap ------------------------------
(***************************************************************************)
(* What ua_nodestore.h promises: a set of nodes, one for each NodeId, that *)
(* are found under their NodeId from their insertion to their removal.     *)
(* The removal of a node may make others lost, which are not found until a *)
(* change of the store brings them back; where nothing is removed, nothing *)
(* is lost and the map is exact.                                           *)
(***************************************************************************)
CONSTANTS
    NodeIds,    \* the NodeIds that callers use
    NULL

VARIABLES
    stored,     \* the NodeIds under which a node is found
    lost,       \* the NodeIds of the nodes that are in the store and not found
    answer      \* of the last operation: the status and the NodeId it is about

vars == <<stored, lost, answer>>

Init == stored = {} /\ lost = {} /\ answer = <<"GOOD", NULL>>

(* Some of the lost nodes are found again; others stay lost, or give way   *)
(* to a node with the same NodeId.                                         *)
Return(found) ==
    /\ found \subseteq stored'
    /\ stored' \subseteq found \cup lost
    /\ lost' \subseteq lost

(* The NodeId is free; the store picks one if the caller gives none.       *)
Insert(id) ==
    /\ answer' = <<"GOOD", id>>
    /\ id \notin stored
    /\ Return(stored \cup {id})

InsertExisting(id) ==
    /\ answer' = <<"BADNODEIDEXISTS", id>>
    /\ id \in stored \cup lost
    /\ Return(stored)
    /\ id \in stored'

Remove(id) ==
    /\ answer' = <<"GOOD", id>>
    /\ id \in stored
    /\ stored' \subseteq (stored \ {id}) \cup lost
    /\ lost' \subseteq (stored \ {id}) \cup lost
    /\ stored \ {id} \subseteq stored' \cup lost'

(* Get, replace and remove of a NodeId that is not found.                  *)
Unknown(id) ==
    /\ answer' = <<"BADNODEIDUNKNOWN", id>>
    /\ id \notin stored
    /\ UNCHANGED <<stored, lost>>

(* Get and replace of a stored node.                                       *)
Found(id) ==
    /\ answer' = <<"GOOD", id>>
    /\ id \in stored
    /\ UNCHANGED <<stored, lost>>

(* No memory, or a replacement of an obsolete node.                        *)
Refuse ==
    /\ answer' \in {"BADOUTOFMEMORY", "BADINTERNALERROR"} \X {NULL}
    /\ Return(stored)

Next ==
    \/ \E id \in NodeIds :
          \/ Unknown(id)
          \/ Found(id)
          \/ Insert(id)
          \/ InsertExisting(id)
          \/ Remove(id)
    \/ Refuse

Spec == Init /\ [][Next]_vars
=============================================================================
