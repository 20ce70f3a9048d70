----------------------------- MODULE References -----------------------------
(***************************************************************************)
(* The nodes of the server and their references, as the services on them   *)
(* see them through the node store: what the handlers of AddressSpace and  *)
(* Views are put together from.  A reference is kept twice, in the array   *)
(* of either node, and the two entries are made and deleted one after the  *)
(* other.                                                                  *)
(*                                                                         *)
(* The operators work on a record s with the state of the server while one *)
(* request is handled:                                                     *)
(*   nodes   what the node store finds under each id                       *)
(*   points  the continuation points of each session, newest first         *)
(*   avail   how many more continuation points each session may have       *)
(*   alive   the process has not ended                                     *)
(*   torn    history: pairs of ids between which one entry of a reference  *)
(*           was made or deleted without the other                         *)
(*   status  what the last operation answered                              *)
(*   fails   the allocations of this request that fail, by their numbers   *)
(*   tries   how many there were so far                                    *)
(*   luck    whether using freed memory goes unnoticed                     *)
(*   added   the id of the node that was added                             *)
(***************************************************************************)
EXTENDS Naturals, Sequences, FiniteSets, SequencesExt

CONSTANTS
    Ids,                \* the ids of nodes
    Assigned,           \* those the node store assigns to nodes without an id
    NullId,             \* no id
    HasSubtype, HasTypeDefinition, HasProperty, Aggregates,
    Abstract,           \* the abstract reference types
    Admin,              \* the session of the functions UA_Server_*
    Sessions,           \* the sessions of clients
    MaxPoints,          \* MAXCONTINUATIONPOINTS
    Shortages           \* the sets of allocations of a request that fail

ASSUME IdAssumption ==
    /\ Assigned \subseteq Ids
    /\ NullId \notin Ids
    /\ {HasSubtype, HasTypeDefinition, HasProperty, Aggregates} \subseteq Ids \ Assigned
    /\ Admin \notin Sessions
    /\ MaxPoints \in Nat
    /\ Shortages \subseteq SUBSET Nat

VARIABLES nodes, torn

References_ == [type : Ids, fwd : BOOLEAN, target : Ids]
EntriesOf(refs, ref) == Cardinality({i \in DOMAIN refs : refs[i] = ref})

Absent == [class |-> "none"]
NodeAt(s, n) == IF n \in Ids THEN s.nodes[n] ELSE Absent
Exists(s, n) == NodeAt(s, n) # Absent
IsClass(s, n, class) == NodeAt(s, n).class = class

Reference(type, fwd, target) == [type |-> type, fwd |-> fwd, target |-> target]
Flipped(ref, n) == Reference(ref.type, ~ref.fwd, n)
Pair(m, n) == {m, n}

Answering(s, status) == [s EXCEPT !.status = status]
(***************************************************************************)
(* Each place that asks for memory has the next number; the ones that fail *)
(* may come before and after others that succeed.                          *)
(***************************************************************************)
FailsAt(s, k) == s.tries + k \in s.fails
Tried(s, k) == [s EXCEPT !.tries = @ + k]
(* The pair has entries that do not match, or may come to have them.       *)
Torn(s, m, n) == [s EXCEPT !.torn = @ \union {Pair(m, n)}]
(* The array of node n was freed and is used again.                        *)
Touched(s, n) == IF NodeAt(s, n).dangling /\ ~s.luck THEN [s EXCEPT !.alive = FALSE] ELSE s

(***************************************************************************)
(* UA_Server_editNode with addOneWayReference: the array is reallocated    *)
(* and the ids are copied; without memory nothing is added.                *)
(***************************************************************************)
Longer(node, ref) == [node EXCEPT !.refs = Append(@, ref), !.dangling = FALSE]
AddOneWayReference(s, n, ref) ==
    CASE ~Exists(s, n) -> Answering(s, "BadNodeIdUnknown")
      [] Exists(s, n) /\ FailsAt(s, 1) -> Answering(Tried(s, 1), "BadOutOfMemory")
      [] OTHER -> [Touched(s, n) EXCEPT
                      !.nodes[n] = Longer(@, ref),
                      !.tries = @ + 1,
                      !.status = "Good"]

(* The second entry of a reference, the other way round.                   *)
SecondItemUnturned(n, ref) == Reference(ref.type, ref.fwd, n)
SecondItem(n, ref) == Flipped(ref, n)

(***************************************************************************)
(* When the second direction fails, the first stays.                       *)
(***************************************************************************)
AddedTwice(second, n, ref) == IF second.status = "Good" THEN second ELSE Torn(second, n, ref.target)
AddedOnce(first, n, ref) ==
    IF first.status # "Good" THEN first
    ELSE AddedTwice(AddOneWayReference(first, ref.target, SecondItem(n, ref)), n, ref)
AddReference(s, n, ref) == AddedOnce(AddOneWayReference(s, n, ref), n, ref)

(***************************************************************************)
(* deleteOneWayReference: from the last to the first, each matching entry  *)
(* is overwritten by the last one.  When none is left the array is freed,  *)
(* and the node keeps the pointer.                                         *)
(***************************************************************************)
WithoutEntry(refs, i) == Front([refs EXCEPT ![i] = Last(refs)])
WithoutMatching(refs, ref) ==
    LET kept[k \in 0..Len(refs)] ==    \* the last k have been looked at
            LET i == Len(refs) - k + 1
            IN IF k = 0 THEN refs
               ELSE IF refs[i] = ref THEN WithoutEntry(kept[k - 1], i) ELSE kept[k - 1]
    IN kept[Len(refs)]

Keeping(s, n, ref, kept) ==
    IF kept = NodeAt(s, n).refs THEN Answering(s, "NotDeleted")
    ELSE [Torn(s, n, ref.target) EXCEPT
             !.nodes[n] = [@ EXCEPT !.refs = kept, !.dangling = (kept = <<>>)],
             !.status = "Good"]
DeleteOneWayReference(s, n, ref) ==
    IF ~Exists(s, n) THEN Answering(s, "BadNodeIdUnknown")
    ELSE Keeping(s, n, ref, WithoutMatching(NodeAt(s, n).refs, ref))

(***************************************************************************)
(* The item for the other direction has no reference type, so that nothing *)
(* matches it.                                                             *)
(***************************************************************************)
DeleteReference(s, n, ref, bidirectional) ==
    LET first == DeleteOneWayReference(s, n, ref)
    IN IF bidirectional
       THEN DeleteOneWayReference(first, ref.target, Reference(NullId, ~ref.fwd, n))
       ELSE first

(***************************************************************************)
(* UA_Server_addExistingNode.  A failed reference to the parent is         *)
(* ignored.                                                                *)
(***************************************************************************)
FreshIds(s) == {n \in Assigned : ~Exists(s, n)}
IdFor(s, id) == IF id # NullId THEN id
                ELSE IF FreshIds(s) = {} THEN NullId
                ELSE CHOOSE n \in FreshIds(s) : TRUE
ParentLink(type, parent) == Reference(type, FALSE, parent)

(* objectNodeFromAttributes and the others: a node without references      *)
NewNode(item) == [class |-> item.class, name |-> item.name, refs |-> <<>>, dangling |-> FALSE]

(* UA_NodeStore_insert                                                     *)
InsertNode(s, id, node) ==
    CASE id = NullId \/ FailsAt(s, 1) -> Answering(Tried(s, 1), "BadOutOfMemory")
      [] id # NullId /\ ~FailsAt(s, 1) /\ Exists(s, id) -> Answering(Tried(s, 1), "BadNodeIdExists")
      [] OTHER -> [s EXCEPT !.nodes[id] = node, !.tries = @ + 1, !.status = "Good"]

Refused(s, status) == [Answering(s, status) EXCEPT !.added = NullId]
Inserted(s, inserted, id, item) ==
    IF inserted.status # "Good" THEN Refused(s, inserted.status)
    ELSE [Answering(AddReference(inserted, id, ParentLink(item.type, item.parent)), "Good") EXCEPT
             !.added = id]
AddExistingNode(s, item) ==
    LET id == IdFor(s, item.id)
    IN CASE ~Exists(s, item.parent) -> Refused(s, "BadParentNodeIdInvalid")
         [] Exists(s, item.parent) /\ ~IsClass(s, item.type, "ReferenceType") ->
                Refused(s, "BadReferenceTypeIdInvalid")
         [] OTHER ->
                IF item.type \in Abstract THEN Refused(s, "BadReferenceNotAllowed")
                ELSE Inserted(s, InsertNode(s, id, NewNode(item)), id, item)

-----------------------------------------------------------------------------
(***************************************************************************)
(* findSubTypes: the array grows by every forward HasSubtype reference of  *)
(* the reference types in it.                                              *)
(***************************************************************************)
SubtypesOf(s, t) ==
    IF IsClass(s, t, "ReferenceType")
    THEN {r.target : r \in {q \in ToSet(NodeAt(s, t).refs) : q.type = HasSubtype /\ q.fwd}}
    ELSE {}
Hierarchy(s, root) ==
    LET levels[n \in Nat] ==
            IF n = 0 THEN <<{root}>>
            ELSE LET before == levels[n - 1]
                 IN IF Last(before) = {} THEN before
                    ELSE Append(before, UNION {SubtypesOf(s, t) : t \in Last(before)})
    IN levels[Cardinality(Ids)]
Subtypes(s, root) == UNION ToSet(Hierarchy(s, root))
(* On a cycle the array grows until no memory is left.                     *)
Cyclic(s, root) == Last(Hierarchy(s, root)) # {}

FindSubTypes(s, root) ==
    CASE ~Exists(s, root) -> "BadNoMatch"
      [] Exists(s, root) /\ ~IsClass(s, root, "ReferenceType") -> "BadReferenceTypeIdInvalid"
      [] OTHER -> IF FailsAt(s, 1) \/ Cyclic(s, root) THEN "BadOutOfMemory" ELSE "Good"

-----------------------------------------------------------------------------
(***************************************************************************)
(* Browsing.  A description d is a record with the node, the reference     *)
(* type (or NullId for all), whether subtypes count, the direction and the *)
(* classes of nodes asked for.                                             *)
(***************************************************************************)
Directions == {"forward", "inverse", "both"}

RightDirection(d, ref) == /\ ref.fwd => d.direction # "inverse"
                          /\ ~ref.fwd => d.direction # "forward"

RelevantTypes(s, d) ==
    IF d.type = NullId THEN Ids ELSE IF d.subtypes THEN Subtypes(s, d.type) ELSE {d.type}

(* returnRelevantNode                                                      *)
IsRelevant(s, d, types, ref) ==
    /\ RightDirection(d, ref)
    /\ ref.type \in types
    /\ Exists(s, ref.target)
    /\ NodeAt(s, ref.target).class \in d.classes

(* The positions of the relevant references in the array of the node.      *)
RelevantAt(s, d) ==
    LET refs == NodeAt(s, d.node).refs
        types == RelevantTypes(s, d)
        found[i \in 0..Len(refs)] ==
            IF i = 0 THEN <<>>
            ELSE IF IsRelevant(s, d, types, refs[i]) THEN Append(found[i - 1], i) ELSE found[i - 1]
    IN found[Len(refs)]
ReferencesAt(s, d, at) == [j \in DOMAIN at |-> NodeAt(s, d.node).refs[at[j]]]
Relevant(s, d) == ReferencesAt(s, d, RelevantAt(s, d))

(***************************************************************************)
(* What Service_Browse_single checks before it looks at references.  It    *)
(* asks for memory four times: for the types, the results, what the        *)
(* references on the page are described with, and a continuation point.    *)
(***************************************************************************)
BrowseTries == 4
BrowseStatus(s, d) ==
    LET types == IF d.type = NullId THEN "Good"
                 ELSE IF d.subtypes THEN FindSubTypes(s, d.type)
                 ELSE IF IsClass(s, d.type, "ReferenceType") THEN "Good"
                 ELSE "BadReferenceTypeIdInvalid"
    IN CASE d.direction \notin Directions -> "BadBrowseDirectionInvalid"
         [] d.direction \in Directions /\ types # "Good" -> types
         [] OTHER -> IF ~Exists(s, d.node) THEN "BadNodeIdUnknown"
                     ELSE IF NodeAt(s, d.node).refs # <<>> /\ FailsAt(s, 2) THEN "BadOutOfMemory"
                     ELSE "Good"

(***************************************************************************)
(* One page: skip references, then take up to limit (0 for all).  It is    *)
(* the last one when the loop came to the end of the array.                *)
(***************************************************************************)
Smaller(a, b) == IF a <= b THEN a ELSE b
PageOf(s, d, skip, limit) ==
    LET n   == Len(NodeAt(s, d.node).refs)
        max == IF limit = 0 THEN n ELSE Smaller(limit, n)
        all == RelevantAt(s, d)
        at  == SubSeq(all, skip + 1, Smaller(skip + max, Len(all)))
    IN [refs |-> ReferencesAt(s, d, at),
        last |-> Len(at) < max \/ (at # <<>> /\ Last(at) = n)]
(* fillReferenceDescription: when one fails, all are given up.             *)
Undescribed(s, page) == page.refs # <<>> /\ FailsAt(s, 3)

(***************************************************************************)
(* Service_Browse_single without a continuation point.  One is made when   *)
(* the page is full, even if nothing is left.  Whether the client was told *)
(* of it, what it was given and what there was to be given is history.     *)
(***************************************************************************)
PageIsFull(page, limit) == limit # 0 /\ Len(page.refs) >= limit
NewPoint(d, limit, page) ==
    [descr |-> d, max |-> limit, index |-> Len(page.refs),
     told |-> FALSE, given |-> <<>>, all |-> <<>>, intact |-> FALSE]

Browsed(s, sess, d, limit, page) ==
    IF Undescribed(s, page)
    THEN [state |-> Answering(s, "Uncertain"), refs |-> <<>>, more |-> FALSE]
    ELSE IF ~PageIsFull(page, limit)
    THEN [state |-> Answering(s, "Good"), refs |-> page.refs, more |-> FALSE]
    ELSE IF s.avail[sess] = 0 \/ FailsAt(s, 4)
    THEN [state |-> Answering(s, "BadNoContinuationPoints"), refs |-> page.refs, more |-> FALSE]
    ELSE [state |-> [s EXCEPT !.points[sess] = <<NewPoint(d, limit, page)>> \o @,
                              !.avail[sess] = @ - 1, !.status = "Good"],
          refs |-> page.refs, more |-> TRUE]
Browse(s, sess, d, limit) ==
    LET status == BrowseStatus(s, d)
    IN IF status # "Good" \/ NodeAt(s, d.node).refs = <<>>
       THEN [state |-> Answering(s, status), refs |-> <<>>, more |-> FALSE]
       ELSE Browsed(s, sess, d, limit, PageOf(s, d, 0, limit))

-----------------------------------------------------------------------------
(***************************************************************************)
(* walkBrowsePath.  An element of a path is a record with the reference    *)
(* type, whether subtypes count, the direction and a browse name.  Without *)
(* a reference type the direction does not matter either.                  *)
(***************************************************************************)
Matches(s, e, ref) ==
    \/ e.type = NullId
    \/ ref.fwd = e.fwd /\ ref.type \in (IF e.subtypes THEN Subtypes(s, e.type) ELSE {e.type})
OneStep(s, n, e) ==
    LET refs == SelectSeq(NodeAt(s, n).refs,
                          LAMBDA r : Matches(s, e, r) /\ Exists(s, r.target)
                                     /\ NodeAt(s, r.target).name = e.name)
    IN [i \in DOMAIN refs |-> refs[i].target]
Targets(s, n, path) ==
    FoldLeft(LAMBDA from, e : FlattenSeq([i \in DOMAIN from |-> OneStep(s, from[i], e)]),
             <<n>>, path)

-----------------------------------------------------------------------------
Entries(n, ref) == EntriesOf(nodes[n].refs, ref)
(***************************************************************************)
(* Two nodes have the same entries about each other, as many times, as     *)
(* long as none of theirs was deleted and no second direction failed; in   *)
(* particular a reference to a node that is gone is left by its deletion   *)
(* only (Service_AddReferences_single, deleteOneWayReference).             *)
(***************************************************************************)
ReferencesAgree ==
    \A m \in Ids : nodes[m] # Absent =>
        \A ref \in ToSet(nodes[m].refs) :
            \/ Pair(m, ref.target) \in torn
            \/ /\ nodes[ref.target] # Absent
               /\ Entries(m, ref) = Entries(ref.target, Flipped(ref, m))
=============================================================================
