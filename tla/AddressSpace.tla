---------------------------- MODULE AddressSpace ----------------------------
(***************************************************************************)
(* Node management and browsing: the services AddNodes, AddReferences,     *)
(* DeleteNodes, DeleteReferences, Browse and BrowseNext, and the functions *)
(* UA_Server_* that share their handlers.  The server handles one item     *)
(* after the other, each to its end; clients send them in any order, and   *)
(* memory may run out in the middle of each.                               *)
(***************************************************************************)
EXTENDS References

CONSTANTS
    Base,               \* the nodes at the start, by their ids
    Ns0,                \* the ids of namespace 0
    BrowseLimit,        \* how many children of a type are instantiated (100)
    MaxWork,            \* how much one instantiation does before memory is used up
    MaxRefs,            \* bounds the references of a node
    New,                \* the items for AddNodes
    Links,              \* the references clients add and delete, with their source
    Asked, Limits,      \* the descriptions and page sizes for Browse
    Removable           \* the nodes clients delete

Classes == {"Object", "Variable", "Method", "ObjectType", "VariableType", "ReferenceType"}

(* At the start each reference is kept by both of its nodes.               *)
ASSUME BaseAssumption ==
    /\ DOMAIN Base \subseteq Ids
    /\ \A n \in DOMAIN Base :
          /\ Base[n] = [class |-> Base[n].class, name |-> Base[n].name,
                        refs |-> Base[n].refs, dangling |-> FALSE]
          /\ Base[n].class \in Classes /\ Base[n].refs \in Seq(References_)
          /\ \A ref \in ToSet(Base[n].refs) :
                /\ ref.target \in DOMAIN Base
                /\ EntriesOf(Base[n].refs, ref) = EntriesOf(Base[ref.target].refs, Flipped(ref, n))
ASSUME RequestAssumption ==
    /\ \A item \in New : item.class \in Classes /\ item.id \in Ids \union {NullId}
    /\ \A link \in Links : link.source \in Ids /\ link.ref \in References_
    /\ Limits \subseteq Nat
ASSUME BoundAssumption == BrowseLimit \in Nat /\ MaxWork \in Nat

VARIABLES points, avail, alive,
          short,        \* history: an allocation of the last request failed
          answer        \* history: what the last browse gave, with all before it
vars == <<nodes, points, avail, alive, torn, short, answer>>

NoAnswer == [status |-> "none", given |-> <<>>, all |-> <<>>, more |-> FALSE, intact |-> FALSE]

Request(fails, luck) ==
    [nodes |-> nodes, points |-> points, avail |-> avail, alive |-> alive, torn |-> torn,
     status |-> "Good", fails |-> fails, tries |-> 0, luck |-> luck, added |-> NullId]
Becomes(s) ==
    /\ alive
    /\ nodes' = s.nodes /\ points' = s.points /\ avail' = s.avail
    /\ alive' = s.alive /\ torn' = s.torn
    /\ short' = (\E k \in s.fails : k <= s.tries)
EndsBrowse == answer' = NoAnswer

Init ==
    /\ nodes = [n \in Ids |-> IF n \in DOMAIN Base THEN Base[n] ELSE Absent]
    /\ points = [sess \in Sessions \union {Admin} |-> <<>>]
    /\ avail = [sess \in Sessions \union {Admin} |-> IF sess = Admin THEN 0 ELSE MaxPoints]
    /\ alive = TRUE
    /\ torn = {}
    /\ short = FALSE
    /\ answer = NoAnswer

-----------------------------------------------------------------------------
(***************************************************************************)
(* Instantiation: every child of the type is copied under the new node,    *)
(* with a new id, and the copy is instantiated for the type definitions of *)
(* the original.  What fails on the way is ignored; a type that contains   *)
(* itself never ends.  The calls nest: what they have yet to do is on a    *)
(* stack, that of the innermost one first.                                 *)
(***************************************************************************)
Work(s, todo) == [s |-> s, todo |-> todo]
Task(op, n, class, ref) == [op |-> op, node |-> n, class |-> class, ref |-> ref]
Tasks(op, n, class, refs) == [i \in DOMAIN refs |-> Task(op, n, class, refs[i])]

ChildrenOf(type, class) ==
    [node |-> type, subtypes |-> TRUE, direction |-> "forward",
     type |-> IF class = "Object" THEN Aggregates ELSE HasProperty,
     classes |-> IF class = "Object" THEN {"Object", "Variable", "Method"} ELSE {"Variable"}]
TypeClass(class) == IF class = "Object" THEN "ObjectType" ELSE "VariableType"
TypeLink(type) == Reference(HasTypeDefinition, TRUE, type)
IsTypeDefinition(ref) == ref = TypeLink(ref.target)

(* copyExistingObject and copyExistingVariable                             *)
CopyExisting(s, n, ref) ==
    LET original == NodeAt(s, ref.target)
        copied == AddExistingNode(s, [id |-> NullId, class |-> original.class,
                                      name |-> original.name, type |-> ref.type, parent |-> n])
    IN Work(copied, Tasks("instantiate", copied.added, original.class, original.refs))

Linked(s, n, ref) == Work(AddReference(s, n, ref), <<>>)
AddChildToType(s, n, ref) == Linked(s, n, ref)
AddChild(s, n, ref) ==
    CASE IsClass(s, ref.target, "Method") -> Linked(s, n, ref)
      [] NodeAt(s, ref.target).class \in {"Object", "Variable"} -> CopyExisting(s, n, ref)
      [] OTHER -> Work(s, <<>>)

(* instantiateObjectNode and instantiateVariableNode                       *)
TypeStatus(s, class, type) ==
    CASE ~Exists(s, type) -> "BadNodeIdInvalid"
      [] Exists(s, type) /\ ~IsClass(s, type, TypeClass(class)) -> "BadNodeClassInvalid"
      [] OTHER -> "Good"
Begun(s, sess, n, class, type) ==
    LET browsed == Browse(s, sess, ChildrenOf(type, class), BrowseLimit)
    IN Work(Tried(browsed.state, BrowseTries), Tasks("add", n, class, browsed.refs)
                                                   \o <<Task("link", n, class, TypeLink(type))>>)

Done(s, sess, task) ==
    CASE task.op = "add" -> AddChild(s, task.node, task.ref)
      [] task.op = "link" -> Linked(s, task.node, task.ref)
      [] OTHER -> IF IsTypeDefinition(task.ref) /\ TypeStatus(s, task.class, task.ref.target) = "Good"
                  THEN Begun(s, sess, task.node, task.class, task.ref.target)
                  ELSE Work(s, <<>>)
Continued(done, rest) == Work(done.s, done.todo \o rest)
GoOn(w, sess) ==
    IF w.todo = <<>> THEN w ELSE Continued(Done(w.s, sess, Head(w.todo)), Tail(w.todo))

Instantiate(s, sess, n, class, type) ==
    LET work[k \in 0..MaxWork] ==
            IF k = 0 THEN Begun(s, sess, n, class, type) ELSE GoOn(work[k - 1], sess)
        Ended(w) == IF w.todo = <<>> THEN Answering(w.s, "Good") ELSE [w.s EXCEPT !.alive = FALSE]
        status == TypeStatus(s, class, type)
    IN IF status = "Good" THEN Ended(work[MaxWork]) ELSE Answering(s, status)

(***************************************************************************)
(* Service_DeleteNodes_single.  The item for the references has no type.   *)
(* The destructors looked for are those of inverse HasSubtype references,  *)
(* which an object does not have; they change nothing here.                *)
(***************************************************************************)
RemoveNode(s, n) == [s EXCEPT !.nodes[n] = Absent, !.status = "Good"]
DeleteNode(s, n, deleteReferences) ==
    LET refs == IF deleteReferences THEN NodeAt(s, n).refs ELSE <<>>
        unlinked[k \in 0..Len(refs)] ==
            IF k = 0 THEN s
            ELSE DeleteReference(unlinked[k - 1], refs[k].target,
                                 Reference(NullId, ~refs[k].fwd, n), FALSE)
        Freed(gone) == IF NodeAt(s, n).dangling THEN Touched(gone, n) ELSE gone
    IN IF ~Exists(s, n) THEN Answering(s, "BadNodeIdInvalid")
       ELSE RemoveNode(Freed([unlinked[Len(refs)] EXCEPT !.torn = @ \union {Pair(n, m) : m \in Ids}]), n)

(* Service_AddNodes_single                                                 *)
KeptIfTyped(typed, n) ==
    IF typed.status = "Good" THEN [typed EXCEPT !.added = n]
    ELSE Answering(DeleteNode(typed, n, TRUE), typed.status)
Instantiated(added, sess, item) ==
    IF added.status # "Good" \/ item.typeDefinition = NullId
       \/ item.class \notin {"Object", "Variable"}
    THEN added
    ELSE KeptIfTyped(Instantiate(added, sess, added.added, item.class, item.typeDefinition), added.added)
AddNode(s, sess, item) == Instantiated(AddExistingNode(s, item), sess, item)

-----------------------------------------------------------------------------
Adds(s) ==
    /\ \A n \in Ids : Exists(s, n) => Len(NodeAt(s, n).refs) <= MaxRefs[n]
    /\ Becomes(s)
    /\ EndsBrowse

(***************************************************************************)
(* Service_AddNodes_single_unparsed for clients; UA_Server_addNode and     *)
(* UA_Server_addDataSourceVariableNode, which instantiates nothing.        *)
(***************************************************************************)
AddNodes(sess, item, fails, luck) ==
    /\ sess # Admin => item.id \notin Ns0
    /\ Adds(AddNode(Request(fails, luck), sess, item))

AddDataSourceVariableNode(item, fails, luck) ==
    item.class = "Variable" /\ Adds(AddExistingNode(Request(fails, luck), item))

AddReferences(link, fails, luck) ==
    Adds(AddReference(Request(fails, luck), link.source, link.ref))

DeleteReferences(link, bidirectional) ==
    Becomes(DeleteReference(Request({}, TRUE), link.source, link.ref, bidirectional)) /\ EndsBrowse

DeleteNodes(n, deleteReferences, luck) ==
    Becomes(DeleteNode(Request({}, luck), n, deleteReferences)) /\ EndsBrowse

-----------------------------------------------------------------------------
(***************************************************************************)
(* Service_Browse.  The client is told of the point.                       *)
(***************************************************************************)
WithHistory(browsed, sess, given, all) ==
    IF browsed.more
    THEN [browsed.state EXCEPT !.points[sess][1] =
             [@ EXCEPT !.told = TRUE, !.given = given, !.all = all, !.intact = TRUE]]
    ELSE browsed.state

BrowseNode(sess, d, limit, fails) ==
    LET s == Request(fails, TRUE)
        Answer(browsed, all) ==
            /\ Becomes(WithHistory(browsed, sess, browsed.refs, all))
            /\ answer' = [status |-> browsed.state.status, given |-> browsed.refs,
                          all |-> IF browsed.state.status = "Good" THEN all ELSE <<>>,
                          more |-> browsed.more, intact |-> TRUE]
    IN Answer(Browse(s, sess, d, limit), Relevant(s, d))

(* removeCp                                                                *)
WithoutPointUncounted(s, sess, i) == [s EXCEPT !.points[sess] = RemoveAt(@, i)]
WithoutPoint(s, sess, i) == [s EXCEPT !.points[sess] = RemoveAt(@, i), !.avail[sess] = @ + 1]

(***************************************************************************)
(* Service_BrowseNext.  A point stays when the browse cannot go on.        *)
(***************************************************************************)
AdvanceToPage(cp, page) == Len(page.refs)
Advance(cp, page) == cp.index + Len(page.refs)
BrowseNext(sess, i, fails) ==
    LET s == Request(fails, TRUE)
        cp == points[sess][i]
        status == BrowseStatus(s, cp.descr)
        page == PageOf(s, cp.descr, cp.index, cp.max)
        goesOn == status = "Good" /\ NodeAt(s, cp.descr.node).refs # <<>>
        all == Relevant(s, cp.descr)
        intact == cp.intact /\ IsPrefix(cp.all, all)
        given == cp.given \o page.refs
        next == [cp EXCEPT !.index = Advance(cp, page), !.given = given,
                           !.all = all, !.intact = intact]
    IN /\ i \in DOMAIN points[sess] /\ cp.told
       /\ IF ~goesOn
          THEN Becomes(s) /\ answer' = [NoAnswer EXCEPT !.status = status]
          ELSE IF Undescribed(s, page)
          THEN Becomes(s) /\ answer' = [NoAnswer EXCEPT !.status = "Uncertain"]
          ELSE /\ Becomes(IF page.last THEN WithoutPoint(s, sess, i)
                          ELSE [s EXCEPT !.points[sess][i] = next])
               /\ answer' = [status |-> "Good", given |-> given, all |-> all,
                             more |-> ~page.last, intact |-> intact]

(***************************************************************************)
(* Releasing a point removes the first one that is another.                *)
(***************************************************************************)
ReleasePoint(sess, i) ==
    LET others == DOMAIN points[sess] \ {i}
        first == CHOOSE j \in others : \A k \in others : j <= k
        s == Request({}, TRUE)
    IN /\ i \in DOMAIN points[sess] /\ points[sess][i].told
       /\ Becomes(IF others = {} THEN s
                  ELSE WithoutPoint(s, sess, first))
       /\ EndsBrowse

(* A session ends with its points, and the client opens another one.       *)
RenewSession(sess) ==
    /\ points[sess] # <<>>
    /\ Becomes([Request({}, TRUE) EXCEPT !.points[sess] = <<>>, !.avail[sess] = MaxPoints])
    /\ EndsBrowse

(* Without a freed array there is nothing to be lucky with.                *)
Lucks == IF \E n \in Ids : Exists(Request({}, TRUE), n) /\ nodes[n].dangling THEN BOOLEAN ELSE {TRUE}

Next ==
    \/ \E sess \in Sessions \union {Admin}, item \in New, fails \in Shortages, luck \in Lucks :
           AddNodes(sess, item, fails, luck)
    \/ \E item \in New, fails \in Shortages, luck \in Lucks :
           AddDataSourceVariableNode(item, fails, luck)
    \/ \E link \in Links, fails \in Shortages, luck \in Lucks : AddReferences(link, fails, luck)
    \/ \E link \in Links, bidirectional \in BOOLEAN : DeleteReferences(link, bidirectional)
    \/ \E n \in Removable, deleteReferences \in BOOLEAN, luck \in Lucks :
           DeleteNodes(n, deleteReferences, luck)
    \/ \E sess \in Sessions, d \in Asked, limit \in Limits, fails \in Shortages :
           BrowseNode(sess, d, limit, fails)
    \/ \E sess \in Sessions, i \in 1..MaxPoints, fails \in Shortages : BrowseNext(sess, i, fails)
    \/ \E sess \in Sessions, i \in 1..MaxPoints : ReleasePoint(sess, i)
    \/ \E sess \in Sessions : RenewSession(sess)

Spec == Init /\ [][Next]_vars

-----------------------------------------------------------------------------
(* Every node has a class, a name and an array of references; pages have   *)
(* not gone past what there was.                                           *)
TypeOK ==
    /\ \A n \in Ids :
            nodes[n] # Absent => /\ ToSet(nodes[n].refs) \subseteq References_
                                 /\ (nodes[n].dangling => nodes[n].refs = <<>>)
    /\ \A sess \in Sessions : \A cp \in ToSet(points[sess]) : cp.max > 0 /\ cp.index >= cp.max
    /\ points[Admin] = <<>>
    /\ alive \in BOOLEAN
    /\ torn \subseteq {Pair(m, n) : m, n \in Ids}

(***************************************************************************)
(* A new object that comes to have its type definition has, under the same *)
(* browse path, a child of its own for each of the first BrowseLimit       *)
(* children of the type, and the methods among them                        *)
(* (instantiateObjectNode).  Three objects may lack some: one for which an *)
(* allocation failed on the way, for what fails is ignored and the type    *)
(* definition is added last; one that took the last id; and one of a type  *)
(* with more children than the single page that is asked for.              *)
(***************************************************************************)
HasItsChildren(s, t, n, type) ==
    \A ref \in ToSet(PageOf(s, ChildrenOf(type, "Object"), 0, BrowseLimit).refs) :
        LET path == <<[type |-> ref.type, subtypes |-> FALSE, fwd |-> TRUE,
                       name |-> NodeAt(s, ref.target).name]>>
        IN \E m \in ToSet(Targets(t, n, path)) :
              IF IsClass(s, ref.target, "Method") THEN m = ref.target ELSE ~Exists(s, m)
InstancesAreComplete ==
    [][\A n \in Ids :
         LET s == [nodes |-> nodes]
             t == [nodes |-> nodes']
         IN (~Exists(s, n) /\ Exists(t, n) /\ IsClass(t, n, "Object") /\ ~short' /\ FreshIds(t) # {}) =>
            \A def \in ToSet(nodes'[n].refs) :
                IsTypeDefinition(def) => HasItsChildren(s, t, n, def.target)]_vars

(***************************************************************************)
(* A client that browses with continuation points is given each reference  *)
(* once, in order, and all of them when there is no further page, as long  *)
(* as references were only added meanwhile (Service_Browse_single).        *)
(***************************************************************************)
PagesAreExact ==
    answer.status = "Good" /\ answer.intact =>
        IF answer.more THEN IsPrefix(answer.given, answer.all) ELSE answer.given = answer.all

(* Whatever points are made, finished and released, a session has as many  *)
(* as are counted, none of which stands before its first page (removeCp,   *)
(* Service_Browse_single).                                                 *)
PointsAreCounted ==
    /\ TypeOK
    /\ \A sess \in Sessions : avail[sess] + Len(points[sess]) = MaxPoints
=============================================================================
