---------------------------- MODULE BlocksProofs ----------------------------
(***************************************************************************)
(* Proofs about the function blocks of the OPC UA package: OPC_UA_READ and *)
(* OPC_UA_WRITE for any number of blocks and any values, OPC_UA_PUBLISH    *)
(* for any number of publishers, objects, variables and connections.       *)
(***************************************************************************)
EXTENDS ReadWriteBlocks, PublishBlock, TLAPS, SequenceTheorems

-----------------------------------------------------------------------------
(***************************************************************************)
(* OPC_UA_READ and OPC_UA_WRITE.                                           *)
(***************************************************************************)
Handlers == {"idle", "connect", "call", "free", "close"}

(* How many CNF events a block has sent at the places of its handler, and  *)
(* that only a writer comes to where the integer is freed.                 *)
CountsOK ==
    /\ cnf \in [Blocks -> Nat]
    /\ \A b \in Blocks :
           /\ stage[b] = "connect" => cnf[b] = 0
           /\ stage[b] = "call" => cnf[b] <= 1
           /\ stage[b] = "free" => cnf[b] <= 1
           /\ stage[b] = "close" => cnf[b] <= 2
           /\ cnf[b] <= 3

(* While a reader is busy, the value of the node is one it may return.     *)
NodeIsSeen == \A r \in Readers : stage[r] # "idle" => node \in seen[r]

(* A busy writer has a value to write.                                     *)
InIsGiven == \A w \in Writers : stage[w] # "idle" => in[w] \in Values

(* The types without that of cnf.                                          *)
PlainTypes ==
    /\ running \in BOOLEAN /\ up \in BOOLEAN
    /\ node \in Values \cup {Other} /\ late \subseteq Values
    /\ stage \in [Blocks -> Handlers]
    /\ client \in [Blocks -> {"none", "new", "connected", "deleted"}]
    /\ in \in [Writers -> Values \cup {0}]
    /\ out \in [Readers -> Values \cup {0}]
    /\ seen \in [Readers -> SUBSET (Values \cup {Other})]

ReadWriteInv ==
    /\ PlainTypes /\ CountsOK /\ NodeIsSeen /\ InIsGiven
    /\ OutIsAValueOfTheNode /\ NoClientIsLeaked

(* The inductive invariant gives the types.                                *)
LEMMA TypesFollow == ReadWriteInv => ReadWriteTypeOK
BY DEF ReadWriteInv, PlainTypes, CountsOK, ReadWriteTypeOK, Handlers

(* What Store does to the node and to what the readers have seen.          *)
LEMMA StoreSeen ==
    ASSUME ReadWriteInv, NEW v \in Values, Store(v)
    PROVE  /\ node' \in Values \cup {Other}
           /\ seen' \in [Readers -> SUBSET (Values \cup {Other})]
           /\ \A r \in Readers : seen[r] \subseteq seen'[r]
           /\ \A r \in Readers : stage[r] # "idle" => node' \in seen'[r]
BY DEF ReadWriteInv, PlainTypes, Store

(* A step of the server keeps the invariant.                               *)
LEMMA StoreKeeps ==
    ASSUME ReadWriteInv, NEW v \in Values, Store(v), UNCHANGED <<running, stage, client, in, out, cnf>>,
           up' \in BOOLEAN, late' \subseteq Values
    PROVE  ReadWriteInv'
BY StoreSeen DEF ReadWriteInv, PlainTypes, CountsOK, NodeIsSeen, InIsGiven, OutIsAValueOfTheNode, NoClientIsLeaked

(* The end of the process keeps the invariant.                             *)
LEMMA CrashKeeps == ASSUME ReadWriteInv, Crash PROVE ReadWriteInv'
BY DEF ReadWriteInv, PlainTypes, CountsOK, NodeIsSeen, InIsGiven, OutIsAValueOfTheNode, NoClientIsLeaked, Crash

(* The initial states have the invariant.                                  *)
LEMMA ReadWriteInvInit == ReadWriteInit => ReadWriteInv
BY DEF ReadWriteInit, ReadWriteInv, PlainTypes, CountsOK, NodeIsSeen, InIsGiven, OutIsAValueOfTheNode, NoClientIsLeaked,
       Handlers, Blocks

(* Every step keeps the invariant.                                         *)
LEMMA ReadWriteInvNext == ReadWriteInv /\ [ReadWriteNext]_readWriteVars => ReadWriteInv'
<1> SUFFICES ASSUME ReadWriteInv, [ReadWriteNext]_readWriteVars PROVE ReadWriteInv'
  OBVIOUS
<1> USE DEF ReadWriteInv, PlainTypes, CountsOK, NodeIsSeen, InIsGiven, OutIsAValueOfTheNode, NoClientIsLeaked,
            Handlers, At, Enter, SendCNF
<1>1. ASSUME NEW r \in Readers, ReadREQ(r) PROVE ReadWriteInv'
  <2> r \in Blocks
    BY DEF Blocks
  <2>1. PlainTypes'
    BY <1>1 DEF ReadREQ, ResetOut
  <2>2. CountsOK'
    BY <1>1 DEF ReadREQ
  <2>3. NodeIsSeen' /\ OutIsAValueOfTheNode'
    BY <1>1 DEF ReadREQ, ResetOut, Blocks
  <2>4. InIsGiven' /\ NoClientIsLeaked'
    BY <1>1, BlockAssumption DEF ReadREQ, Blocks
  <2> QED
    BY <2>1, <2>2, <2>3, <2>4
<1>2. ASSUME NEW b \in Blocks, Open(b) PROVE ReadWriteInv'
  BY <1>2 DEF Open, Blocks
<1>3. ASSUME NEW r \in Readers, ReadConnectFails(r) PROVE ReadWriteInv'
  BY <1>3 DEF ReadConnectFails, Blocks
<1>4. ASSUME NEW r \in Readers, Read(r) PROVE ReadWriteInv'
  BY <1>4 DEF Read, IsInt32, Blocks
<1>5. ASSUME NEW r \in Readers, ReadFails(r) PROVE ReadWriteInv'
  <2>1. CASE Crash
    BY <2>1, CrashKeeps
  <2>2. CASE SendCNF(r) /\ Enter(r, "close") /\ UNCHANGED <<running, up, node, late, client, in, out, seen>>
    <3>1. At(r, "call")
      BY <1>5 DEF ReadFails
    <3> QED
      BY <2>2, <3>1 DEF Blocks
  <2> QED
    BY <1>5, <2>1, <2>2 DEF ReadFails
<1>6. ASSUME NEW r \in Readers, ReadCloses(r) PROVE ReadWriteInv'
  <2>1. CASE Crash
    BY <2>1, CrashKeeps
  <2>2. CASE /\ client' = [client EXCEPT ![r] = "none"]
             /\ SendCNF(r) /\ Enter(r, "idle")
             /\ UNCHANGED <<running, up, node, late, in, out, seen>>
    <3>1. At(r, "close")
      BY <1>6 DEF ReadCloses
    <3> QED
      BY <2>2, <3>1 DEF Blocks
  <2> QED
    BY <1>6, <2>1, <2>2 DEF ReadCloses
<1>7. ASSUME NEW w \in Writers, NEW v \in Values, WriteREQ(w, v) PROVE ReadWriteInv'
  BY <1>7, BlockAssumption DEF WriteREQ, Blocks
<1>8. ASSUME NEW w \in Writers, WriteConnectFails(w) PROVE ReadWriteInv'
  BY <1>8, BlockAssumption DEF WriteConnectFails, Deleted, Blocks
<1>9. ASSUME NEW w \in Writers, Write(w) PROVE ReadWriteInv'
  <2>1. in[w] \in Values /\ Store(in[w]) /\ stage[w] = "call"
    BY <1>9 DEF Write
  <2>2. PlainTypes' /\ NodeIsSeen' /\ OutIsAValueOfTheNode'
    BY <1>9, <2>1, StoreSeen, BlockAssumption DEF Write, Blocks
  <2> QED
    BY <1>9, <2>1, <2>2, BlockAssumption DEF Write, Blocks
<1>10. ASSUME NEW w \in Writers, WriteTimesOut(w) PROVE ReadWriteInv'
  BY <1>10, BlockAssumption DEF WriteTimesOut, Blocks
<1>11. ASSUME NEW w \in Writers, FreeInteger(w) PROVE ReadWriteInv'
  <2>1. CASE Crash
    BY <2>1, CrashKeeps
  <2>2. CASE Enter(w, "close") /\ UNCHANGED <<running, up, node, late, client, in, out, cnf, seen>>
    <3>1. At(w, "free")
      BY <1>11 DEF FreeInteger
    <3> QED
      BY <2>2, <3>1, BlockAssumption DEF Blocks
  <2> QED
    BY <1>11, <2>1, <2>2 DEF FreeInteger
<1>12. ASSUME NEW w \in Writers, WriteCloses(w) PROVE ReadWriteInv'
  BY <1>12, BlockAssumption DEF WriteCloses, Blocks
<1>13. ASSUME NEW v \in late, LateWrite(v) PROVE ReadWriteInv'
  BY <1>13, StoreKeeps DEF LateWrite
<1>14. CASE ServerChanges
  BY <1>14, StoreKeeps DEF ServerChanges
<1>15. CASE UNCHANGED readWriteVars
  BY <1>15 DEF readWriteVars
<1> QED
  BY <1>1, <1>2, <1>3, <1>4, <1>5, <1>6, <1>7, <1>8, <1>9, <1>10, <1>11, <1>12, <1>13, <1>14, <1>15
     DEF ReadWriteNext, ReaderStep, WriterStep, Blocks

(* The invariant holds for ever.                                           *)
THEOREM ReadWriteInvariant == ReadWriteSpec => []ReadWriteInv
BY ReadWriteInvInit, ReadWriteInvNext, PTL DEF ReadWriteSpec

(* Every variable keeps its type; a REQ is confirmed at most three times.  *)
THEOREM ReadWriteTypes == ReadWriteSpec => []ReadWriteTypeOK
BY ReadWriteInvariant, TypesFollow, PTL

(* OUT is 0 or a value the node had since the REQ, for any readers and     *)
(* writers, however late the server executes what the writers asked for.   *)
THEOREM OutIsFresh == ReadWriteSpec => []OutIsAValueOfTheNode
<1>1. ReadWriteInv => OutIsAValueOfTheNode
  BY DEF ReadWriteInv
<1> QED
  BY <1>1, ReadWriteInvariant, PTL

(* No path through the handlers leaves a client behind.                    *)
THEOREM ClientsAreDeleted == ReadWriteSpec => []NoClientIsLeaked
<1>1. ReadWriteInv => NoClientIsLeaked
  BY DEF ReadWriteInv
<1> QED
  BY <1>1, ReadWriteInvariant, PTL

-----------------------------------------------------------------------------
(***************************************************************************)
(* OPC_UA_PUBLISH.                                                         *)
(***************************************************************************)
(* The head of a queue of calls is a call of a publisher.                  *)
LEMMA HeadOfCalls ==
    ASSUME TypeOK, NEW c \in Connections, calls[c] # <<>>
    PROVE  Head(calls[c])[1] \in Places /\ Head(calls[c])[2] \in Publishers
<1>1. Head(calls[c]) \in Places \X Publishers
  BY HeadTailProperties DEF TypeOK
<1> QED
  BY <1>1

(* Adding a variable touches the references to it only, and leaves it with *)
(* one, or torn.                                                           *)
LEMMA AfterAddVariable ==
    ASSUME TypeOK, NEW v \in Variables, AddVariable(v)
    PROVE  /\ UNCHANGED <<objects, listed>>
           /\ variables' \subseteq Variables /\ torn' \subseteq Variables
           /\ references' \in [Variables -> 0..MaxReferences]
           /\ \A w \in Variables : w # v => references'[w] = references[w]
           /\ references'[v] >= references[v]
           /\ torn \subseteq torn'
           /\ Owner[v] \in objects /\ v \notin variables =>
                variables' = variables \cup {v} /\ (v \notin torn' => references'[v] > 0)
           /\ ~(Owner[v] \in objects /\ v \notin variables) => UNCHANGED <<variables, references, torn>>
<1>0. references[v] \in 0..MaxReferences /\ MaxReferences \in Nat \ {0}
  BY BoundAssumption DEF TypeOK
<1>1. CASE Owner[v] \in objects /\ v \notin variables /\ Link(v)
  <2>1. references'[v] = IF references[v] < MaxReferences THEN references[v] + 1 ELSE references[v]
    BY <1>1 DEF Link, TypeOK
  <2>2. references'[v] \in 0..MaxReferences /\ references'[v] > 0 /\ references'[v] >= references[v]
    BY <1>0, <2>1
  <2>3. /\ references' \in [Variables -> 0..MaxReferences]
        /\ \A w \in Variables : w # v => references'[w] = references[w]
    BY <1>1, <2>1, <2>2 DEF Link, TypeOK
  <2> QED
    BY <1>1, <2>2, <2>3 DEF AddVariable, Link, TypeOK
<1>2. CASE Owner[v] \in objects /\ v \notin variables /\ LinkFails(v)
  <2>1. v \notin torn' => references[v] > 0
    BY <1>0, <1>2 DEF LinkFails
  <2> QED
    BY <1>0, <1>2, <2>1 DEF AddVariable, LinkFails, TypeOK
<1>3. CASE ~(Owner[v] \in objects /\ v \notin variables)
  BY <1>0, <1>3 DEF AddVariable, TypeOK
<1> QED
  BY <1>1, <1>2, <1>3 DEF AddVariable

(* What the server does with a call keeps the types of the address space.  *)
LEMMA ExecuteType ==
    ASSUME TypeOK, NEW place \in Places, NEW p \in Publishers, Execute(place, p)
    PROVE  /\ objects' \subseteq Objects /\ listed' \subseteq objects'
           /\ variables' \subseteq Variables /\ torn' \subseteq Variables
           /\ references' \in [Variables -> 0..MaxReferences]
<1>1. Output[p] \in Variables /\ Owned(p) \in Objects
  BY OutputAssumption DEF Owned
<1>2. CASE place = "addObject"
  BY <1>1, <1>2 DEF TypeOK, Execute, AddObject
<1>3. CASE place = "addVariable"
  <2>1. AddVariable(Output[p])
    BY <1>3 DEF Execute
  <2> QED
    BY <1>1, <2>1, AfterAddVariable DEF TypeOK
<1>4. CASE place = "delete"
  BY <1>4 DEF TypeOK, Execute, DeleteVariable
<1>5. CASE place \notin {"addObject", "addVariable", "delete"}
  BY <1>5 DEF TypeOK, Execute, server
<1> QED
  BY <1>2, <1>3, <1>4, <1>5

(* The initial state has the types.                                        *)
LEMMA TypeInit == Init => TypeOK
<1> SUFFICES ASSUME Init PROVE TypeOK
  OBVIOUS
<1>1. <<>> \in Seq(Places \X Publishers)
  OBVIOUS
<1> QED
  BY <1>1, BoundAssumption DEF Init, TypeOK, Places

(* Every step keeps the types.                                             *)
LEMMA TypeNext == TypeOK /\ [Next]_vars => TypeOK'
<1> SUFFICES ASSUME TypeOK, [Next]_vars PROVE TypeOK'
  OBVIOUS
<1> USE DEF server, block
<1>1. ASSUME NEW p \in Publishers, REQ(p) PROVE TypeOK'
  BY <1>1 DEF TypeOK, REQ, Goto, Places
<1>2. ASSUME NEW p \in Publishers, Connect(p) PROVE TypeOK'
  BY <1>2 DEF TypeOK, Connect, Goto, Places
<1>3. ASSUME NEW p \in Publishers, ConnectFails(p) PROVE TypeOK'
  BY <1>3 DEF TypeOK, ConnectFails, Confirmed, Goto, Places
<1>4. ASSUME NEW p \in Publishers, Call(p) PROVE TypeOK'
  <2>1. <<pc[p], p>> \in Places \X Publishers
    BY DEF TypeOK
  <2>2. ASSUME NEW c \in Connections
        PROVE  Append(calls[c], <<pc[p], p>>) \in Seq(Places \X Publishers)
    BY <2>1, AppendProperties DEF TypeOK
  <2>3. calls' \in [Connections -> Seq(Places \X Publishers)]
    BY <1>4, <2>2 DEF TypeOK, Call
  <2> QED
    BY <1>4, <2>3 DEF TypeOK, Call
<1>5. ASSUME NEW p \in Publishers, Return(p) PROVE TypeOK'
  <2>1. PICK answer \in {found[p], NULL} : Goto(p, Following(pc[p], answer))
    BY <1>5 DEF Return
  <2>2. Following(pc[p], answer) \in Places
    BY <1>5 DEF Return, Calling, Following, Places
  <2>3. pc' \in [Publishers -> Places]
    BY <2>1, <2>2 DEF TypeOK, Goto
  <2> QED
    BY <1>5, <2>3 DEF TypeOK, Return
<1>6. ASSUME NEW p \in Publishers, Disconnect(p) PROVE TypeOK'
  BY <1>6 DEF TypeOK, Disconnect, Confirmed, Goto, Places
<1>7. ASSUME NEW c \in Connections, Serve(c) PROVE TypeOK'
  BY <1>7, HeadOfCalls, ExecuteType, HeadTailProperties DEF TypeOK, Serve, Finds, Browses
<1>8. ASSUME NEW c \in Connections, Break(c) PROVE TypeOK'
  <2>1. PICK k \in 0..Len(calls[c]) : calls' = [calls EXCEPT ![c] = SubSeq(@, 1, k)]
    BY <1>8 DEF Break
  <2>2. SubSeq(calls[c], 1, k) \in Seq(Places \X Publishers)
    BY <2>1, SubSeqProperties DEF TypeOK
  <2>3. calls' \in [Connections -> Seq(Places \X Publishers)]
    BY <2>1, <2>2 DEF TypeOK
  <2> QED
    BY <1>8, <2>3 DEF TypeOK, Break
<1>9. CASE Restart
  <2>1. reliable' \in BOOLEAN
    BY <1>9, Zenon DEF Restart
  <2>2. <<>> \in Seq(Places \X Publishers)
    OBVIOUS
  <2>3. calls' \in [Connections -> Seq(Places \X Publishers)]
    BY <1>9, <2>2 DEF Restart
  <2> QED
    BY <1>9, <2>1, <2>3, BoundAssumption DEF TypeOK, Restart
<1>10. CASE UNCHANGED vars
  BY <1>10 DEF TypeOK, vars
<1> QED
  BY <1>1, <1>2, <1>3, <1>4, <1>5, <1>6, <1>7, <1>8, <1>9, <1>10 DEF Next, Step

(* Every variable of the specification keeps its type.                     *)
THEOREM PublishTypes == Spec => []TypeOK
BY TypeInit, TypeNext, PTL DEF Spec
-----------------------------------------------------------------------------
(* Only a call to add a variable and a restart of the server change what   *)
(* VariablesAreReachable speaks of for the worse; the first has checked    *)
(* that the owner exists, and adds a reference or leaves the node torn.    *)
LEMMA ReachableNext ==
    TypeOK /\ VariablesAreReachable /\ [Next]_vars => VariablesAreReachable'
<1> SUFFICES ASSUME TypeOK, VariablesAreReachable, [Next]_vars PROVE VariablesAreReachable'
  OBVIOUS
<1>1. CASE UNCHANGED server
  BY <1>1 DEF server, VariablesAreReachable
<1>2. ASSUME NEW c \in Connections, Serve(c) PROVE VariablesAreReachable'
  <2> DEFINE place == Head(calls[c])[1]
             p == Head(calls[c])[2]
  <2>1. Execute(place, p) /\ p \in Publishers
    BY <1>2, HeadOfCalls DEF Serve
  <2>2. Output[p] \in Variables
    BY <2>1, OutputAssumption
  <2>3. CASE place = "addObject"
    BY <2>1, <2>3 DEF Execute, AddObject, VariablesAreReachable
  <2>4. CASE place = "addVariable"
    <3>1. AddVariable(Output[p])
      BY <2>1, <2>4 DEF Execute
    <3>2. CASE Owner[Output[p]] \in objects /\ Output[p] \notin variables
      BY <2>2, <3>1, <3>2, AfterAddVariable DEF VariablesAreReachable, TypeOK
    <3>3. CASE ~(Owner[Output[p]] \in objects /\ Output[p] \notin variables)
      BY <2>2, <3>1, <3>3, AfterAddVariable DEF VariablesAreReachable
    <3> QED
      BY <3>2, <3>3
  <2>5. CASE place = "delete"
    BY <2>1, <2>5 DEF Execute, DeleteVariable, VariablesAreReachable
  <2>6. CASE place \notin {"addObject", "addVariable", "delete"}
    BY <1>1, <2>1, <2>6 DEF Execute
  <2> QED
    BY <2>3, <2>4, <2>5, <2>6
<1>3. CASE Restart
  BY <1>3 DEF Restart, VariablesAreReachable
<1>4. UNCHANGED server \/ Restart \/ \E c \in Connections : Serve(c)
  BY DEF Next, Step, REQ, Connect, ConnectFails, Call, Return, Disconnect, Break, vars
<1> QED
  BY <1>1, <1>2, <1>3, <1>4

(* A variable in the address space can be reached from its object, for any *)
(* publishers, however their calls interleave and whatever gets lost.      *)
THEOREM PublishedIsReachable == Spec => []VariablesAreReachable
<1>1. Init => VariablesAreReachable
  BY DEF Init, VariablesAreReachable
<1> QED
  BY <1>1, PublishTypes, ReachableNext, PTL DEF Spec
-----------------------------------------------------------------------------
(* Why a variable that is missing comes back: the call that deletes it is  *)
(* followed, on the connection it was made on, by a call that adds it, or  *)
(* its publisher has yet to make that call.                                *)
HasCall(c, call) == \E k \in 1..Len(calls[c]) : calls[c][k] = call

GoesOnToAdd(p) == pc[p] = "delete" \/ (pc[p] = "addVariable" /\ ~waiting[p])

DeletesAreFollowed ==
    \A c \in Connections : \A k \in 1..Len(calls[c]) : \A p \in Publishers :
       calls[c][k] = <<"delete", p>> =>
          \/ \E j \in (k + 1)..Len(calls[c]) : calls[c][j] = <<"addVariable", p>>
          \/ conn[p] = c /\ GoesOnToAdd(p)

(* Without a break a publisher's connection is there while it makes calls. *)
CallersAreConnected == \A p \in Publishers : Calling(p) => conn[p] \in alive

(* An object is not deleted: what it refers to, it can be asked for.       *)
ReferencesHaveAnOwner == \A v \in Variables : references[v] > 0 => Owner[v] \in objects

(* Coming(v) without the connections' domains and the set of calls.        *)
IsComing(v) ==
    \E p \in Publishers :
       /\ Output[p] = v
       /\ \/ \E c \in Connections : HasCall(c, <<"addVariable", p>>)
          \/ pc[p] \in {"addObject", "browseObject", "delete"}
          \/ pc[p] = "addVariable" /\ ~waiting[p]
Missing(v) == references[v] > 0 /\ v \notin variables

ComingInv ==
    /\ ReferencesHaveAnOwner
    /\ reliable => CallersAreConnected
    /\ reliable => DeletesAreFollowed
    /\ reliable => \A v \in Variables : Missing(v) => IsComing(v)

(* The two ways to say that a variable is on its way agree.                *)
LEMMA ComingIs ==
    ASSUME TypeOK, NEW v PROVE Coming(v) <=> IsComing(v)
<1>1. \A c \in Connections : DOMAIN calls[c] = 1..Len(calls[c])
  BY DEF TypeOK
<1>2. (\E c \in Connections : \E k \in DOMAIN calls[c] : calls[c][k] \in Adds(v))
        <=> \E p \in Publishers : Output[p] = v /\ \E c \in Connections : HasCall(c, <<"addVariable", p>>)
  BY <1>1 DEF Adds, HasCall
<1> QED
  BY <1>2 DEF Coming, IsComing

(* What a queue holds after a call was appended, and after its head was    *)
(* taken.                                                                  *)
LEMMA AfterAppend ==
    ASSUME NEW S, NEW s \in Seq(S), NEW e \in S
    PROVE  /\ Len(Append(s, e)) = Len(s) + 1 /\ Len(s) \in Nat
           /\ \A k \in 1..Len(s) : Append(s, e)[k] = s[k]
           /\ Append(s, e)[Len(s) + 1] = e
BY AppendProperties

(* After the head of a queue was taken, each call is one place nearer.     *)
LEMMA AfterTail ==
    ASSUME NEW S, NEW s \in Seq(S), s # <<>>
    PROVE  /\ Len(Tail(s)) = Len(s) - 1 /\ Len(s) \in Nat \ {0}
           /\ \A k \in 1..(Len(s) - 1) : Tail(s)[k] = s[k + 1]
           /\ Head(s) = s[1]
BY HeadTailProperties

(* What refers to a variable stays: only a restart deletes objects, and    *)
(* then with all references.                                               *)
LEMMA OwnersNext ==
    TypeOK /\ ReferencesHaveAnOwner /\ [Next]_vars => ReferencesHaveAnOwner'
<1> SUFFICES ASSUME TypeOK, ReferencesHaveAnOwner, [Next]_vars PROVE ReferencesHaveAnOwner'
  OBVIOUS
<1>1. CASE UNCHANGED server
  BY <1>1 DEF server, ReferencesHaveAnOwner
<1>2. ASSUME NEW c \in Connections, Serve(c) PROVE ReferencesHaveAnOwner'
  <2> DEFINE place == Head(calls[c])[1]
             p == Head(calls[c])[2]
  <2>1. Execute(place, p) /\ p \in Publishers /\ Output[p] \in Variables
    BY <1>2, HeadOfCalls, OutputAssumption DEF Serve
  <2>2. CASE place = "addObject"
    BY <2>1, <2>2 DEF Execute, AddObject, ReferencesHaveAnOwner
  <2>3. CASE place = "addVariable"
    <3>1. AddVariable(Output[p])
      BY <2>1, <2>3 DEF Execute
    <3> QED
      BY <2>1, <3>1, AfterAddVariable DEF ReferencesHaveAnOwner
  <2>4. CASE place = "delete"
    BY <2>1, <2>4 DEF Execute, DeleteVariable, ReferencesHaveAnOwner
  <2>5. CASE place \notin {"addObject", "addVariable", "delete"}
    BY <1>1, <2>1, <2>5 DEF Execute
  <2> QED
    BY <2>2, <2>3, <2>4, <2>5
<1>3. CASE Restart
  BY <1>3 DEF Restart, ReferencesHaveAnOwner
<1>4. UNCHANGED server \/ Restart \/ \E c \in Connections : Serve(c)
  BY DEF Next, Step, REQ, Connect, ConnectFails, Call, Return, Disconnect, Break, vars
<1> QED
  BY <1>1, <1>2, <1>3, <1>4

(* What is never taken back is reliable.                                   *)
LEMMA ReliableBefore == TypeOK /\ [Next]_vars /\ reliable' => reliable
BY DEF Next, Step, REQ, Connect, ConnectFails, Call, Return, Disconnect, Serve, Break, Restart, vars

(* Without a break, a step is one of these.                                *)
ReliableStep ==
    \/ \E p \in Publishers : REQ(p) \/ Step(p)
    \/ \E c \in Connections : Serve(c)
    \/ UNCHANGED vars

(* While no connection breaks and the server runs there are no others.     *)
LEMMA ReliableSteps == TypeOK /\ [Next]_vars /\ reliable' => ReliableStep
BY DEF Next, Break, Restart, ReliableStep

(* A publisher that goes on calls on the connection it has.                *)
LEMMA ConnectedNext ==
    ASSUME TypeOK, CallersAreConnected, ReliableStep PROVE CallersAreConnected'
<1>1. ASSUME NEW p \in Publishers, REQ(p) PROVE CallersAreConnected'
  BY <1>1 DEF REQ, Goto, TypeOK, CallersAreConnected, Calling
<1>2. ASSUME NEW p \in Publishers, Connect(p) PROVE CallersAreConnected'
  BY <1>2 DEF Connect, Goto, TypeOK, CallersAreConnected, Calling
<1>3. ASSUME NEW p \in Publishers, ConnectFails(p) \/ Disconnect(p) PROVE CallersAreConnected'
  BY <1>3 DEF ConnectFails, Disconnect, Goto, TypeOK, CallersAreConnected, Calling
<1>4. ASSUME NEW p \in Publishers, Call(p) PROVE CallersAreConnected'
  BY <1>4 DEF Call, CallersAreConnected, Calling
<1>5. ASSUME NEW p \in Publishers, Return(p) PROVE CallersAreConnected'
  <2>1. \A q \in Publishers : q # p => pc'[q] = pc[q]
    BY <1>5 DEF Return, Goto, TypeOK
  <2>2. Calling(p) /\ UNCHANGED <<alive, conn>>
    BY <1>5 DEF Return
  <2> QED
    BY <2>1, <2>2 DEF CallersAreConnected, Calling
<1>6. ASSUME NEW c \in Connections, Serve(c) PROVE CallersAreConnected'
  BY <1>6 DEF Serve, CallersAreConnected, Calling
<1>7. CASE UNCHANGED vars
  BY <1>7 DEF vars, block, CallersAreConnected, Calling
<1> QED
  BY <1>1, <1>2, <1>3, <1>4, <1>5, <1>6, <1>7 DEF ReliableStep, Step

(* A call that is made without a break is appended to the queue of its     *)
(* publisher's connection.                                                 *)
LEMMA CallAppends ==
    ASSUME TypeOK, CallersAreConnected, NEW p \in Publishers, Call(p)
    PROVE  /\ conn[p] \in Connections
           /\ calls' = [calls EXCEPT ![conn[p]] = Append(@, <<pc[p], p>>)]
           /\ calls[conn[p]] \in Seq(Places \X Publishers)
           /\ <<pc[p], p>> \in Places \X Publishers
BY DEF Call, TypeOK, CallersAreConnected

(* A call to delete stays followed: its publisher's next call goes to the  *)
(* same queue, behind it, and the queue is served in order.                *)
LEMMA FollowedNext ==
    ASSUME TypeOK, CallersAreConnected, DeletesAreFollowed, ReliableStep
    PROVE  DeletesAreFollowed'
<1>1. ASSUME UNCHANGED calls,
             \A p \in Publishers : GoesOnToAdd(p) => GoesOnToAdd(p)' /\ conn'[p] = conn[p]
      PROVE  DeletesAreFollowed'
  BY <1>1 DEF DeletesAreFollowed
<1>2. ASSUME NEW p \in Publishers, REQ(p) \/ Connect(p) \/ ConnectFails(p) \/ Disconnect(p)
      PROVE  DeletesAreFollowed'
  <2>1. ~GoesOnToAdd(p)
    BY <1>2 DEF REQ, Connect, ConnectFails, Disconnect, GoesOnToAdd
  <2>2. UNCHANGED <<calls, waiting>>
    BY <1>2 DEF REQ, Connect, ConnectFails, Disconnect
  <2>3. \A q \in Publishers : q # p => pc'[q] = pc[q] /\ conn'[q] = conn[q]
    BY <1>2 DEF REQ, Connect, ConnectFails, Disconnect, Goto, TypeOK
  <2> QED
    BY <1>1, <2>1, <2>2, <2>3 DEF GoesOnToAdd
<1>3. ASSUME NEW p \in Publishers, Return(p) PROVE DeletesAreFollowed'
  <2>1. \A q \in Publishers : q # p => pc'[q] = pc[q] /\ waiting'[q] = waiting[q]
    BY <1>3 DEF Return, Goto, TypeOK
  <2>2. UNCHANGED <<calls, conn>> /\ waiting[p] /\ ~waiting'[p]
    BY <1>3 DEF Return, TypeOK
  <2>3. pc[p] = "delete" => pc'[p] = "addVariable"
    BY <1>3 DEF Return, Goto, Following, TypeOK
  <2> QED
    BY <1>1, <2>1, <2>2, <2>3 DEF GoesOnToAdd
<1>4. ASSUME NEW p \in Publishers, Call(p) PROVE DeletesAreFollowed'
  <2> DEFINE d == conn[p]
             s == calls[d]
             e == <<pc[p], p>>
  <2>1. /\ d \in Connections /\ s \in Seq(Places \X Publishers) /\ e \in Places \X Publishers
        /\ calls' = [calls EXCEPT ![d] = Append(s, e)]
    BY <1>4, CallAppends
  <2>2. /\ Len(Append(s, e)) = Len(s) + 1 /\ Len(s) \in Nat
        /\ \A k \in 1..Len(s) : Append(s, e)[k] = s[k]
        /\ Append(s, e)[Len(s) + 1] = e
    BY <2>1, AfterAppend
  <2>3. calls'[d] = Append(s, e) /\ \A c \in Connections : c # d => calls'[c] = calls[c]
    BY <2>1 DEF TypeOK
  <2>4. /\ UNCHANGED <<pc, conn>>
        /\ \A q \in Publishers : q # p => waiting'[q] = waiting[q]
        /\ ~waiting[p] /\ waiting'[p]
    BY <1>4 DEF Call, TypeOK
  <2>5. ASSUME NEW c \in Connections, c # d, NEW k \in 1..Len(calls'[c]), NEW q \in Publishers,
               calls'[c][k] = <<"delete", q>>
        PROVE  \/ \E j \in (k + 1)..Len(calls'[c]) : calls'[c][j] = <<"addVariable", q>>
               \/ conn'[q] = c /\ GoesOnToAdd(q)'
    <3>1. conn[q] = c => q # p
      BY <2>5
    <3>2. calls'[c] = calls[c]
      BY <2>3, <2>5
    <3>3. \/ \E j \in (k + 1)..Len(calls[c]) : calls[c][j] = <<"addVariable", q>>
          \/ conn[q] = c /\ GoesOnToAdd(q)
      <4>1. k \in 1..Len(calls[c]) /\ calls[c][k] = <<"delete", q>>
        BY <2>5, <3>2
      <4> QED
        BY <4>1, Zenon DEF DeletesAreFollowed
    <3>4. conn[q] = c /\ GoesOnToAdd(q) => conn'[q] = c /\ GoesOnToAdd(q)'
      BY <2>4, <3>1 DEF GoesOnToAdd
    <3> QED
      BY <3>2, <3>3, <3>4, Zenon
  <2>6. ASSUME NEW k \in 1..Len(calls'[d]), NEW q \in Publishers,
               calls'[d][k] = <<"delete", q>>
        PROVE  \/ \E j \in (k + 1)..Len(calls'[d]) : calls'[d][j] = <<"addVariable", q>>
               \/ conn'[q] = d /\ GoesOnToAdd(q)'
    <3>1. CASE k = Len(s) + 1
      <4>1. q = p /\ pc[p] = "delete"
        BY <2>2, <2>3, <2>6, <3>1
      <4> QED
        BY <2>4, <4>1 DEF GoesOnToAdd
    <3>2. CASE k # Len(s) + 1
      <4>1. k \in 1..Len(s)
        BY <2>2, <2>3, <3>2
      <4>2. s[k] = <<"delete", q>>
        BY <2>2, <2>3, <2>6, <4>1
      <4>3. CASE \E j \in (k + 1)..Len(s) : s[j] = <<"addVariable", q>>
        <5>1. PICK j \in (k + 1)..Len(s) : s[j] = <<"addVariable", q>>
          BY <4>3
        <5>2. j \in 1..Len(s) /\ j \in (k + 1)..(Len(s) + 1)
          BY <2>2, <4>1, <5>1
        <5> QED
          BY <2>2, <2>3, <5>1, <5>2
      <4>4. CASE conn[q] = d /\ GoesOnToAdd(q)
        <5>1. CASE q = p /\ pc[p] = "addVariable"
          <6>1. Len(s) + 1 \in (k + 1)..(Len(s) + 1)
            BY <2>2, <4>1
          <6> QED
            BY <2>2, <2>3, <5>1, <6>1
        <5>2. CASE ~(q = p /\ pc[p] = "addVariable")
          BY <2>4, <4>4, <5>2 DEF GoesOnToAdd
        <5> QED
          BY <5>1, <5>2
      <4> QED
        BY <2>1, <4>1, <4>2, <4>3, <4>4 DEF DeletesAreFollowed
    <3> QED
      BY <3>1, <3>2
  <2> QED
    BY <2>5, <2>6 DEF DeletesAreFollowed
<1>5. ASSUME NEW d \in Connections, Serve(d) PROVE DeletesAreFollowed'
  <2> DEFINE s == calls[d]
  <2>1. s \in Seq(Places \X Publishers) /\ s # <<>>
    BY <1>5 DEF Serve, TypeOK
  <2>2. /\ Len(Tail(s)) = Len(s) - 1 /\ Len(s) \in Nat \ {0}
        /\ \A k \in 1..(Len(s) - 1) : Tail(s)[k] = s[k + 1]
    BY <2>1, AfterTail
  <2>3. calls'[d] = Tail(s) /\ \A c \in Connections : c # d => calls'[c] = calls[c]
    BY <1>5 DEF Serve, TypeOK
  <2>4. UNCHANGED <<pc, waiting, conn>>
    BY <1>5 DEF Serve
  <2>5. ASSUME NEW k \in 1..Len(calls'[d]), NEW q \in Publishers,
               calls'[d][k] = <<"delete", q>>
        PROVE  \/ \E j \in (k + 1)..Len(calls'[d]) : calls'[d][j] = <<"addVariable", q>>
               \/ conn'[q] = d /\ GoesOnToAdd(q)'
    <3>1. k + 1 \in 1..Len(s) /\ s[k + 1] = <<"delete", q>>
      BY <2>2, <2>3, <2>5
    <3>2. CASE \E j \in (k + 2)..Len(s) : s[j] = <<"addVariable", q>>
      <4>1. PICK j \in (k + 2)..Len(s) : s[j] = <<"addVariable", q>>
        BY <3>2
      <4>2. /\ j - 1 \in (k + 1)..(Len(s) - 1)
            /\ j - 1 \in 1..(Len(s) - 1)
            /\ (j - 1) + 1 = j
        BY <2>2, <3>1, <4>1
      <4>3. Tail(s)[j - 1] = <<"addVariable", q>>
        BY <2>2, <4>1, <4>2
      <4> QED
        BY <2>2, <2>3, <4>2, <4>3
    <3>3. CASE conn[q] = d /\ GoesOnToAdd(q)
      BY <2>4, <3>3 DEF GoesOnToAdd
    <3>4. (k + 1) + 1 = k + 2
      BY <2>2, <3>1
    <3>5. \/ \E j \in ((k + 1) + 1)..Len(s) : s[j] = <<"addVariable", q>>
          \/ conn[q] = d /\ GoesOnToAdd(q)
      BY <3>1 DEF DeletesAreFollowed
    <3> HIDE DEF s
    <3> QED
      BY <3>2, <3>3, <3>4, <3>5
  <2>6. ASSUME NEW c \in Connections, c # d, NEW k \in 1..Len(calls'[c]), NEW q \in Publishers,
               calls'[c][k] = <<"delete", q>>
        PROVE  \/ \E j \in (k + 1)..Len(calls'[c]) : calls'[c][j] = <<"addVariable", q>>
               \/ conn'[q] = c /\ GoesOnToAdd(q)'
    <3>1. calls'[c] = calls[c]
      BY <2>3, <2>6
    <3>2. \/ \E j \in (k + 1)..Len(calls[c]) : calls[c][j] = <<"addVariable", q>>
          \/ conn[q] = c /\ GoesOnToAdd(q)
      BY <2>6, <3>1 DEF DeletesAreFollowed
    <3> QED
      BY <2>4, <3>1, <3>2, Zenon DEF GoesOnToAdd
  <2>7. \A c \in Connections : \A k \in 1..Len(calls'[c]) : \A q \in Publishers :
           calls'[c][k] = <<"delete", q>> =>
               \/ \E j \in (k + 1)..Len(calls'[c]) : calls'[c][j] = <<"addVariable", q>>
               \/ conn'[q] = c /\ GoesOnToAdd(q)'
    BY ONLY <2>5, <2>6
  <2> QED
    BY <2>7 DEF DeletesAreFollowed
<1>6. CASE UNCHANGED vars
  BY <1>1, <1>6 DEF vars, block, GoesOnToAdd
<1> QED
  BY <1>2, <1>3, <1>4, <1>5, <1>6 DEF ReliableStep, Step

(* A variable that is missing after a step and was missing before keeps    *)
(* what brings it back, or the step brings it back.                        *)
LEMMA ComingNext ==
    ASSUME TypeOK, CallersAreConnected, DeletesAreFollowed, ReferencesHaveAnOwner, ReliableStep,
           \A v \in Variables : Missing(v) => IsComing(v),
           NEW v \in Variables, Missing(v)'
    PROVE  IsComing(v)'
<1>1. ASSUME NEW p \in Publishers, REQ(p) \/ Connect(p) \/ ConnectFails(p) \/ Disconnect(p)
      PROVE  IsComing(v)'
  <2>1. pc[p] \in {"idle", "connect", "disconnect"}
    BY <1>1 DEF REQ, Connect, ConnectFails, Disconnect
  <2>2. UNCHANGED <<server, calls, waiting>>
    BY <1>1 DEF REQ, Connect, ConnectFails, Disconnect
  <2>3. \A q \in Publishers : q # p => pc'[q] = pc[q]
    BY <1>1 DEF REQ, Connect, ConnectFails, Disconnect, Goto, TypeOK
  <2>4. IsComing(v)
    BY <2>2 DEF Missing, server
  <2> QED
    BY <2>1, <2>2, <2>3, <2>4 DEF IsComing, HasCall
<1>2. ASSUME NEW p \in Publishers, Return(p) PROVE IsComing(v)'
  <2>1. waiting[p] /\ ~waiting'[p] /\ \A q \in Publishers : q # p => waiting'[q] = waiting[q]
    BY <1>2 DEF Return, TypeOK
  <2>2. UNCHANGED <<server, calls>>
    BY <1>2 DEF Return
  <2>3. \A q \in Publishers : q # p => pc'[q] = pc[q]
    BY <1>2 DEF Return, Goto, TypeOK
  <2>4. pc[p] \in {"addObject", "browseObject", "delete"} => pc'[p] \in {"delete", "addVariable"}
    BY <1>2 DEF Return, Goto, Following, TypeOK
  <2>5. IsComing(v)
    BY <2>2 DEF Missing, server
  <2> QED
    BY <2>1, <2>2, <2>3, <2>4, <2>5 DEF IsComing, HasCall
<1>3. ASSUME NEW p \in Publishers, Call(p) PROVE IsComing(v)'
  <2>0. PICK d \in Connections : d = conn[p]
    BY <1>3, CallAppends
  <2> DEFINE s == calls[d]
             e == <<pc[p], p>>
  <2>1. /\ s \in Seq(Places \X Publishers) /\ e \in Places \X Publishers
        /\ calls' = [calls EXCEPT ![d] = Append(s, e)]
    BY <1>3, <2>0, CallAppends
  <2>2. /\ Len(Append(s, e)) = Len(s) + 1 /\ Len(s) \in Nat
        /\ \A k \in 1..Len(s) : Append(s, e)[k] = s[k]
        /\ Append(s, e)[Len(s) + 1] = e
    BY <2>1, AfterAppend
  <2>3. calls'[d] = Append(s, e) /\ \A c \in Connections : c # d => calls'[c] = calls[c]
    BY <2>1 DEF TypeOK
  <2>4. UNCHANGED <<pc, server>> /\ \A q \in Publishers : q # p => waiting'[q] = waiting[q]
    BY <1>3 DEF Call, TypeOK
  <2>5. PICK q \in Publishers :
           /\ Output[q] = v
           /\ \/ \E c \in Connections : HasCall(c, <<"addVariable", q>>)
              \/ pc[q] \in {"addObject", "browseObject", "delete"}
              \/ pc[q] = "addVariable" /\ ~waiting[q]
    BY <2>4 DEF Missing, IsComing, server
  <2>6. ASSUME NEW c \in Connections, HasCall(c, <<"addVariable", q>>)
        PROVE  HasCall(c, <<"addVariable", q>>)'
    <3>1. CASE c = d
      <4>1. PICK k \in 1..Len(s) : s[k] = <<"addVariable", q>>
        BY <2>6, <3>1 DEF HasCall
      <4>2. k \in 1..(Len(s) + 1)
        BY <2>2
      <4> QED
        BY <2>2, <2>3, <3>1, <4>1, <4>2 DEF HasCall
    <3>2. CASE c # d
      BY <2>3, <2>6, <3>2 DEF HasCall
    <3> QED
      BY <3>1, <3>2
  <2>7. CASE pc[q] = "addVariable" /\ ~waiting[q]
    <3>1. CASE q = p
      <4>1. Len(s) + 1 \in 1..(Len(s) + 1)
        BY <2>2
      <4>2. HasCall(d, <<"addVariable", q>>)'
        BY <2>2, <2>3, <2>7, <3>1, <4>1 DEF HasCall
      <4> QED
        BY <2>1, <2>5, <4>2 DEF IsComing
    <3>2. CASE q # p
      BY <2>4, <2>5, <2>7, <3>2 DEF IsComing
    <3> QED
      BY <3>1, <3>2
  <2>8. CASE pc[q] \in {"addObject", "browseObject", "delete"}
    BY <2>4, <2>5, <2>8 DEF IsComing
  <2> QED
    BY <2>5, <2>6, <2>7, <2>8 DEF IsComing
<1>4. ASSUME NEW d \in Connections, Serve(d) PROVE IsComing(v)'
  <2> DEFINE s == calls[d]
  <2>1. s \in Seq(Places \X Publishers) /\ s # <<>>
    BY <1>4 DEF Serve, TypeOK
  <2>0. PICK place \in Places, p \in Publishers : Head(s) = <<place, p>>
    BY <2>1, HeadTailProperties
  <2>2. /\ Len(Tail(s)) = Len(s) - 1 /\ Len(s) \in Nat \ {0}
        /\ \A k \in 1..(Len(s) - 1) : Tail(s)[k] = s[k + 1]
        /\ Head(s) = s[1]
    BY <2>1, AfterTail
  <2>3. calls'[d] = Tail(s) /\ \A c \in Connections : c # d => calls'[c] = calls[c]
    BY <1>4 DEF Serve, TypeOK
  <2>4. UNCHANGED <<pc, waiting, conn>> /\ Execute(place, p)
    BY <1>4, <2>0 DEF Serve
  <2>5. Output[p] \in Variables /\ Head(s) = <<place, p>>
    BY <2>0, OutputAssumption
  (* a call behind the head is still there *)
  <2>6. ASSUME NEW c \in Connections, NEW q \in Publishers, HasCall(c, <<"addVariable", q>>),
               Head(s) # <<"addVariable", q>>
        PROVE  HasCall(c, <<"addVariable", q>>)'
    <3>1. CASE c = d
      <4>1. PICK k \in 1..Len(s) : s[k] = <<"addVariable", q>>
        BY <2>6, <3>1 DEF HasCall
      <4>2. k # 1
        BY <2>2, <2>6, <4>1
      <4>3. k - 1 \in 1..(Len(s) - 1) /\ (k - 1) + 1 = k
        BY <2>2, <4>1, <4>2
      <4>4. Tail(s)[k - 1] = <<"addVariable", q>>
        BY <2>2, <4>1, <4>3
      <4> QED
        BY <2>2, <2>3, <3>1, <4>3, <4>4 DEF HasCall
    <3>2. CASE c # d
      BY <2>3, <2>6, <3>2 DEF HasCall
    <3> QED
      BY <3>1, <3>2
  (* what was missing and is not added by this call comes as before *)
  <2>7. ASSUME Missing(v), ~(place = "addVariable" /\ Output[p] = v) PROVE IsComing(v)'
    <3>1. PICK q \in Publishers :
             /\ Output[q] = v
             /\ \/ \E c \in Connections : HasCall(c, <<"addVariable", q>>)
                \/ pc[q] \in {"addObject", "browseObject", "delete"}
                \/ pc[q] = "addVariable" /\ ~waiting[q]
      BY <2>7 DEF IsComing
    <3>2. Head(s) # <<"addVariable", q>>
      BY <2>5, <2>7, <3>1
    <3> QED
      BY <2>4, <2>6, <3>1, <3>2 DEF IsComing
  <2>8. CASE place = "addVariable"
    <3>1. AddVariable(Output[p])
      BY <2>4, <2>8 DEF Execute
    <3>2. Output[p] # v
      <4> SUFFICES ASSUME Output[p] = v PROVE FALSE
        OBVIOUS
      <4>1. v \notin variables'
        BY DEF Missing
      <4>2. UNCHANGED <<variables, references>>
        BY <3>1, <4>1 DEF AddVariable
      <4>3. Owner[v] \in objects
        BY <4>2 DEF Missing, ReferencesHaveAnOwner
      <4> QED
        BY <3>1, <4>1, <4>2, <4>3 DEF AddVariable
    <3>3. Missing(v)
      BY <2>5, <3>1, <3>2, AfterAddVariable DEF Missing
    <3> QED
      BY <2>7, <3>2, <3>3
  <2>9. CASE place = "delete"
    <3>1. DeleteVariable(Output[p])
      BY <2>4, <2>9 DEF Execute
    <3>2. CASE Output[p] = v
      <4>1. 1 \in 1..Len(s) /\ s[1] = <<"delete", p>>
        BY <2>2, <2>5, <2>9
      <4>2. CASE \E j \in (1 + 1)..Len(s) : s[j] = <<"addVariable", p>>
        <5>1. PICK j \in (1 + 1)..Len(s) : s[j] = <<"addVariable", p>>
          BY <4>2
        <5>2. j \in 1..Len(s)
          BY <2>2, <5>1
        <5>3. HasCall(d, <<"addVariable", p>>)
          BY <5>1, <5>2 DEF HasCall
        <5>4. Head(s) # <<"addVariable", p>>
          BY <2>5, <2>9
        <5>5. HasCall(d, <<"addVariable", p>>)'
          BY <2>6, <5>3, <5>4
        <5> QED
          BY <3>2, <5>5 DEF IsComing
      <4>3. CASE GoesOnToAdd(p)
        BY <2>4, <2>5, <3>2, <4>3 DEF GoesOnToAdd, IsComing
      <4> QED
        BY <2>5, <4>1, <4>2, <4>3 DEF DeletesAreFollowed
    <3>3. CASE Output[p] # v
      <4>1. Missing(v)
        BY <3>1, <3>3 DEF DeleteVariable, Missing
      <4> QED
        BY <2>7, <3>3, <4>1
    <3> QED
      BY <3>2, <3>3
  <2>10. CASE place \notin {"addVariable", "delete"}
    <3>1. UNCHANGED <<variables, references>>
      BY <2>4, <2>10 DEF Execute, AddObject, server
    <3>2. Missing(v)
      BY <3>1 DEF Missing
    <3> QED
      BY <2>7, <2>10, <3>2
  <2> QED
    BY <2>8, <2>9, <2>10
<1>5. CASE UNCHANGED vars
  <2>1. IsComing(v) /\ UNCHANGED <<calls, pc, waiting>>
    BY <1>5 DEF vars, block, server, Missing
  <2> QED
    BY <2>1 DEF IsComing, HasCall
<1> QED
  BY <1>1, <1>2, <1>3, <1>4, <1>5 DEF ReliableStep, Step

(* Together they are inductive.                                            *)
LEMMA ComingInvNext == TypeOK /\ ComingInv /\ [Next]_vars => ComingInv'
<1> SUFFICES ASSUME TypeOK, ComingInv, [Next]_vars PROVE ComingInv'
  OBVIOUS
<1>1. ReferencesHaveAnOwner'
  BY OwnersNext DEF ComingInv
<1>2. ASSUME reliable'
      PROVE  CallersAreConnected' /\ DeletesAreFollowed' /\ \A v \in Variables : Missing(v)' => IsComing(v)'
  <2>1. ReliableStep /\ reliable
    BY <1>2, ReliableSteps, ReliableBefore
  <2>2. /\ ReferencesHaveAnOwner /\ CallersAreConnected /\ DeletesAreFollowed
        /\ \A v \in Variables : Missing(v) => IsComing(v)
    BY <2>1 DEF ComingInv
  <2> QED
    BY <2>1, <2>2, ConnectedNext, FollowedNext, ComingNext
<1> QED
  BY <1>1, <1>2 DEF ComingInv

(* A variable that was published once and is missing comes back, for any   *)
(* publishers that share the server, as long as no connection breaks: no   *)
(* order of the calls of several devices, and no late call, leaves it out. *)
THEOREM MissingVariableComesBackCorrect == Spec => []MissingVariableComesBack
<1>1. Init => ComingInv
  BY DEF Init, ComingInv, ReferencesHaveAnOwner, CallersAreConnected, DeletesAreFollowed,
         Calling, Missing
<1>2. TypeOK /\ ComingInv => MissingVariableComesBack
  BY ComingIs DEF ComingInv, MissingVariableComesBack, Missing
<1> QED
  BY <1>1, <1>2, PublishTypes, ComingInvNext, PTL DEF Spec
=============================================================================
