----------------------------- MODULE NodeStore -----------------------------
(***************************************************************************)
(* The hash map of ua_nodestore.c that holds the address space: open       *)
(* addressing with double hashing, a table whose size is a prime and       *)
(* changes with the number of nodes, and entries that are counted          *)
(* references.  The hash of a NodeId is a parameter.  Allocation fails     *)
(* when no entry is free.                                                  *)
(***************************************************************************)
EXTENDS Integers, FiniteSets

CONSTANTS
    NodeIds,        \* NodeIds used; the naturals among them are numeric, in namespace 1
    Named,          \* the NodeIds that callers ask for; the others are assigned
    Sought,         \* the NodeIds that callers look up or remove
    Hash,           \* hash(id)
    Primes,         \* the possible sizes
    InitialSize,    \* primes[higher_prime_index(32)]
    Floor,          \* 32: a table that is no larger never shrinks
    Entries,        \* memory for entries
    MaxRefs,        \* bound on the references held to one entry
    NULL

IsPrime(n) == n > 1 /\ \A d \in 2..(n - 1) : n % d # 0

ASSUME HashAssumption == Hash \in [NodeIds -> Nat]
ASSUME SizeAssumption ==
    /\ Primes \subseteq {n \in Nat : n >= 5}
    /\ \A p \in Primes : IsPrime(p)
    /\ InitialSize \in Primes
    /\ IsFiniteSet(Entries)
    /\ \A p \in Primes : 0..(p - 1) \subseteq NodeIds
    /\ \E p \in Primes : p >= 2 * Cardinality(Entries)
ASSUME NodeIdsAssumption == Named \cup Sought \subseteq NodeIds
ASSUME BoundsAssumption == MaxRefs \in Nat /\ Floor \in Nat
ASSUME NodeNullAssumption == NULL \notin NodeIds \cup Entries

VARIABLES
    slots,      \* ns->entries: 0..size-1 -> entry or NULL
    count,      \* ns->count
    nodeOf,     \* the NodeId of an allocated entry, NULL if its memory is free
    refs,       \* entry->refcount without the alive bit
    alive,      \* the alive bit
    answer      \* of the last operation: the status and the NodeId it is about

vars == <<slots, count, nodeOf, refs, alive, answer>>

Size(T) == Cardinality(DOMAIN T)

Empty(n) == [i \in 0..(n - 1) |-> NULL]

Init ==
    /\ slots = Empty(InitialSize)
    /\ count = 0
    /\ nodeOf = [e \in Entries |-> NULL]
    /\ refs = [e \in Entries |-> 0]
    /\ alive = [e \in Entries |-> FALSE]
    /\ answer = <<"GOOD", NULL>>

-----------------------------------------------------------------------------
(* mutant: the second hash may be a multiple of the size *)
AnyStep(id, n) == Hash[id] % n

(* mod2                                                                    *)
Step(id, n) == 1 + (Hash[id] % (n - 2))

(* The i-th slot that is probed for id in a table of size n.               *)
Probe == [n \in Primes |-> [id \in NodeIds |->
            [i \in 0..(n - 1) |-> ((Hash[id] % n) + i * Step(id, n)) % n]]]

Stops(T, id, i) ==
    LET e == T[Probe[Size(T)][id][i]] IN e = NULL \/ nodeOf[e] = id

SearchEnds(T, id) == \E i \in DOMAIN T : Stops(T, id, i)

(* containsNodeId: the slot that holds id, or else the first empty one.    *)
SlotOf(T, id) ==
    LET i == CHOOSE i \in DOMAIN T : Stops(T, id, i) /\ \A j \in 0..(i - 1) : ~Stops(T, id, j)
    IN  Probe[Size(T)][id][i]

Contains(T, id) == T[SlotOf(T, id)] # NULL

(* mutant: the entries keep their positions in the larger table *)
CopiedTo(n, T) == [i \in 0..(n - 1) |-> IF i \in DOMAIN T THEN T[i] ELSE NULL]

(* An entry of the old table is put where a search for its NodeId ends.   *)
Placed(R, e) == IF e = NULL THEN R ELSE [R EXCEPT ![SlotOf(R, nodeOf[e])] = e]

(* Every entry of T is inserted into an empty table, in the order of T.    *)
RehashedTo(n, T) ==
    LET table[k \in 0..Size(T)] ==
          IF k = 0 THEN Empty(n) ELSE Placed(table[k - 1], T[k - 1])
    IN  table[Size(T)]

(* primes[higher_prime_index(n)]                                           *)
HigherPrime(n) == CHOOSE p \in Primes : p >= n /\ \A q \in Primes : q >= n => p <= q

(* expand, for a table with c entries                                      *)
Expanded(T, c) ==
    IF 2 * c < Size(T) /\ (8 * c > Size(T) \/ Size(T) <= Floor)
    THEN T ELSE RehashedTo(HigherPrime(2 * c), T)

NeedsRoom == 3 * Size(slots) <= 4 * count

(* The table that UA_NodeStore_insert looks for a slot in.                 *)
TableForInsert == IF NeedsRoom THEN Expanded(slots, count) ELSE slots

(* The NodeId assigned to a node without one: the first that is not        *)
(* contained among count+1, count+1+step, ... modulo the size.             *)
FreshId(T) ==
    LET n  == Size(T)
        Candidate(i) == (count + 1 + i * (1 + ((count + 1) % (n - 2)))) % n
    IN  Candidate(CHOOSE i \in DOMAIN T : ~Contains(T, Candidate(i))
                     /\ \A j \in 0..(i - 1) : Contains(T, Candidate(j)))

-----------------------------------------------------------------------------
FreeEntries == {e \in Entries : nodeOf[e] = NULL}

(* nodeEntryFromNode and the end of UA_NodeStore_insert; `kept` is the     *)
(* number of references the caller asks for.                               *)
Store(T, id, e, kept) ==
    /\ slots' = [T EXCEPT ![SlotOf(T, id)] = e]
    /\ count' = count + 1
    /\ nodeOf' = [nodeOf EXCEPT ![e] = id]
    /\ refs' = [refs EXCEPT ![e] = kept]
    /\ alive' = [alive EXCEPT ![e] = TRUE]

Insert(id, kept) ==
    /\ ~Contains(TableForInsert, id)
    /\ \E e \in FreeEntries : Store(TableForInsert, id, e, kept)
    /\ answer' = <<"GOOD", id>>

InsertFresh(kept) ==
    LET id == FreshId(TableForInsert) IN
    /\ \E e \in FreeEntries : Store(TableForInsert, id, e, kept)
    /\ answer' = <<"GOOD", id>>

InsertExisting(id) ==
    /\ Contains(TableForInsert, id)
    /\ slots' = TableForInsert
    /\ answer' = <<"BADNODEIDEXISTS", id>>
    /\ UNCHANGED <<count, nodeOf, refs, alive>>

(* There is no memory for the entry, or none for a larger table.           *)
InsertFails ==
    /\ FreeEntries = {}
    /\ slots' = TableForInsert
    /\ answer' = <<"BADOUTOFMEMORY", NULL>>
    /\ UNCHANGED <<count, nodeOf, refs, alive>>

InsertRefused ==
    /\ NeedsRoom
    /\ answer' = <<"BADINTERNALERROR", NULL>>
    /\ UNCHANGED <<slots, count, nodeOf, refs, alive>>

(* UA_NodeStore_get: the caller holds a reference to the entry found.      *)
Get(id) ==
    LET e == slots[SlotOf(slots, id)] IN
    /\ e # NULL
    /\ refs[e] < MaxRefs
    /\ refs' = [refs EXCEPT ![e] = @ + 1]
    /\ answer' = <<"GOOD", id>>
    /\ UNCHANGED <<slots, count, nodeOf, alive>>

(* Get, replace and remove do not find id.                                 *)
Unknown(id) ==
    /\ ~Contains(slots, id)
    /\ answer' = <<"BADNODEIDUNKNOWN", id>>
    /\ UNCHANGED <<slots, count, nodeOf, refs, alive>>

(* mutant: a dead entry is freed although there are references to it *)
FreedDead(e, r, a) == [nodeOf EXCEPT ![e] = IF a THEN @ ELSE NULL]

(* deleteEntry: the memory of e is freed unless its refcount, alive bit    *)
(* included, is positive.                                                  *)
Freed(e, r, a) == [nodeOf EXCEPT ![e] = IF r > 0 \/ a THEN @ ELSE NULL]

(* UA_NodeStore_release                                                    *)
Release(e) ==
    /\ refs[e] > 0
    /\ refs' = [refs EXCEPT ![e] = @ - 1]
    /\ nodeOf' = Freed(e, refs[e] - 1, alive[e])
    /\ answer' = answer
    /\ UNCHANGED <<slots, count, alive>>

(* UA_NodeStore_replace of an entry the caller holds: the new entry takes  *)
(* the slot, the old one dies with its last reference.                     *)
Replace(old, kept) ==
    LET id   == nodeOf[old]
        slot == SlotOf(slots, id)
    IN
    /\ refs[old] > 0
    /\ slots[slot] = old
    /\ \E e \in FreeEntries :
          /\ slots' = [slots EXCEPT ![slot] = e]
          /\ nodeOf' = [nodeOf EXCEPT ![e] = id]
          /\ refs' = [refs EXCEPT ![e] = kept]
          /\ alive' = [alive EXCEPT ![e] = TRUE, ![old] = FALSE]
    /\ answer' = <<"GOOD", id>>
    /\ UNCHANGED count

(* The entry was already replaced, or there is no memory.                  *)
ReplaceFails(old) ==
    LET found == slots[SlotOf(slots, nodeOf[old])] IN
    /\ refs[old] > 0
    /\ found # NULL
    /\ found # old \/ FreeEntries = {}
    /\ answer' = <<IF found # old THEN "BADINTERNALERROR" ELSE "BADOUTOFMEMORY", NULL>>
    /\ UNCHANGED <<slots, count, nodeOf, refs, alive>>

(* The possible tables without the entry in `slot`: a very empty table is  *)
(* replaced by a smaller one if there is memory for it.                    *)
Emptied(slot, c) ==
    LET T == [slots EXCEPT ![slot] = NULL] IN
    {T} \cup (IF 8 * c < Size(T) /\ Size(T) > Floor THEN {Expanded(T, c)} ELSE {})

(* UA_NodeStore_remove                                                     *)
Remove(id) ==
    LET slot == SlotOf(slots, id)
        e    == slots[slot]
    IN
    /\ e # NULL
    /\ alive' = [alive EXCEPT ![e] = FALSE]
    /\ nodeOf' = Freed(e, refs[e], FALSE)
    /\ slots' \in Emptied(slot, count - 1)
    /\ count' = count - 1
    /\ answer' = <<"GOOD", id>>
    /\ UNCHANGED refs

Next ==
    \/ \E kept \in {0, 1} \cap 0..MaxRefs :
          \/ \E id \in Named : Insert(id, kept)
          \/ InsertFresh(kept)
          \/ \E e \in Entries : Replace(e, kept)
    \/ \E id \in Named : InsertExisting(id)
    \/ InsertFails
    \/ InsertRefused
    \/ \E id \in Sought : Get(id) \/ Unknown(id) \/ Remove(id)
    \/ \E e \in Entries : Release(e) \/ ReplaceFails(e)

Spec == Init /\ [][Next]_vars

-----------------------------------------------------------------------------
(* Properties                                                              *)

Statuses == {"GOOD", "BADNODEIDEXISTS", "BADNODEIDUNKNOWN", "BADOUTOFMEMORY", "BADINTERNALERROR"}

(* Every variable has its type, and the size is one of the primes.         *)
TypeOK ==
    /\ \E n \in Primes : slots \in [0..(n - 1) -> Entries \cup {NULL}]
    /\ count \in Nat
    /\ nodeOf \in [Entries -> NodeIds \cup {NULL}]
    /\ refs \in [Entries -> 0..MaxRefs]
    /\ alive \in [Entries -> BOOLEAN]
    /\ answer \in Statuses \X (NodeIds \cup {NULL})

StoredEntries == {slots[i] : i \in DOMAIN slots} \ {NULL}
StoredIds == {nodeOf[e] : e \in StoredEntries}
FoundIds == {id \in StoredIds : Contains(slots, id)}
IsUsed(e) == e \in StoredEntries \/ refs[e] > 0

(* The nodes that are in the table but not where a search finds them.      *)
LostIds == {nodeOf[e] : e \in {x \in StoredEntries : slots[SlotOf(slots, nodeOf[x])] # x}}

(* A search for any NodeId ends: its probes meet an empty slot or the node.*)
(* Otherwise containsNodeId, which has no other exit, would loop for ever. *)
EverySearchEnds == \A id \in NodeIds : SearchEnds(slots, id)

(* The memory of a node that is stored or that a caller holds is not freed.*)
HeldNodesAreAllocated ==
    \A e \in Entries : IsUsed(e) => nodeOf[e] # NULL

(* Memory that is no longer stored or held is freed, whatever order the    *)
(* replacements, removals and releases come in.  The entries that are      *)
(* alive and not stored are those that a rehash drops from a table with    *)
(* two nodes of one NodeId (see StoredNodesAreFound).                      *)
DeadEntriesAreFreed ==
    \A e \in Entries : nodeOf[e] # NULL => IsUsed(e) \/ alive[e]

(* Together: memory is allocated exactly as long as it is needed           *)
(* (UA_NodeStore_release, UA_NodeStore_remove, UA_NodeStore_replace).      *)
MemoryIsKeptWhileUsed == TypeOK /\ HeldNodesAreAllocated /\ DeadEntriesAreFreed

(* The store implements the map: a lookup finds exactly the nodes that     *)
(* were inserted and not removed or lost in a removal, no NodeId is found  *)
(* twice, an assigned NodeId is new, and nodes are lost only in a removal. *)
Map == INSTANCE NodeMap WITH stored <- FoundIds, lost <- LostIds
IsANodeMap == Map!Spec

-----------------------------------------------------------------------------
(* What the comments of the code say and the code does not do              *)

(* ua_nodestore.c, containsNodeId: "Returns UA_TRUE if an entry was found  *)
(* under the nodeid."                                                      *)
StoredNodesAreFound == \A id \in StoredIds : Contains(slots, id)
=============================================================================
