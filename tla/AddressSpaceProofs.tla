------------------------- MODULE AddressSpaceProofs -------------------------
(***************************************************************************)
(* Proofs about the nodes, their references and the continuation points,   *)
(* for any nodes at the start, any sessions, any requests and any bounds;  *)
(* and about namespace 0 while it is built.                                *)
(*                                                                         *)
(* Every service is a function of the state s that a request works on.  An *)
(* invariant of that state, Sound, is shown to be kept by each of the      *)
(* operators a service is put together from; the invariant of the          *)
(* specification is that the state every request starts with is sound.     *)
(***************************************************************************)
EXTENDS AddressSpace, Namespace0, TLAPS, SequenceTheorems, FiniteSetTheorems, NaturalsInduction, WellFoundedInduction

(* A set of naturals that is not empty has a least element.                *)
LEMMA LeastElement ==
    ASSUME NEW T \in SUBSET Nat, T # {}
    PROVE  \E n \in T : \A m \in T : n <= m
<1>1. PICK n \in T : \A m \in T : ~(<<m, n>> \in OpToRel(<, Nat))
  BY NatLessThanWellFounded, WFMin
<1>2. \A m \in T : ~(m < n)
  BY <1>1 DEF OpToRel
<1> QED
  BY <1>2

-----------------------------------------------------------------------------
(***************************************************************************)
(* Arrays of references: how often a reference is in one.                  *)
(***************************************************************************)
PlacesOf(refs, ref) == {i \in DOMAIN refs : refs[i] = ref}

(* There are as many entries as places.                                    *)
LEMMA EntriesArePlaces == \A refs, ref : EntriesOf(refs, ref) = Cardinality(PlacesOf(refs, ref))
BY DEF EntriesOf, PlacesOf

(* An array has finitely many entries.                                     *)
LEMMA PlacesFinite ==
    ASSUME NEW S, NEW refs \in Seq(S), NEW ref
    PROVE  IsFiniteSet(PlacesOf(refs, ref)) /\ EntriesOf(refs, ref) \in Nat
<1>1. DOMAIN refs = 1..Len(refs) /\ Len(refs) \in Nat
  OBVIOUS
<1>2. IsFiniteSet(1..Len(refs))
  BY <1>1, FS_Interval
<1>3. PlacesOf(refs, ref) \in SUBSET (1..Len(refs))
  BY <1>1 DEF PlacesOf
<1>4. IsFiniteSet(PlacesOf(refs, ref))
  BY <1>2, <1>3, FS_Subset
<1>5. Cardinality(PlacesOf(refs, ref)) \in Nat
  BY <1>4, FS_CardinalityType
<1> QED
  BY <1>4, <1>5 DEF EntriesOf, PlacesOf

(* What is in an array has an entry, and what has an entry is in it.       *)
LEMMA HasEntries ==
    ASSUME NEW S, NEW refs \in Seq(S), NEW ref
    PROVE  EntriesOf(refs, ref) # 0 <=> ref \in ToSet(refs)
<1>1. IsFiniteSet(PlacesOf(refs, ref))
  BY PlacesFinite
<1>2. Cardinality(PlacesOf(refs, ref)) # 0 <=> PlacesOf(refs, ref) # {}
  BY <1>1, FS_EmptySet
<1>3. PlacesOf(refs, ref) # {} <=> ref \in ToSet(refs)
  BY DEF PlacesOf, ToSet
<1> QED
  BY <1>2, <1>3 DEF EntriesOf, PlacesOf

(* A reference that is appended has one entry more, others as many.        *)
LEMMA AppendEntries ==
    ASSUME NEW S, NEW refs \in Seq(S), NEW new \in S, NEW ref
    PROVE  EntriesOf(Append(refs, new), ref) = EntriesOf(refs, ref) + (IF ref = new THEN 1 ELSE 0)
<1> DEFINE n == Len(refs) + 1
<1>1. Len(refs) \in Nat /\ DOMAIN refs = 1..Len(refs) /\ DOMAIN Append(refs, new) = 1..n
  BY AppendProperties
<1>2. \A i \in 1..Len(refs) : Append(refs, new)[i] = refs[i]
  BY AppendProperties
<1>3. Append(refs, new)[n] = new
  BY AppendProperties
<1>4. IsFiniteSet(PlacesOf(refs, ref)) /\ n \notin PlacesOf(refs, ref)
  <2>1. n \notin DOMAIN refs
    BY <1>1
  <2> QED
    BY <2>1, PlacesFinite DEF PlacesOf
<1>5. CASE ref = new
  <2>1. PlacesOf(Append(refs, new), ref) = PlacesOf(refs, ref) \cup {n}
    BY <1>1, <1>2, <1>3, <1>5 DEF PlacesOf
  <2> HIDE DEF n
  <2>2. Cardinality(PlacesOf(refs, ref) \cup {n}) = Cardinality(PlacesOf(refs, ref)) + 1
    BY <1>4, FS_AddElement
  <2>3. EntriesOf(Append(refs, new), ref) = Cardinality(PlacesOf(Append(refs, new), ref))
        /\ EntriesOf(refs, ref) = Cardinality(PlacesOf(refs, ref))
    BY EntriesArePlaces
  <2>4. EntriesOf(Append(refs, new), ref) = EntriesOf(refs, ref) + 1
    BY <2>1, <2>2, <2>3
  <2> QED
    BY <1>5, <2>4
<1>6. CASE ref # new
  <2>1. PlacesOf(Append(refs, new), ref) = PlacesOf(refs, ref)
    BY <1>1, <1>2, <1>3, <1>6 DEF PlacesOf
  <2>2. EntriesOf(refs, ref) \in Nat
    BY PlacesFinite
  <2>3. EntriesOf(Append(refs, new), ref) = EntriesOf(refs, ref)
    BY <2>1, EntriesArePlaces
  <2>4. EntriesOf(refs, ref) + 0 = EntriesOf(refs, ref)
    BY <2>2
  <2> QED
    BY <1>6, <2>3, <2>4
<1> QED
  BY <1>5, <1>6

(* When an entry is overwritten by the last one, only what it was an entry *)
(* of has one less.                                                        *)
LEMMA WithoutEntryType ==
    ASSUME NEW S, NEW refs \in Seq(S), NEW i \in 1..Len(refs)
    PROVE  /\ WithoutEntry(refs, i) \in Seq(S)
           /\ Len(WithoutEntry(refs, i)) = Len(refs) - 1
           /\ \A j \in 1..(Len(refs) - 1) :
                 WithoutEntry(refs, i)[j] = IF j = i THEN refs[Len(refs)] ELSE refs[j]
<1> DEFINE moved == [refs EXCEPT ![i] = refs[Len(refs)]]
<1>1. Len(refs) \in Nat \ {0} /\ DOMAIN refs = 1..Len(refs) /\ \A j \in 1..Len(refs) : refs[j] \in S
  OBVIOUS
<1>2. moved \in Seq(S) /\ Len(moved) = Len(refs)
  BY <1>1, ExceptSeq
<1>3. \A j \in 1..Len(refs) : moved[j] = IF j = i THEN refs[Len(refs)] ELSE refs[j]
  BY <1>1
<1>4. WithoutEntry(refs, i) = SubSeq(moved, 1, Len(refs) - 1)
  BY <1>2 DEF WithoutEntry, Front, Last
<1>5. \A j \in 1..(Len(refs) - 1) : moved[j] \in S
  BY <1>1, <1>3
<1> HIDE DEF moved
<1>6. /\ SubSeq(moved, 1, Len(refs) - 1) \in Seq(S)
      /\ Len(SubSeq(moved, 1, Len(refs) - 1)) = IF 1 <= Len(refs) - 1 THEN (Len(refs) - 1) - 1 + 1 ELSE 0
      /\ \A j \in 1..((Len(refs) - 1) - 1 + 1) : SubSeq(moved, 1, Len(refs) - 1)[j] = moved[1 + j - 1]
  <2>1. 1 \in Int /\ Len(refs) - 1 \in Int
    BY <1>1
  <2> QED
    BY <1>5, <2>1, SubSeqProperties
<1>7. Len(WithoutEntry(refs, i)) = Len(refs) - 1
  BY <1>1, <1>4, <1>6
<1>8. \A j \in 1..(Len(refs) - 1) : WithoutEntry(refs, i)[j] = moved[j]
  BY <1>1, <1>4, <1>6
<1> QED
  BY <1>1, <1>3, <1>4, <1>6, <1>7, <1>8

(* The other references have as many entries as before.                    *)
LEMMA WithoutEntryEntries ==
    ASSUME NEW S, NEW refs \in Seq(S), NEW i \in 1..Len(refs), NEW ref, refs[i] # ref
    PROVE  EntriesOf(WithoutEntry(refs, i), ref) = EntriesOf(refs, ref)
<1> DEFINE n == Len(refs)
           less == WithoutEntry(refs, i)
<1>1. n \in Nat /\ i \in 1..n /\ DOMAIN refs = 1..n
  OBVIOUS
<1>2. DOMAIN less = 1..(n - 1)
  BY WithoutEntryType
<1>3. \A j \in 1..(n - 1) : less[j] = IF j = i THEN refs[n] ELSE refs[j]
  BY WithoutEntryType
<1>4. IsFiniteSet(PlacesOf(refs, ref))
  BY PlacesFinite
<1> HIDE DEF less, n
<1>5. CASE refs[n] # ref
  <2>1. \A j \in 1..n : refs[j] = ref => j # i /\ j # n
    BY <1>5
  <2>2. \A j : j \in PlacesOf(less, ref) <=> j \in PlacesOf(refs, ref)
    BY <1>1, <1>2, <1>3, <1>5, <2>1 DEF PlacesOf
  <2>3. PlacesOf(less, ref) = PlacesOf(refs, ref)
    BY <2>2
  <2> QED
    BY <2>3 DEF EntriesOf, PlacesOf, less
<1>6. CASE refs[n] = ref
  <2>1. i # n /\ i \in 1..(n - 1) /\ n \in PlacesOf(refs, ref) /\ i \notin PlacesOf(refs, ref)
    BY <1>1, <1>6 DEF PlacesOf
  <2>2. \A j : j \in PlacesOf(less, ref) <=> j \in (PlacesOf(refs, ref) \ {n}) \cup {i}
    BY <1>1, <1>2, <1>3, <1>6, <2>1 DEF PlacesOf
  <2>3. PlacesOf(less, ref) = (PlacesOf(refs, ref) \ {n}) \cup {i}
    BY <2>2
  <2>4. /\ IsFiniteSet(PlacesOf(refs, ref) \ {n})
        /\ Cardinality(PlacesOf(refs, ref) \ {n}) = Cardinality(PlacesOf(refs, ref)) - 1
    BY <1>4, <2>1, FS_RemoveElement
  <2>5. i \notin PlacesOf(refs, ref) \ {n}
    BY <2>1
  <2>6. Cardinality((PlacesOf(refs, ref) \ {n}) \cup {i}) = Cardinality(PlacesOf(refs, ref) \ {n}) + 1
    BY <2>4, <2>5, FS_AddElement
  <2>7. Cardinality(PlacesOf(refs, ref)) \in Nat
    BY <1>4, FS_CardinalityType
  <2>8. EntriesOf(less, ref) = Cardinality(PlacesOf(less, ref)) /\ EntriesOf(refs, ref) = Cardinality(PlacesOf(refs, ref))
    BY EntriesArePlaces
  <2>9. EntriesOf(less, ref) = EntriesOf(refs, ref)
    BY <2>3, <2>4, <2>6, <2>7, <2>8
  <2> QED
    BY <2>9 DEF less
<1> QED
  BY <1>5, <1>6

-----------------------------------------------------------------------------
(***************************************************************************)
(* deleteOneWayReference: the array after the last k entries were looked   *)
(* at is defined by recursion on k.                                        *)
(***************************************************************************)
KeptStep(refs, ref, kept, k) ==
    LET i == Len(refs) - k + 1
    IN IF k = 0 THEN refs
       ELSE IF refs[i] = ref THEN WithoutEntry(kept[k - 1], i) ELSE kept[k - 1]

(* There is such a function.                                               *)
LEMMA KeptExists ==
    ASSUME NEW refs, NEW ref, NEW n \in Nat
    PROVE  \E f : f = [k \in 0..n |-> KeptStep(refs, ref, f, k)]
<1> DEFINE T == {m \in Nat : ~ \E f : f = [k \in 0..m |-> KeptStep(refs, ref, f, k)]}
<1>1. T = {}
  <2> SUFFICES ASSUME T # {} PROVE FALSE
    OBVIOUS
  <2>1. PICK m \in T : \A k \in T : m <= k
    <3>1. T \subseteq Nat
      OBVIOUS
    <3> HIDE DEF T
    <3> QED
      BY <3>1, LeastElement
  <2>2. m \in Nat
    OBVIOUS
  <2>3. CASE m = 0
    <3> DEFINE f == [k \in 0..0 |-> KeptStep(refs, ref, <<>>, 0)]
    <3>1. \A k \in 0..0 : KeptStep(refs, ref, f, k) = KeptStep(refs, ref, <<>>, 0)
      BY DEF KeptStep
    <3>2. f = [k \in 0..0 |-> KeptStep(refs, ref, f, k)]
      BY <3>1
    <3> HIDE DEF f
    <3> QED
      BY <2>3, <3>2
  <2>4. CASE m # 0
    <3>1. m - 1 \in Nat /\ ~(m <= m - 1)
      BY <2>2, <2>4
    <3>2. m - 1 \notin T
      <4> HIDE DEF T
      <4> QED
        BY <2>1, <3>1
    <3>3. PICK f : f = [k \in 0..(m - 1) |-> KeptStep(refs, ref, f, k)]
      BY <3>1, <3>2
    <3> DEFINE g == [k \in 0..m |-> IF k = m THEN KeptStep(refs, ref, f, m) ELSE f[k]]
    <3>4. \A k \in 0..m : g[k] = KeptStep(refs, ref, g, k)
      <4> SUFFICES ASSUME NEW k \in 0..m PROVE g[k] = KeptStep(refs, ref, g, k)
        OBVIOUS
      <4>1. k # 0 => k - 1 \in 0..m /\ k - 1 # m
        BY <2>2
      <4>2. k # 0 => g[k - 1] = f[k - 1]
        BY <4>1
      <4>3. KeptStep(refs, ref, g, k) = KeptStep(refs, ref, f, k)
        <5> HIDE DEF g
        <5> QED
          BY <4>2 DEF KeptStep
      <4>4. CASE k = m
        BY <4>3, <4>4
      <4>5. CASE k # m
        <5>1. k \in 0..(m - 1)
          BY <2>2, <4>5
        <5>2. f[k] = KeptStep(refs, ref, f, k)
          BY <3>3, <5>1
        <5> QED
          BY <4>3, <4>5, <5>2
      <4> QED
        BY <4>4, <4>5
    <3>5. g = [k \in 0..m |-> g[k]]
      OBVIOUS
    <3> HIDE DEF g
    <3>6. g = [k \in 0..m |-> KeptStep(refs, ref, g, k)]
      BY <3>4, <3>5
    <3> QED
      BY <3>6
  <2> QED
    BY <2>3, <2>4
<1> QED
  BY <1>1

(* What is left when k entries have been looked at: those that are still   *)
(* to come are in their places, and the others have all their entries.     *)
IsKept(refs, ref, kept, k) ==
    /\ kept \in Seq(References_)
    /\ Len(kept) >= Len(refs) - k
    /\ \A j \in 1..(Len(refs) - k) : kept[j] = refs[j]
    /\ \A other : other # ref => EntriesOf(kept, other) = EntriesOf(refs, other)

(* Looking at one more entry keeps that.                                   *)
LEMMA KeptOneMore ==
    ASSUME NEW refs \in Seq(References_), NEW ref, NEW kept, NEW k \in 1..Len(refs),
           IsKept(refs, ref, kept[k - 1], k - 1)
    PROVE  IsKept(refs, ref, KeptStep(refs, ref, kept, k), k)
<1> DEFINE i == Len(refs) - k + 1
           before == kept[k - 1]
<1>1. Len(refs) \in Nat /\ k \in Nat /\ 1 <= k /\ k <= Len(refs)
  OBVIOUS
<1>2. /\ before \in Seq(References_)
      /\ Len(before) >= Len(refs) - (k - 1)
      /\ \A j \in 1..(Len(refs) - (k - 1)) : before[j] = refs[j]
      /\ \A other : other # ref => EntriesOf(before, other) = EntriesOf(refs, other)
  BY DEF IsKept
<1>3. KeptStep(refs, ref, kept, k) = IF refs[i] = ref THEN WithoutEntry(before, i) ELSE before
  BY <1>1 DEF KeptStep
<1> HIDE DEF before
<1>4. i \in 1..Len(before) /\ i \in 1..(Len(refs) - (k - 1)) /\ Len(before) \in Nat
  BY <1>1, <1>2
<1>5. CASE refs[i] = ref
  <2>1. before[i] = ref
    BY <1>2, <1>4, <1>5
  <2>2. /\ WithoutEntry(before, i) \in Seq(References_)
        /\ Len(WithoutEntry(before, i)) = Len(before) - 1
        /\ \A j \in 1..(Len(before) - 1) :
              WithoutEntry(before, i)[j] = IF j = i THEN before[Len(before)] ELSE before[j]
    BY <1>2, <1>4, WithoutEntryType
  <2>3. ASSUME NEW other, other # ref
        PROVE  EntriesOf(WithoutEntry(before, i), other) = EntriesOf(refs, other)
    <3>1. before[i] # other
      BY <2>1, <2>3
    <3>2. EntriesOf(WithoutEntry(before, i), other) = EntriesOf(before, other)
      BY <1>2, <1>4, <3>1, WithoutEntryEntries
    <3> QED
      BY <1>2, <2>3, <3>2
  <2>4. Len(WithoutEntry(before, i)) >= Len(refs) - k
    BY <1>1, <1>2, <1>4, <2>2
  <2>5. ASSUME NEW j \in 1..(Len(refs) - k) PROVE WithoutEntry(before, i)[j] = refs[j]
    <3>1. j \in 1..(Len(before) - 1) /\ j # i /\ j \in 1..(Len(refs) - (k - 1))
      BY <1>1, <1>2, <1>4
    <3> QED
      BY <1>2, <2>2, <3>1
  <2>6. IsKept(refs, ref, WithoutEntry(before, i), k)
    BY <2>2, <2>3, <2>4, <2>5 DEF IsKept
  <2> QED
    BY <1>3, <1>5, <2>6
<1>6. CASE refs[i] # ref
  <2>1. Len(before) >= Len(refs) - k
    BY <1>1, <1>2, <1>4
  <2>2. \A j \in 1..(Len(refs) - k) : j \in 1..(Len(refs) - (k - 1))
    BY <1>1
  <2>3. IsKept(refs, ref, before, k)
    BY <1>2, <2>1, <2>2 DEF IsKept
  <2> QED
    BY <1>3, <1>6, <2>3
<1> QED
  BY <1>5, <1>6

(* Deleting a reference leaves every other one with all its entries.       *)
LEMMA WithoutMatchingKeeps ==
    ASSUME NEW refs \in Seq(References_), NEW ref
    PROVE  /\ WithoutMatching(refs, ref) \in Seq(References_)
           /\ \A other : other # ref =>
                 EntriesOf(WithoutMatching(refs, ref), other) = EntriesOf(refs, other)
<1> DEFINE Is(f) == f = [k \in 0..Len(refs) |-> KeptStep(refs, ref, f, k)]
           kept == CHOOSE f : Is(f)
<1>1. Len(refs) \in Nat
  OBVIOUS
<1>2. Is(kept)
  <2>1. \E f : Is(f)
    BY <1>1, KeptExists
  <2> HIDE DEF Is
  <2> QED
    BY <2>1
<1>3. WithoutMatching(refs, ref) = kept[Len(refs)]
  BY DEF WithoutMatching, KeptStep
<1> HIDE DEF kept
<1>4. \A k \in 0..Len(refs) : kept[k] = KeptStep(refs, ref, kept, k)
  BY <1>2
<1> HIDE DEF Is
<1> DEFINE T == {k \in Nat : k \in 0..Len(refs) /\ ~IsKept(refs, ref, kept[k], k)}
<1>5. T = {}
  <2> SUFFICES ASSUME T # {} PROVE FALSE
    OBVIOUS
  <2>1. PICK m \in T : \A k \in T : m <= k
    <3>1. T \subseteq Nat
      OBVIOUS
    <3> HIDE DEF T
    <3> QED
      BY <3>1, LeastElement
  <2>2. m \in Nat /\ m \in 0..Len(refs) /\ ~IsKept(refs, ref, kept[m], m)
    OBVIOUS
  <2>3. CASE m = 0
    <3>1. kept[0] = refs
      BY <1>1, <1>4 DEF KeptStep
    <3>2. IsKept(refs, ref, refs, 0)
      BY <1>1 DEF IsKept
    <3> QED
      BY <2>2, <2>3, <3>1, <3>2
  <2>4. CASE m # 0
    <3>1. m - 1 \in Nat /\ ~(m <= m - 1) /\ m \in 1..Len(refs) /\ m - 1 \in 0..Len(refs)
      BY <1>1, <2>2, <2>4
    <3>2. m - 1 \notin T
      <4> HIDE DEF T
      <4> QED
        BY <2>1, <3>1
    <3>3. IsKept(refs, ref, kept[m - 1], m - 1)
      BY <3>1, <3>2
    <3>4. IsKept(refs, ref, KeptStep(refs, ref, kept, m), m)
      BY <3>1, <3>3, KeptOneMore
    <3> QED
      BY <1>4, <2>2, <3>4
  <2> QED
    BY <2>3, <2>4
<1>6. IsKept(refs, ref, kept[Len(refs)], Len(refs))
  BY <1>1, <1>5
<1> QED
  BY <1>3, <1>6 DEF IsKept

-----------------------------------------------------------------------------
(***************************************************************************)
(* The invariant of the state s.                                           *)
(***************************************************************************)
IsNode(x) ==
    /\ x = [class |-> x.class, name |-> x.name, refs |-> x.refs, dangling |-> x.dangling]
    /\ x.class # "none" /\ x.refs \in Seq(References_)
    /\ x.dangling => x.refs = <<>>
AreNodes(N) ==
    /\ N = [n \in Ids |-> N[n]]
    /\ \A n \in Ids : N[n] = Absent \/ IsNode(N[n])

(* Any two nodes that are not torn have the same entries about each other, *)
(* as many times; a node that is absent has none.                          *)
EntriesAt(N, m, ref) == IF N[m] = Absent THEN 0 ELSE EntriesOf(N[m].refs, ref)
Agree(N, T) ==
    \A m, n, type \in Ids : \A fwd \in BOOLEAN :
        \/ Pair(m, n) \in T
        \/ EntriesAt(N, m, Reference(type, fwd, n)) = EntriesAt(N, n, Reference(type, ~fwd, m))
AreTorn(T) == T \subseteq {Pair(m, n) : m, n \in Ids}

(* What was given is how what there was begins.                            *)
Begins(given, all) ==
    /\ given \in Seq(References_) /\ all \in Seq(References_)
    /\ Len(given) <= Len(all)
    /\ \A j \in 1..Len(given) : given[j] = all[j]

(* A point stands behind its first page at least, and what was given is    *)
(* what there was up to where it stands, as long as that can be said.      *)
IsPoint(cp) ==
    /\ cp = [descr |-> cp.descr, max |-> cp.max, index |-> cp.index, told |-> cp.told,
             given |-> cp.given, all |-> cp.all, intact |-> cp.intact]
    /\ cp.max \in Nat /\ cp.max > 0 /\ cp.index \in Nat /\ cp.index >= cp.max
    /\ cp.intact => Begins(cp.given, cp.all) /\ cp.index = Len(cp.given)
HasPoints(seq) ==
    /\ seq \in Seq(ToSet(seq))
    /\ \A i \in 1..Len(seq) : IsPoint(seq[i])
ArePoints(P, A) ==
    /\ P = [sess \in Sessions \union {Admin} |-> P[sess]]
    /\ A = [sess \in Sessions \union {Admin} |-> A[sess]]
    /\ P[Admin] = <<>> /\ A[Admin] = 0
    /\ \A sess \in Sessions :
          /\ A[sess] \in Nat /\ A[sess] + Len(P[sess]) = MaxPoints
          /\ HasPoints(P[sess])

IsState(s) ==
    s = [nodes |-> s.nodes, points |-> s.points, avail |-> s.avail, alive |-> s.alive,
         torn |-> s.torn, status |-> s.status, fails |-> s.fails, tries |-> s.tries, luck |-> s.luck,
         added |-> s.added]
Sound(s) ==
    /\ IsState(s)
    /\ s.alive \in BOOLEAN
    /\ AreNodes(s.nodes) /\ AreTorn(s.torn) /\ Agree(s.nodes, s.torn)
    /\ ArePoints(s.points, s.avail)

(* What an answer says changes nothing else.                               *)
LEMMA AnsweringFields ==
    ASSUME NEW s, NEW status, IsState(s)
    PROVE  /\ IsState(Answering(s, status))
           /\ Answering(s, status).nodes = s.nodes
           /\ Answering(s, status).points = s.points
           /\ Answering(s, status).avail = s.avail
           /\ Answering(s, status).alive = s.alive
           /\ Answering(s, status).torn = s.torn
           /\ Answering(s, status).status = status
           /\ Answering(s, status).added = s.added
BY DEF IsState, Answering

(* What an operator leaves alone that changes nodes and what is torn.      *)
KeepsRest(s, r) ==
    /\ IsState(r) /\ r.alive \in BOOLEAN
    /\ r.points = s.points /\ r.avail = s.avail

(* What is torn is told without another change.                            *)
LEMMA TornFields ==
    ASSUME NEW s, NEW m, NEW n, IsState(s), s.alive \in BOOLEAN
    PROVE  /\ KeepsRest(s, Torn(s, m, n))
           /\ Torn(s, m, n).nodes = s.nodes
           /\ Torn(s, m, n).torn = s.torn \union {Pair(m, n)}
BY DEF IsState, KeepsRest, Torn

(* Using a freed array may end the process, and changes nothing else.      *)
LEMMA TouchedFields ==
    ASSUME NEW s, NEW n, IsState(s), s.alive \in BOOLEAN
    PROVE  /\ KeepsRest(s, Touched(s, n))
           /\ Touched(s, n).nodes = s.nodes
           /\ Touched(s, n).torn = s.torn
<1>1. CASE NodeAt(s, n).dangling /\ ~s.luck
  <2>1. Touched(s, n) = [s EXCEPT !.alive = FALSE]
    BY <1>1 DEF Touched
  <2> QED
    BY <2>1 DEF IsState, KeepsRest
<1>2. CASE ~(NodeAt(s, n).dangling /\ ~s.luck)
  <2>1. Touched(s, n) = s
    BY <1>2 DEF Touched
  <2> QED
    BY <2>1 DEF KeepsRest
<1> QED
  BY <1>1, <1>2

(* Asking for memory changes nothing else.                                 *)
LEMMA TriedFields ==
    ASSUME NEW s, NEW k, IsState(s), s.alive \in BOOLEAN
    PROVE  /\ KeepsRest(s, Tried(s, k))
           /\ Tried(s, k).nodes = s.nodes
           /\ Tried(s, k).torn = s.torn
BY DEF IsState, KeepsRest, Tried

(* The nodes M are N with a reference appended to those of n.              *)
IsAppended(N, M, n, ref) ==
    /\ n \in Ids /\ N[n] # Absent
    /\ M = [N EXCEPT ![n] = Longer(@, ref)]

(* UA_Server_addReference in one direction appends or fails.               *)
LEMMA AddOneWayFields ==
    ASSUME NEW s, NEW n, NEW ref, IsState(s), s.alive \in BOOLEAN
    PROVE  /\ KeepsRest(s, AddOneWayReference(s, n, ref))
           /\ AddOneWayReference(s, n, ref).torn = s.torn
           /\ AddOneWayReference(s, n, ref).status = "Good" =>
                 IsAppended(s.nodes, AddOneWayReference(s, n, ref).nodes, n, ref)
           /\ AddOneWayReference(s, n, ref).status # "Good" =>
                 AddOneWayReference(s, n, ref).nodes = s.nodes
<1> DEFINE r == AddOneWayReference(s, n, ref)
<1>1. CASE ~Exists(s, n)
  <2>1. r = Answering(s, "BadNodeIdUnknown")
    BY <1>1 DEF AddOneWayReference
  <2> QED
    BY <2>1, AnsweringFields DEF KeepsRest
<1>2. CASE Exists(s, n) /\ FailsAt(s, 1)
  <2> DEFINE t == Tried(s, 1)
  <2>1. r = Answering(t, "BadOutOfMemory")
    BY <1>2 DEF AddOneWayReference
  <2>2. KeepsRest(s, t) /\ t.nodes = s.nodes /\ t.torn = s.torn
    BY TriedFields
  <2> HIDE DEF t, r
  <2>3. /\ KeepsRest(s, r) /\ r.nodes = s.nodes /\ r.torn = s.torn /\ r.status = "BadOutOfMemory"
    BY <2>1, <2>2, AnsweringFields DEF KeepsRest
  <2> QED
    BY <2>3 DEF r
<1>3. CASE Exists(s, n) /\ ~FailsAt(s, 1)
  <2> DEFINE t == Touched(s, n)
             M == [s.nodes EXCEPT ![n] = Longer(@, ref)]
  <2>1. r = [t EXCEPT !.nodes[n] = Longer(@, ref),
                      !.tries = @ + 1, !.status = "Good"]
    BY <1>3 DEF AddOneWayReference
  <2>2. KeepsRest(s, t) /\ t.nodes = s.nodes /\ t.torn = s.torn
    BY TouchedFields
  <2> HIDE DEF t
  <2>3. r.nodes = M /\ r.status = "Good" /\ r.torn = s.torn
    BY <2>1, <2>2 DEF KeepsRest, IsState
  <2>4. KeepsRest(s, r)
    BY <2>1, <2>2 DEF KeepsRest, IsState
  <2>5. n \in Ids /\ s.nodes[n] # Absent
    BY <1>3 DEF Exists, NodeAt
  <2> QED
    BY <2>3, <2>4, <2>5 DEF IsAppended
<1> QED
  BY <1>1, <1>2, <1>3

(* A node has a natural number of entries of each reference.               *)
LEMMA EntriesAtNat ==
    ASSUME NEW N, AreNodes(N), NEW m \in Ids, NEW ref
    PROVE  EntriesAt(N, m, ref) \in Nat
<1>1. CASE N[m] = Absent
  BY <1>1 DEF EntriesAt
<1>2. CASE N[m] # Absent
  <2>1. N[m].refs \in Seq(References_)
    BY <1>2 DEF AreNodes, IsNode
  <2>2. EntriesOf(N[m].refs, ref) \in Nat
    BY <2>1, PlacesFinite
  <2> QED
    BY <1>2, <2>2 DEF EntriesAt
<1> QED
  BY <1>1, <1>2

(* A node with another array keeps its class and name.                     *)
HasOtherArray(x, y, refs, dangling) == y = [x EXCEPT !.refs = refs, !.dangling = dangling]

(* Its fields are those of the node but for the array.                     *)
LEMMA OtherArray ==
    ASSUME NEW x, NEW y, NEW refs, NEW dangling,
           IsNode(x), HasOtherArray(x, y, refs, dangling)
    PROVE  y = [class |-> x.class, name |-> x.name, refs |-> refs, dangling |-> dangling]
BY DEF IsNode, HasOtherArray

(* The node has one entry more of the reference, and nothing else changes. *)
LEMMA AppendedNodes ==
    ASSUME NEW N, NEW M, NEW n, NEW ref \in References_, AreNodes(N), IsAppended(N, M, n, ref)
    PROVE  /\ AreNodes(M)
           /\ \A m \in Ids : \A other :
                 EntriesAt(M, m, other)
                     = EntriesAt(N, m, other) + (IF m = n /\ other = ref THEN 1 ELSE 0)
<1>1. n \in Ids /\ N[n] # Absent /\ IsNode(N[n])
  BY DEF AreNodes, IsAppended
<1> DEFINE refs == Append(N[n].refs, ref)
<1>2. PICK new : new = [N[n] EXCEPT !.refs = refs, !.dangling = FALSE] /\ M = [N EXCEPT ![n] = new]
  BY DEF IsAppended, Longer
<1>3. N[n].refs \in Seq(References_)
  BY <1>1 DEF IsNode
<1>4. Append(N[n].refs, ref) \in Seq(References_)
  BY <1>3
<1>5. new = [class |-> N[n].class, name |-> N[n].name, refs |-> refs, dangling |-> FALSE]
  <2> HIDE DEF refs
  <2>1. HasOtherArray(N[n], new, refs, FALSE)
    BY <1>2 DEF HasOtherArray
  <2> QED
    BY <1>1, <2>1, OtherArray
<1>6. IsNode(new) /\ new.refs = refs /\ new.class # "none"
  <2> HIDE DEF refs
  <2>1. new.class = N[n].class /\ new.name = N[n].name /\ new.refs = refs /\ new.dangling = FALSE
    BY <1>5
  <2> QED
    BY <1>1, <1>4, <1>5, <2>1 DEF IsNode, refs
<1>7. M = [m \in Ids |-> M[m]] /\ \A m \in Ids : M[m] = IF m = n THEN new ELSE N[m]
  BY <1>1, <1>2 DEF AreNodes
<1>8. AreNodes(M)
  BY <1>6, <1>7 DEF AreNodes
<1>9. ASSUME NEW m \in Ids, NEW other
      PROVE  EntriesAt(M, m, other) = EntriesAt(N, m, other) + (IF m = n /\ other = ref THEN 1 ELSE 0)
  <2>1. CASE m = n
    <3>1. new # Absent
      BY <1>6 DEF Absent
    <3>2. EntriesAt(M, m, other) = EntriesOf(Append(N[n].refs, ref), other)
      BY <1>6, <1>7, <2>1, <3>1 DEF EntriesAt
    <3>3. EntriesAt(N, m, other) = EntriesOf(N[n].refs, other)
      BY <1>1, <2>1 DEF EntriesAt
    <3>4. EntriesOf(Append(N[n].refs, ref), other) = EntriesOf(N[n].refs, other) + (IF other = ref THEN 1 ELSE 0)
      BY <1>3, AppendEntries
    <3> QED
      BY <2>1, <3>2, <3>3, <3>4
  <2>2. CASE m # n
    <3>1. EntriesAt(M, m, other) = EntriesAt(N, m, other)
      BY <1>7, <2>2 DEF EntriesAt
    <3>2. EntriesAt(N, m, other) \in Nat
      BY EntriesAtNat
    <3> QED
      BY <2>2, <3>1, <3>2
  <2> QED
    BY <2>1, <2>2
<1> QED
  BY <1>8, <1>9

(* An entry for one direction only leaves the two nodes torn.              *)
LEMMA OnceAgrees ==
    ASSUME NEW N, NEW M, NEW T, NEW n, NEW ref \in References_,
           AreNodes(N), Agree(N, T), IsAppended(N, M, n, ref)
    PROVE  Agree(M, T \union {Pair(n, ref.target)})
<1> SUFFICES ASSUME NEW m \in Ids, NEW k \in Ids, NEW type \in Ids, NEW fwd \in BOOLEAN,
                    Pair(m, k) \notin T \union {Pair(n, ref.target)}
             PROVE  EntriesAt(M, m, Reference(type, fwd, k)) = EntriesAt(M, k, Reference(type, ~fwd, m))
  BY DEF Agree
<1> DEFINE a == Reference(type, fwd, k)
           b == Reference(type, ~fwd, m)
<1>1. EntriesAt(N, m, a) = EntriesAt(N, k, b)
  BY DEF Agree
<1>2. ~(m = n /\ a = ref) /\ ~(k = n /\ b = ref)
  BY DEF Pair, Reference
<1> HIDE DEF a, b
<1>3. EntriesAt(M, m, a) = EntriesAt(N, m, a) + 0 /\ EntriesAt(M, k, b) = EntriesAt(N, k, b) + 0
  <2>1. EntriesAt(M, m, a) = EntriesAt(N, m, a) + (IF m = n /\ a = ref THEN 1 ELSE 0)
    BY AppendedNodes
  <2>2. EntriesAt(M, k, b) = EntriesAt(N, k, b) + (IF k = n /\ b = ref THEN 1 ELSE 0)
    BY AppendedNodes
  <2> QED
    BY <1>2, <2>1, <2>2
<1>4. EntriesAt(M, m, a) = EntriesAt(M, k, b)
  BY <1>1, <1>3
<1> QED
  BY <1>4 DEF a, b

(* Both entries keep all nodes in agreement.                               *)
LEMMA TwiceAgrees ==
    ASSUME NEW N, NEW M, NEW K, NEW T, NEW n \in Ids, NEW ref \in References_,
           AreNodes(N), Agree(N, T), IsAppended(N, M, n, ref),
           IsAppended(M, K, ref.target, Flipped(ref, n))
    PROVE  AreNodes(K) /\ Agree(K, T)
<1>1. Flipped(ref, n) \in References_
  BY DEF Flipped, Reference, References_
<1>2. AreNodes(M)
  BY AppendedNodes
<1>3. AreNodes(K)
  BY <1>1, <1>2, AppendedNodes
<1>4. ASSUME NEW m \in Ids, NEW k \in Ids, NEW type \in Ids, NEW fwd \in BOOLEAN, Pair(m, k) \notin T
      PROVE  EntriesAt(K, m, Reference(type, fwd, k)) = EntriesAt(K, k, Reference(type, ~fwd, m))
  <2> DEFINE a == Reference(type, fwd, k)
             b == Reference(type, ~fwd, m)
             back == Flipped(ref, n)
             there == ref.target
  <2>1. EntriesAt(N, m, a) = EntriesAt(N, k, b)
    BY <1>4 DEF Agree
  <2>2. (m = n /\ a = ref) <=> (k = there /\ b = back)
    BY DEF Reference, Flipped, References_
  <2>3. (k = n /\ b = ref) <=> (m = there /\ a = back)
    BY DEF Reference, Flipped, References_
  <2> HIDE DEF a, b, back
  <2>4. EntriesAt(M, m, a) = EntriesAt(N, m, a) + (IF m = n /\ a = ref THEN 1 ELSE 0)
    BY AppendedNodes
  <2>5. EntriesAt(M, k, b) = EntriesAt(N, k, b) + (IF k = n /\ b = ref THEN 1 ELSE 0)
    BY AppendedNodes
  <2>6. IsAppended(M, K, there, back) /\ back \in References_
    BY <1>1 DEF back
  <2>7. EntriesAt(K, m, a) = EntriesAt(M, m, a) + (IF m = there /\ a = back THEN 1 ELSE 0)
    BY <1>2, <2>6, AppendedNodes
  <2>8. EntriesAt(K, k, b) = EntriesAt(M, k, b) + (IF k = there /\ b = back THEN 1 ELSE 0)
    BY <1>2, <2>6, AppendedNodes
  <2>9. EntriesAt(N, m, a) \in Nat /\ EntriesAt(N, k, b) \in Nat
    BY EntriesAtNat
  <2>10. EntriesAt(K, m, a) = EntriesAt(K, k, b)
    BY <2>1, <2>2, <2>3, <2>4, <2>5, <2>7, <2>8, <2>9
  <2> QED
    BY <2>10 DEF a, b
<1> QED
  BY <1>3, <1>4 DEF Agree

(* Service_AddReferences_single keeps the invariant, whatever fails.       *)
LEMMA AddReferenceSound ==
    ASSUME NEW s, NEW n, NEW ref \in References_, Sound(s)
    PROVE  Sound(AddReference(s, n, ref))
<1> DEFINE first == AddOneWayReference(s, n, ref)
           second == AddOneWayReference(first, ref.target, SecondItem(n, ref))
<1>1. IsState(s) /\ s.alive \in BOOLEAN
  BY DEF Sound
<1>2. /\ KeepsRest(s, first) /\ first.torn = s.torn
      /\ first.status = "Good" => IsAppended(s.nodes, first.nodes, n, ref)
      /\ first.status # "Good" => first.nodes = s.nodes
  BY <1>1, AddOneWayFields
<1> HIDE DEF first
<1>3. /\ KeepsRest(first, second) /\ second.torn = first.torn
      /\ second.status = "Good" =>
            IsAppended(first.nodes, second.nodes, ref.target, SecondItem(n, ref))
      /\ second.status # "Good" => second.nodes = first.nodes
  BY <1>2, AddOneWayFields DEF KeepsRest
<1> HIDE DEF second
<1>4. AddReference(s, n, ref) = IF first.status # "Good" THEN first
                                ELSE IF second.status = "Good" THEN second
                                ELSE Torn(second, n, ref.target)
  BY DEF AddReference, AddedOnce, AddedTwice, first, second
<1>5. CASE first.status # "Good"
  BY <1>2, <1>4, <1>5 DEF Sound, KeepsRest
<1>6. CASE first.status = "Good" /\ second.status = "Good"
  <2>1. IsAppended(s.nodes, first.nodes, n, ref)
        /\ IsAppended(first.nodes, second.nodes, ref.target, Flipped(ref, n))
    BY <1>2, <1>3, <1>6 DEF SecondItem
  <2>2. n \in Ids
    BY <2>1 DEF IsAppended
  <2>3. AreNodes(second.nodes) /\ Agree(second.nodes, s.torn)
    BY <2>1, <2>2, TwiceAgrees DEF Sound
  <2> QED
    BY <1>2, <1>3, <1>4, <1>6, <2>3 DEF Sound, KeepsRest
<1>7. CASE first.status = "Good" /\ second.status # "Good"
  <2> DEFINE r == Torn(second, n, ref.target)
  <2>1. IsAppended(s.nodes, first.nodes, n, ref) /\ second.nodes = first.nodes
    BY <1>2, <1>3, <1>7
  <2>2. AreNodes(second.nodes) /\ Agree(second.nodes, s.torn \union {Pair(n, ref.target)})
    BY <2>1, OnceAgrees, AppendedNodes DEF Sound
  <2>3. KeepsRest(second, r) /\ r.nodes = second.nodes /\ r.torn = s.torn \union {Pair(n, ref.target)}
    BY <1>2, <1>3, TornFields DEF KeepsRest
  <2>4. n \in Ids /\ ref.target \in Ids
    BY <2>1 DEF IsAppended, References_
  <2>5. AreTorn(s.torn \union {Pair(n, ref.target)})
    BY <2>4 DEF Sound, AreTorn
  <2> HIDE DEF r
  <2>6. Sound(r)
    BY <1>2, <1>3, <2>2, <2>3, <2>5 DEF Sound, KeepsRest
  <2> QED
    BY <1>4, <1>7, <2>6 DEF r
<1> QED
  BY <1>5, <1>6, <1>7

-----------------------------------------------------------------------------
(***************************************************************************)
(* Deleting references and adding nodes.                                   *)
(***************************************************************************)

(* An answer leaves a sound state sound.                                   *)
LEMMA AnsweringSound ==
    ASSUME NEW s, NEW status, Sound(s)
    PROVE  Sound(Answering(s, status))
BY AnsweringFields DEF Sound

(* Asking for memory leaves a sound state sound.                           *)
LEMMA TriedSound ==
    ASSUME NEW s, NEW k, Sound(s)
    PROVE  Sound(Tried(s, k))
BY TriedFields DEF Sound, KeepsRest

(* The nodes M are N with another array at n.                              *)
IsShrunk(N, M, n, kept) ==
    /\ n \in Ids /\ N[n] # Absent
    /\ M = [N EXCEPT ![n] = [@ EXCEPT !.refs = kept, !.dangling = (kept = <<>>)]]

(* Taking entries of one reference from a node leaves all the others, so   *)
(* that only the pair of its nodes is torn.                                *)
LEMMA ShrunkAgrees ==
    ASSUME NEW N, NEW M, NEW T, NEW n, NEW ref, NEW kept \in Seq(References_),
           AreNodes(N), Agree(N, T), IsShrunk(N, M, n, kept),
           \A other : other # ref => EntriesOf(kept, other) = EntriesOf(N[n].refs, other)
    PROVE  AreNodes(M) /\ Agree(M, T \union {Pair(n, ref.target)})
<1>1. n \in Ids /\ N[n] # Absent /\ IsNode(N[n])
  BY DEF AreNodes, IsShrunk
<1> DEFINE none == (kept = <<>>)
<1>2. PICK new : new = [N[n] EXCEPT !.refs = kept, !.dangling = none] /\ M = [N EXCEPT ![n] = new]
  BY DEF IsShrunk
<1>3. new = [class |-> N[n].class, name |-> N[n].name, refs |-> kept, dangling |-> none]
  <2> HIDE DEF none
  <2>1. HasOtherArray(N[n], new, kept, none)
    BY <1>2 DEF HasOtherArray
  <2> QED
    BY <1>1, <2>1, OtherArray
<1>4. IsNode(new) /\ new.refs = kept /\ new.class # "none"
  <2> HIDE DEF none
  <2>1. new.class = N[n].class /\ new.name = N[n].name /\ new.refs = kept /\ new.dangling = none
    BY <1>3
  <2> QED
    BY <1>1, <1>3, <2>1 DEF IsNode, none
<1>5. M = [m \in Ids |-> M[m]] /\ \A m \in Ids : M[m] = IF m = n THEN new ELSE N[m]
  BY <1>1, <1>2 DEF AreNodes
<1>6. AreNodes(M)
  BY <1>4, <1>5 DEF AreNodes
<1>7. ASSUME NEW m \in Ids, NEW other, m = n => other # ref
      PROVE  EntriesAt(M, m, other) = EntriesAt(N, m, other)
  <2>1. CASE m = n
    <3>1. new # Absent
      BY <1>4 DEF Absent
    <3>2. EntriesAt(M, m, other) = EntriesOf(kept, other)
      BY <1>4, <1>5, <2>1, <3>1 DEF EntriesAt
    <3>3. EntriesAt(N, m, other) = EntriesOf(N[n].refs, other)
      BY <1>1, <2>1 DEF EntriesAt
    <3> QED
      BY <1>7, <2>1, <3>2, <3>3
  <2>2. CASE m # n
    BY <1>5, <2>2 DEF EntriesAt
  <2> QED
    BY <2>1, <2>2
<1>8. ASSUME NEW m \in Ids, NEW k \in Ids, NEW type \in Ids, NEW fwd \in BOOLEAN,
             Pair(m, k) \notin T \union {Pair(n, ref.target)}
      PROVE  EntriesAt(M, m, Reference(type, fwd, k)) = EntriesAt(M, k, Reference(type, ~fwd, m))
  <2> DEFINE a == Reference(type, fwd, k)
             b == Reference(type, ~fwd, m)
  <2>1. EntriesAt(N, m, a) = EntriesAt(N, k, b)
    BY <1>8 DEF Agree
  <2>2. (m = n => a # ref) /\ (k = n => b # ref)
    BY <1>8 DEF Pair, Reference
  <2> HIDE DEF a, b
  <2>3. EntriesAt(M, m, a) = EntriesAt(M, k, b)
    BY <1>7, <2>1, <2>2
  <2> QED
    BY <2>3 DEF a, b
<1> QED
  BY <1>6, <1>8 DEF Agree

(* UA_Server_deleteReference in one direction keeps the invariant.         *)
LEMMA DeleteOneWaySound ==
    ASSUME NEW s, NEW n, NEW ref, Sound(s), ref.target \in Ids
    PROVE  Sound(DeleteOneWayReference(s, n, ref))
<1> DEFINE kept == WithoutMatching(NodeAt(s, n).refs, ref)
<1>1. CASE ~Exists(s, n)
  BY <1>1, AnsweringSound DEF DeleteOneWayReference
<1>2. CASE Exists(s, n) /\ kept = NodeAt(s, n).refs
  BY <1>2, AnsweringSound DEF DeleteOneWayReference, Keeping
<1>3. CASE Exists(s, n) /\ kept # NodeAt(s, n).refs
  <2>1. n \in Ids /\ s.nodes[n] # Absent /\ NodeAt(s, n) = s.nodes[n]
    BY <1>3 DEF Exists, NodeAt
  <2>2. IsNode(s.nodes[n])
    BY <2>1 DEF Sound, AreNodes
  <2>3. kept \in Seq(References_) /\ \A other : other # ref => EntriesOf(kept, other) = EntriesOf(s.nodes[n].refs, other)
    BY <2>1, <2>2, WithoutMatchingKeeps DEF IsNode
  <2> DEFINE t == Torn(s, n, ref.target)
             r == DeleteOneWayReference(s, n, ref)
  <2>4. r = [t EXCEPT !.nodes[n] = [@ EXCEPT !.refs = kept, !.dangling = (kept = <<>>)], !.status = "Good"]
    BY <1>3 DEF DeleteOneWayReference, Keeping
  <2> HIDE DEF kept
  <2>5. KeepsRest(s, t) /\ t.nodes = s.nodes /\ t.torn = s.torn \union {Pair(n, ref.target)}
    BY TornFields DEF Sound
  <2> HIDE DEF t
  <2>6. /\ KeepsRest(s, r) /\ r.torn = t.torn
        /\ r.nodes = [s.nodes EXCEPT ![n] = [@ EXCEPT !.refs = kept, !.dangling = (kept = <<>>)]]
    <3>1. PICK M : M = [s.nodes EXCEPT ![n] = [@ EXCEPT !.refs = kept, !.dangling = (kept = <<>>)]]
      OBVIOUS
    <3>2. PICK u : u = [t EXCEPT !.nodes = M, !.status = "Good"]
      OBVIOUS
    <3>3. r = u
      BY <2>4, <2>5, <3>1, <3>2
    <3>4. KeepsRest(s, u) /\ u.torn = t.torn /\ u.nodes = M
      BY <2>5, <3>2 DEF KeepsRest, IsState
    <3> HIDE DEF r
    <3> QED
      BY <3>1, <3>3, <3>4
  <2> HIDE DEF r
  <2>7. IsShrunk(s.nodes, r.nodes, n, kept)
    BY <2>1, <2>6 DEF IsShrunk
  <2>8. AreNodes(r.nodes) /\ Agree(r.nodes, s.torn \union {Pair(n, ref.target)})
    BY <2>3, <2>7, ShrunkAgrees DEF Sound
  <2>9. AreTorn(s.torn \union {Pair(n, ref.target)})
    BY <2>1 DEF Sound, AreTorn
  <2>10. Sound(r)
    BY <2>5, <2>6, <2>8, <2>9 DEF Sound, KeepsRest
  <2> QED
    BY <2>10 DEF r
<1> QED
  BY <1>1, <1>2, <1>3

(* Service_DeleteReferences_single keeps the invariant.                    *)
LEMMA DeleteReferenceSound ==
    ASSUME NEW s, NEW n \in Ids, NEW ref, NEW bidirectional, Sound(s), ref.target \in Ids
    PROVE  Sound(DeleteReference(s, n, ref, bidirectional))
<1> DEFINE first == DeleteOneWayReference(s, n, ref)
<1>1. Sound(first)
  BY DeleteOneWaySound
<1>2. Reference(NullId, ~ref.fwd, n).target \in Ids
  BY DEF Reference
<1> HIDE DEF first
<1>3. Sound(DeleteOneWayReference(first, ref.target, Reference(NullId, ~ref.fwd, n)))
  BY <1>1, <1>2, DeleteOneWaySound
<1> QED
  BY <1>1, <1>3 DEF DeleteReference, first

(* A node without references agrees with every other one.                  *)
LEMMA InsertedAgrees ==
    ASSUME NEW N, NEW M, NEW T, NEW n \in Ids, NEW new, AreNodes(N), Agree(N, T), IsNode(new),
           N[n] = Absent, new.refs = <<>>, M = [N EXCEPT ![n] = new]
    PROVE  AreNodes(M) /\ Agree(M, T)
<1>1. M = [m \in Ids |-> M[m]] /\ \A m \in Ids : M[m] = IF m = n THEN new ELSE N[m]
  BY DEF AreNodes
<1>2. AreNodes(M)
  BY <1>1 DEF AreNodes
<1>3. ASSUME NEW m \in Ids, NEW other PROVE EntriesAt(M, m, other) = EntriesAt(N, m, other)
  <2>1. CASE m = n
    <3>1. EntriesOf(new.refs, other) = 0
      <4>1. new.refs \in Seq(References_) /\ other \notin ToSet(new.refs)
        BY DEF IsNode, ToSet
      <4> QED
        BY <4>1, HasEntries
    <3>2. new # Absent
      BY DEF IsNode, Absent
    <3> QED
      BY <1>1, <2>1, <3>1, <3>2 DEF EntriesAt
  <2>2. CASE m # n
    BY <1>1, <2>2 DEF EntriesAt
  <2> QED
    BY <2>1, <2>2
<1>4. ASSUME NEW m \in Ids, NEW k \in Ids, NEW type \in Ids, NEW fwd \in BOOLEAN, Pair(m, k) \notin T
      PROVE  EntriesAt(M, m, Reference(type, fwd, k)) = EntriesAt(M, k, Reference(type, ~fwd, m))
  <2> DEFINE a == Reference(type, fwd, k)
             b == Reference(type, ~fwd, m)
  <2>1. EntriesAt(N, m, a) = EntriesAt(N, k, b)
    BY <1>4 DEF Agree
  <2> HIDE DEF a, b
  <2>2. EntriesAt(M, m, a) = EntriesAt(N, m, a) /\ EntriesAt(M, k, b) = EntriesAt(N, k, b)
    BY <1>3
  <2>3. EntriesAt(M, m, a) = EntriesAt(M, k, b)
    BY <2>1, <2>2
  <2> QED
    BY <2>3 DEF a, b
<1>5. Agree(M, T)
  BY ONLY <1>4 DEF Agree
<1> QED
  BY <1>2, <1>5

(* UA_NodeStore_insert keeps the invariant.                                *)
LEMMA InsertNodeSound ==
    ASSUME NEW s, NEW id \in Ids \union {NullId}, NEW new, Sound(s), IsNode(new), new.refs = <<>>
    PROVE  Sound(InsertNode(s, id, new))
<1>1. CASE id = NullId \/ FailsAt(s, 1) \/ Exists(s, id)
  BY <1>1, AnsweringSound, TriedSound DEF InsertNode
<1>2. CASE ~(id = NullId \/ FailsAt(s, 1) \/ Exists(s, id))
  <2> DEFINE r == InsertNode(s, id, new)
  <2>1. r = [s EXCEPT !.nodes[id] = new, !.tries = @ + 1, !.status = "Good"]
    BY <1>2 DEF InsertNode
  <2>2. id \in Ids /\ s.nodes[id] = Absent
    BY <1>2 DEF Exists, NodeAt
  <2>3. /\ KeepsRest(s, r) /\ r.torn = s.torn
        /\ r.nodes = [s.nodes EXCEPT ![id] = new]
    BY <2>1 DEF Sound, KeepsRest, IsState
  <2> HIDE DEF r
  <2>4. AreNodes(r.nodes) /\ Agree(r.nodes, s.torn)
    BY <2>2, <2>3, InsertedAgrees DEF Sound
  <2>5. Sound(r)
    BY <2>3, <2>4 DEF Sound, KeepsRest
  <2> QED
    BY <2>5 DEF r
<1> QED
  BY <1>1, <1>2

(* The id that was added is told without another change.                   *)
LEMMA AddedSound ==
    ASSUME NEW s, NEW id, Sound(s)
    PROVE  Sound([s EXCEPT !.added = id]) /\ [s EXCEPT !.added = id].added = id
BY DEF Sound, IsState

(* UA_Server_addExistingNode keeps the invariant; it names a node it added *)
(* or none.                                                                *)
LEMMA AddExistingNodeSound ==
    ASSUME NEW s, NEW item, Sound(s), item.class # "none", item.id \in Ids \union {NullId}
    PROVE  /\ Sound(AddExistingNode(s, item))
           /\ AddExistingNode(s, item).added \in Ids \union {NullId}
<1>1. ASSUME NEW status PROVE Sound(Refused(s, status)) /\ Refused(s, status).added = NullId
  BY AnsweringSound, AddedSound DEF Refused
<1>2. CASE \/ ~Exists(s, item.parent) \/ ~IsClass(s, item.type, "ReferenceType")
           \/ item.type \in Abstract
  BY <1>1, <1>2 DEF AddExistingNode
<1>3. CASE ~(\/ ~Exists(s, item.parent) \/ ~IsClass(s, item.type, "ReferenceType")
             \/ item.type \in Abstract)
  <2> DEFINE id == IdFor(s, item.id)
             inserted == InsertNode(s, id, NewNode(item))
             linked == AddReference(inserted, id, ParentLink(item.type, item.parent))
  <2>1. AddExistingNode(s, item)
            = IF inserted.status # "Good" THEN Refused(s, inserted.status)
              ELSE [Answering(linked, "Good") EXCEPT !.added = id]
    BY <1>3 DEF AddExistingNode, Inserted
  <2>2. id \in Ids \union {NullId}
    <3>1. FreshIds(s) \subseteq Ids
      BY IdAssumption DEF FreshIds
    <3> QED
      BY <3>1 DEF IdFor
  <2>3. IsNode(NewNode(item)) /\ NewNode(item).refs = <<>>
    BY DEF IsNode, NewNode
  <2>4. Sound(inserted)
    <3> HIDE DEF id
    <3> QED
      BY <2>2, <2>3, InsertNodeSound
  <2>5. ParentLink(item.type, item.parent) \in References_
    <3>1. item.parent \in Ids
      BY <1>3 DEF Exists, NodeAt
    <3>2. item.type \in Ids
      BY <1>3 DEF IsClass, NodeAt, Absent
    <3> QED
      BY <3>1, <3>2 DEF ParentLink, Reference, References_
  <2> HIDE DEF id, inserted
  <2>6. Sound(linked)
    BY <2>4, <2>5, AddReferenceSound
  <2> HIDE DEF linked
  <2>7. Sound(Answering(linked, "Good"))
    BY <2>6, AnsweringSound
  <2>8. /\ Sound([Answering(linked, "Good") EXCEPT !.added = id])
        /\ [Answering(linked, "Good") EXCEPT !.added = id].added = id
    BY <2>7, AddedSound
  <2> QED
    BY <1>1, <2>1, <2>2, <2>8
<1> QED
  BY <1>2, <1>3

-----------------------------------------------------------------------------
(***************************************************************************)
(* Browsing: the positions of the relevant references among the first i    *)
(* are defined by recursion on i.                                          *)
(***************************************************************************)
FoundStep(s, d, types, refs, found, i) ==
    IF i = 0 THEN <<>>
    ELSE IF IsRelevant(s, d, types, refs[i]) THEN Append(found[i - 1], i) ELSE found[i - 1]

(* The recursive definition, as a predicate.                               *)
FoundBy(s, d, types, refs, n, f) == f = [k \in 0..n |-> FoundStep(s, d, types, refs, f, k)]

(* There is such a function, the entries found among the first k.          *)
LEMMA FoundExists ==
    ASSUME NEW s, NEW d, NEW types, NEW refs, NEW n \in Nat
    PROVE  \E f : FoundBy(s, d, types, refs, n, f)
<1> DEFINE T == {m \in Nat : ~ \E f : f = [k \in 0..m |-> FoundStep(s, d, types, refs, f, k)]}
<1>1. T = {}
  <2> SUFFICES ASSUME T # {} PROVE FALSE
    OBVIOUS
  <2>1. PICK m \in T : \A k \in T : m <= k
    <3>1. T \subseteq Nat
      OBVIOUS
    <3> HIDE DEF T
    <3> QED
      BY <3>1, LeastElement
  <2>2. m \in Nat
    OBVIOUS
  <2>3. CASE m = 0
    <3> DEFINE f == [k \in 0..0 |-> FoundStep(s, d, types, refs, <<>>, 0)]
    <3>1. \A k \in 0..0 : FoundStep(s, d, types, refs, f, k) = FoundStep(s, d, types, refs, <<>>, 0)
      BY DEF FoundStep
    <3>2. f = [k \in 0..0 |-> FoundStep(s, d, types, refs, f, k)]
      BY <3>1
    <3> HIDE DEF f
    <3> QED
      BY <2>3, <3>2
  <2>4. CASE m # 0
    <3>1. m - 1 \in Nat /\ ~(m <= m - 1)
      BY <2>2, <2>4
    <3>2. m - 1 \notin T
      <4> HIDE DEF T
      <4> QED
        BY <2>1, <3>1
    <3>3. PICK f : f = [k \in 0..(m - 1) |-> FoundStep(s, d, types, refs, f, k)]
      BY <3>1, <3>2
    <3> DEFINE g == [k \in 0..m |-> IF k = m THEN FoundStep(s, d, types, refs, f, m) ELSE f[k]]
    <3>4. \A k \in 0..m : g[k] = FoundStep(s, d, types, refs, g, k)
      <4> SUFFICES ASSUME NEW k \in 0..m PROVE g[k] = FoundStep(s, d, types, refs, g, k)
        OBVIOUS
      <4>1. k # 0 => k - 1 \in 0..m /\ k - 1 # m
        BY <2>2
      <4>2. k # 0 => g[k - 1] = f[k - 1]
        BY <4>1
      <4>3. FoundStep(s, d, types, refs, g, k) = FoundStep(s, d, types, refs, f, k)
        <5> HIDE DEF g
        <5> QED
          BY <4>2 DEF FoundStep
      <4>4. CASE k = m
        BY <4>3, <4>4
      <4>5. CASE k # m
        <5>1. k \in 0..(m - 1)
          BY <2>2, <4>5
        <5>2. f[k] = FoundStep(s, d, types, refs, f, k)
          BY <3>3, <5>1
        <5> QED
          BY <4>3, <4>5, <5>2
      <4> QED
        BY <4>4, <4>5
    <3>5. g = [k \in 0..m |-> g[k]]
      OBVIOUS
    <3> HIDE DEF g
    <3>6. g = [k \in 0..m |-> FoundStep(s, d, types, refs, g, k)]
      BY <3>4, <3>5
    <3> QED
      BY <3>6
  <2> QED
    BY <2>3, <2>4
<1> QED
  BY <1>1 DEF FoundBy

(* Positions among the first i, from the first to the last.                *)
AreFound(at, i) ==
    /\ at \in Seq(1..i) /\ Len(at) <= i
    /\ \A j, k \in 1..Len(at) : j < k => at[j] < at[k]

(* Looking at one more reference keeps that.                               *)
LEMMA FoundOneMore ==
    ASSUME NEW s, NEW d, NEW types, NEW refs, NEW found, NEW i \in Nat, i # 0,
           AreFound(found[i - 1], i - 1)
    PROVE  AreFound(FoundStep(s, d, types, refs, found, i), i)
<1> DEFINE before == found[i - 1]
<1>1. /\ before \in Seq(1..(i - 1)) /\ Len(before) <= i - 1
      /\ \A j, k \in 1..Len(before) : j < k => before[j] < before[k]
  BY DEF AreFound
<1>2. FoundStep(s, d, types, refs, found, i) \in {before, Append(before, i)}
  BY DEF FoundStep
<1> HIDE DEF before
<1>3. Len(before) \in Nat /\ \A j \in 1..Len(before) : before[j] \in 1..(i - 1)
  BY <1>1
<1>4. \A j \in 1..Len(before) : before[j] \in 1..i
  BY <1>3
<1>5. before \in Seq(1..i)
  <2>1. before = [j \in 1..Len(before) |-> before[j]]
    BY <1>1
  <2> QED
    BY <1>3, <1>4, <2>1, IsASeq
<1>6. AreFound(before, i)
  BY <1>1, <1>3, <1>5 DEF AreFound
<1>7. AreFound(Append(before, i), i)
  <2> DEFINE at == Append(before, i)
  <2>1. at \in Seq(1..i) /\ Len(at) = Len(before) + 1 /\ at[Len(before) + 1] = i
        /\ \A j \in 1..Len(before) : at[j] = before[j]
    BY <1>5, AppendProperties
  <2> HIDE DEF at
  <2>2. ASSUME NEW j \in 1..Len(at), NEW k \in 1..Len(at), j < k PROVE at[j] < at[k]
    <3>1. j \in 1..Len(before)
      BY <1>3, <2>1, <2>2
    <3>2. CASE k = Len(before) + 1
      BY <1>3, <2>1, <3>1, <3>2
    <3>3. CASE k # Len(before) + 1
      <4>1. k \in 1..Len(before)
        BY <1>3, <2>1, <3>3
      <4> QED
        BY <1>1, <2>1, <2>2, <3>1, <4>1
    <3> QED
      BY <3>2, <3>3
  <2>3. Len(at) <= i
    BY <1>1, <1>3, <2>1
  <2>4. AreFound(at, i)
    BY <2>1, <2>2, <2>3 DEF AreFound
  <2> QED
    BY <2>4 DEF at
<1> QED
  BY <1>2, <1>6, <1>7

(* The relevant references are found in their order, each once.            *)
LEMMA RelevantAtFound ==
    ASSUME NEW s, NEW d, NodeAt(s, d.node).refs \in Seq(References_)
    PROVE  AreFound(RelevantAt(s, d), Len(NodeAt(s, d.node).refs))
<1> DEFINE refs == NodeAt(s, d.node).refs
           types == RelevantTypes(s, d)
           Is(f) == FoundBy(s, d, types, refs, Len(refs), f)
           found == CHOOSE f : Is(f)
<1>1. Len(refs) \in Nat
  OBVIOUS
<1>2. Is(found)
  <2>1. \E f : Is(f)
    <3> HIDE DEF refs, types
    <3> QED
      BY <1>1, FoundExists
  <2> HIDE DEF Is
  <2> QED
    BY <2>1
<1>3. RelevantAt(s, d) = found[Len(refs)]
  BY DEF RelevantAt, FoundStep, FoundBy
<1> HIDE DEF found, types
<1>4. \A i \in 0..Len(refs) : found[i] = FoundStep(s, d, types, refs, found, i)
  BY <1>2 DEF FoundBy
<1> HIDE DEF Is, refs
<1> DEFINE T == {i \in Nat : i \in 0..Len(refs) /\ ~AreFound(found[i], i)}
<1>5. T = {}
  <2> SUFFICES ASSUME T # {} PROVE FALSE
    OBVIOUS
  <2>1. PICK m \in T : \A k \in T : m <= k
    <3>1. T \subseteq Nat
      OBVIOUS
    <3> HIDE DEF T
    <3> QED
      BY <3>1, LeastElement
  <2>2. m \in Nat /\ m \in 0..Len(refs) /\ ~AreFound(found[m], m)
    OBVIOUS
  <2>3. CASE m = 0
    <3>1. found[0] = <<>>
      BY <1>1, <1>4 DEF FoundStep
    <3>2. AreFound(<<>>, 0)
      BY DEF AreFound
    <3> QED
      BY <2>2, <2>3, <3>1, <3>2
  <2>4. CASE m # 0
    <3>1. m - 1 \in Nat /\ ~(m <= m - 1) /\ m - 1 \in 0..Len(refs)
      BY <1>1, <2>2, <2>4
    <3>2. m - 1 \notin T
      <4> HIDE DEF T
      <4> QED
        BY <2>1, <3>1
    <3>3. AreFound(found[m - 1], m - 1)
      BY <3>1, <3>2
    <3>4. AreFound(FoundStep(s, d, types, refs, found, m), m)
      BY <2>2, <2>4, <3>3, FoundOneMore
    <3> QED
      BY <1>4, <2>2, <3>4
  <2> QED
    BY <2>3, <2>4
<1>6. AreFound(found[Len(refs)], Len(refs))
  BY <1>1, <1>5
<1> QED
  BY <1>3, <1>6 DEF refs

(* References at positions of the array are references, as many as those.  *)
LEMMA ReferencesAtType ==
    ASSUME NEW s, NEW d, NEW at, NodeAt(s, d.node).refs \in Seq(References_),
           at \in Seq(1..Len(NodeAt(s, d.node).refs))
    PROVE  /\ ReferencesAt(s, d, at) \in Seq(References_)
           /\ Len(ReferencesAt(s, d, at)) = Len(at)
           /\ \A j \in 1..Len(at) : ReferencesAt(s, d, at)[j] = NodeAt(s, d.node).refs[at[j]]
<1>1. PICK refs : refs = NodeAt(s, d.node).refs
  OBVIOUS
<1>2. refs \in Seq(References_) /\ at \in Seq(1..Len(refs))
  BY <1>1
<1>3. DOMAIN at = 1..Len(at) /\ Len(at) \in Nat
  BY <1>2
<1>4. ReferencesAt(s, d, at) = [j \in 1..Len(at) |-> refs[at[j]]]
  BY <1>1, <1>3 DEF ReferencesAt
<1>5. \A j \in 1..Len(at) : refs[at[j]] \in References_
  BY <1>2
<1>6. [j \in 1..Len(at) |-> refs[at[j]]] \in Seq(References_)
  BY <1>3, <1>5, IsASeq
<1> QED
  BY <1>1, <1>3, <1>4, <1>6

(* What is asked for is an array of references.                            *)
LEMMA RelevantType ==
    ASSUME NEW s, NEW d, NodeAt(s, d.node).refs \in Seq(References_)
    PROVE  /\ Relevant(s, d) \in Seq(References_)
           /\ Len(Relevant(s, d)) = Len(RelevantAt(s, d))
           /\ \A j \in 1..Len(RelevantAt(s, d)) :
                 Relevant(s, d)[j] = NodeAt(s, d.node).refs[RelevantAt(s, d)[j]]
<1>1. RelevantAt(s, d) \in Seq(1..Len(NodeAt(s, d.node).refs))
  BY RelevantAtFound DEF AreFound
<1> QED
  BY <1>1, ReferencesAtType DEF Relevant

(* A page has what comes next of all there is.  The last one has all that  *)
(* is left, and so has a first one that is not full.                       *)
IsPage(page, all, skip, limit) ==
    /\ page.refs \in Seq(References_)
    /\ skip <= Len(all) =>
          /\ skip + Len(page.refs) <= Len(all)
          /\ \A j \in 1..Len(page.refs) : page.refs[j] = all[skip + j]
          /\ page.last => skip + Len(page.refs) = Len(all)
          /\ skip = 0 /\ (limit = 0 \/ Len(page.refs) < limit) => Len(page.refs) = Len(all)

(* A page is one of the relevant references.                               *)
LEMMA PageFacts ==
    ASSUME NEW s, NEW d, NodeAt(s, d.node).refs \in Seq(References_),
           NEW skip \in Nat, NEW limit \in Nat
    PROVE  IsPage(PageOf(s, d, skip, limit), Relevant(s, d), skip, limit)
<1> DEFINE n == Len(NodeAt(s, d.node).refs)
           max == IF limit = 0 THEN n ELSE Smaller(limit, n)
           all == RelevantAt(s, d)
           end == Smaller(skip + max, Len(all))
           at == SubSeq(all, skip + 1, end)
           page == PageOf(s, d, skip, limit)
<1>1. page.refs = ReferencesAt(s, d, at) /\ page.last = (Len(at) < max \/ (at # <<>> /\ Last(at) = n))
  BY DEF PageOf
<1>2. n \in Nat /\ all \in Seq(1..n) /\ Len(all) <= n
      /\ \A j, k \in 1..Len(all) : j < k => all[j] < all[k]
  BY RelevantAtFound DEF AreFound
<1>3. /\ Relevant(s, d) \in Seq(References_) /\ Len(Relevant(s, d)) = Len(all)
      /\ \A j \in 1..Len(all) : Relevant(s, d)[j] = NodeAt(s, d.node).refs[all[j]]
  BY RelevantType
<1> HIDE DEF all, page
<1>4. max \in Nat /\ (limit = 0 => max = n) /\ (limit # 0 /\ limit <= n => max = limit)
      /\ (limit # 0 /\ n <= limit => max = n)
  <2> HIDE DEF n
  <2> QED
    BY <1>2 DEF Smaller
<1>5. Len(all) \in Nat
  BY <1>2
<1> HIDE DEF max, n
<1>6. end \in Nat /\ end <= Len(all) /\ end <= skip + max /\ (end = Len(all) \/ end = skip + max)
  BY <1>4, <1>5 DEF Smaller
<1> HIDE DEF end
<1>7. /\ at \in Seq(1..n)
      /\ Len(at) = IF skip + 1 <= end THEN end - skip ELSE 0
      /\ \A j \in 1..Len(at) : at[j] = all[skip + j]
  <2>1. \A i \in (skip + 1)..end : all[i] \in 1..n
    BY <1>2, <1>5, <1>6
  <2>2. skip + 1 \in Int /\ end \in Int
    BY <1>6
  <2>3. /\ SubSeq(all, skip + 1, end) \in Seq(1..n)
        /\ Len(SubSeq(all, skip + 1, end)) = IF skip + 1 <= end THEN end - (skip + 1) + 1 ELSE 0
        /\ \A i \in 1..(end - (skip + 1) + 1) : SubSeq(all, skip + 1, end)[i] = all[skip + 1 + i - 1]
    BY <2>1, <2>2, SubSeqProperties
  <2>4. \A i \in 1..Len(at) : i \in 1..(end - (skip + 1) + 1) /\ skip + 1 + i - 1 = skip + i
    BY <1>6, <2>3
  <2>5. Len(at) = IF skip + 1 <= end THEN end - skip ELSE 0
    BY <1>6, <2>3
  <2> HIDE DEF at
  <2>6. at = SubSeq(all, skip + 1, end)
    BY DEF at
  <2> QED
    BY <2>3, <2>4, <2>5, <2>6
<1> HIDE DEF at
<1>8. /\ ReferencesAt(s, d, at) \in Seq(References_)
      /\ Len(ReferencesAt(s, d, at)) = Len(at)
      /\ \A j \in 1..Len(at) : ReferencesAt(s, d, at)[j] = NodeAt(s, d.node).refs[at[j]]
  BY <1>7, ReferencesAtType DEF n
<1>9. page.refs \in Seq(References_) /\ Len(page.refs) = Len(at)
      /\ \A j \in 1..Len(at) : page.refs[j] = NodeAt(s, d.node).refs[at[j]]
  BY <1>1, <1>8
<1>10. ASSUME skip <= Len(all)
       PROVE  /\ skip + Len(at) = end
              /\ \A j \in 1..Len(at) : page.refs[j] = Relevant(s, d)[skip + j]
              /\ page.last => end = Len(all)
              /\ skip = 0 /\ (limit = 0 \/ Len(at) < limit) => end = Len(all)
  <2>1. skip <= end /\ skip + Len(at) = end
    BY <1>4, <1>5, <1>6, <1>7, <1>10
  <2>2. ASSUME NEW j \in 1..Len(at) PROVE page.refs[j] = Relevant(s, d)[skip + j]
    <3>1. skip + j \in 1..Len(all)
      BY <1>5, <1>6, <1>7, <2>1
    <3>2. at[j] = all[skip + j]
      BY <1>7
    <3> QED
      BY <1>3, <1>9, <3>1, <3>2
  <2>3. ASSUME page.last PROVE end = Len(all)
    <3>1. CASE Len(at) < max
      BY <1>4, <1>5, <1>6, <2>1, <3>1
    <3>2. CASE at # <<>> /\ Last(at) = n
      <4>1. Len(at) \in Nat /\ Len(at) # 0 /\ at[Len(at)] = n
        BY <1>7, <3>2 DEF Last
      <4>2. all[end] = n /\ end \in 1..Len(all)
        <5>1. Len(at) \in 1..Len(at) /\ skip + Len(at) = end
          BY <2>1, <4>1
        <5>2. at[Len(at)] = all[skip + Len(at)]
          BY <1>7, <5>1
        <5> QED
          BY <1>5, <1>6, <2>1, <4>1, <5>1, <5>2
      <4>3. ~(end < Len(all))
        <5>1. Len(all) \in 1..Len(all) /\ all[Len(all)] \in 1..n
          BY <1>2, <1>5, <4>2
        <5>2. end < Len(all) => all[end] < all[Len(all)]
          BY <1>2, <4>2, <5>1
        <5> QED
          BY <1>2, <4>2, <5>1, <5>2
      <4> QED
        BY <1>5, <4>2, <4>3
    <3> QED
      BY <1>1, <2>3, <3>1, <3>2
  <2>4. ASSUME skip = 0, limit = 0 \/ Len(at) < limit PROVE end = Len(all)
    BY <1>2, <1>4, <1>5, <1>6, <2>1, <2>4
  <2> QED
    BY <2>1, <2>2, <2>3, <2>4
<1>11. CASE ~(skip <= Len(all))
  BY <1>3, <1>9, <1>11 DEF page, IsPage
<1>12. CASE skip <= Len(all)
  <2> DEFINE relevant == Relevant(s, d)
  <2>1. /\ page.refs \in Seq(References_) /\ Len(page.refs) = Len(at) /\ Len(relevant) = Len(all)
        /\ skip + Len(at) = end /\ end <= Len(all)
        /\ \A j \in 1..Len(at) : page.refs[j] = relevant[skip + j]
        /\ page.last => end = Len(all)
        /\ skip = 0 /\ (limit = 0 \/ Len(at) < limit) => end = Len(all)
    BY <1>3, <1>6, <1>9, <1>10, <1>12
  <2>2. Len(at) \in Nat
    BY <1>7
  <2> HIDE DEF relevant
  <2>3. IsPage(page, relevant, skip, limit)
    BY <2>1, <2>2 DEF IsPage
  <2> QED
    BY <2>3 DEF page, relevant
<1> QED
  BY <1>11, <1>12


-----------------------------------------------------------------------------
(***************************************************************************)
(* Continuation points.                                                    *)
(***************************************************************************)

(* An array of points has them.                                            *)
LEMMA MakesPoints ==
    ASSUME NEW S, NEW seq \in Seq(S), \A i \in 1..Len(seq) : IsPoint(seq[i])
    PROVE  HasPoints(seq)
<1>1. Len(seq) \in Nat /\ DOMAIN seq = 1..Len(seq) /\ seq = [i \in 1..Len(seq) |-> seq[i]]
  OBVIOUS
<1>2. \A i \in 1..Len(seq) : seq[i] \in ToSet(seq)
  BY <1>1 DEF ToSet
<1>3. [i \in 1..Len(seq) |-> seq[i]] \in Seq(ToSet(seq))
  BY <1>1, <1>2, IsASeq
<1> QED
  BY <1>1, <1>3 DEF HasPoints

(* A point may stand in the place of another one.                          *)
LEMMA PutPoint ==
    ASSUME NEW seq, NEW i \in 1..Len(seq), NEW cp, HasPoints(seq), IsPoint(cp)
    PROVE  HasPoints([seq EXCEPT ![i] = cp]) /\ Len([seq EXCEPT ![i] = cp]) = Len(seq)
<1> DEFINE S == ToSet(seq) \union {cp}
<1>1. seq \in Seq(ToSet(seq)) /\ \A j \in 1..Len(seq) : IsPoint(seq[j])
  BY DEF HasPoints
<1>2. seq \in Seq(S) /\ cp \in S
  BY <1>1
<1> HIDE DEF S
<1>3. /\ [seq EXCEPT ![i] = cp] \in Seq(S)
      /\ Len([seq EXCEPT ![i] = cp]) = Len(seq)
      /\ \A j \in 1..Len(seq) : [seq EXCEPT ![i] = cp][j] = IF j = i THEN cp ELSE seq[j]
  BY <1>2, ExceptSeq
<1>4. \A j \in 1..Len([seq EXCEPT ![i] = cp]) : IsPoint([seq EXCEPT ![i] = cp][j])
  BY <1>1, <1>3
<1> QED
  BY <1>3, <1>4, MakesPoints

(* A point may be put before the others.                                   *)
LEMMA AddPoint ==
    ASSUME NEW seq, NEW cp, HasPoints(seq), IsPoint(cp)
    PROVE  /\ HasPoints(<<cp>> \o seq)
           /\ Len(<<cp>> \o seq) = Len(seq) + 1 /\ Len(seq) \in Nat
           /\ (<<cp>> \o seq)[1] = cp
<1> DEFINE S == ToSet(seq) \union {cp}
           one == <<cp>>
<1>1. seq \in Seq(ToSet(seq)) /\ \A j \in 1..Len(seq) : IsPoint(seq[j])
  BY DEF HasPoints
<1>2. seq \in Seq(S) /\ one \in Seq(S) /\ Len(one) = 1 /\ one[1] = cp /\ Len(seq) \in Nat
  BY <1>1
<1> HIDE DEF S, one
<1>3. /\ one \o seq \in Seq(S)
      /\ Len(one \o seq) = 1 + Len(seq)
      /\ \A j \in 1..(1 + Len(seq)) : (one \o seq)[j] = IF j <= 1 THEN one[j] ELSE seq[j - 1]
  <2>1. /\ one \o seq \in Seq(S)
        /\ Len(one \o seq) = Len(one) + Len(seq)
        /\ \A j \in 1..(Len(one) + Len(seq)) :
              (one \o seq)[j] = IF j <= Len(one) THEN one[j] ELSE seq[j - Len(one)]
    BY <1>2, ConcatProperties
  <2> QED
    BY ONLY <1>2, <2>1
<1>4. ASSUME NEW j \in 1..Len(one \o seq) PROVE IsPoint((one \o seq)[j])
  <2>1. CASE j = 1
    BY <1>2, <1>3, <2>1
  <2>2. CASE j # 1
    <3>1. j - 1 \in 1..Len(seq) /\ ~(j <= 1)
      BY <1>2, <1>3, <2>2
    <3> QED
      BY <1>1, <1>3, <3>1
  <2> QED
    BY <2>1, <2>2
<1>5. HasPoints(one \o seq)
  BY <1>3, <1>4, MakesPoints
<1>6. (one \o seq)[1] = cp
  BY <1>2, <1>3
<1> QED
  BY <1>2, <1>3, <1>5, <1>6 DEF one

(* Any point may be removed.                                               *)
LEMMA RemovePoint ==
    ASSUME NEW seq, NEW i \in 1..Len(seq), HasPoints(seq)
    PROVE  HasPoints(RemoveAt(seq, i)) /\ Len(RemoveAt(seq, i)) = Len(seq) - 1 /\ Len(seq) \in Nat
<1> DEFINE before == SubSeq(seq, 1, i - 1)
           behind == SubSeq(seq, i + 1, Len(seq))
           S == ToSet(seq)
<1>1. seq \in Seq(S) /\ \A j \in 1..Len(seq) : IsPoint(seq[j])
  BY DEF HasPoints
<1> HIDE DEF S
<1>2. Len(seq) \in Nat /\ \A j \in 1..Len(seq) : seq[j] \in S
  BY <1>1
<1>3. /\ before \in Seq(S) /\ Len(before) = i - 1
      /\ \A j \in 1..(i - 1) : before[j] = seq[j]
  <2>1. 1 \in Int /\ i - 1 \in Int /\ \A j \in 1..(i - 1) : seq[j] \in S
    BY <1>2
  <2>2. /\ SubSeq(seq, 1, i - 1) \in Seq(S)
        /\ Len(SubSeq(seq, 1, i - 1)) = IF 1 <= i - 1 THEN (i - 1) - 1 + 1 ELSE 0
        /\ \A j \in 1..((i - 1) - 1 + 1) : SubSeq(seq, 1, i - 1)[j] = seq[1 + j - 1]
    BY <2>1, SubSeqProperties
  <2> QED
    BY <1>2, <2>2
<1>4. /\ behind \in Seq(S) /\ Len(behind) = Len(seq) - i
      /\ \A j \in 1..(Len(seq) - i) : behind[j] = seq[i + j]
  <2>1. i + 1 \in Int /\ Len(seq) \in Int /\ \A j \in (i + 1)..Len(seq) : seq[j] \in S
    BY <1>2
  <2>2. /\ SubSeq(seq, i + 1, Len(seq)) \in Seq(S)
        /\ Len(SubSeq(seq, i + 1, Len(seq))) = IF i + 1 <= Len(seq) THEN Len(seq) - (i + 1) + 1 ELSE 0
        /\ \A j \in 1..(Len(seq) - (i + 1) + 1) : SubSeq(seq, i + 1, Len(seq))[j] = seq[(i + 1) + j - 1]
    BY <2>1, SubSeqProperties
  <2>3. Len(seq) - (i + 1) + 1 = Len(seq) - i /\ \A j \in 1..(Len(seq) - i) : (i + 1) + j - 1 = i + j
    BY <1>2
  <2>4. (IF i + 1 <= Len(seq) THEN Len(seq) - (i + 1) + 1 ELSE 0) = Len(seq) - i
    BY <1>2
  <2> QED
    BY ONLY <2>2, <2>3, <2>4
<1> HIDE DEF before, behind
<1>5. /\ before \o behind \in Seq(S)
      /\ Len(before \o behind) = Len(before) + Len(behind)
      /\ \A j \in 1..(Len(before) + Len(behind)) :
            (before \o behind)[j] = IF j <= Len(before) THEN before[j] ELSE behind[j - Len(before)]
  BY <1>3, <1>4, ConcatProperties
<1>6. Len(before \o behind) = Len(seq) - 1
  BY <1>2, <1>3, <1>4, <1>5
<1>7. ASSUME NEW j \in 1..Len(before \o behind) PROVE IsPoint((before \o behind)[j])
  <2>1. CASE j <= i - 1
    <3>1. j \in 1..(i - 1) /\ j \in 1..Len(seq)
      BY <1>2, <1>6, <2>1
    <3>2. (before \o behind)[j] = before[j]
      BY <1>3, <1>5, <2>1
    <3> QED
      BY <1>1, <1>3, <3>1, <3>2
  <2>2. CASE ~(j <= i - 1)
    <3>1. j - (i - 1) \in 1..(Len(seq) - i) /\ i + (j - (i - 1)) \in 1..Len(seq)
      BY <1>2, <1>6, <2>2
    <3>2. (before \o behind)[j] = behind[j - (i - 1)]
      BY <1>3, <1>5, <2>2
    <3> QED
      BY <1>1, <1>4, <3>1, <3>2
  <2> QED
    BY <2>1, <2>2
<1>8. HasPoints(before \o behind)
  BY <1>5, <1>7, MakesPoints
<1>9. RemoveAt(seq, i) = before \o behind
  BY DEF RemoveAt, before, behind
<1> QED
  BY <1>2, <1>6, <1>8, <1>9

(* The points Q and what is left B are P and A but for one session.        *)
IsOther(P, A, Q, B, sess, seq, left) ==
    Q = [P EXCEPT ![sess] = seq] /\ B = [A EXCEPT ![sess] = left]

(* A session may have other points, when as many as it has are counted.    *)
LEMMA OtherPoints ==
    ASSUME NEW P, NEW A, NEW Q, NEW B, NEW sess \in Sessions, NEW seq, NEW left \in Nat,
           ArePoints(P, A), IsOther(P, A, Q, B, sess, seq, left),
           HasPoints(seq), left + Len(seq) = MaxPoints
    PROVE  ArePoints(Q, B)
<1> DEFINE All == Sessions \union {Admin}
<1>1. P = [other \in All |-> P[other]] /\ A = [other \in All |-> A[other]]
  BY DEF ArePoints
<1>2. Q = [other \in All |-> Q[other]] /\ B = [other \in All |-> B[other]]
  BY <1>1 DEF IsOther
<1>3. /\ \A other \in All : Q[other] = IF other = sess THEN seq ELSE P[other]
      /\ \A other \in All : B[other] = IF other = sess THEN left ELSE A[other]
  BY <1>1 DEF IsOther
<1>4. Q[Admin] = <<>> /\ B[Admin] = 0
  <2>1. Admin # sess
    BY IdAssumption
  <2> QED
    BY <1>3, <2>1 DEF ArePoints
<1>5. ASSUME NEW other \in Sessions
      PROVE  B[other] \in Nat /\ B[other] + Len(Q[other]) = MaxPoints /\ HasPoints(Q[other])
  <2>1. CASE other = sess
    <3>1. Q[other] = seq /\ B[other] = left
      BY <1>3, <2>1
    <3> QED
      BY <3>1
  <2>2. CASE other # sess
    <3>1. Q[other] = P[other] /\ B[other] = A[other]
      BY <1>3, <2>2
    <3> QED
      BY <3>1 DEF ArePoints
  <2> QED
    BY <2>1, <2>2
<1> QED
  BY <1>2, <1>4, <1>5 DEF ArePoints

(* Nothing else changes in the state.                                      *)
IsOtherState(s, r, sess, seq, left, status) ==
    r = [s EXCEPT !.points[sess] = seq, !.avail[sess] = left, !.status = status]

(* The fields of such a state, one by one.                                 *)
LEMMA OtherPointsFields ==
    ASSUME NEW s, NEW r, NEW sess, NEW seq, NEW left, NEW status, IsState(s),
           IsOtherState(s, r, sess, seq, left, status)
    PROVE  /\ IsState(r)
           /\ r.nodes = s.nodes /\ r.torn = s.torn /\ r.alive = s.alive /\ r.status = status
           /\ IsOther(s.points, s.avail, r.points, r.avail, sess, seq, left)
<1>1. PICK P : P = [s.points EXCEPT ![sess] = seq]
  OBVIOUS
<1>2. PICK A : A = [s.avail EXCEPT ![sess] = left]
  OBVIOUS
<1>3. PICK t : t = [s EXCEPT !.points = P, !.avail = A, !.status = status]
  OBVIOUS
<1>4. t = r
  BY <1>1, <1>2, <1>3 DEF IsOtherState
<1>5. t = [nodes |-> s.nodes, points |-> P, avail |-> A, alive |-> s.alive,
           torn |-> s.torn, status |-> status, fails |-> s.fails, tries |-> s.tries, luck |-> s.luck,
           added |-> s.added]
  BY <1>3 DEF IsState
<1> QED
  BY ONLY <1>1, <1>2, <1>4, <1>5 DEF IsState, IsOther

(* What a browse that is not refused begins with.                          *)
LEMMA BrowseGood ==
    ASSUME NEW s, NEW d, Sound(s), BrowseStatus(s, d) = "Good"
    PROVE  NodeAt(s, d.node).refs \in Seq(References_)
<1>1. Exists(s, d.node)
  BY DEF BrowseStatus
<1>2. d.node \in Ids /\ NodeAt(s, d.node) = s.nodes[d.node] /\ s.nodes[d.node] # Absent
  BY <1>1 DEF Exists, NodeAt
<1> QED
  BY <1>2 DEF Sound, AreNodes, IsNode

(* The first point of a session was made by this browse.                   *)
IsNewPoint(s, r, sess, d, limit, refs) ==
    /\ sess \in Sessions
    /\ Len(refs) >= limit /\ limit \in Nat \ {0}
    /\ r.points = [s.points EXCEPT ![sess] =
          <<[descr |-> d, max |-> limit, index |-> Len(refs), told |-> FALSE,
             given |-> <<>>, all |-> <<>>, intact |-> FALSE]>> \o @]
    /\ r.avail = [s.avail EXCEPT ![sess] = @ - 1]
    /\ r.points[sess] # <<>>

(* Service_Browse_single keeps the invariant; it gives the references that *)
(* were asked for from the first on, all of them when it is not refused    *)
(* and makes no point.                                                     *)
LEMMA BrowseSound ==
    ASSUME NEW s, NEW sess \in Sessions \union {Admin}, NEW d, NEW limit \in Nat, Sound(s)
    PROVE  /\ Sound(Browse(s, sess, d, limit).state)
           /\ Browse(s, sess, d, limit).refs \in Seq(References_)
           /\ Browse(s, sess, d, limit).more \in BOOLEAN
           /\ Browse(s, sess, d, limit).state.status = "Good" =>
                 /\ Begins(Browse(s, sess, d, limit).refs, Relevant(s, d))
                 /\ ~Browse(s, sess, d, limit).more =>
                       Len(Browse(s, sess, d, limit).refs) = Len(Relevant(s, d))
           /\ Browse(s, sess, d, limit).more =>
                 /\ Browse(s, sess, d, limit).state.status = "Good"
                 /\ IsNewPoint(s, Browse(s, sess, d, limit).state, sess, d, limit,
                               Browse(s, sess, d, limit).refs)
<1> DEFINE b == Browse(s, sess, d, limit)
           status == BrowseStatus(s, d)
           page == PageOf(s, d, 0, limit)
<1> SUFFICES /\ Sound(b.state) /\ b.refs \in Seq(References_) /\ b.more \in BOOLEAN
             /\ b.state.status = "Good" =>
                   /\ Begins(b.refs, Relevant(s, d))
                   /\ ~b.more => Len(b.refs) = Len(Relevant(s, d))
             /\ b.more => b.state.status = "Good" /\ IsNewPoint(s, b.state, sess, d, limit, b.refs)
  OBVIOUS
<1>1. CASE status # "Good"
  <2>1. b = [state |-> Answering(s, status), refs |-> <<>>, more |-> FALSE]
    BY <1>1 DEF Browse
  <2>2. Answering(s, status).status = status
    BY AnsweringFields DEF Sound
  <2> HIDE DEF b, status
  <2> QED
    BY <1>1, <2>1, <2>2, AnsweringSound
<1>2. CASE status = "Good" /\ NodeAt(s, d.node).refs = <<>>
  <2>1. b = [state |-> Answering(s, "Good"), refs |-> <<>>, more |-> FALSE]
    BY <1>2 DEF Browse
  <2>2. AreFound(RelevantAt(s, d), 0) /\ NodeAt(s, d.node).refs \in Seq(References_)
    <3>1. NodeAt(s, d.node).refs \in Seq(References_)
      BY <1>2, BrowseGood
    <3>2. Len(NodeAt(s, d.node).refs) = 0
      BY <1>2
    <3> QED
      BY <3>1, <3>2, RelevantAtFound
  <2>3. Len(Relevant(s, d)) = 0 /\ Relevant(s, d) \in Seq(References_)
    BY <2>2, RelevantType DEF AreFound
  <2>4. Begins(<<>>, Relevant(s, d)) /\ Len(<<>>) = Len(Relevant(s, d))
    BY <2>3 DEF Begins
  <2> HIDE DEF b
  <2> QED
    BY <2>1, <2>4, AnsweringSound
<1>3. CASE status = "Good" /\ NodeAt(s, d.node).refs # <<>>
  <2>1. b = Browsed(s, sess, d, limit, page)
    BY <1>3 DEF Browse
  <2>2. NodeAt(s, d.node).refs \in Seq(References_)
    BY <1>3, BrowseGood
  <2>3. Relevant(s, d) \in Seq(References_)
    BY <2>2, RelevantType
  <2>4. /\ page.refs \in Seq(References_)
        /\ 0 <= Len(Relevant(s, d)) =>
              /\ 0 + Len(page.refs) <= Len(Relevant(s, d))
              /\ \A j \in 1..Len(page.refs) : page.refs[j] = Relevant(s, d)[0 + j]
              /\ page.last => 0 + Len(page.refs) = Len(Relevant(s, d))
              /\ 0 = 0 /\ (limit = 0 \/ Len(page.refs) < limit) => Len(page.refs) = Len(Relevant(s, d))
    <3>1. 0 \in Nat
      OBVIOUS
    <3>2. IsPage(page, Relevant(s, d), 0, limit)
      BY <2>2, <3>1, PageFacts
    <3> HIDE DEF page
    <3> QED
      BY <3>2 DEF IsPage
  <2> HIDE DEF b, page, status
  <2>5. Len(page.refs) \in Nat /\ Len(Relevant(s, d)) \in Nat
    BY <2>3, <2>4
  <2>6. Begins(page.refs, Relevant(s, d))
    <3>1. \A j \in 1..Len(page.refs) : 0 + j = j
      OBVIOUS
    <3> QED
      BY <2>3, <2>4, <2>5, <3>1 DEF Begins
  <2>7. CASE Undescribed(s, page)
    <3>1. b = [state |-> Answering(s, "Uncertain"), refs |-> <<>>, more |-> FALSE]
      BY <2>1, <2>7 DEF Browsed
    <3>2. Answering(s, "Uncertain").status # "Good"
      BY AnsweringFields DEF Sound
    <3> QED
      BY <3>1, <3>2, AnsweringSound
  <2>10. CASE ~Undescribed(s, page) /\ ~PageIsFull(page, limit)
    <3>1. b = [state |-> Answering(s, "Good"), refs |-> page.refs, more |-> FALSE]
      BY <2>1, <2>10 DEF Browsed
    <3>2. Len(page.refs) = Len(Relevant(s, d))
      BY <2>4, <2>5, <2>10 DEF PageIsFull
    <3> QED
      BY <2>4, <2>6, <3>1, <3>2, AnsweringSound
  <2>8. CASE ~Undescribed(s, page) /\ PageIsFull(page, limit) /\ (s.avail[sess] = 0 \/ FailsAt(s, 4))
    <3>1. b = [state |-> Answering(s, "BadNoContinuationPoints"), refs |-> page.refs, more |-> FALSE]
      BY <2>1, <2>8 DEF Browsed
    <3>2. Answering(s, "BadNoContinuationPoints").status # "Good"
      BY AnsweringFields DEF Sound
    <3> QED
      BY <2>4, <3>1, <3>2, AnsweringSound
  <2>9. CASE ~Undescribed(s, page) /\ PageIsFull(page, limit) /\ s.avail[sess] # 0 /\ ~FailsAt(s, 4)
    <3> DEFINE r == [s EXCEPT !.points[sess] = <<NewPoint(d, limit, page)>> \o @,
                              !.avail[sess] = @ - 1, !.status = "Good"]
               cp == NewPoint(d, limit, page)
               seq == <<cp>> \o s.points[sess]
               left == s.avail[sess] - 1
    <3>1. b = [state |-> r, refs |-> page.refs, more |-> TRUE]
      BY <2>1, <2>9 DEF Browsed
    <3>2. sess \in Sessions
      BY <2>9 DEF Sound, ArePoints
    <3>3. Len(page.refs) >= limit /\ limit \in Nat \ {0}
      BY <2>9 DEF PageIsFull
    <3>4. IsPoint(cp) /\ cp = [descr |-> d, max |-> limit, index |-> Len(page.refs), told |-> FALSE,
                               given |-> <<>>, all |-> <<>>, intact |-> FALSE]
      BY <2>5, <3>3 DEF IsPoint, NewPoint
    <3>5. HasPoints(s.points[sess]) /\ s.avail[sess] \in Nat
          /\ s.avail[sess] + Len(s.points[sess]) = MaxPoints
      BY <3>2 DEF Sound, ArePoints
    <3>6. /\ r.nodes = s.nodes /\ r.torn = s.torn /\ r.alive = s.alive /\ r.status = "Good"
          /\ IsState(r) /\ IsOther(s.points, s.avail, r.points, r.avail, sess, seq, left)
      <4> HIDE DEF seq, left, cp
      <4>1. r = [s EXCEPT !.points[sess] = seq, !.avail[sess] = left, !.status = "Good"]
        BY DEF seq, left, cp
      <4>2. IsState(s) /\ IsOtherState(s, r, sess, seq, left, "Good")
        BY <4>1 DEF IsOtherState, Sound
      <4> HIDE DEF r
      <4> QED
        BY <4>2, OtherPointsFields
    <3> HIDE DEF r, cp
    <3>7. HasPoints(seq) /\ Len(seq) = Len(s.points[sess]) + 1 /\ Len(s.points[sess]) \in Nat
      BY <3>4, <3>5, AddPoint
    <3>8. left \in Nat /\ left + Len(seq) = MaxPoints
      <4>1. PICK a, l : a = s.avail[sess] /\ l = Len(s.points[sess])
        OBVIOUS
      <4> HIDE DEF seq
      <4>2. a \in Nat /\ a # 0 /\ l \in Nat /\ a + l = MaxPoints /\ Len(seq) = l + 1
        BY ONLY <2>9, <3>5, <3>7, <4>1
      <4>3. a - 1 \in Nat /\ (a - 1) + (l + 1) = MaxPoints
        BY ONLY <4>2
      <4> QED
        BY ONLY <4>1, <4>2, <4>3
    <3>9. r.points = [s.points EXCEPT ![sess] = <<cp>> \o @]
          /\ r.avail = [s.avail EXCEPT ![sess] = @ - 1]
      BY <3>6 DEF IsOther
    <3>10. ArePoints(r.points, r.avail)
      <4> HIDE DEF seq, left
      <4> QED
        BY <3>2, <3>6, <3>7, <3>8, OtherPoints DEF Sound
    <3>11. Sound(r)
      BY <3>6, <3>10 DEF Sound
    <3>12. r.points[sess] # <<>>
      <4>1. r.points[sess] = seq
        BY <3>2, <3>9 DEF Sound, ArePoints
      <4>2. Len(seq) # 0
        <5> HIDE DEF seq
        <5> QED
          BY <3>7
      <4> HIDE DEF seq
      <4>3. Len(<<>>) = 0
        OBVIOUS
      <4> QED
        BY <4>1, <4>2, <4>3
    <3>13. IsNewPoint(s, r, sess, d, limit, page.refs)
      BY <3>2, <3>3, <3>4, <3>9, <3>12 DEF IsNewPoint
    <3> QED
      BY <2>4, <2>6, <3>1, <3>6, <3>11, <3>13
  <2> QED
    BY <2>7, <2>8, <2>9, <2>10
<1> QED
  BY <1>1, <1>2, <1>3

-----------------------------------------------------------------------------
(***************************************************************************)
(* Instantiation: what is on the stack is about references.                *)
(***************************************************************************)
HasTasks(seq) ==
    /\ seq \in Seq(ToSet(seq))
    /\ \A i \in 1..Len(seq) : seq[i].ref \in References_
IsWork(w) == Sound(w.s) /\ HasTasks(w.todo)

(* An array of tasks about references has them.                            *)
LEMMA MakesTasks ==
    ASSUME NEW S, NEW seq \in Seq(S), \A i \in 1..Len(seq) : seq[i].ref \in References_
    PROVE  HasTasks(seq)
<1>1. Len(seq) \in Nat /\ DOMAIN seq = 1..Len(seq) /\ seq = [i \in 1..Len(seq) |-> seq[i]]
  OBVIOUS
<1>2. \A i \in 1..Len(seq) : seq[i] \in ToSet(seq)
  BY <1>1 DEF ToSet
<1>3. [i \in 1..Len(seq) |-> seq[i]] \in Seq(ToSet(seq))
  BY <1>1, <1>2, IsASeq
<1> QED
  BY <1>1, <1>3 DEF HasTasks

(* So does nothing.                                                        *)
LEMMA NoTasks == HasTasks(<<>>)
BY DEF HasTasks

(* Tasks for each of some references.                                      *)
LEMMA TasksForEach ==
    ASSUME NEW op, NEW n, NEW class, NEW refs \in Seq(References_)
    PROVE  HasTasks(Tasks(op, n, class, refs))
<1> DEFINE seq == [i \in 1..Len(refs) |-> Task(op, n, class, refs[i])]
           S == {Task(op, n, class, ref) : ref \in References_}
<1>1. Len(refs) \in Nat /\ DOMAIN refs = 1..Len(refs) /\ \A i \in 1..Len(refs) : refs[i] \in References_
  OBVIOUS
<1>2. Tasks(op, n, class, refs) = seq
  BY <1>1 DEF Tasks
<1>3. \A i \in 1..Len(refs) : Task(op, n, class, refs[i]) \in S
  BY <1>1
<1>4. seq \in Seq(S)
  <2> HIDE DEF S
  <2> QED
    BY <1>1, <1>3, IsASeq
<1>5. Len(seq) = Len(refs)
  BY <1>1
<1>6. \A i \in 1..Len(seq) : seq[i].ref \in References_
  <2> SUFFICES ASSUME NEW i \in 1..Len(seq) PROVE seq[i].ref \in References_
    OBVIOUS
  <2>1. i \in 1..Len(refs)
    BY <1>5
  <2>2. seq[i] = Task(op, n, class, refs[i])
    BY <2>1
  <2>3. Task(op, n, class, refs[i]).ref = refs[i]
    BY DEF Task
  <2> QED
    BY <1>1, <2>1, <2>2, <2>3
<1> HIDE DEF seq
<1> QED
  BY <1>2, <1>4, <1>6, MakesTasks

(* One task after another, and one array after another.                    *)
LEMMA JoinTasks ==
    ASSUME NEW a, NEW b, HasTasks(a), HasTasks(b)
    PROVE  HasTasks(a \o b)
<1> DEFINE S == ToSet(a) \union ToSet(b)
<1>1. /\ a \in Seq(ToSet(a)) /\ \A i \in 1..Len(a) : a[i].ref \in References_
      /\ b \in Seq(ToSet(b)) /\ \A i \in 1..Len(b) : b[i].ref \in References_
  BY DEF HasTasks
<1>2. a \in Seq(S) /\ b \in Seq(S) /\ Len(a) \in Nat /\ Len(b) \in Nat
  BY <1>1
<1> HIDE DEF S
<1>3. /\ a \o b \in Seq(S) /\ Len(a \o b) = Len(a) + Len(b)
      /\ \A i \in 1..(Len(a) + Len(b)) : (a \o b)[i] = IF i <= Len(a) THEN a[i] ELSE b[i - Len(a)]
  BY <1>2, ConcatProperties
<1>4. ASSUME NEW i \in 1..Len(a \o b) PROVE (a \o b)[i].ref \in References_
  <2>1. CASE i <= Len(a)
    <3>1. i \in 1..Len(a) /\ (a \o b)[i] = a[i]
      BY <1>2, <1>3, <2>1
    <3> QED
      BY <1>1, <3>1
  <2>2. CASE ~(i <= Len(a))
    <3>1. i - Len(a) \in 1..Len(b) /\ (a \o b)[i] = b[i - Len(a)]
      BY <1>2, <1>3, <2>2
    <3> QED
      BY <1>1, <3>1
  <2> QED
    BY <2>1, <2>2
<1> QED
  BY <1>3, <1>4, MakesTasks

(* The first task is about a reference, and so are the others.             *)
LEMMA SplitTasks ==
    ASSUME NEW seq, HasTasks(seq), seq # <<>>
    PROVE  Head(seq).ref \in References_ /\ HasTasks(Tail(seq))
<1> DEFINE S == ToSet(seq)
<1>1. seq \in Seq(S) /\ \A i \in 1..Len(seq) : seq[i].ref \in References_
  BY DEF HasTasks
<1> HIDE DEF S
<1>2. /\ Tail(seq) \in Seq(S) /\ Len(Tail(seq)) = Len(seq) - 1 /\ Len(seq) \in Nat
      /\ \A i \in 1..Len(Tail(seq)) : Tail(seq)[i] = seq[i + 1]
  BY <1>1, HeadTailProperties
<1>3. \A i \in 1..Len(Tail(seq)) : i + 1 \in 1..Len(seq)
  BY <1>2
<1>4. HasTasks(Tail(seq))
  BY <1>1, <1>2, <1>3, MakesTasks
<1>5. Head(seq) = seq[1] /\ 1 \in 1..Len(seq)
  BY <1>1
<1> QED
  BY <1>1, <1>4, <1>5

(* The link to a type is a reference.                                      *)
LEMMA TypeLinkIsReference ==
    ASSUME NEW type \in Ids
    PROVE  TypeLink(type) \in References_
BY IdAssumption DEF TypeLink, Reference, References_

(* Adding a reference leaves no tasks.                                     *)
LEMMA LinkedIsWork ==
    ASSUME NEW s, NEW n, NEW ref \in References_, Sound(s)
    PROVE  IsWork(Linked(s, n, ref))
BY AddReferenceSound, NoTasks DEF Linked, Work, IsWork

(* copyExistingObject and copyExistingVariable keep the invariant.         *)
LEMMA CopyExistingIsWork ==
    ASSUME NEW s, NEW n, NEW ref, Sound(s), NodeAt(s, ref.target).class \in {"Object", "Variable"}
    PROVE  IsWork(CopyExisting(s, n, ref))
<1> DEFINE original == NodeAt(s, ref.target)
           item == [id |-> NullId, class |-> original.class,
                    name |-> original.name, type |-> ref.type, parent |-> n]
           copied == AddExistingNode(s, item)
           todo == Tasks("instantiate", copied.added, original.class, original.refs)
<1>1. original.refs \in Seq(References_)
  <2>1. original # Absent
    BY DEF Absent
  <2> QED
    BY <2>1 DEF NodeAt, Sound, AreNodes, IsNode
<1>2. item.class # "none" /\ item.id \in Ids \union {NullId}
  BY DEF item
<1>3. CopyExisting(s, n, ref) = Work(copied, todo)
  BY DEF CopyExisting
<1> HIDE DEF item
<1>4. Sound(copied)
  BY <1>2, AddExistingNodeSound
<1> HIDE DEF copied, original
<1>5. HasTasks(todo)
  BY <1>1, TasksForEach
<1> HIDE DEF todo
<1> QED
  BY <1>3, <1>4, <1>5 DEF IsWork, Work

(* The beginning of instantiateObjectNode and instantiateVariableNode.     *)
LEMMA BegunIsWork ==
    ASSUME NEW s, NEW sess \in Sessions \union {Admin}, NEW n, NEW class, NEW type,
           Sound(s), TypeStatus(s, class, type) = "Good"
    PROVE  IsWork(Begun(s, sess, n, class, type))
<1> DEFINE d == ChildrenOf(type, class)
           browsed == Browse(s, sess, d, BrowseLimit)
           adding == Tasks("add", n, class, browsed.refs)
           linking == <<Task("link", n, class, TypeLink(type))>>
<1>1. Begun(s, sess, n, class, type) 
           = Work(Tried(browsed.state, BrowseTries), adding \o linking)
  BY DEF Begun
<1>2. type \in Ids
  <2>1. Exists(s, type)
    BY DEF TypeStatus
  <2> QED
    BY <2>1 DEF Exists, NodeAt
<1>3. HasTasks(linking)
  <2> DEFINE task == Task("link", n, class, TypeLink(type))
  <2>1. task.ref \in References_
    BY <1>2, TypeLinkIsReference DEF Task
  <2> HIDE DEF task
  <2>2. <<task>> \in Seq({task}) /\ Len(<<task>>) = 1 /\ <<task>>[1] = task
    OBVIOUS
  <2>3. \A i \in 1..Len(<<task>>) : <<task>>[i].ref \in References_
    BY <2>1, <2>2
  <2>4. HasTasks(<<task>>)
    BY <2>2, <2>3, MakesTasks
  <2> QED
    BY <2>4 DEF task
<1> HIDE DEF d
<1>4. Sound(browsed.state) /\ browsed.refs \in Seq(References_)
  BY BoundAssumption, BrowseSound
<1> HIDE DEF browsed
<1>5. HasTasks(adding)
  BY <1>4, TasksForEach
<1> HIDE DEF adding, linking
<1>6. HasTasks(adding \o linking)
  BY <1>3, <1>5, JoinTasks
<1> QED
  BY <1>1, <1>4, <1>6, TriedSound DEF IsWork, Work

(* Whatever task is done leaves a sound state.                             *)
LEMMA DoneIsWork ==
    ASSUME NEW s, NEW sess \in Sessions \union {Admin}, NEW task, Sound(s), task.ref \in References_
    PROVE  IsWork(Done(s, sess, task))
<1>1. IsWork(Work(s, <<>>))
  BY NoTasks DEF IsWork, Work
<1>2. IsWork(Linked(s, task.node, task.ref))
  BY LinkedIsWork
<1>3. IsWork(AddChild(s, task.node, task.ref))
  <2> DEFINE n == task.node
             ref == task.ref
  <2>1. CASE IsClass(s, ref.target, "Method")
    <3>1. AddChild(s, n, ref) = Linked(s, n, ref)
      BY <2>1 DEF AddChild, IsClass
    <3> QED
      BY <1>2, <3>1
  <2>2. CASE NodeAt(s, ref.target).class \in {"Object", "Variable"}
    <3>1. AddChild(s, n, ref) = CopyExisting(s, n, ref)
      BY <2>2 DEF AddChild, IsClass
    <3>2. IsWork(CopyExisting(s, n, ref))
      <4> HIDE DEF n, ref
      <4> QED
        BY <2>2, CopyExistingIsWork
    <3> QED
      BY <3>1, <3>2
  <2>3. CASE ~IsClass(s, ref.target, "Method") /\ NodeAt(s, ref.target).class \notin {"Object", "Variable"}
    <3>1. AddChild(s, n, ref) = Work(s, <<>>)
      BY <2>3 DEF AddChild
    <3> QED
      BY <1>1, <3>1
  <2> QED
    BY <2>1, <2>2, <2>3
<1>4. CASE task.op = "add"
  BY <1>3, <1>4 DEF Done
<1>5. CASE task.op = "link"
  BY <1>2, <1>5 DEF Done
<1>6. CASE task.op # "add" /\ task.op # "link"
  <2> DEFINE type == task.ref.target
  <2>1. CASE IsTypeDefinition(task.ref) /\ TypeStatus(s, task.class, type) = "Good"
    <3>1. Done(s, sess, task) = Begun(s, sess, task.node, task.class, type)
      BY <1>6, <2>1 DEF Done
    <3>2. IsWork(Begun(s, sess, task.node, task.class, type))
      <4> HIDE DEF type
      <4> QED
        BY <2>1, BegunIsWork
    <3> QED
      BY <3>1, <3>2
  <2>2. CASE ~(IsTypeDefinition(task.ref) /\ TypeStatus(s, task.class, type) = "Good")
    <3>1. Done(s, sess, task) = Work(s, <<>>)
      BY <1>6, <2>2 DEF Done
    <3> QED
      BY <1>1, <3>1
  <2> QED
    BY <2>1, <2>2
<1> QED
  BY <1>4, <1>5, <1>6

(* Going on with the work keeps it sound.                                  *)
LEMMA GoOnIsWork ==
    ASSUME NEW w, NEW sess \in Sessions \union {Admin}, IsWork(w)
    PROVE  IsWork(GoOn(w, sess))
<1>1. CASE w.todo = <<>>
  BY <1>1 DEF GoOn
<1>2. CASE w.todo # <<>>
  <2> DEFINE done == Done(w.s, sess, Head(w.todo))
             rest == Tail(w.todo)
  <2>1. Head(w.todo).ref \in References_ /\ HasTasks(rest)
    BY <1>2, SplitTasks DEF IsWork
  <2>2. IsWork(done)
    BY <2>1, DoneIsWork DEF IsWork
  <2>3. GoOn(w, sess) = Work(done.s, done.todo \o rest)
    BY <1>2 DEF GoOn, Continued
  <2> HIDE DEF done, rest
  <2>4. HasTasks(done.todo \o rest)
    BY <2>1, <2>2, JoinTasks DEF IsWork
  <2> QED
    BY <2>2, <2>3, <2>4 DEF IsWork, Work
<1> QED
  BY <1>1, <1>2

(* The work after k tasks is defined by recursion on k.                    *)
WorkStep(s, sess, n, class, type, work, k) ==
    IF k = 0 THEN Begun(s, sess, n, class, type) ELSE GoOn(work[k - 1], sess)

(* The recursive definition, as a predicate.                               *)
WorkBy(s, sess, node, class, type, n, f) == f = [k \in 0..n |-> WorkStep(s, sess, node, class, type, f, k)]

(* There is such a function, the work after each task.                     *)
LEMMA WorkExists ==
    ASSUME NEW s, NEW sess, NEW node, NEW class, NEW type, NEW n \in Nat
    PROVE  \E f : WorkBy(s, sess, node, class, type, n, f)
<1> DEFINE T == {m \in Nat : ~ \E f : f = [k \in 0..m |-> WorkStep(s, sess, node, class, type, f, k)]}
<1>1. T = {}
  <2> SUFFICES ASSUME T # {} PROVE FALSE
    OBVIOUS
  <2>1. PICK m \in T : \A k \in T : m <= k
    <3>1. T \subseteq Nat
      OBVIOUS
    <3> HIDE DEF T
    <3> QED
      BY <3>1, LeastElement
  <2>2. m \in Nat
    OBVIOUS
  <2>3. CASE m = 0
    <3> DEFINE f == [k \in 0..0 |-> WorkStep(s, sess, node, class, type, <<>>, 0)]
    <3>1. \A k \in 0..0 : WorkStep(s, sess, node, class, type, f, k) = WorkStep(s, sess, node, class, type, <<>>, 0)
      BY DEF WorkStep
    <3>2. f = [k \in 0..0 |-> WorkStep(s, sess, node, class, type, f, k)]
      BY <3>1
    <3> HIDE DEF f
    <3> QED
      BY <2>3, <3>2
  <2>4. CASE m # 0
    <3>1. m - 1 \in Nat /\ ~(m <= m - 1)
      BY <2>2, <2>4
    <3>2. m - 1 \notin T
      <4> HIDE DEF T
      <4> QED
        BY <2>1, <3>1
    <3>3. PICK f : f = [k \in 0..(m - 1) |-> WorkStep(s, sess, node, class, type, f, k)]
      BY <3>1, <3>2
    <3> DEFINE g == [k \in 0..m |-> IF k = m THEN WorkStep(s, sess, node, class, type, f, m) ELSE f[k]]
    <3>4. \A k \in 0..m : g[k] = WorkStep(s, sess, node, class, type, g, k)
      <4> SUFFICES ASSUME NEW k \in 0..m PROVE g[k] = WorkStep(s, sess, node, class, type, g, k)
        OBVIOUS
      <4>1. k # 0 => k - 1 \in 0..m /\ k - 1 # m
        BY <2>2
      <4>2. k # 0 => g[k - 1] = f[k - 1]
        BY <4>1
      <4>3. WorkStep(s, sess, node, class, type, g, k) = WorkStep(s, sess, node, class, type, f, k)
        <5> HIDE DEF g
        <5> QED
          BY <4>2 DEF WorkStep
      <4>4. CASE k = m
        BY <4>3, <4>4
      <4>5. CASE k # m
        <5>1. k \in 0..(m - 1)
          BY <2>2, <4>5
        <5>2. f[k] = WorkStep(s, sess, node, class, type, f, k)
          BY <3>3, <5>1
        <5> QED
          BY <4>3, <4>5, <5>2
      <4> QED
        BY <4>4, <4>5
    <3>5. g = [k \in 0..m |-> g[k]]
      OBVIOUS
    <3> HIDE DEF g
    <3>6. g = [k \in 0..m |-> WorkStep(s, sess, node, class, type, g, k)]
      BY <3>4, <3>5
    <3> QED
      BY <3>6
  <2> QED
    BY <2>3, <2>4
<1> QED
  BY <1>1 DEF WorkBy

(* instantiateObjectNode and instantiateVariableNode keep the invariant,   *)
(* however deep they nest and whether or not they end.                     *)
LEMMA InstantiateSound ==
    ASSUME NEW s, NEW sess \in Sessions \union {Admin}, NEW n, NEW class, NEW type, Sound(s)
    PROVE  Sound(Instantiate(s, sess, n, class, type))
<1> DEFINE Is(f) == WorkBy(s, sess, n, class, type, MaxWork, f)
           work == CHOOSE f : Is(f)
           status == TypeStatus(s, class, type)
           Ended(w) == IF w.todo = <<>> THEN Answering(w.s, "Good") ELSE [w.s EXCEPT !.alive = FALSE]
<1> SUFFICES ASSUME status = "Good" PROVE Sound(Instantiate(s, sess, n, class, type))
  <2>1. status # "Good" => Instantiate(s, sess, n, class, type) = Answering(s, status)
    BY DEF Instantiate
  <2> HIDE DEF status
  <2> QED
    BY <2>1, AnsweringSound
<1>1. MaxWork \in Nat
  BY BoundAssumption
<1>2. Is(work)
  <2>1. \E f : Is(f)
    BY <1>1, WorkExists
  <2> HIDE DEF Is
  <2> QED
    BY <2>1
<1>3. Instantiate(s, sess, n, class, type) = Ended(work[MaxWork])
  BY DEF Instantiate, WorkStep, WorkBy
<1> HIDE DEF work
<1>4. \A k \in 0..MaxWork : work[k] = WorkStep(s, sess, n, class, type, work, k)
  BY <1>2 DEF WorkBy
<1> HIDE DEF Is
<1> DEFINE T == {k \in Nat : k \in 0..MaxWork /\ ~IsWork(work[k])}
<1>5. T = {}
  <2> SUFFICES ASSUME T # {} PROVE FALSE
    OBVIOUS
  <2>1. PICK m \in T : \A k \in T : m <= k
    <3>1. T \subseteq Nat
      OBVIOUS
    <3> HIDE DEF T
    <3> QED
      BY <3>1, LeastElement
  <2>2. m \in Nat /\ m \in 0..MaxWork /\ ~IsWork(work[m])
    OBVIOUS
  <2>3. CASE m = 0
    <3>1. work[0] = Begun(s, sess, n, class, type)
      BY <1>1, <1>4 DEF WorkStep
    <3> QED
      BY <2>2, <2>3, <3>1, BegunIsWork
  <2>4. CASE m # 0
    <3>1. m - 1 \in Nat /\ ~(m <= m - 1) /\ m - 1 \in 0..MaxWork
      BY <1>1, <2>2, <2>4
    <3>2. m - 1 \notin T
      <4> HIDE DEF T
      <4> QED
        BY <2>1, <3>1
    <3>3. IsWork(work[m - 1])
      BY <3>1, <3>2
    <3>4. work[m] = GoOn(work[m - 1], sess)
      BY <1>4, <2>2, <2>4 DEF WorkStep
    <3> QED
      BY <2>2, <3>3, <3>4, GoOnIsWork
  <2> QED
    BY <2>3, <2>4
<1>6. IsWork(work[MaxWork])
  BY <1>1, <1>5
<1>7. ASSUME NEW w, Sound(w.s) PROVE Sound(Ended(w))
  <2>1. Sound(Answering(w.s, "Good"))
    BY <1>7, AnsweringSound
  <2>2. Sound([w.s EXCEPT !.alive = FALSE])
    <3>1. PICK s_1 : s_1 = w.s
      OBVIOUS
    <3>2. Sound(s_1)
      BY <1>7, <3>1
    <3>3. PICK r : r = [s_1 EXCEPT !.alive = FALSE]
      OBVIOUS
    <3>4. r = [nodes |-> s_1.nodes, points |-> s_1.points, avail |-> s_1.avail, alive |-> FALSE,
               torn |-> s_1.torn, status |-> s_1.status, fails |-> s_1.fails, tries |-> s_1.tries, luck |-> s_1.luck,
               added |-> s_1.added]
      BY <3>2, <3>3 DEF Sound, IsState
    <3>5. Sound(r)
      BY <3>2, <3>4 DEF Sound, IsState
    <3> QED
      BY <3>1, <3>3, <3>5
  <2> QED
    BY <2>1, <2>2
<1> HIDE DEF Ended
<1> QED
  BY <1>3, <1>6, <1>7 DEF IsWork

-----------------------------------------------------------------------------
(***************************************************************************)
(* Service_DeleteNodes_single: the state after the items for the first k   *)
(* references is defined by recursion on k.                                *)
(***************************************************************************)
UnlinkedStep(s, n, refs, unlinked, k) ==
    IF k = 0 THEN s
    ELSE DeleteReference(unlinked[k - 1], refs[k].target, Reference(NullId, ~refs[k].fwd, n), FALSE)

(* The recursive definition, as a predicate.                               *)
UnlinkedBy(s, node, refs, n, f) == f = [k \in 0..n |-> UnlinkedStep(s, node, refs, f, k)]

(* There is such a function, the state after each reference.               *)
LEMMA UnlinkedExists ==
    ASSUME NEW s, NEW node, NEW refs, NEW n \in Nat
    PROVE  \E f : UnlinkedBy(s, node, refs, n, f)
<1> DEFINE T == {m \in Nat : ~ \E f : f = [k \in 0..m |-> UnlinkedStep(s, node, refs, f, k)]}
<1>1. T = {}
  <2> SUFFICES ASSUME T # {} PROVE FALSE
    OBVIOUS
  <2>1. PICK m \in T : \A k \in T : m <= k
    <3>1. T \subseteq Nat
      OBVIOUS
    <3> HIDE DEF T
    <3> QED
      BY <3>1, LeastElement
  <2>2. m \in Nat
    OBVIOUS
  <2>3. CASE m = 0
    <3> DEFINE f == [k \in 0..0 |-> UnlinkedStep(s, node, refs, <<>>, 0)]
    <3>1. \A k \in 0..0 : UnlinkedStep(s, node, refs, f, k) = UnlinkedStep(s, node, refs, <<>>, 0)
      BY DEF UnlinkedStep
    <3>2. f = [k \in 0..0 |-> UnlinkedStep(s, node, refs, f, k)]
      BY <3>1
    <3> HIDE DEF f
    <3> QED
      BY <2>3, <3>2
  <2>4. CASE m # 0
    <3>1. m - 1 \in Nat /\ ~(m <= m - 1)
      BY <2>2, <2>4
    <3>2. m - 1 \notin T
      <4> HIDE DEF T
      <4> QED
        BY <2>1, <3>1
    <3>3. PICK f : f = [k \in 0..(m - 1) |-> UnlinkedStep(s, node, refs, f, k)]
      BY <3>1, <3>2
    <3> DEFINE g == [k \in 0..m |-> IF k = m THEN UnlinkedStep(s, node, refs, f, m) ELSE f[k]]
    <3>4. \A k \in 0..m : g[k] = UnlinkedStep(s, node, refs, g, k)
      <4> SUFFICES ASSUME NEW k \in 0..m PROVE g[k] = UnlinkedStep(s, node, refs, g, k)
        OBVIOUS
      <4>1. k # 0 => k - 1 \in 0..m /\ k - 1 # m
        BY <2>2
      <4>2. k # 0 => g[k - 1] = f[k - 1]
        BY <4>1
      <4>3. UnlinkedStep(s, node, refs, g, k) = UnlinkedStep(s, node, refs, f, k)
        <5> HIDE DEF g
        <5> QED
          BY <4>2 DEF UnlinkedStep
      <4>4. CASE k = m
        BY <4>3, <4>4
      <4>5. CASE k # m
        <5>1. k \in 0..(m - 1)
          BY <2>2, <4>5
        <5>2. f[k] = UnlinkedStep(s, node, refs, f, k)
          BY <3>3, <5>1
        <5> QED
          BY <4>3, <4>5, <5>2
      <4> QED
        BY <4>4, <4>5
    <3>5. g = [k \in 0..m |-> g[k]]
      OBVIOUS
    <3> HIDE DEF g
    <3>6. g = [k \in 0..m |-> UnlinkedStep(s, node, refs, g, k)]
      BY <3>4, <3>5
    <3> QED
      BY <3>6
  <2> QED
    BY <2>3, <2>4
<1> QED
  BY <1>1 DEF UnlinkedBy

(* The items for the references keep the invariant.                        *)
LEMMA UnlinkedSound ==
    ASSUME NEW s, NEW n \in Ids, NEW refs \in Seq(References_), NEW unlinked, Sound(s),
           UnlinkedBy(s, n, refs, Len(refs), unlinked)
    PROVE  Sound(unlinked[Len(refs)])
<1>1. Len(refs) \in Nat
  OBVIOUS
<1>4. \A k \in 0..Len(refs) : unlinked[k] = UnlinkedStep(s, n, refs, unlinked, k)
  BY DEF UnlinkedBy
<1> DEFINE T == {k \in Nat : k \in 0..Len(refs) /\ ~Sound(unlinked[k])}
<1>5. T = {}
  <2> SUFFICES ASSUME T # {} PROVE FALSE
    OBVIOUS
  <2>1. PICK m \in T : \A k \in T : m <= k
    <3>1. T \subseteq Nat
      OBVIOUS
    <3> HIDE DEF T
    <3> QED
      BY <3>1, LeastElement
  <2>2. m \in Nat /\ m \in 0..Len(refs) /\ ~Sound(unlinked[m])
    OBVIOUS
  <2>3. CASE m = 0
    <3>1. unlinked[0] = s
      <4>1. 0 \in 0..Len(refs)
        BY <1>1
      <4>2. unlinked[0] = UnlinkedStep(s, n, refs, unlinked, 0)
        BY <1>4, <4>1
      <4>3. UnlinkedStep(s, n, refs, unlinked, 0) = s
        BY Zenon DEF UnlinkedStep
      <4> QED
        BY <4>2, <4>3
    <3> QED
      BY <2>2, <2>3, <3>1
  <2>4. CASE m # 0
    <3>1. m - 1 \in Nat /\ ~(m <= m - 1) /\ m - 1 \in 0..Len(refs)
      BY <1>1, <2>2, <2>4
    <3>2. m - 1 \notin T
      <4> HIDE DEF T
      <4> QED
        BY <2>1, <3>1
    <3>3. Sound(unlinked[m - 1])
      BY <3>1, <3>2
    <3> DEFINE item == Reference(NullId, ~refs[m].fwd, n)
    <3>4. unlinked[m] = DeleteReference(unlinked[m - 1], refs[m].target, item, FALSE)
      BY <1>4, <2>2, <2>4 DEF UnlinkedStep
    <3>5. refs[m] \in References_
      BY <1>1, <2>2, <2>4
    <3>6. refs[m].target \in Ids /\ item.target \in Ids
      BY <3>5 DEF References_, Reference
    <3> HIDE DEF item
    <3> QED
      BY <2>2, <3>3, <3>4, <3>6, DeleteReferenceSound
  <2> QED
    BY <2>3, <2>4
<1> QED
  BY <1>1, <1>5

(* All pairs with a node may be torn.                                      *)
LEMMA TornFromAll ==
    ASSUME NEW s, NEW n \in Ids, Sound(s)
    PROVE  /\ Sound([s EXCEPT !.torn = @ \union {Pair(n, m) : m \in Ids}])
           /\ \A m \in Ids : Pair(n, m) \in [s EXCEPT !.torn = @ \union {Pair(n, m_1) : m_1 \in Ids}].torn
<1> DEFINE all == {Pair(n, m) : m \in Ids}
<1>1. PICK r : r = [s EXCEPT !.torn = @ \union all]
  OBVIOUS
<1>2. all \subseteq {Pair(m, k) : m, k \in Ids} /\ \A m \in Ids : Pair(n, m) \in all
  OBVIOUS
<1> HIDE DEF all
<1>3. r = [nodes |-> s.nodes, points |-> s.points, avail |-> s.avail, alive |-> s.alive,
           torn |-> s.torn \union all, status |-> s.status, fails |-> s.fails, tries |-> s.tries, luck |-> s.luck,
           added |-> s.added]
  BY <1>1 DEF Sound, IsState
<1>4. /\ IsState(r) /\ r.nodes = s.nodes /\ r.points = s.points /\ r.avail = s.avail
      /\ r.alive = s.alive /\ r.torn = s.torn \union all
  BY ONLY <1>3 DEF IsState
<1>5. Agree(r.nodes, r.torn)
  <2>1. Agree(s.nodes, s.torn)
    BY DEF Sound
  <2> QED
    BY <1>4, <2>1 DEF Agree
<1>6. AreTorn(r.torn)
  BY <1>2, <1>4 DEF Sound, AreTorn
<1>7. Sound(r)
  BY <1>4, <1>5, <1>6 DEF Sound
<1>8. \A m \in Ids : Pair(n, m) \in r.torn
  BY <1>2, <1>4
<1> QED
  BY <1>1, <1>7, <1>8 DEF all

(* Touching a node keeps the invariant and what is torn.                   *)
LEMMA TouchedSound ==
    ASSUME NEW s, NEW n, Sound(s)
    PROVE  Sound(Touched(s, n)) /\ Touched(s, n).torn = s.torn
BY TouchedFields DEF Sound, KeepsRest

(* A node may go when all its pairs are torn.                              *)
LEMMA RemoveNodeSound ==
    ASSUME NEW s, NEW n \in Ids, Sound(s), \A m \in Ids : Pair(n, m) \in s.torn
    PROVE  Sound(RemoveNode(s, n))
<1> DEFINE N == s.nodes
<1>1. PICK M : M = [N EXCEPT ![n] = Absent]
  OBVIOUS
<1>2. PICK r : r = [s EXCEPT !.nodes = M, !.status = "Good"]
  OBVIOUS
<1>3. RemoveNode(s, n) = r
  BY <1>1, <1>2 DEF RemoveNode
<1>4. /\ KeepsRest(s, r) /\ r.torn = s.torn /\ r.nodes = M
  BY <1>2 DEF Sound, KeepsRest, IsState
<1>5. AreNodes(N) /\ Agree(N, s.torn)
  BY DEF Sound
<1> HIDE DEF N
<1>6. M = [m \in Ids |-> M[m]] /\ \A m \in Ids : M[m] = IF m = n THEN Absent ELSE N[m]
  BY <1>1, <1>5 DEF AreNodes
<1>7. AreNodes(M)
  BY <1>5, <1>6 DEF AreNodes
<1>8. ASSUME NEW m \in Ids, NEW k \in Ids, NEW type \in Ids, NEW fwd \in BOOLEAN, Pair(m, k) \notin s.torn
      PROVE  EntriesAt(M, m, Reference(type, fwd, k)) = EntriesAt(M, k, Reference(type, ~fwd, m))
  <2> DEFINE a == Reference(type, fwd, k)
             b == Reference(type, ~fwd, m)
  <2>1. EntriesAt(N, m, a) = EntriesAt(N, k, b)
    BY <1>5, <1>8 DEF Agree
  <2>2. m # n /\ k # n
    <3>1. Pair(m, n) = Pair(n, m)
      BY DEF Pair
    <3> QED
      BY <1>8, <3>1
  <2>3. M[m] = N[m] /\ M[k] = N[k]
    BY <1>6, <2>2
  <2> HIDE DEF a, b
  <2>4. EntriesAt(M, m, a) = EntriesAt(N, m, a) /\ EntriesAt(M, k, b) = EntriesAt(N, k, b)
    BY <2>3 DEF EntriesAt
  <2>5. EntriesAt(M, m, a) = EntriesAt(M, k, b)
    BY <2>1, <2>4
  <2> QED
    BY <2>5 DEF a, b
<1>9. Agree(M, s.torn)
  BY ONLY <1>8 DEF Agree
<1> QED
  BY <1>3, <1>4, <1>7, <1>9 DEF Sound, KeepsRest

(* Service_DeleteNodes_single keeps the invariant.                         *)
LEMMA DeleteNodeSound ==
    ASSUME NEW s, NEW n, NEW deleteReferences, Sound(s)
    PROVE  Sound(DeleteNode(s, n, deleteReferences))
<1> DEFINE refs == IF deleteReferences THEN NodeAt(s, n).refs ELSE <<>>
           Is(f) == UnlinkedBy(s, n, refs, Len(refs), f)
           unlinked == CHOOSE f : Is(f)
           gone == [unlinked[Len(refs)] EXCEPT !.torn = @ \union {Pair(n, m) : m \in Ids}]
           freed == IF NodeAt(s, n).dangling THEN Touched(gone, n) ELSE gone
<1>1. CASE ~Exists(s, n)
  <2>1. DeleteNode(s, n, deleteReferences) = Answering(s, "BadNodeIdInvalid")
    BY <1>1 DEF DeleteNode
  <2> QED
    BY <2>1, AnsweringSound
<1>2. CASE Exists(s, n)
  <2>1. n \in Ids /\ s.nodes[n] # Absent /\ NodeAt(s, n) = s.nodes[n]
    BY <1>2 DEF Exists, NodeAt
  <2>2. refs \in Seq(References_) /\ Len(refs) \in Nat
    <3>1. NodeAt(s, n).refs \in Seq(References_)
      BY <2>1 DEF Sound, AreNodes, IsNode
    <3> QED
      BY <3>1
  <2>3. DeleteNode(s, n, deleteReferences) = RemoveNode(freed, n)
    BY <1>2 DEF DeleteNode, UnlinkedStep, UnlinkedBy
  <2> HIDE DEF refs
  <2>4. Is(unlinked)
    <3>1. \E f : Is(f)
      BY <2>2, UnlinkedExists
    <3> HIDE DEF Is
    <3> QED
      BY <3>1
  <2> HIDE DEF unlinked
  <2>5. Sound(unlinked[Len(refs)])
    BY <2>1, <2>2, <2>4, UnlinkedSound
  <2>6. Sound(gone) /\ \A m \in Ids : Pair(n, m) \in gone.torn
    <3>1. PICK u : u = unlinked[Len(refs)]
      OBVIOUS
    <3>2. Sound(u)
      BY <2>5, <3>1
    <3>3. /\ Sound([u EXCEPT !.torn = @ \union {Pair(n, m) : m \in Ids}])
          /\ \A m \in Ids : Pair(n, m) \in [u EXCEPT !.torn = @ \union {Pair(n, m_1) : m_1 \in Ids}].torn
      BY <2>1, <3>2, TornFromAll
    <3> QED
      BY <3>1, <3>3
  <2> HIDE DEF gone
  <2>7. Sound(freed) /\ \A m \in Ids : Pair(n, m) \in freed.torn
    BY <2>6, TouchedSound
  <2> HIDE DEF freed
  <2>8. Sound(RemoveNode(freed, n))
    BY <2>1, <2>7, RemoveNodeSound
  <2> QED
    BY <2>3, <2>8
<1> QED
  BY <1>1, <1>2

(* Service_AddNodes_single keeps the invariant, also when the node it      *)
(* added is deleted again.                                                 *)
LEMMA AddNodeSound ==
    ASSUME NEW s, NEW sess \in Sessions \union {Admin}, NEW item, Sound(s),
           item.class \in Classes, item.id \in Ids \union {NullId}
    PROVE  Sound(AddNode(s, sess, item))
<1> DEFINE added == AddExistingNode(s, item)
           typed == Instantiate(added, sess, added.added, item.class, item.typeDefinition)
<1>1. item.class # "none"
  BY DEF Classes
<1>2. Sound(added)
  BY <1>1, AddExistingNodeSound
<1>3. AddNode(s, sess, item) \in {added, KeptIfTyped(typed, added.added)}
  BY DEF AddNode, Instantiated
<1> HIDE DEF added
<1>4. Sound(typed)
  BY <1>2, InstantiateSound
<1> HIDE DEF typed
<1>5. Sound(KeptIfTyped(typed, added.added))
  <2>1. Sound([typed EXCEPT !.added = added.added])
    BY <1>4, AddedSound
  <2>2. Sound(DeleteNode(typed, added.added, TRUE))
    BY <1>4, DeleteNodeSound
  <2>3. Sound(Answering(DeleteNode(typed, added.added, TRUE), typed.status))
    BY <2>2, AnsweringSound
  <2> QED
    BY <2>1, <2>3 DEF KeptIfTyped
<1> QED
  BY <1>2, <1>3, <1>5


-----------------------------------------------------------------------------
(***************************************************************************)
(* The specification.                                                      *)
(***************************************************************************)
StateInv ==
    /\ alive \in BOOLEAN
    /\ AreNodes(nodes) /\ AreTorn(torn) /\ Agree(nodes, torn)
    /\ ArePoints(points, avail)

(* The inductive invariant: every request starts with a sound state, and   *)
(* what the last browse gave is what it had to give.                       *)
IInv == StateInv /\ PagesAreExact

(* Every request starts with a sound state.                                *)
LEMMA RequestSound ==
    ASSUME StateInv, NEW fails, NEW luck
    PROVE  Sound(Request(fails, luck))
BY DEF StateInv, Sound, IsState, Request

(* What a request leaves, others start with.                               *)
LEMMA BecomesSound ==
    ASSUME NEW s, Sound(s), Becomes(s)
    PROVE  StateInv'
BY DEF Sound, Becomes, StateInv

(* An answer that is none says nothing.                                    *)
LEMMA EndsBrowseExact ==
    ASSUME EndsBrowse
    PROVE  PagesAreExact'
BY DEF EndsBrowse, NoAnswer, PagesAreExact

(* What begins with all of what there was is that.                         *)
LEMMA BeginsExact ==
    ASSUME NEW given, NEW all, Begins(given, all)
    PROVE  IsPrefix(given, all) /\ (Len(given) = Len(all) => given = all)
<1>1. /\ given \in Seq(References_) /\ all \in Seq(References_) /\ Len(given) <= Len(all)
      /\ Len(given) \in Nat /\ Len(all) \in Nat
      /\ \A j \in 1..Len(given) : given[j] = all[j]
  BY DEF Begins
<1>2. Len(given) = Len(all) => given = all
  BY <1>1, SeqEqual
<1>3. SubSeq(given, 1, Len(given)) = SubSeq(all, 1, Len(given))
  <2> DEFINE n == Len(given)
  <2>1. 1 \in Int /\ n \in Int
    BY <1>1
  <2>2. /\ \A j \in 1..n : given[j] \in References_
        /\ \A j \in 1..n : all[j] \in References_
    BY <1>1
  <2>3. /\ SubSeq(given, 1, n) \in Seq(References_)
        /\ Len(SubSeq(given, 1, n)) = IF 1 <= n THEN n - 1 + 1 ELSE 0
        /\ \A j \in 1..(n - 1 + 1) : SubSeq(given, 1, n)[j] = given[1 + j - 1]
    BY <2>1, <2>2, SubSeqProperties
  <2>4. /\ SubSeq(all, 1, n) \in Seq(References_)
        /\ Len(SubSeq(all, 1, n)) = IF 1 <= n THEN n - 1 + 1 ELSE 0
        /\ \A j \in 1..(n - 1 + 1) : SubSeq(all, 1, n)[j] = all[1 + j - 1]
    BY <2>1, <2>2, SubSeqProperties
  <2> DEFINE g == SubSeq(given, 1, n)
             a == SubSeq(all, 1, n)
  <2>5. n - 1 + 1 = n /\ (IF 1 <= n THEN n - 1 + 1 ELSE 0) = n /\ \A j \in 1..n : 1 + j - 1 = j
    BY <1>1
  <2> HIDE DEF g, a, n
  <2>6. g \in Seq(References_) /\ Len(g) = n /\ \A j \in 1..n : g[j] = given[j]
    BY <2>3, <2>5 DEF g
  <2>7. a \in Seq(References_) /\ Len(a) = n /\ \A j \in 1..n : a[j] = all[j]
    BY <2>4, <2>5 DEF a
  <2>8. \A j \in 1..n : given[j] = all[j]
    BY <1>1 DEF n
  <2>9. Len(g) = Len(a) /\ \A j \in 1..Len(g) : g[j] = a[j]
    BY <2>6, <2>7, <2>8
  <2>10. g = a
    BY <2>6, <2>7, <2>9, SeqEqual
  <2> QED
    BY <2>10 DEF g, a, n
<1> QED
  BY <1>1, <1>2, <1>3 DEF IsPrefix

(* At the start no session has a point.                                    *)
LEMMA NoPointsYet ==
    ArePoints([sess \in Sessions \union {Admin} |-> <<>>],
              [sess \in Sessions \union {Admin} |-> IF sess = Admin THEN 0 ELSE MaxPoints])
<1> DEFINE P == [sess \in Sessions \union {Admin} |-> <<>>]
           A == [sess \in Sessions \union {Admin} |-> IF sess = Admin THEN 0 ELSE MaxPoints]
<1>1. Admin \notin Sessions /\ MaxPoints \in Nat
  BY IdAssumption
<1>2. HasPoints(<<>>) /\ Len(<<>>) = 0
  BY DEF HasPoints
<1>3. \A sess \in Sessions : P[sess] = <<>> /\ A[sess] = MaxPoints
  BY <1>1
<1>4. P[Admin] = <<>> /\ A[Admin] = 0
  OBVIOUS
<1>5. /\ P = [sess \in Sessions \union {Admin} |-> P[sess]]
      /\ A = [sess \in Sessions \union {Admin} |-> A[sess]]
  OBVIOUS
<1>6. MaxPoints + 0 = MaxPoints
  BY <1>1
<1> HIDE DEF P, A
<1>7. ArePoints(P, A)
  BY <1>1, <1>2, <1>3, <1>4, <1>5, <1>6 DEF ArePoints
<1> QED
  BY <1>7 DEF P, A

(* At the start each reference is kept by both of its nodes.               *)
LEMMA InitInv == Init => IInv
<1> SUFFICES ASSUME Init PROVE IInv
  OBVIOUS
<1>1. \A n \in Ids : nodes[n] = IF n \in DOMAIN Base THEN Base[n] ELSE Absent
  BY DEF Init
<1>2. AreNodes(nodes)
  <2>1. ASSUME NEW n \in Ids, n \in DOMAIN Base PROVE IsNode(nodes[n])
    <3>1. nodes[n] = Base[n]
      BY <1>1, <2>1
    <3>2. /\ Base[n] = [class |-> Base[n].class, name |-> Base[n].name,
                        refs |-> Base[n].refs, dangling |-> FALSE]
          /\ Base[n].class \in Classes /\ Base[n].refs \in Seq(References_)
      BY <2>1, BaseAssumption
    <3>3. Base[n].dangling = FALSE /\ Base[n].class # "none"
      BY <3>2 DEF Classes
    <3>4. IsNode(Base[n])
      BY <3>2, <3>3 DEF IsNode
    <3> QED
      BY <3>1, <3>4
  <2>2. nodes = [n \in Ids |-> nodes[n]]
    BY DEF Init
  <2> QED
    BY <1>1, <2>1, <2>2 DEF AreNodes
<1>3. Agree(nodes, torn)
  <2> SUFFICES ASSUME NEW m \in Ids, NEW k \in Ids, NEW type \in Ids, NEW fwd \in BOOLEAN
               PROVE  EntriesAt(nodes, m, Reference(type, fwd, k)) = EntriesAt(nodes, k, Reference(type, ~fwd, m))
    BY DEF Agree
  (* What one of the nodes has an entry of, the other has as many of.      *)
  <2>1. ASSUME NEW a \in Ids, NEW b \in Ids, NEW way \in BOOLEAN,
               EntriesAt(nodes, a, Reference(type, way, b)) # 0
        PROVE  EntriesAt(nodes, a, Reference(type, way, b)) = EntriesAt(nodes, b, Reference(type, ~way, a))
    <3> DEFINE ref == Reference(type, way, b)
               back == Reference(type, ~way, a)
    <3>1. ref.target = b /\ Flipped(ref, a) = back
      BY DEF Reference, Flipped
    <3> HIDE DEF ref, back
    <3>2. nodes[a] # Absent /\ EntriesOf(nodes[a].refs, ref) # 0
      BY <2>1 DEF EntriesAt, ref
    <3>3. a \in DOMAIN Base /\ nodes[a] = Base[a] /\ Base[a].refs \in Seq(References_)
      BY <1>1, <3>2, BaseAssumption
    <3>4. ref \in ToSet(Base[a].refs)
      BY <3>2, <3>3, HasEntries
    <3>5. b \in DOMAIN Base /\ EntriesOf(Base[a].refs, ref) = EntriesOf(Base[b].refs, back)
      BY <3>1, <3>3, <3>4, BaseAssumption
    <3>6. nodes[b] = Base[b] /\ nodes[b] # Absent
      <4>1. Base[b].class \in Classes
        BY <3>5, BaseAssumption
      <4>2. Base[b] # Absent
        BY <4>1 DEF Absent, Classes
      <4> QED
        BY <1>1, <3>5, <4>2
    <3>7. EntriesAt(nodes, a, ref) = EntriesAt(nodes, b, back)
      BY <3>2, <3>3, <3>5, <3>6 DEF EntriesAt
    <3> QED
      BY <3>7 DEF ref, back
  <2> DEFINE there == EntriesAt(nodes, m, Reference(type, fwd, k))
             back  == EntriesAt(nodes, k, Reference(type, ~fwd, m))
  <2>2. CASE there # 0
    BY <2>1, <2>2
  <2>3. CASE back # 0
    <3>1. (~fwd) \in BOOLEAN /\ (~(~fwd)) = fwd
      OBVIOUS
    <3>2. back = EntriesAt(nodes, m, Reference(type, ~(~fwd), k))
      BY <2>1, <2>3, <3>1
    <3> QED
      BY <3>1, <3>2
  <2> QED
    BY <2>2, <2>3
<1>4. AreTorn(torn) /\ alive \in BOOLEAN
  BY DEF Init, AreTorn
<1>5. ArePoints(points, avail)
  BY NoPointsYet DEF Init
<1>6. PagesAreExact
  BY DEF Init, NoAnswer, PagesAreExact
<1> QED
  BY <1>2, <1>3, <1>4, <1>5, <1>6 DEF IInv, StateInv

(* Adding nodes and references keeps the invariant.                        *)
LEMMA AddsInv ==
    ASSUME NEW s, Sound(s), Adds(s)
    PROVE  IInv'
BY BecomesSound, EndsBrowseExact DEF Adds, IInv

(* The invariant is kept by the service AddNodes.                          *)
LEMMA AddNodesInv ==
    ASSUME IInv, NEW sess \in Sessions \union {Admin}, NEW item \in New, NEW fails, NEW luck,
           AddNodes(sess, item, fails, luck)
    PROVE  IInv'
<1>1. Sound(Request(fails, luck))
  BY RequestSound DEF IInv
<1>2. item.class \in Classes /\ item.id \in Ids \union {NullId}
  BY RequestAssumption
<1>3. Sound(AddNode(Request(fails, luck), sess, item))
  BY <1>1, <1>2, AddNodeSound
<1> QED
  BY <1>3, AddsInv DEF AddNodes

(* The invariant is kept by UA_Server_addDataSourceVariableNode.           *)
LEMMA AddDataSourceVariableNodeInv ==
    ASSUME IInv, NEW item \in New, NEW fails, NEW luck,
           AddDataSourceVariableNode(item, fails, luck)
    PROVE  IInv'
<1>1. Sound(Request(fails, luck))
  BY RequestSound DEF IInv
<1>2. item.class # "none" /\ item.id \in Ids \union {NullId}
  BY RequestAssumption DEF Classes
<1>3. Sound(AddExistingNode(Request(fails, luck), item))
  BY <1>1, <1>2, AddExistingNodeSound
<1> QED
  BY <1>3, AddsInv DEF AddDataSourceVariableNode

(* The invariant is kept by the service AddReferences.                     *)
LEMMA AddReferencesInv ==
    ASSUME IInv, NEW link \in Links, NEW fails, NEW luck, AddReferences(link, fails, luck)
    PROVE  IInv'
<1>1. Sound(Request(fails, luck))
  BY RequestSound DEF IInv
<1>2. link.ref \in References_
  BY RequestAssumption
<1>3. Sound(AddReference(Request(fails, luck), link.source, link.ref))
  BY <1>1, <1>2, AddReferenceSound
<1> QED
  BY <1>3, AddsInv DEF AddReferences

(* So does deleting them.                                                  *)
LEMMA DeleteReferencesInv ==
    ASSUME IInv, NEW link \in Links, NEW bidirectional, DeleteReferences(link, bidirectional)
    PROVE  IInv'
<1>1. Sound(Request({}, TRUE))
  BY RequestSound DEF IInv
<1>2. link.source \in Ids /\ link.ref.target \in Ids
  BY RequestAssumption DEF References_
<1>3. Sound(DeleteReference(Request({}, TRUE), link.source, link.ref, bidirectional))
  BY <1>1, <1>2, DeleteReferenceSound
<1> QED
  BY <1>3, BecomesSound, EndsBrowseExact DEF DeleteReferences, IInv

(* The invariant is kept by the service DeleteNodes.                       *)
LEMMA DeleteNodesInv ==
    ASSUME IInv, NEW n, NEW deleteReferences, NEW luck, DeleteNodes(n, deleteReferences, luck)
    PROVE  IInv'
<1>1. Sound(Request({}, luck))
  BY RequestSound DEF IInv
<1>2. Sound(DeleteNode(Request({}, luck), n, deleteReferences))
  BY <1>1, DeleteNodeSound
<1> QED
  BY <1>2, BecomesSound, EndsBrowseExact DEF DeleteNodes, IInv

-----------------------------------------------------------------------------
(***************************************************************************)
(* Browsing keeps the invariant.                                           *)
(***************************************************************************)

(* A session of a sound state has its points.                              *)
LEMMA SessionPoints ==
    ASSUME NEW s, NEW sess \in Sessions, Sound(s)
    PROVE  /\ HasPoints(s.points[sess]) /\ DOMAIN s.points[sess] = 1..Len(s.points[sess])
           /\ s.avail[sess] \in Nat /\ s.avail[sess] + Len(s.points[sess]) = MaxPoints
           /\ Len(s.points[sess]) \in Nat
<1>1. HasPoints(s.points[sess]) /\ s.avail[sess] \in Nat
      /\ s.avail[sess] + Len(s.points[sess]) = MaxPoints
  BY DEF Sound, ArePoints
<1>2. s.points[sess] \in Seq(ToSet(s.points[sess]))
  BY <1>1 DEF HasPoints
<1> QED
  BY <1>1, <1>2

(* The points of a session may change with their number.                   *)
LEMMA OtherStateSound ==
    ASSUME NEW s, NEW r, NEW sess \in Sessions, NEW seq, NEW left \in Nat, NEW status, Sound(s),
           IsOtherState(s, r, sess, seq, left, status),
           HasPoints(seq), left + Len(seq) = MaxPoints
    PROVE  Sound(r)
<1>1. /\ IsState(r)
      /\ r.nodes = s.nodes /\ r.torn = s.torn /\ r.alive = s.alive /\ r.status = status
      /\ IsOther(s.points, s.avail, r.points, r.avail, sess, seq, left)
  BY OtherPointsFields DEF Sound
<1>2. ArePoints(r.points, r.avail)
  BY <1>1, OtherPoints DEF Sound
<1> QED
  BY <1>1, <1>2 DEF Sound

(* So they may in a step that does not answer.                             *)
LEMMA SameStatus ==
    ASSUME NEW s, NEW r, NEW sess, NEW seq, NEW left, IsState(s),
           r = [s EXCEPT !.points[sess] = seq, !.avail[sess] = left]
    PROVE  IsOtherState(s, r, sess, seq, left, s.status)
<1>1. PICK P : P = [s.points EXCEPT ![sess] = seq]
  OBVIOUS
<1>2. PICK A : A = [s.avail EXCEPT ![sess] = left]
  OBVIOUS
<1>3. PICK t : t = [s EXCEPT !.points = P, !.avail = A]
  OBVIOUS
<1>4. PICK u : u = [s EXCEPT !.points = P, !.avail = A, !.status = s.status]
  OBVIOUS
<1>5. t = r
  BY <1>1, <1>2, <1>3
<1>6. t = u
  BY <1>3, <1>4 DEF IsState
<1>7. IsOtherState(s, u, sess, seq, left, s.status)
  BY <1>1, <1>2, <1>4 DEF IsOtherState
<1> QED
  BY <1>5, <1>6, <1>7

(* A point of the session is put in the place of another.                  *)
IsPutState(s, r, sess, i, cp) == r = [s EXCEPT !.points[sess][i] = cp]

(* A state with a sound continuation point in the place of another is      *)
(* sound.                                                                  *)
LEMMA PutStateSound ==
    ASSUME NEW s, NEW r, NEW sess \in Sessions, NEW i \in 1..Len(s.points[sess]), NEW cp, Sound(s),
           IsPoint(cp), IsPutState(s, r, sess, i, cp)
    PROVE  Sound(r)
<1> DEFINE seq == [s.points[sess] EXCEPT ![i] = cp]
           left == s.avail[sess]
<1>1. HasPoints(seq) /\ Len(seq) = Len(s.points[sess])
  <2>1. HasPoints(s.points[sess])
    BY SessionPoints
  <2> QED
    BY <2>1, PutPoint
<1>2. left \in Nat /\ left + Len(seq) = MaxPoints
  <2>1. left \in Nat /\ left + Len(s.points[sess]) = MaxPoints
    BY SessionPoints
  <2> HIDE DEF seq
  <2> QED
    BY <1>1, <2>1
<1>3. PICK P : P = [s.points EXCEPT ![sess] = seq]
  OBVIOUS
<1>4. PICK t : t = [s EXCEPT !.points = P]
  OBVIOUS
<1>5. r = t
  BY <1>3, <1>4 DEF IsPutState
<1> HIDE DEF seq
<1>6. t = [nodes |-> s.nodes, points |-> P, avail |-> s.avail, alive |-> s.alive,
           torn |-> s.torn, status |-> s.status, fails |-> s.fails, tries |-> s.tries, luck |-> s.luck,
           added |-> s.added]
  BY <1>4 DEF Sound, IsState
<1>7. /\ IsState(t) /\ t.nodes = s.nodes /\ t.torn = s.torn /\ t.alive = s.alive
      /\ t.points = P /\ t.avail = s.avail
  BY ONLY <1>6 DEF IsState
<1>8. s.avail = [s.avail EXCEPT ![sess] = left]
  BY DEF Sound, ArePoints
<1> HIDE DEF left
<1>9. IsOther(s.points, s.avail, t.points, t.avail, sess, seq, left)
  BY <1>3, <1>7, <1>8 DEF IsOther
<1>10. ArePoints(t.points, t.avail)
  BY <1>1, <1>2, <1>9, OtherPoints DEF Sound
<1>11. Sound(t)
  BY <1>7, <1>10 DEF Sound
<1> QED
  BY <1>5, <1>11

(* removeCp keeps the invariant.                                           *)
LEMMA WithoutPointSound ==
    ASSUME NEW s, NEW sess \in Sessions, NEW i \in 1..Len(s.points[sess]), Sound(s)
    PROVE  Sound(WithoutPoint(s, sess, i))
<1> DEFINE seq == RemoveAt(s.points[sess], i)
           left == s.avail[sess] + 1
           r == WithoutPoint(s, sess, i)
<1>1. HasPoints(s.points[sess]) /\ s.avail[sess] \in Nat
      /\ s.avail[sess] + Len(s.points[sess]) = MaxPoints
  BY SessionPoints
<1>2. HasPoints(seq) /\ Len(seq) = Len(s.points[sess]) - 1 /\ Len(s.points[sess]) \in Nat
  BY <1>1, RemovePoint
<1>3. r = [s EXCEPT !.points[sess] = seq, !.avail[sess] = left]
  BY DEF WithoutPoint
<1> HIDE DEF seq, r
<1>4. left \in Nat /\ left + Len(seq) = MaxPoints
  <2>1. PICK a, l : a = s.avail[sess] /\ l = Len(s.points[sess])
    OBVIOUS
  <2>2. a \in Nat /\ l \in Nat /\ a + l = MaxPoints /\ Len(seq) = l - 1
    BY ONLY <1>1, <1>2, <2>1
  <2>3. a + 1 \in Nat /\ (a + 1) + (l - 1) = MaxPoints
    BY ONLY <2>2
  <2> QED
    BY ONLY <2>1, <2>2, <2>3
<1> HIDE DEF left
<1>5. IsOtherState(s, r, sess, seq, left, s.status)
  BY <1>3, SameStatus DEF Sound
<1>6. Sound(r)
  BY <1>2, <1>4, <1>5, OtherStateSound
<1> QED
  BY <1>6 DEF r

(* The client is told of a point that a browse made.                       *)
LEMMA ToldSound ==
    ASSUME NEW s, NEW r, NEW t, NEW sess, NEW d, NEW limit, NEW refs \in Seq(References_), NEW all,
           Sound(s), Sound(r), IsNewPoint(s, r, sess, d, limit, refs), Begins(refs, all),
           IsPutState(r, t, sess, 1,
                      [r.points[sess][1] EXCEPT !.told = TRUE, !.given = refs, !.all = all, !.intact = TRUE])
    PROVE  Sound(t)
<1> DEFINE new == [descr |-> d, max |-> limit, index |-> Len(refs), told |-> FALSE,
                   given |-> <<>>, all |-> <<>>, intact |-> FALSE]
           seq == s.points[sess]
           cp == [r.points[sess][1] EXCEPT !.told = TRUE, !.given = refs, !.all = all, !.intact = TRUE]
<1>1. sess \in Sessions /\ limit \in Nat \ {0} /\ Len(refs) >= limit /\ Len(refs) \in Nat
  BY DEF IsNewPoint
<1>2. r.points = [s.points EXCEPT ![sess] = <<new>> \o @]
  BY DEF IsNewPoint
<1>3. IsPoint(new)
  BY <1>1 DEF IsPoint
<1>4. HasPoints(seq)
  BY <1>1, SessionPoints
<1>5. r.points[sess] = <<new>> \o seq
  <2> HIDE DEF new
  <2> QED
    BY <1>1, <1>2 DEF Sound, ArePoints
<1>6. r.points[sess][1] = new /\ 1 \in 1..Len(r.points[sess])
  <2> HIDE DEF new, seq
  <2>1. Len(<<new>> \o seq) = Len(seq) + 1 /\ Len(seq) \in Nat /\ (<<new>> \o seq)[1] = new
    BY <1>3, <1>4, AddPoint
  <2> QED
    BY <1>5, <2>1
<1>7. cp = [descr |-> d, max |-> limit, index |-> Len(refs), told |-> TRUE,
            given |-> refs, all |-> all, intact |-> TRUE]
  <2>1. PICK first : first = r.points[sess][1]
    OBVIOUS
  <2>2. PICK made : made = new
    OBVIOUS
  <2>3. [first EXCEPT !.told = TRUE, !.given = refs, !.all = all, !.intact = TRUE]
            = [descr |-> d, max |-> limit, index |-> Len(refs), told |-> TRUE,
               given |-> refs, all |-> all, intact |-> TRUE]
    <3>1. first = made
      BY <1>6, <2>1, <2>2
    <3>2. PICK told : told = [made EXCEPT !.told = TRUE, !.given = refs, !.all = all, !.intact = TRUE]
      OBVIOUS
    <3>3. PICK n : n = Len(refs)
      OBVIOUS
    <3>4. made = [descr |-> d, max |-> limit, index |-> n, told |-> FALSE,
                  given |-> <<>>, all |-> <<>>, intact |-> FALSE]
      BY <2>2, <3>3
    <3>5. told = [descr |-> d, max |-> limit, index |-> n, told |-> TRUE,
                  given |-> refs, all |-> all, intact |-> TRUE]
      BY ONLY <3>2, <3>4
    <3> QED
      BY <3>1, <3>2, <3>3, <3>5
  <2> QED
    BY <2>1, <2>3
<1>8. IsPutState(r, t, sess, 1, cp)
  OBVIOUS
<1> HIDE DEF cp
<1>9. IsPoint(cp)
  BY <1>1, <1>7 DEF IsPoint
<1> QED
  BY <1>1, <1>6, <1>8, <1>9, PutStateSound

(* The invariant is kept by the service Browse: a new point stands before  *)
(* the rest of what is relevant.                                           *)
LEMMA BrowseNodeInv ==
    ASSUME IInv, NEW sess \in Sessions, NEW d, NEW limit \in Limits, NEW fails,
           BrowseNode(sess, d, limit, fails)
    PROVE  IInv'
<1> DEFINE s == Request(fails, TRUE)
           b == Browse(s, sess, d, limit)
           all == Relevant(s, d)
           t == WithHistory(b, sess, b.refs, all)
<1>1. Sound(s) /\ limit \in Nat
  BY RequestSound, RequestAssumption DEF IInv
<1>2. /\ Becomes(t)
      /\ answer' = [status |-> b.state.status, given |-> b.refs,
                    all |-> IF b.state.status = "Good" THEN all ELSE <<>>,
                    more |-> b.more, intact |-> TRUE]
  BY DEF BrowseNode
<1> HIDE DEF s
<1>3. /\ Sound(b.state) /\ b.refs \in Seq(References_) /\ b.more \in BOOLEAN
      /\ b.state.status = "Good" =>
            /\ Begins(b.refs, all)
            /\ ~b.more => Len(b.refs) = Len(all)
      /\ b.more => b.state.status = "Good" /\ IsNewPoint(s, b.state, sess, d, limit, b.refs)
  BY <1>1, BrowseSound
<1> HIDE DEF b, all
<1>4. Sound(t)
  <2>1. CASE ~b.more
    <3>1. t = b.state
      BY <2>1 DEF WithHistory
    <3> HIDE DEF t
    <3> QED
      BY <1>3, <3>1
  <2>2. CASE b.more
    <3> DEFINE r == b.state
               refs == b.refs
               cp == [r.points[sess][1] EXCEPT !.told = TRUE, !.given = refs, !.all = all, !.intact = TRUE]
    <3>1. t = [r EXCEPT !.points[sess][1] = cp]
      BY <2>2 DEF WithHistory
    <3>2. IsPutState(r, t, sess, 1, cp)
      <4> HIDE DEF t, cp, r
      <4> QED
        BY <3>1 DEF IsPutState
    <3>3. Sound(r) /\ IsNewPoint(s, r, sess, d, limit, refs) /\ Begins(refs, all)
          /\ refs \in Seq(References_)
      BY <1>3, <2>2
    <3> HIDE DEF t, r, refs
    <3> QED
      BY <1>1, <3>2, <3>3, ToldSound
  <2> QED
    BY <2>1, <2>2
<1> HIDE DEF t
<1>5. StateInv'
  BY <1>2, <1>4, BecomesSound
<1>6. PagesAreExact'
  <2>1. CASE b.state.status = "Good"
    <3>1. answer'.given = b.refs /\ answer'.all = all /\ answer'.more = b.more
      BY <1>2, <2>1
    <3>2. IsPrefix(b.refs, all) /\ (Len(b.refs) = Len(all) => b.refs = all)
      BY <1>3, <2>1, BeginsExact
    <3> QED
      BY <1>3, <2>1, <3>1, <3>2 DEF PagesAreExact
  <2>2. CASE b.state.status # "Good"
    <3>1. answer'.status = b.state.status
      BY <1>2
    <3> QED
      BY <2>2, <3>1 DEF PagesAreExact
  <2> QED
    BY <2>1, <2>2
<1> QED
  BY <1>5, <1>6 DEF IInv

(* A prefix is how an array begins.                                        *)
LEMMA PrefixBegins ==
    ASSUME NEW a \in Seq(References_), NEW b \in Seq(References_), IsPrefix(a, b)
    PROVE  Begins(a, b)
<1> DEFINE n == Len(a)
<1>1. n \in Nat /\ Len(b) \in Nat /\ n <= Len(b) /\ SubSeq(a, 1, n) = SubSeq(b, 1, n)
  BY DEF IsPrefix
<1>2. 1 \in Int /\ n \in Int /\ n - 1 + 1 = n /\ \A j \in 1..n : 1 + j - 1 = j
  BY <1>1
<1>3. (\A j \in 1..n : a[j] \in References_) /\ (\A j \in 1..n : b[j] \in References_)
  BY <1>1
<1>4. \A j \in 1..(n - 1 + 1) : SubSeq(a, 1, n)[j] = a[1 + j - 1]
  BY <1>2, <1>3, SubSeqProperties
<1>5. \A j \in 1..(n - 1 + 1) : SubSeq(b, 1, n)[j] = b[1 + j - 1]
  BY <1>2, <1>3, SubSeqProperties
<1> HIDE DEF n
<1>6. \A j \in 1..n : a[j] = b[j]
  BY <1>1, <1>2, <1>4, <1>5
<1> QED
  BY <1>1, <1>6 DEF Begins, n

(* With the page that comes next, what was given is still how what there   *)
(* is begins.                                                              *)
LEMMA GoesOnExactly ==
    ASSUME NEW cp, NEW refs \in Seq(References_), NEW all \in Seq(References_), IsPoint(cp), cp.intact,
           IsPrefix(cp.all, all),
           cp.index <= Len(all) =>
              /\ cp.index + Len(refs) <= Len(all)
              /\ \A j \in 1..Len(refs) : refs[j] = all[cp.index + j]
    PROVE  /\ Begins(cp.given \o refs, all) /\ cp.index <= Len(all)
           /\ Len(cp.given \o refs) = cp.index + Len(refs)
<1>1. /\ cp.given \in Seq(References_) /\ cp.all \in Seq(References_)
      /\ Len(cp.given) <= Len(cp.all) /\ cp.index = Len(cp.given)
      /\ \A j \in 1..Len(cp.given) : cp.given[j] = cp.all[j]
  BY DEF IsPoint, Begins
<1>2. Len(cp.all) <= Len(all) /\ \A j \in 1..Len(cp.all) : cp.all[j] = all[j]
  BY <1>1, PrefixBegins DEF Begins
<1> DEFINE given == cp.given
           n == Len(cp.given)
<1>3. n \in Nat /\ Len(cp.all) \in Nat /\ Len(all) \in Nat /\ Len(refs) \in Nat
  BY <1>1
<1>4. n = cp.index /\ n <= Len(all)
  BY <1>1, <1>2, <1>3
<1>5. n + Len(refs) <= Len(all) /\ \A j \in 1..Len(refs) : refs[j] = all[n + j]
  BY <1>4
<1>6. \A j \in 1..n : given[j] = all[j]
  <2> SUFFICES ASSUME NEW j \in 1..n PROVE given[j] = all[j]
    OBVIOUS
  <2>1. j \in 1..Len(cp.all)
    BY <1>1, <1>3
  <2> QED
    BY <1>1, <1>2, <2>1
<1>7. given \in Seq(References_) /\ Len(given) = n
  BY <1>1
<1> HIDE DEF given, n
<1>8. /\ given \o refs \in Seq(References_) /\ Len(given \o refs) = Len(given) + Len(refs)
      /\ \A j \in 1..(Len(given) + Len(refs)) :
            (given \o refs)[j] = IF j <= Len(given) THEN given[j] ELSE refs[j - Len(given)]
  BY <1>7, ConcatProperties
<1>9. ASSUME NEW j \in 1..Len(given \o refs) PROVE (given \o refs)[j] = all[j]
  <2>1. CASE j <= n
    <3>1. j \in 1..n /\ (given \o refs)[j] = given[j]
      BY <1>3, <1>7, <1>8, <2>1
    <3> QED
      BY <1>6, <3>1
  <2>2. CASE ~(j <= n)
    <3>1. j - n \in 1..Len(refs) /\ n + (j - n) = j /\ (given \o refs)[j] = refs[j - n]
      BY <1>3, <1>7, <1>8, <2>2
    <3>2. refs[j - n] = all[n + (j - n)]
      BY <1>5, <3>1
    <3> QED
      BY <3>1, <3>2
  <2> QED
    BY <2>1, <2>2
<1>10. Begins(given \o refs, all)
  BY <1>3, <1>5, <1>7, <1>8, <1>9 DEF Begins
<1> QED
  BY <1>4, <1>7, <1>8, <1>10 DEF given

(* The invariant is kept by the service BrowseNext: the page begins where  *)
(* the point stood, and the point moves to its end.                        *)
LEMMA BrowseNextInv ==
    ASSUME IInv, NEW sess \in Sessions, NEW i, NEW fails, BrowseNext(sess, i, fails)
    PROVE  IInv'
<1> DEFINE s == Request(fails, TRUE)
           cp == points[sess][i]
           status == BrowseStatus(s, cp.descr)
           page == PageOf(s, cp.descr, cp.index, cp.max)
           goesOn == status = "Good" /\ NodeAt(s, cp.descr.node).refs # <<>>
           all == Relevant(s, cp.descr)
           intact == cp.intact /\ IsPrefix(cp.all, all)
           given == cp.given \o page.refs
           next == [cp EXCEPT !.index = Advance(cp, page), !.given = given,
                              !.all = all, !.intact = intact]
<1>1. Sound(s) /\ s.points = points
  BY RequestSound DEF IInv, Request
<1>2. /\ i \in DOMAIN points[sess]
      /\ IF ~goesOn
         THEN Becomes(s) /\ answer' = [NoAnswer EXCEPT !.status = status]
         ELSE IF Undescribed(s, page)
         THEN Becomes(s) /\ answer' = [NoAnswer EXCEPT !.status = "Uncertain"]
         ELSE /\ Becomes(IF page.last THEN WithoutPoint(s, sess, i)
                         ELSE [s EXCEPT !.points[sess][i] = next])
              /\ answer' = [status |-> "Good", given |-> given, all |-> all,
                            more |-> ~page.last, intact |-> intact]
  BY DEF BrowseNext
<1> HIDE DEF s
<1>3. i \in 1..Len(s.points[sess]) /\ IsPoint(cp)
  <2>1. HasPoints(s.points[sess]) /\ DOMAIN s.points[sess] = 1..Len(s.points[sess])
    BY <1>1, SessionPoints
  <2> QED
    BY <1>1, <1>2, <2>1 DEF HasPoints
<1>4. CASE ~goesOn \/ Undescribed(s, page)
  <2>1. Becomes(s) /\ \E told : answer' = [NoAnswer EXCEPT !.status = told]
    BY <1>2, <1>4
  <2>2. answer'.intact = FALSE
    <3>1. PICK told : answer' = [NoAnswer EXCEPT !.status = told]
      BY <2>1
    <3> QED
      BY <3>1 DEF NoAnswer
  <2>3. PagesAreExact'
    BY <2>2 DEF PagesAreExact
  <2>4. StateInv'
    BY <1>1, <2>1, BecomesSound
  <2> QED
    BY <2>3, <2>4 DEF IInv
<1>5. CASE goesOn /\ ~Undescribed(s, page)
  <2>1. NodeAt(s, cp.descr.node).refs \in Seq(References_)
    BY <1>1, <1>5, BrowseGood
  <2>2. all \in Seq(References_)
    BY <2>1, RelevantType
  <2>3. cp.index \in Nat /\ cp.max \in Nat /\ cp.index >= cp.max /\ cp.max > 0
    BY <1>3 DEF IsPoint
  <2> DEFINE refs == page.refs
  <2>4. /\ refs \in Seq(References_)
        /\ cp.index <= Len(all) =>
              /\ cp.index + Len(refs) <= Len(all)
              /\ \A j \in 1..Len(refs) : refs[j] = all[cp.index + j]
              /\ page.last => cp.index + Len(refs) = Len(all)
    <3> HIDE DEF cp
    <3>1. PICK d, skip, limit : d = cp.descr /\ skip = cp.index /\ limit = cp.max
      OBVIOUS
    <3>2. skip \in Nat /\ limit \in Nat /\ NodeAt(s, d.node).refs \in Seq(References_)
      BY <2>1, <2>3, <3>1
    <3>3. IsPage(PageOf(s, d, skip, limit), Relevant(s, d), skip, limit)
      BY <3>2, PageFacts
    <3>4. IsPage(page, all, cp.index, cp.max)
      BY <3>1, <3>3
    <3> HIDE DEF page, all
    <3> QED
      BY <3>4 DEF IsPage
  <2>5. /\ Becomes(IF page.last THEN WithoutPoint(s, sess, i)
                   ELSE [s EXCEPT !.points[sess][i] = next])
        /\ answer' = [status |-> "Good", given |-> given, all |-> all,
                      more |-> ~page.last, intact |-> intact]
    BY <1>2, <1>5
  <2>6. given = cp.given \o refs /\ Advance(cp, page) = cp.index + Len(refs)
    BY DEF Advance
  <2>7. Len(refs) \in Nat /\ Len(all) \in Nat
    BY <2>2, <2>4
  <2> HIDE DEF page, refs, all, given
  <2>8. intact => /\ Begins(given, all) /\ Len(given) = cp.index + Len(refs)
                  /\ (page.last => Len(given) = Len(all))
    <3> SUFFICES ASSUME intact
                 PROVE  /\ Begins(given, all) /\ Len(given) = cp.index + Len(refs)
                        /\ (page.last => Len(given) = Len(all))
      OBVIOUS
    <3> HIDE DEF cp
    <3>1. cp.intact /\ IsPrefix(cp.all, all)
      OBVIOUS
    <3>2. /\ Begins(cp.given \o refs, all) /\ cp.index <= Len(all)
          /\ Len(cp.given \o refs) = cp.index + Len(refs)
      BY <1>3, <2>2, <2>4, <3>1, GoesOnExactly
    <3> QED
      BY <2>4, <2>6, <3>2
  <2>9. PagesAreExact'
    <3>1. answer'.given = given /\ answer'.all = all /\ answer'.more = ~page.last /\ answer'.intact = intact
      <4> HIDE DEF intact
      <4> QED
        BY <2>5
    <3> HIDE DEF intact
    <3>2. intact => IsPrefix(given, all) /\ (page.last => given = all)
      BY <2>8, BeginsExact
    <3> QED
      BY <3>1, <3>2 DEF PagesAreExact
  <2>10. CASE page.last
    <3>1. Becomes(WithoutPoint(s, sess, i))
      BY <2>5, <2>10
    <3>2. Sound(WithoutPoint(s, sess, i))
      BY <1>1, <1>3, WithoutPointSound
    <3> QED
      BY <2>9, <3>1, <3>2, BecomesSound DEF IInv
  <2>11. CASE ~page.last
    <3> DEFINE r == [s EXCEPT !.points[sess][i] = next]
               index == Advance(cp, page)
    <3>1. Becomes(r)
      BY <2>5, <2>11
    <3>2. next = [descr |-> cp.descr, max |-> cp.max, index |-> index, told |-> cp.told,
                  given |-> given, all |-> all, intact |-> intact]
      <4>1. cp = [descr |-> cp.descr, max |-> cp.max, index |-> cp.index, told |-> cp.told,
                  given |-> cp.given, all |-> cp.all, intact |-> cp.intact]
        BY <1>3 DEF IsPoint
      <4> HIDE DEF cp, intact, index
      <4>2. PICK new : new = [cp EXCEPT !.index = index, !.given = given, !.all = all, !.intact = intact]
        OBVIOUS
      <4>3. new = [descr |-> cp.descr, max |-> cp.max, index |-> index, told |-> cp.told,
                   given |-> given, all |-> all, intact |-> intact]
        BY ONLY <4>1, <4>2
      <4> QED
        BY <4>2, <4>3 DEF index
    <3>3. index = cp.index + Len(refs)
      BY <2>6
    <3> HIDE DEF index, intact, cp, next
    <3>4. index \in Nat /\ index >= cp.max
      BY <2>3, <2>7, <3>3
    <3>5. IsPoint(next)
      <4>1. /\ next.max = cp.max /\ next.index = index /\ next.given = given /\ next.all = all
            /\ next.intact = intact
        BY <3>2
      <4>2. next = [descr |-> next.descr, max |-> next.max, index |-> next.index, told |-> next.told,
                    given |-> next.given, all |-> next.all, intact |-> next.intact]
        BY <3>2
      <4> QED
        BY <2>3, <2>8, <3>3, <3>4, <4>1, <4>2 DEF IsPoint
    <3>6. IsPutState(s, r, sess, i, next)
      BY DEF IsPutState
    <3> HIDE DEF r
    <3>7. Sound(r)
      BY <1>1, <1>3, <3>5, <3>6, PutStateSound
    <3> QED
      BY <2>9, <3>1, <3>7, BecomesSound DEF IInv
  <2> QED
    BY <2>10, <2>11
<1> QED
  BY <1>4, <1>5

(* The invariant is kept by the release of a continuation point.           *)
LEMMA ReleasePointInv ==
    ASSUME IInv, NEW sess \in Sessions, NEW i, ReleasePoint(sess, i)
    PROVE  IInv'
<1> DEFINE others == DOMAIN points[sess] \ {i}
           first == CHOOSE j \in others : \A k \in others : j <= k
           s == Request({}, TRUE)
<1>1. Sound(s) /\ s.points = points
  BY RequestSound DEF IInv, Request
<1>2. Becomes(IF others = {} THEN s ELSE WithoutPoint(s, sess, first)) /\ EndsBrowse
  BY DEF ReleasePoint
<1>3. PagesAreExact'
  BY <1>2, EndsBrowseExact
<1> HIDE DEF s
<1>4. others \in SUBSET (1..Len(s.points[sess])) /\ Len(s.points[sess]) \in Nat
  BY <1>1, SessionPoints
<1> HIDE DEF others
<1>5. CASE others = {}
  BY <1>1, <1>2, <1>3, <1>5, BecomesSound DEF IInv
<1>6. CASE others # {}
  <2>1. \E j \in others : \A k \in others : j <= k
    <3>1. others \in SUBSET Nat
      BY <1>4
    <3> QED
      BY <1>6, <3>1, LeastElement
  <2>2. first \in 1..Len(s.points[sess])
    BY <1>4, <2>1
  <2> HIDE DEF first
  <2>3. Sound(WithoutPoint(s, sess, first))
    BY <1>1, <2>2, WithoutPointSound
  <2> QED
    BY <1>2, <1>3, <1>6, <2>3, BecomesSound DEF IInv
<1> QED
  BY <1>5, <1>6

(* The invariant is kept by a new session in the place of an old one.      *)
LEMMA RenewSessionInv ==
    ASSUME IInv, NEW sess \in Sessions, RenewSession(sess)
    PROVE  IInv'
<1> DEFINE s == Request({}, TRUE)
           none == <<>>
           r == [s EXCEPT !.points[sess] = none, !.avail[sess] = MaxPoints]
<1>1. Sound(s)
  BY RequestSound DEF IInv
<1>2. Becomes(r) /\ EndsBrowse
  BY DEF RenewSession
<1>3. PagesAreExact'
  BY <1>2, EndsBrowseExact
<1>4. HasPoints(none) /\ MaxPoints \in Nat /\ MaxPoints + Len(none) = MaxPoints
  <2>1. MaxPoints \in Nat /\ Len(none) = 0
    BY IdAssumption
  <2> QED
    BY <2>1 DEF HasPoints
<1> HIDE DEF s, none
<1>5. PICK t : t = r
  OBVIOUS
<1>6. IsOtherState(s, t, sess, none, MaxPoints, s.status)
  BY <1>1, <1>5, SameStatus DEF Sound
<1>7. Sound(t)
  BY <1>1, <1>4, <1>6, OtherStateSound
<1> QED
  BY <1>2, <1>3, <1>5, <1>7, BecomesSound DEF IInv

(* Every step keeps the invariant.                                         *)
LEMMA InvNext == IInv /\ [Next]_vars => IInv'
<1> SUFFICES ASSUME IInv, [Next]_vars PROVE IInv'
  OBVIOUS
<1>1. ASSUME NEW sess \in Sessions \union {Admin}, NEW item \in New, NEW fails \in Shortages, NEW luck \in Lucks,
             AddNodes(sess, item, fails, luck)
      PROVE  IInv'
  BY <1>1, AddNodesInv
<1>2. ASSUME NEW item \in New, NEW fails \in Shortages, NEW luck \in Lucks,
             AddDataSourceVariableNode(item, fails, luck)
      PROVE  IInv'
  BY <1>2, AddDataSourceVariableNodeInv
<1>3. ASSUME NEW link \in Links, NEW fails \in Shortages, NEW luck \in Lucks, AddReferences(link, fails, luck)
      PROVE  IInv'
  BY <1>3, AddReferencesInv
<1>4. ASSUME NEW link \in Links, NEW bidirectional \in BOOLEAN, DeleteReferences(link, bidirectional)
      PROVE  IInv'
  BY <1>4, DeleteReferencesInv
<1>5. ASSUME NEW n \in Removable, NEW deleteReferences \in BOOLEAN, NEW luck \in Lucks,
             DeleteNodes(n, deleteReferences, luck)
      PROVE  IInv'
  BY <1>5, DeleteNodesInv
<1>6. ASSUME NEW sess \in Sessions, NEW d \in Asked, NEW limit \in Limits, NEW fails \in Shortages,
             BrowseNode(sess, d, limit, fails)
      PROVE  IInv'
  BY <1>6, BrowseNodeInv
<1>7. ASSUME NEW sess \in Sessions, NEW i \in 1..MaxPoints, NEW fails \in Shortages, BrowseNext(sess, i, fails)
      PROVE  IInv'
  BY <1>7, BrowseNextInv
<1>8. ASSUME NEW sess \in Sessions, NEW i \in 1..MaxPoints, ReleasePoint(sess, i)
      PROVE  IInv'
  BY <1>8, ReleasePointInv
<1>9. ASSUME NEW sess \in Sessions, RenewSession(sess) PROVE IInv'
  BY <1>9, RenewSessionInv
<1>10. CASE UNCHANGED vars
  BY <1>10 DEF IInv, StateInv, PagesAreExact, vars
<1> QED
  BY <1>1, <1>2, <1>3, <1>4, <1>5, <1>6, <1>7, <1>8, <1>9, <1>10 DEF Next

(* The inductive invariant holds for ever.                                 *)
LEMMA InvAlways == Spec => []IInv
<1> QED
  BY InitInv, InvNext, PTL DEF Spec

-----------------------------------------------------------------------------
(* The invariant says what the properties say.                             *)
LEMMA InvImpliesType == IInv => TypeOK
<1> SUFFICES ASSUME IInv PROVE TypeOK
  OBVIOUS
<1>1. StateInv
  BY DEF IInv
<1>2. ASSUME NEW n \in Ids, nodes[n] # Absent
      PROVE  ToSet(nodes[n].refs) \subseteq References_ /\ (nodes[n].dangling => nodes[n].refs = <<>>)
  <2>1. nodes[n].refs \in Seq(References_) /\ (nodes[n].dangling => nodes[n].refs = <<>>)
    BY <1>1, <1>2 DEF StateInv, AreNodes, IsNode
  <2> QED
    BY <2>1 DEF ToSet
<1>3. ASSUME NEW sess \in Sessions, NEW cp \in ToSet(points[sess])
      PROVE  cp.max > 0 /\ cp.index >= cp.max
  <2>1. HasPoints(points[sess])
    BY <1>1 DEF StateInv, ArePoints
  <2>2. PICK i \in 1..Len(points[sess]) : cp = points[sess][i]
    BY <2>1 DEF HasPoints, ToSet
  <2>3. IsPoint(cp)
    BY <2>1, <2>2 DEF HasPoints
  <2> QED
    BY <2>3 DEF IsPoint
<1>4. points[Admin] = <<>> /\ alive \in BOOLEAN /\ torn \subseteq {Pair(m, n) : m, n \in Ids}
  BY <1>1 DEF StateInv, ArePoints, AreTorn
<1> QED
  BY <1>2, <1>3, <1>4 DEF TypeOK

(* It counts the points.                                                   *)
LEMMA InvImpliesPoints == IInv => PointsAreCounted
<1> SUFFICES ASSUME IInv PROVE PointsAreCounted
  OBVIOUS
<1>1. \A sess \in Sessions : avail[sess] + Len(points[sess]) = MaxPoints
  BY DEF IInv, StateInv, ArePoints
<1> QED
  BY <1>1, InvImpliesType DEF PointsAreCounted

(* Nodes with the same entries about each other agree.                     *)
LEMMA NodesAgree ==
    ASSUME AreNodes(nodes), Agree(nodes, torn)
    PROVE  ReferencesAgree
<1> SUFFICES ASSUME NEW m \in Ids, nodes[m] # Absent, NEW ref \in ToSet(nodes[m].refs),
                    Pair(m, ref.target) \notin torn
             PROVE  /\ nodes[ref.target] # Absent
                    /\ Entries(m, ref) = Entries(ref.target, Flipped(ref, m))
  BY DEF ReferencesAgree
<1> DEFINE n == ref.target
<1>1. AreNodes(nodes) /\ Agree(nodes, torn)
  OBVIOUS
<1>2. nodes[m].refs \in Seq(References_)
  BY <1>1 DEF AreNodes, IsNode
<1>3. ref \in References_
  BY <1>2 DEF ToSet
<1>4. /\ ref = Reference(ref.type, ref.fwd, n) /\ Flipped(ref, m) = Reference(ref.type, ~ref.fwd, m)
      /\ ref.type \in Ids /\ ref.fwd \in BOOLEAN /\ n \in Ids
  BY <1>3 DEF References_, Reference, Flipped
<1>5. EntriesAt(nodes, m, ref) = EntriesAt(nodes, n, Flipped(ref, m))
  <2> HIDE DEF n
  <2>1. EntriesAt(nodes, m, Reference(ref.type, ref.fwd, n)) = EntriesAt(nodes, n, Reference(ref.type, ~ref.fwd, m))
    <3>1. Pair(m, n) \notin torn
      BY DEF n
    <3> QED
      BY <1>1, <1>4, <3>1 DEF Agree
  <2> QED
    BY <1>4, <2>1
<1>6. EntriesAt(nodes, m, ref) = Entries(m, ref) /\ EntriesOf(nodes[m].refs, ref) # 0
  <2>1. EntriesOf(nodes[m].refs, ref) # 0
    BY <1>2, HasEntries
  <2> QED
    BY <2>1 DEF EntriesAt, Entries
<1>7. nodes[n] # Absent
  BY <1>5, <1>6 DEF EntriesAt, Entries
<1>8. EntriesAt(nodes, n, Flipped(ref, m)) = Entries(n, Flipped(ref, m))
  BY <1>7 DEF EntriesAt, Entries
<1> QED
  BY <1>5, <1>6, <1>7, <1>8

(* Any two nodes have the same entries about each other, as many times, as *)
(* long as none of theirs was deleted alone and no second direction failed *)
(* (Service_AddReferences_single, deleteOneWayReference), whatever nodes   *)
(* there are at the start and wherever memory runs out.                    *)
THEOREM ReferencesAgreeCorrect == Spec => []ReferencesAgree
<1>1. IInv => ReferencesAgree
  BY NodesAgree DEF IInv, StateInv
<1> QED
  BY <1>1, InvAlways, PTL

(* Every session has as many points as are counted, and none stands before *)
(* its first page (removeCp, Service_Browse_single).                       *)
THEOREM PointsAreCountedCorrect == Spec => []PointsAreCounted
<1> QED
  BY InvAlways, InvImpliesPoints, PTL

(* Pages give each reference once and in order, and all of them in the end *)
(* (Service_Browse_single, Service_BrowseNext).                            *)
THEOREM PagesAreExactCorrect == Spec => []PagesAreExact
<1>1. IInv => PagesAreExact
  BY DEF IInv
<1> QED
  BY <1>1, InvAlways, PTL

-----------------------------------------------------------------------------
(***************************************************************************)
(* Namespace 0 (UA_Server_new): whatever is added has a class or is a      *)
(* reference.                                                              *)
(***************************************************************************)
IsItem(x) == x.kind = "link" \/ (x.kind # "link" /\ x.class # "none")
HasItems(seq) ==
    /\ seq \in Seq(ToSet(seq))
    /\ \A i \in 1..Len(seq) : IsItem(seq[i])

(* An array of additions has them.                                         *)
LEMMA MakesItems ==
    ASSUME NEW S, NEW seq \in Seq(S), \A i \in 1..Len(seq) : IsItem(seq[i])
    PROVE  HasItems(seq)
<1>1. Len(seq) \in Nat /\ DOMAIN seq = 1..Len(seq) /\ seq = [i \in 1..Len(seq) |-> seq[i]]
  OBVIOUS
<1>2. \A i \in 1..Len(seq) : seq[i] \in ToSet(seq)
  BY <1>1 DEF ToSet
<1>3. [i \in 1..Len(seq) |-> seq[i]] \in Seq(ToSet(seq))
  BY <1>1, <1>2, IsASeq
<1> QED
  BY <1>1, <1>3 DEF HasItems

(* One array after another.                                                *)
LEMMA JoinItems ==
    ASSUME NEW a, NEW b, HasItems(a), HasItems(b)
    PROVE  HasItems(a \o b)
<1> DEFINE S == ToSet(a) \union ToSet(b)
<1>1. /\ a \in Seq(ToSet(a)) /\ \A i \in 1..Len(a) : IsItem(a[i])
      /\ b \in Seq(ToSet(b)) /\ \A i \in 1..Len(b) : IsItem(b[i])
  BY DEF HasItems
<1>2. a \in Seq(S) /\ b \in Seq(S) /\ Len(a) \in Nat /\ Len(b) \in Nat
  BY <1>1
<1> HIDE DEF S
<1>3. /\ a \o b \in Seq(S) /\ Len(a \o b) = Len(a) + Len(b)
      /\ \A i \in 1..(Len(a) + Len(b)) : (a \o b)[i] = IF i <= Len(a) THEN a[i] ELSE b[i - Len(a)]
  BY <1>2, ConcatProperties
<1>4. ASSUME NEW i \in 1..Len(a \o b) PROVE IsItem((a \o b)[i])
  <2>1. CASE i <= Len(a)
    <3>1. i \in 1..Len(a) /\ (a \o b)[i] = a[i]
      BY <1>2, <1>3, <2>1
    <3> QED
      BY <1>1, <3>1
  <2>2. CASE ~(i <= Len(a))
    <3>1. i - Len(a) \in 1..Len(b) /\ (a \o b)[i] = b[i - Len(a)]
      BY <1>2, <1>3, <2>2
    <3> QED
      BY <1>1, <3>1
  <2> QED
    BY <2>1, <2>2
<1> QED
  BY <1>3, <1>4, MakesItems

(* The additions of each kind.                                             *)
LEMMA ItemsOfKinds ==
    /\ \A id, class, parent, type : class # "none" => IsItem(Add(id, class, parent, type))
    /\ \A id, class : class # "none" => IsItem(Bare(id, class))
    /\ \A id, type, target : IsItem(Link(id, type, target))
BY DEF IsItem, Add, Bare, Link

(* One addition, and two.                                                  *)
LEMMA FewItems ==
    /\ \A x : IsItem(x) => HasItems(<<x>>)
    /\ \A x, y : IsItem(x) /\ IsItem(y) => HasItems(<<x, y>>)
<1>1. ASSUME NEW x, IsItem(x) PROVE HasItems(<<x>>)
  <2>1. <<x>> \in Seq({x}) /\ Len(<<x>>) = 1 /\ <<x>>[1] = x
    OBVIOUS
  <2>2. \A i \in 1..Len(<<x>>) : IsItem(<<x>>[i])
    BY <1>1, <2>1
  <2> QED
    BY <2>1, <2>2, MakesItems
<1>2. ASSUME NEW x, NEW y, IsItem(x), IsItem(y) PROVE HasItems(<<x, y>>)
  <2>1. <<x, y>> \in Seq({x, y}) /\ Len(<<x, y>>) = 2 /\ <<x, y>>[1] = x /\ <<x, y>>[2] = y
    OBVIOUS
  <2>2. \A i \in 1..Len(<<x, y>>) : i = 1 \/ i = 2
    BY <2>1
  <2>3. \A i \in 1..Len(<<x, y>>) : IsItem(<<x, y>>[i])
    BY <1>2, <2>1, <2>2
  <2> QED
    BY <2>1, <2>3, MakesItems
<1> QED
  BY <1>1, <1>2

(* One addition for each name.                                             *)
LEMMA ItemsUnder ==
    ASSUME NEW parent, NEW class, NEW type, NEW names, names \in Seq(ToSet(names)), class # "none"
    PROVE  HasItems(Under(parent, class, type, names))
<1> DEFINE seq == [i \in 1..Len(names) |-> Add(names[i], class, parent, type)]
           All == {Add(names[i], class, parent, type) : i \in 1..Len(names)}
<1>1. Len(names) \in Nat /\ DOMAIN names = 1..Len(names)
  OBVIOUS
<1>2. Under(parent, class, type, names) = seq
  BY <1>1 DEF Under
<1>3. \A i \in 1..Len(names) : Add(names[i], class, parent, type) \in All
  OBVIOUS
<1>4. seq \in Seq(All)
  <2> HIDE DEF All
  <2> QED
    BY <1>1, <1>3, IsASeq
<1>5. Len(seq) = Len(names)
  BY <1>1
<1>6. \A i \in 1..Len(seq) : IsItem(seq[i])
  <2> SUFFICES ASSUME NEW i \in 1..Len(seq) PROVE IsItem(seq[i])
    OBVIOUS
  <2>1. seq[i] = Add(names[i], class, parent, type)
    BY <1>5
  <2> QED
    BY <2>1, ItemsOfKinds
<1> HIDE DEF seq
<1> QED
  BY <1>2, <1>4, <1>6, MakesItems

(* A node with its type definition.                                        *)
LEMMA ItemsTyped ==
    ASSUME NEW id, NEW class, NEW parent, NEW type, NEW definition, class # "none"
    PROVE  HasItems(Typed(id, class, parent, type, definition))
BY ItemsOfKinds, FewItems DEF Typed

(* Names are a sequence of themselves.                                     *)
IsNames(names) == names \in Seq(ToSet(names))

(* Tuples of names are, as long as those of namespace 0.                   *)
LEMMA NamesAreNames ==
    /\ \A a : IsNames(<<a>>)
    /\ \A a, b : IsNames(<<a, b>>)
    /\ \A a, b, c : IsNames(<<a, b, c>>)
    /\ \A a, b, c, d : IsNames(<<a, b, c, d>>)
    /\ \A a, b, c, d, e : IsNames(<<a, b, c, d, e>>)
    /\ \A a, b, c, d, e, f : IsNames(<<a, b, c, d, e, f>>)
    /\ \A a, b, c, d, e, f, g, h, i, j, k : IsNames(<<a, b, c, d, e, f, g, h, i, j, k>>)
BY DEF IsNames, ToSet

(* Additions for such names have a class.                                  *)
LEMMA UnderNames ==
    ASSUME NEW parent, NEW class, NEW type, NEW names, IsNames(names), class # "none"
    PROVE  HasItems(Under(parent, class, type, names))
BY ItemsUnder DEF IsNames

(* The reference types of the bootstrap.                                   *)
LEMMA ReferenceTypesItems == HasItems(ReferenceTypes)
BY JoinItems, UnderNames, NamesAreNames, FewItems, ItemsOfKinds DEF ReferenceTypes, ReferenceTypesUnder

(* The reference types that need HasSubtype.                               *)
LEMMA MoreReferenceTypesItems == HasItems(MoreReferenceTypes)
BY JoinItems, UnderNames, NamesAreNames DEF MoreReferenceTypes, ReferenceTypesUnder

(* The folders.                                                            *)
LEMMA FoldersItems == HasItems(Folders)
BY JoinItems, UnderNames, NamesAreNames, FewItems, ItemsOfKinds DEF Folders

(* The server object with its properties.                                  *)
LEMMA ServerObjectItems == HasItems(ServerObject)
BY JoinItems, ItemsTyped DEF ServerObject, Property

(* The status of the server.                                               *)
LEMMA ServerStatusItems == HasItems(ServerStatus)
<1>1. HasItems(<<Add("BuildDate", "Variable", "BuildInfo", "HasComponent"),
                 Link("BuildNumber", "HasTypeDefinition", "BaseDataVariableType")>>)
  BY FewItems, ItemsOfKinds
<1> QED
  BY <1>1, JoinItems, ItemsTyped DEF ServerStatus, Component

(* The data types.                                                         *)
LEMMA DataTypesItems == HasItems(DataTypes)
BY JoinItems, ItemsTyped, UnderNames, NamesAreNames DEF DataTypes, DataTypesUnder, Folder

(* The variable types.                                                     *)
LEMMA VariableTypesItems == HasItems(VariableTypes)
BY JoinItems, ItemsTyped, UnderNames, NamesAreNames DEF VariableTypes, Folder

(* The object types.                                                       *)
LEMMA ObjectTypesItems == HasItems(ObjectTypes)
<1> DEFINE typed == [i \in DOMAIN FoldersToType |-> Link(FoldersToType[i], "HasTypeDefinition", "FolderType")]
<1>1. HasItems(typed)
  <2>1. DOMAIN FoldersToType = 1..6
    BY DEF FoldersToType
  <2>2. typed = [i \in 1..6 |-> Link(FoldersToType[i], "HasTypeDefinition", "FolderType")]
    BY <2>1
  <2>3. typed \in Seq({Link(FoldersToType[i], "HasTypeDefinition", "FolderType") : i \in 1..6}) /\ Len(typed) = 6
    BY <2>2, IsASeq
  <2>4. \A i \in 1..Len(typed) : IsItem(typed[i])
    BY <2>2, <2>3, ItemsOfKinds
  <2> HIDE DEF typed
  <2> QED
    BY <2>3, <2>4, MakesItems
<1> QED
  BY <1>1, JoinItems, UnderNames, NamesAreNames DEF ObjectTypes

(* All of them.                                                            *)
LEMMA AdditionsAreItems == HasItems(Additions)
BY JoinItems, ReferenceTypesItems, MoreReferenceTypesItems, FoldersItems, ObjectTypesItems, DataTypesItems,
   VariableTypesItems, ServerObjectItems, ServerStatusItems DEF Additions

(* Namespace 0 may be built from any state like this.                      *)
BuildInv ==
    /\ AreNodes(nodes) /\ AreTorn(torn) /\ Agree(nodes, torn)
    /\ built \in 0..Len(Additions)

(* No nodes agree.                                                         *)
LEMMA NoNodesAgree == AreNodes(NoNodes) /\ AreTorn({}) /\ Agree(NoNodes, {})
BY DEF AreNodes, AreTorn, Agree, NoNodes, EntriesAt

(* An addition starts with a sound state.                                  *)
LEMMA StateSound ==
    ASSUME BuildInv, NEW fails
    PROVE  Sound(State(fails))
BY NoPointsYet DEF BuildInv, Sound, IsState, State, NoPoints

(* It starts with an empty node store.                                     *)
LEMMA BuildStarts == BuildInit => BuildInv
<1>1. Len(Additions) \in Nat
  BY AdditionsAreItems DEF HasItems
<1> QED
  BY <1>1, NoNodesAgree DEF BuildInit, BuildInv

(* Whatever memory an addition finds, it leaves a sound state.             *)
LEMMA AddNextInv ==
    ASSUME BuildInv, NEW fails, AddNext(fails)
    PROVE  BuildInv'
<1> DEFINE item == Additions[built + 1]
           s == Added(State(fails), item)
<1>1. /\ Len(Additions) \in Nat /\ DOMAIN Additions = 1..Len(Additions)
      /\ \A i \in 1..Len(Additions) : IsItem(Additions[i])
  BY AdditionsAreItems DEF HasItems
<1>2. built + 1 \in 1..Len(Additions)
  <2>1. built \in 0..Len(Additions) /\ built # Len(Additions)
    BY DEF BuildInv, AddNext, IsBuilt
  <2> DEFINE n == Len(Additions)
  <2>2. n \in Nat /\ built \in 0..n /\ built # n
    BY <1>1, <2>1
  <2> HIDE DEF n
  <2>3. built + 1 \in 1..n
    BY ONLY <2>2
  <2> QED
    BY <2>3 DEF n
<1>3. item.id \in Ids /\ (item.kind = "link" => item.ref \in References_)
  BY <1>1, <1>2, NamespaceAssumption DEF NodesOf, LinksOf
<1>4. Sound(State(fails))
  BY StateSound
<1>5. item.kind # "link" => item.class # "none"
  BY <1>1, <1>2 DEF IsItem
<1>6. nodes' = s.nodes /\ torn' = s.torn /\ built' = built + 1
  BY DEF AddNext
<1> HIDE DEF item
<1>7. Sound(s)
  <2>1. CASE item.kind = "add"
    BY <1>3, <1>4, <1>5, <2>1, AddExistingNodeSound DEF Added
  <2>2. CASE item.kind = "link"
    BY <1>3, <1>4, <2>2, AddReferenceSound DEF Added
  <2>3. CASE item.kind \notin {"add", "link"}
    <3>1. IsNode(NewNode(item)) /\ NewNode(item).refs = <<>>
      BY <1>5, <2>3 DEF IsNode, NewNode
    <3> QED
      BY <1>3, <1>4, <2>3, <3>1, InsertNodeSound DEF Added
  <2> QED
    BY <2>1, <2>2, <2>3
<1> HIDE DEF s
<1>8. AreNodes(nodes') /\ AreTorn(torn') /\ Agree(nodes', torn')
  BY <1>6, <1>7 DEF Sound
<1>9. built' \in 0..Len(Additions)
  BY <1>1, <1>2, <1>6
<1> QED
  BY <1>8, <1>9 DEF BuildInv

(* Whatever additions memory was short for, what they leave agrees in both *)
(* directions except where a second direction failed (UA_Server_new).      *)
THEOREM NamespaceAgreesCorrect == BuildSpec => []ReferencesAgree
<1>1. BuildInv /\ [BuildNext]_space => BuildInv'
  <2>1. ASSUME BuildInv, LeaveNodes PROVE BuildInv'
    BY <2>1, NoNodesAgree DEF BuildInv, LeaveNodes
  <2>2. ASSUME BuildInv, UNCHANGED space PROVE BuildInv'
    BY <2>2 DEF BuildInv, space
  <2> QED
    BY <2>1, <2>2, AddNextInv DEF BuildNext
<1>2. BuildInv => ReferencesAgree
  BY NodesAgree DEF BuildInv
<1> QED
  BY <1>1, <1>2, BuildStarts, PTL DEF BuildSpec
=============================================================================
