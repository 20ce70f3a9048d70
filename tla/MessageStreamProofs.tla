------------------------- MODULE MessageStreamProofs -------------------------
(***************************************************************************)
(* Proofs about the messages on a connection, for any messages and sizes,  *)
(* any buffers, and allocations that fail, if send takes whole buffers:    *)
(* what is processed is a message the peer sent, whole, once and in order, *)
(* nothing is held back, and the connection is a queue.                    *)
(*                                                                         *)
(* The argument is about the bytes in transit, those stored in             *)
(* incompleteMessage followed by those in the stream: they are always the  *)
(* last bytes that were written, one following the other without a gap.    *)
(***************************************************************************)
EXTENDS MessageStream, TLAPS, SequenceTheorems, FiniteSetTheorems, NaturalsInduction, WellFoundedInduction

-----------------------------------------------------------------------------
(* The positions the loop of completeMessages comes to                     *)

(* A set of natural numbers that is not empty has a least element.         *)
LEMMA LeastElement ==
    ASSUME NEW T, T \subseteq Nat, T # {}
    PROVE  \E n \in T : \A m \in T : n <= m
<1>1. PICK n \in T : \A m \in T : <<m, n>> \notin OpToRel(<, Nat)
  BY NatLessThanWellFounded, WFMin
<1>2. \A m \in T : ~(m < n)
  BY <1>1 DEF OpToRel
<1> QED
  BY <1>2

(* What can be reached from 0 over the pairs of E is defined by recursion  *)
(* on the position: there is a function that satisfies the equation.       *)
LEMMA ReachedExists ==
    ASSUME NEW n \in Nat, NEW E
    PROVE  \E f : f = [pos \in 0..n |-> pos = 0 \/ \E p \in 0..(pos - 1) : f[p] /\ <<p, pos>> \in E]
<1> DEFINE Reached(f, pos) == pos = 0 \/ \E p \in 0..(pos - 1) : f[p] /\ <<p, pos>> \in E
           T == {m \in Nat : ~ \E f : f = [pos \in 0..m |-> Reached(f, pos)]}
<1>1. T = {}
  <2> SUFFICES ASSUME T # {} PROVE FALSE
    OBVIOUS
  <2>1. PICK m \in T : \A k \in T : m <= k
    <3>1. T \subseteq Nat
      OBVIOUS
    <3> HIDE DEF T
    <3> QED
      BY <3>1, LeastElement
  <2>2. m \in Nat
    OBVIOUS
  <2>3. CASE m = 0
    <3> DEFINE f == [pos \in 0..0 |-> TRUE]
    <3>1. f = [pos \in 0..0 |-> Reached(f, pos)]
      <4>1. \A pos \in 0..0 : Reached(f, pos) = TRUE
        OBVIOUS
      <4> QED
        BY <4>1
    <3> QED
      BY <2>3, <3>1
  <2>4. CASE m # 0
    <3>1. m - 1 \in Nat /\ ~(m <= m - 1)
      BY <2>2, <2>4
    <3>2. m - 1 \notin T
      <4> HIDE DEF T
      <4> QED
        BY <2>1, <3>1
    <3>3. PICK f : f = [pos \in 0..(m - 1) |-> Reached(f, pos)]
      BY <3>1, <3>2
    <3> DEFINE g == [pos \in 0..m |-> IF pos = m THEN Reached(f, m) ELSE f[pos]]
    <3>4. \A pos \in 0..m : g[pos] = Reached(g, pos)
      <4> SUFFICES ASSUME NEW pos \in 0..m PROVE g[pos] = Reached(g, pos)
        OBVIOUS
      <4>1. \A p \in 0..(pos - 1) : g[p] = f[p]
        BY <2>2
      <4>2. Reached(g, pos) = Reached(f, pos)
        BY <4>1
      <4>3. g[pos] = Reached(f, pos)
        <5>1. CASE pos = m
          BY <5>1
        <5>2. CASE pos # m
          <6>1. pos \in 0..(m - 1)
            BY <2>2, <5>2
          <6> HIDE DEF Reached
          <6>2. f[pos] = Reached(f, pos)
            BY <3>3, <6>1
          <6> QED
            BY <5>2, <6>2
        <5> QED
          BY <5>1, <5>2
      <4> QED
        BY <4>2, <4>3
    <3>5. g = [pos \in 0..m |-> g[pos]]
      OBVIOUS
    <3> HIDE DEF g, Reached
    <3>6. g = [pos \in 0..m |-> Reached(g, pos)]
      BY <3>4, <3>5
    <3> QED
      BY <3>6
  <2> QED
    BY <2>3, <2>4
<1> QED
  BY <1>1

(* The ends of the complete messages, and nothing else, are stops.         *)
LEMMA StopsAre ==
    ASSUME NEW buf, Len(buf) \in Nat
    PROVE  /\ Stops(buf) \subseteq 0..Len(buf) /\ 0 \in Stops(buf)
           /\ \A q \in Stops(buf) : q # 0 =>
                 \E p \in Stops(buf) : p < q /\ CompleteMessage(buf, p) /\ q = p + SizeAt(buf, p)
           /\ \A p \in Stops(buf) : CompleteMessage(buf, p) => p + SizeAt(buf, p) \in Stops(buf)
<1> DEFINE L == Len(buf)
           Body(f, pos) ==
             \/ pos = 0
             \/ \E p \in 0..(pos - 1) : f[p] /\ CompleteMessage(buf, p) /\ pos = p + SizeAt(buf, p)
           stop == CHOOSE f : f = [pos \in 0..L |-> Body(f, pos)]
           E == {e \in (0..L) \X (0..L) : CompleteMessage(buf, e[1]) /\ e[2] = e[1] + SizeAt(buf, e[1])}
<1>1. Stops(buf) = {pos \in 0..L : stop[pos]}
  BY DEF Stops
<1>2. \E f : f = [pos \in 0..L |-> Body(f, pos)]
  <2>1. PICK f : f = [pos \in 0..L |-> pos = 0 \/ \E p \in 0..(pos - 1) : f[p] /\ <<p, pos>> \in E]
    <3> HIDE DEF E
    <3> QED
      BY ReachedExists
  <2>2. \A pos \in 0..L : \A p \in 0..(pos - 1) :
          <<p, pos>> \in E <=> CompleteMessage(buf, p) /\ pos = p + SizeAt(buf, p)
    <3> SUFFICES ASSUME NEW pos \in 0..L, NEW p \in 0..(pos - 1)
                 PROVE  <<p, pos>> \in E <=> CompleteMessage(buf, p) /\ pos = p + SizeAt(buf, p)
      OBVIOUS
    <3>1. p \in 0..L
      OBVIOUS
    <3> QED
      BY <3>1
  <2> HIDE DEF E
  <2>3. \A pos \in 0..L :
          Body(f, pos) = (pos = 0 \/ \E p \in 0..(pos - 1) : f[p] /\ <<p, pos>> \in E)
    BY <2>2
  <2> HIDE DEF Body
  <2>4. f = [pos \in 0..L |-> Body(f, pos)]
    BY <2>1, <2>3
  <2> QED
    BY <2>4
<1>3. stop = [pos \in 0..L |-> Body(stop, pos)]
  <2> HIDE DEF Body
  <2> QED
    BY <1>2
<1>4. \A pos \in 0..L : stop[pos] = Body(stop, pos)
  <2> HIDE DEF Body, stop
  <2> QED
    BY <1>3
<1> HIDE DEF stop
<1>5. Stops(buf) \subseteq 0..L /\ 0 \in Stops(buf)
  <2>1. 0 \in 0..L
    OBVIOUS
  <2>2. stop[0]
    BY <1>4, <2>1
  <2> QED
    BY <1>1, <2>1, <2>2
<1>6. ASSUME NEW q \in Stops(buf), q # 0
      PROVE  \E p \in Stops(buf) : p < q /\ CompleteMessage(buf, p) /\ q = p + SizeAt(buf, p)
  <2>1. q \in 0..L /\ stop[q]
    BY <1>1
  <2>2. PICK p \in 0..(q - 1) : stop[p] /\ CompleteMessage(buf, p) /\ q = p + SizeAt(buf, p)
    BY <1>4, <1>6, <2>1
  <2>3. p \in 0..L /\ p < q
    BY <2>1
  <2> QED
    BY <1>1, <2>2, <2>3
<1>7. ASSUME NEW p \in Stops(buf), CompleteMessage(buf, p)
      PROVE  p + SizeAt(buf, p) \in Stops(buf)
  <2>1. p \in 0..L /\ stop[p]
    BY <1>1
  <2>2. SizeAt(buf, p) \in Nat /\ SizeAt(buf, p) > 0 /\ p + SizeAt(buf, p) <= L
    BY <1>7, SizeAssumption, BufferAssumption DEF CompleteMessage, Header, SizeAt
  <2>3. p + SizeAt(buf, p) \in 0..L /\ p \in 0..((p + SizeAt(buf, p)) - 1)
    BY <2>1, <2>2
  <2>4. stop[p + SizeAt(buf, p)]
    <3>1. PICK q : q = p + SizeAt(buf, p)
      OBVIOUS
    <3>2. q \in 0..L /\ p \in 0..(q - 1)
      BY <2>3, <3>1
    <3>3. Body(stop, q)
      BY <1>7, <2>1, <3>1, <3>2
    <3> HIDE DEF Body
    <3>4. stop[q]
      BY <1>4, <3>2, <3>3
    <3> QED
      BY <3>1, <3>4
  <2> QED
    BY <1>1, <2>3, <2>4
<1> QED
  BY <1>5, <1>6, <1>7

(* The stops are linked: from every stop but the last, the loop goes on to *)
(* the end of a complete message, and to no stop in between.               *)
LEMMA StopsAreLinked ==
    ASSUME NEW buf, Len(buf) \in Nat, NEW p \in Stops(buf), NEW q \in Stops(buf), p < q
    PROVE  CompleteMessage(buf, p) /\ p + SizeAt(buf, p) <= q
<1> DEFINE Linked(a, b) == CompleteMessage(buf, a) /\ a + SizeAt(buf, a) <= b
           T == {b \in Stops(buf) : \E a \in Stops(buf) : a < b /\ ~Linked(a, b)}
<1>1. Stops(buf) \subseteq Nat
  BY StopsAre
<1>2. T = {}
  <2> SUFFICES ASSUME T # {} PROVE FALSE
    OBVIOUS
  <2>1. PICK b \in T : \A m \in T : b <= m
    <3>1. T \subseteq Nat
      BY <1>1
    <3> HIDE DEF T
    <3> QED
      BY <3>1, LeastElement
  <2>2. b \in Stops(buf) /\ b \in Nat
    BY <1>1
  <2>3. PICK a \in Stops(buf) : a < b /\ ~Linked(a, b)
    OBVIOUS
  <2>4. a \in Nat /\ b # 0
    BY <1>1, <2>2, <2>3
  <2>5. PICK r \in Stops(buf) : r < b /\ CompleteMessage(buf, r) /\ b = r + SizeAt(buf, r)
    BY <2>2, <2>4, StopsAre
  <2>6. r \in Nat
    BY <1>1
  <2>7. ASSUME NEW x \in Stops(buf), NEW y \in Stops(buf), x < y, y < b PROVE Linked(x, y)
    <3>1. y \notin T
      <4>1. ~(b <= y)
        BY <1>1, <2>2, <2>7
      <4> HIDE DEF T
      <4> QED
        BY <2>1, <4>1
    <3> HIDE DEF Linked
    <3> QED
      BY <2>7, <3>1
  <2>8. CASE r = a
    BY <2>2, <2>3, <2>5, <2>8
  <2>9. CASE a < r
    <3>1. CompleteMessage(buf, a) /\ a + SizeAt(buf, a) <= r
      BY <2>5, <2>7, <2>9
    <3>2. SizeAt(buf, a) \in Nat
      BY <3>1, BufferAssumption, SizeAssumption DEF CompleteMessage, Header, SizeAt
    <3>3. a + SizeAt(buf, a) <= b
      BY <2>2, <2>4, <2>5, <2>6, <3>1, <3>2
    <3> QED
      BY <2>3, <3>1, <3>3
  <2>10. CASE r < a
    <3>1. r + SizeAt(buf, r) <= a
      BY <2>3, <2>7, <2>10
    <3> QED
      BY <2>2, <2>3, <2>4, <2>5, <3>1
  <2> QED
    BY <2>4, <2>6, <2>8, <2>9, <2>10
<1> HIDE DEF Linked
<1>3. Linked(p, q)
  BY <1>2
<1> QED
  BY <1>3 DEF Linked

(* The number of the stops before a position                               *)
Rank(buf, p) == Cardinality({q \in Stops(buf) : q < p})
CountOf(buf) == Cardinality(Stops(buf)) - 1

(* The size of a complete message is a positive number.                    *)
LEMMA SizeAtIs ==
    ASSUME NEW buf, NEW p, CompleteMessage(buf, p)
    PROVE  SizeAt(buf, p) \in MinSize..MaxSize /\ SizeAt(buf, p) \in Nat \ {0}
BY BufferAssumption, SizeAssumption DEF CompleteMessage, Header, SizeAt

(* The stops are finitely many, and the last one has the highest rank.     *)
LEMMA LastStopIs ==
    ASSUME NEW buf, Len(buf) \in Nat
    PROVE  /\ IsFiniteSet(Stops(buf)) /\ CountOf(buf) \in Nat
           /\ LastStop(buf) \in Stops(buf) /\ \A p \in Stops(buf) : p <= LastStop(buf)
           /\ Rank(buf, LastStop(buf)) = CountOf(buf)
           /\ ~CompleteMessage(buf, LastStop(buf))
<1>1. Stops(buf) \subseteq 0..Len(buf) /\ 0 \in Stops(buf)
  BY StopsAre
<1>2. IsFiniteSet(Stops(buf))
  <2>1. IsFiniteSet(0..Len(buf))
    BY FS_Interval
  <2> QED
    BY <1>1, <2>1, FS_Subset
<1>3. \E m \in Stops(buf) : \A p \in Stops(buf) : p <= m
  <2> DEFINE T == {n \in Nat : \A p \in Stops(buf) : p <= n}
  <2>1. T \subseteq Nat /\ Len(buf) \in T
    BY <1>1
  <2>2. PICK n \in T : \A m \in T : n <= m
    <3>1. T # {}
      BY <2>1
    <3> HIDE DEF T
    <3> QED
      BY <2>1, <3>1, LeastElement
  <2>3. n \in Nat /\ \A p \in Stops(buf) : p <= n
    OBVIOUS
  <2>4. n \in Stops(buf)
    <3> SUFFICES ASSUME n \notin Stops(buf) PROVE FALSE
      OBVIOUS
    <3>1. n # 0 /\ n - 1 \in Nat /\ ~(n <= n - 1)
      BY <1>1, <2>3
    <3>2. \A p \in Stops(buf) : p <= n - 1
      BY <1>1, <2>3
    <3>3. n - 1 \in T
      BY <3>1, <3>2
    <3> HIDE DEF T
    <3> QED
      BY <2>2, <3>1, <3>3
  <2> QED
    BY <2>3, <2>4
<1>4. LastStop(buf) \in Stops(buf) /\ \A p \in Stops(buf) : p <= LastStop(buf)
  BY <1>3 DEF LastStop
<1> DEFINE l == LastStop(buf)
           before == {q \in Stops(buf) : q < l}
<1>5. before = Stops(buf) \ {l}
  BY <1>1, <1>4
<1>6. Cardinality(before) = Cardinality(Stops(buf)) - 1
  BY <1>2, <1>4, <1>5, FS_RemoveElement
<1>7. Cardinality(before) \in Nat
  <2>1. IsFiniteSet(before)
    BY <1>2, <1>5, FS_RemoveElement
  <2> QED
    BY <2>1, FS_CardinalityType
<1>8. ~CompleteMessage(buf, l)
  <2> SUFFICES ASSUME CompleteMessage(buf, l) PROVE FALSE
    OBVIOUS
  <2>1. l + SizeAt(buf, l) \in Stops(buf) /\ SizeAt(buf, l) \in Nat \ {0} /\ l \in Nat
    BY <1>1, <1>4, StopsAre, SizeAtIs
  <2>2. l + SizeAt(buf, l) <= l
    BY <1>4, <2>1
  <2> QED
    BY <2>1, <2>2
<1> QED
  BY <1>2, <1>4, <1>6, <1>7, <1>8 DEF Rank, CountOf

(* The ranks count the stops: 0 comes first, the end of a message next.    *)
LEMMA RanksAre ==
    ASSUME NEW buf, Len(buf) \in Nat
    PROVE  /\ Rank(buf, 0) = 0
           /\ \A p \in Stops(buf) : Rank(buf, p) \in Nat
           /\ \A p \in Stops(buf) : CompleteMessage(buf, p) =>
                 Rank(buf, p + SizeAt(buf, p)) = Rank(buf, p) + 1
           /\ \A p, q \in Stops(buf) : p < q => Rank(buf, p) < Rank(buf, q)
<1>1. /\ Stops(buf) \subseteq 0..Len(buf) /\ 0 \in Stops(buf) /\ IsFiniteSet(Stops(buf))
      /\ Stops(buf) \subseteq Nat
  BY StopsAre, LastStopIs
<1>2. \A p : IsFiniteSet({q \in Stops(buf) : q < p}) /\ Rank(buf, p) \in Nat
  <2> SUFFICES ASSUME NEW p PROVE IsFiniteSet({q \in Stops(buf) : q < p}) /\ Rank(buf, p) \in Nat
    OBVIOUS
  <2>1. {q \in Stops(buf) : q < p} \in SUBSET Stops(buf)
    OBVIOUS
  <2>2. IsFiniteSet({q \in Stops(buf) : q < p})
    BY <1>1, <2>1, FS_Subset
  <2> QED
    BY <2>2, FS_CardinalityType DEF Rank
<1>3. Rank(buf, 0) = 0
  <2>1. {q \in Stops(buf) : q < 0} = {}
    BY <1>1
  <2> QED
    BY <2>1, FS_EmptySet DEF Rank
<1>4. ASSUME NEW p \in Stops(buf), CompleteMessage(buf, p)
      PROVE  Rank(buf, p + SizeAt(buf, p)) = Rank(buf, p) + 1
  <2> DEFINE r == p + SizeAt(buf, p)
  <2>1. p \in Nat /\ r \in Nat /\ p < r /\ r \in Stops(buf)
    BY <1>1, <1>4, StopsAre, SizeAtIs
  <2>2. ASSUME NEW q \in Stops(buf) PROVE q < r <=> q < p \/ q = p
    <3>1. q \in Nat
      BY <1>1
    <3>2. p < q => r <= q
      BY StopsAreLinked
    <3> HIDE DEF r
    <3> QED
      BY <2>1, <3>1, <3>2
  <2>3. {q \in Stops(buf) : q < r} = {q \in Stops(buf) : q < p} \cup {p}
    <3> HIDE DEF r
    <3> QED
      BY <2>2
  <2>4. p \notin {q \in Stops(buf) : q < p}
    BY <1>1
  <2>5. Cardinality({q \in Stops(buf) : q < p} \cup {p}) = Cardinality({q \in Stops(buf) : q < p}) + 1
    BY <1>2, <2>4, FS_AddElement
  <2> QED
    BY <2>3, <2>5 DEF Rank
<1>5. ASSUME NEW p \in Stops(buf), NEW q \in Stops(buf), p < q
      PROVE  Rank(buf, p) < Rank(buf, q)
  <2> DEFINE P == {x \in Stops(buf) : x < p}
             Q == {x \in Stops(buf) : x < q}
  <2>1. P \in SUBSET Q /\ p \in Q /\ p \notin P
    BY <1>1, <1>5
  <2>2. IsFiniteSet(Q) /\ Cardinality(P) \in Nat /\ Cardinality(Q) \in Nat
    BY <1>2 DEF Rank
  <2>3. Cardinality(P) <= Cardinality(Q) /\ Cardinality(P) # Cardinality(Q)
    <3> HIDE DEF P, Q
    <3> QED
      BY <2>1, <2>2, FS_Subset
  <2> QED
    BY <2>2, <2>3 DEF Rank
<1> QED
  BY <1>2, <1>3, <1>4, <1>5

(* The i-th stop, counted from 0                                           *)
Stop(buf, i) == CHOOSE p \in Stops(buf) : Rank(buf, p) = i

(* There is a stop of every rank up to the last; each but the last is      *)
(* followed by a complete message, and the next stop is its end.           *)
LEMMA StopIs ==
    ASSUME NEW buf, Len(buf) \in Nat
    PROVE  /\ \A i \in 0..CountOf(buf) : Stop(buf, i) \in Stops(buf) /\ Rank(buf, Stop(buf, i)) = i
           /\ Stop(buf, 0) = 0 /\ Stop(buf, CountOf(buf)) = LastStop(buf)
           /\ \A i \in 0..(CountOf(buf) - 1) :
                 /\ CompleteMessage(buf, Stop(buf, i))
                 /\ Stop(buf, i + 1) = Stop(buf, i) + SizeAt(buf, Stop(buf, i))
<1>1. /\ Stops(buf) \subseteq Nat /\ 0 \in Stops(buf)
      /\ CountOf(buf) \in Nat
      /\ LastStop(buf) \in Stops(buf) /\ Rank(buf, LastStop(buf)) = CountOf(buf)
      /\ \A p \in Stops(buf) : p <= LastStop(buf)
  BY StopsAre, LastStopIs
<1>2. /\ Rank(buf, 0) = 0
      /\ \A p \in Stops(buf) : Rank(buf, p) \in Nat
      /\ \A p \in Stops(buf) : CompleteMessage(buf, p) =>
            Rank(buf, p + SizeAt(buf, p)) = Rank(buf, p) + 1
      /\ \A p, q \in Stops(buf) : p < q => Rank(buf, p) < Rank(buf, q)
  BY RanksAre
<1>3. ASSUME NEW p \in Stops(buf), NEW q \in Stops(buf), Rank(buf, p) = Rank(buf, q)
      PROVE  p = q
  <2>1. p \in Nat /\ q \in Nat /\ ~(p < q) /\ ~(q < p)
    BY <1>1, <1>2, <1>3
  <2> QED
    BY <2>1
<1>4. ASSUME NEW p \in Stops(buf), Rank(buf, p) < CountOf(buf)
      PROVE  /\ CompleteMessage(buf, p) /\ p + SizeAt(buf, p) \in Stops(buf)
             /\ Rank(buf, p + SizeAt(buf, p)) = Rank(buf, p) + 1
  <2>1. p # LastStop(buf) /\ p \in Nat /\ LastStop(buf) \in Nat
    BY <1>1, <1>2, <1>4
  <2>2. p < LastStop(buf)
    BY <1>1, <2>1
  <2>3. CompleteMessage(buf, p)
    BY <1>1, <2>2, StopsAreLinked
  <2> QED
    BY <1>2, <2>3, StopsAre
<1> DEFINE T == {i \in 0..CountOf(buf) : ~ \E p \in Stops(buf) : Rank(buf, p) = i}
<1>5. T = {}
  <2> SUFFICES ASSUME T # {} PROVE FALSE
    OBVIOUS
  <2>1. PICK i \in T : \A m \in T : i <= m
    <3>1. T \subseteq Nat
      BY <1>1
    <3> HIDE DEF T
    <3> QED
      BY <3>1, LeastElement
  <2>2. i \in 0..CountOf(buf) /\ i # 0
    BY <1>1, <1>2
  <2>3. i - 1 \in 0..CountOf(buf) /\ ~(i <= i - 1) /\ i - 1 < CountOf(buf) /\ (i - 1) + 1 = i
    BY <1>1, <2>2
  <2>4. i - 1 \notin T
    <3> HIDE DEF T
    <3> QED
      BY <2>1, <2>3
  <2>5. PICK p \in Stops(buf) : Rank(buf, p) = i - 1
    BY <2>3, <2>4
  <2>6. p + SizeAt(buf, p) \in Stops(buf) /\ Rank(buf, p + SizeAt(buf, p)) = i
    BY <1>4, <2>3, <2>5
  <2> QED
    BY <2>2, <2>6
<1>6. \A i \in 0..CountOf(buf) : Stop(buf, i) \in Stops(buf) /\ Rank(buf, Stop(buf, i)) = i
  BY <1>5 DEF Stop
<1>7. 0 \in 0..CountOf(buf) /\ CountOf(buf) \in 0..CountOf(buf)
  BY <1>1
<1>8. Stop(buf, 0) = 0 /\ Stop(buf, CountOf(buf)) = LastStop(buf)
  BY <1>1, <1>2, <1>3, <1>6, <1>7
<1>9. ASSUME NEW i \in 0..(CountOf(buf) - 1)
      PROVE  /\ CompleteMessage(buf, Stop(buf, i))
             /\ Stop(buf, i + 1) = Stop(buf, i) + SizeAt(buf, Stop(buf, i))
  <2>1. i \in 0..CountOf(buf) /\ i + 1 \in 0..CountOf(buf) /\ i < CountOf(buf)
    BY <1>1
  <2>2. Stop(buf, i) \in Stops(buf) /\ Rank(buf, Stop(buf, i)) = i
    BY <1>6, <2>1
  <2>3. Stop(buf, i + 1) \in Stops(buf) /\ Rank(buf, Stop(buf, i + 1)) = i + 1
    BY <1>6, <2>1
  <2> QED
    BY <1>3, <1>4, <2>1, <2>2, <2>3
<1> QED
  BY <1>6, <1>8, <1>9

-----------------------------------------------------------------------------
(* Bytes without a gap                                                     *)

Byte == Nat \X Nat

(* The bytes of message n of the messages s                                *)
BytesOf(s, n) == [k \in 1..Size[s[n]] |-> <<n, k>>]

(* The byte that is written after b, for the messages s                    *)
Successor(s, b) == IF b[2] < Size[s[b[1]]] THEN <<b[1], b[2] + 1>> ELSE <<b[1] + 1, 1>>

(* w has bytes of the messages s, one following the other.                 *)
Contiguous(s, w) ==
    /\ w \in Seq(Byte)
    /\ \A j \in 1..Len(w) : w[j][1] \in 1..Len(s) /\ w[j][2] \in 1..Size[s[w[j][1]]]
    /\ \A j \in 1..Len(w) : j < Len(w) => w[j + 1] = Successor(s, w[j])

(* v is w without its first d bytes.                                       *)
IsSuffix(w, d, v) ==
    /\ v \in Seq(Byte) /\ Len(v) = Len(w) - d
    /\ \A j \in 1..Len(v) : v[j] = w[d + j]

(* v are the first bytes of w.                                             *)
IsFront(w, v) ==
    /\ v \in Seq(Byte) /\ Len(v) <= Len(w)
    /\ \A j \in 1..Len(v) : v[j] = w[j]

(* Every message has a size, and so a first byte.                          *)
LEMMA SizeIs ==
    ASSUME NEW s \in Seq(Messages), NEW n \in 1..Len(s)
    PROVE  /\ Size[s[n]] \in Nat \ {0} /\ Size[s[n]] >= MinSize /\ Size[s[n]] >= HeaderSize
           /\ MinSize \in Nat /\ HeaderSize \in Nat \ {0} /\ MaxSize \in Nat /\ MinSize <= MaxSize
<1>1. s[n] \in Messages
  BY ElementOfSeq
<1> QED
  BY <1>1, SizeAssumption, BufferAssumption

(* What is left of contiguous bytes is contiguous.                         *)
LEMMA SuffixContiguous ==
    ASSUME NEW s, NEW w, Contiguous(s, w), NEW d \in 0..Len(w), NEW v, IsSuffix(w, d, v)
    PROVE  Contiguous(s, v)
<1>1. Len(w) \in Nat /\ Len(v) \in Nat /\ Len(v) = Len(w) - d /\ v \in Seq(Byte)
  BY LenProperties DEF Contiguous, IsSuffix
<1>2. ASSUME NEW j \in 1..Len(v)
      PROVE  /\ v[j][1] \in 1..Len(s) /\ v[j][2] \in 1..Size[s[v[j][1]]]
             /\ j < Len(v) => v[j + 1] = Successor(s, v[j])
  <2>1. d + j \in 1..Len(w) /\ v[j] = w[d + j]
    BY <1>1 DEF IsSuffix
  <2>2. ASSUME j < Len(v) PROVE v[j + 1] = Successor(s, v[j])
    <3>1. j + 1 \in 1..Len(v) /\ d + j < Len(w) /\ d + (j + 1) = (d + j) + 1
      BY <1>1, <2>2
    <3>2. v[j + 1] = w[(d + j) + 1]
      BY <3>1 DEF IsSuffix
    <3>3. w[(d + j) + 1] = Successor(s, w[d + j])
      BY <2>1, <3>1 DEF Contiguous
    <3> QED
      BY <2>1, <3>2, <3>3
  <2> QED
    BY <2>1, <2>2 DEF Contiguous
<1> QED
  BY <1>1, <1>2 DEF Contiguous

(* Their front is contiguous, too.                                         *)
LEMMA FrontContiguous ==
    ASSUME NEW s, NEW w, Contiguous(s, w), NEW v, IsFront(w, v)
    PROVE  Contiguous(s, v)
<1>1. Len(w) \in Nat /\ Len(v) \in Nat /\ Len(v) <= Len(w) /\ v \in Seq(Byte)
  BY LenProperties DEF Contiguous, IsFront
<1>2. ASSUME NEW j \in 1..Len(v)
      PROVE  /\ v[j][1] \in 1..Len(s) /\ v[j][2] \in 1..Size[s[v[j][1]]]
             /\ j < Len(v) => v[j + 1] = Successor(s, v[j])
  <2>1. j \in 1..Len(w) /\ v[j] = w[j]
    BY <1>1 DEF IsFront
  <2>2. ASSUME j < Len(v) PROVE v[j + 1] = Successor(s, v[j])
    <3>1. j + 1 \in 1..Len(v) /\ j < Len(w)
      BY <1>1, <2>2
    <3>2. v[j + 1] = w[j + 1]
      BY <3>1 DEF IsFront
    <3>3. w[j + 1] = Successor(s, w[j])
      BY <2>1, <3>1 DEF Contiguous
    <3> QED
      BY <2>1, <3>2, <3>3
  <2> QED
    BY <2>1, <2>2 DEF Contiguous
<1> QED
  BY <1>1, <1>2 DEF Contiguous

(* From position d on, w has the bytes of message n, as far as it goes.    *)
HasMessage(s, w, d, n) == \A k \in 1..Size[s[n]] : d + k <= Len(w) => w[d + k] = <<n, k>>

(* From the first byte of a message on, the bytes are those of the message.*)
LEMMA BytesOfMessage ==
    ASSUME NEW s \in Seq(Messages), NEW w, Contiguous(s, w), NEW d \in Nat, NEW n \in Nat,
           d < Len(w), w[d + 1] = <<n, 1>>
    PROVE  HasMessage(s, w, d, n)
<1> DEFINE T == {k \in Nat : k \in 1..Size[s[n]] /\ d + k <= Len(w) /\ w[d + k] # <<n, k>>}
<1>1. Len(w) \in Nat /\ d + 1 \in 1..Len(w)
  BY LenProperties DEF Contiguous
<1>2. n \in 1..Len(s)
  <2>1. w[d + 1][1] \in 1..Len(s)
    BY <1>1 DEF Contiguous
  <2> QED
    BY <2>1
<1>3. Size[s[n]] \in Nat \ {0}
  BY <1>2, SizeIs
<1>4. T = {}
  <2> SUFFICES ASSUME T # {} PROVE FALSE
    OBVIOUS
  <2>1. PICK k \in T : \A m \in T : k <= m
    <3>1. T \subseteq Nat
      OBVIOUS
    <3> HIDE DEF T
    <3> QED
      BY <3>1, LeastElement
  <2>2. k \in Nat /\ k \in 1..Size[s[n]] /\ d + k <= Len(w) /\ w[d + k] # <<n, k>>
    OBVIOUS
  <2>3. k # 1
    BY <2>2
  <2> DEFINE j == k - 1
  <2>4. /\ j \in Nat /\ j \in 1..Size[s[n]] /\ d + j <= Len(w) /\ ~(k <= j) /\ j < Size[s[n]]
        /\ d + j \in 1..Len(w) /\ d + j < Len(w) /\ (d + j) + 1 = d + k /\ j + 1 = k
    <3>1. PICK z \in Nat : z = Size[s[n]]
      BY <1>3
    <3>2. k \in Nat /\ k # 1 /\ 1 <= k /\ k <= z /\ d + k <= Len(w)
      BY <2>2, <2>3, <3>1
    <3>3. j \in Nat /\ 1 <= j /\ j < k /\ j + 1 = k /\ j < z
      BY <3>2
    <3> HIDE DEF T, j
    <3>4. j \in 1..z /\ ~(k <= j)
      BY <3>2, <3>3
    <3>5. d + j \in Nat /\ 1 <= d + j /\ d + j < Len(w) /\ (d + j) + 1 = d + k
      BY <1>1, <3>2, <3>3
    <3>6. d + j \in 1..Len(w) /\ d + j <= Len(w)
      BY <1>1, <3>5
    <3> QED
      BY <3>1, <3>3, <3>4, <3>5, <3>6
  <2>5. w[d + j] = <<n, j>>
    <3>1. j \notin T
      <4> HIDE DEF T, j
      <4> QED
        BY <2>1, <2>4
    <3> HIDE DEF j
    <3> QED
      BY <2>4, <3>1
  <2> HIDE DEF j
  <2>6. w[d + k] = Successor(s, w[d + j])
    <3>1. w[(d + j) + 1] = Successor(s, w[d + j])
      BY <2>4 DEF Contiguous
    <3> QED
      BY <2>4, <3>1
  <2>7. Successor(s, <<n, j>>) = <<n, j + 1>>
    BY <2>4 DEF Successor
  <2> QED
    BY <2>2, <2>4, <2>5, <2>6, <2>7
<1>5. ASSUME NEW k \in 1..Size[s[n]], d + k <= Len(w) PROVE w[d + k] = <<n, k>>
  <2>1. k \in Nat
    BY <1>3
  <2>2. k \notin T
    <3> HIDE DEF T
    <3> QED
      BY <1>4
  <2> QED
    BY <1>5, <2>1, <2>2
<1> QED
  BY <1>5 DEF HasMessage

(* The bytes of later messages come later.                                 *)
LEMMA BytesAscend ==
    ASSUME NEW s \in Seq(Messages), NEW w, Contiguous(s, w), NEW i \in 1..Len(w)
    PROVE  \A j \in i..Len(w) : w[i][1] <= w[j][1]
<1> DEFINE T == {j \in Nat : j \in i..Len(w) /\ ~(w[i][1] <= w[j][1])}
<1>1. Len(w) \in Nat
  BY LenProperties DEF Contiguous
<1>2. \A j \in 1..Len(w) : w[j][1] \in Nat
  BY DEF Contiguous
<1>3. T = {}
  <2> SUFFICES ASSUME T # {} PROVE FALSE
    OBVIOUS
  <2>1. PICK j \in T : \A m \in T : j <= m
    <3>1. T \subseteq Nat
      OBVIOUS
    <3> HIDE DEF T
    <3> QED
      BY <3>1, LeastElement
  <2>2. j \in Nat /\ j \in i..Len(w) /\ ~(w[i][1] <= w[j][1])
    OBVIOUS
  <2>3. j # i
    BY <1>2, <2>2
  <2> DEFINE l == j - 1
  <2>4. /\ l \in Nat /\ l \in i..Len(w) /\ ~(j <= l) /\ l \in 1..Len(w) /\ l < Len(w)
        /\ l + 1 = j /\ j \in 1..Len(w)
    BY <1>1, <2>2, <2>3
  <2>5. w[i][1] <= w[l][1]
    <3>1. l \notin T
      <4> HIDE DEF T, l
      <4> QED
        BY <2>1, <2>4
    <3> HIDE DEF l
    <3> QED
      BY <2>4, <3>1
  <2> HIDE DEF l
  <2>6. w[j] = Successor(s, w[l])
    BY <2>4 DEF Contiguous
  <2>7. w[j][1] = w[l][1] \/ w[j][1] = w[l][1] + 1
    BY <2>6 DEF Successor
  <2>8. w[i][1] \in Nat /\ w[l][1] \in Nat /\ w[j][1] \in Nat
    BY <1>2, <2>4
  <2> QED
    BY <2>2, <2>5, <2>7, <2>8
<1> QED
  BY <1>1, <1>3

(* What the bytes of a message are.                                        *)
LEMMA BytesAre ==
    ASSUME NEW s \in Seq(Messages), NEW n \in 1..Len(s)
    PROVE  /\ BytesOf(s, n) \in Seq(Byte) /\ Len(BytesOf(s, n)) = Size[s[n]] /\ Size[s[n]] \in Nat \ {0}
           /\ \A k \in 1..Size[s[n]] : BytesOf(s, n)[k] = <<n, k>>
           /\ BytesOf(s, n)[1] = <<n, 1>>
           /\ Contiguous(s, BytesOf(s, n))
<1> DEFINE b == BytesOf(s, n)
<1>1. PICK z \in Nat \ {0} : z = Size[s[n]]
  BY SizeIs
<1>2. Len(s) \in Nat
  BY LenProperties
<1>3. b = [k \in 1..z |-> <<n, k>>]
  BY <1>1 DEF BytesOf
<1> HIDE DEF b
<1>4. b \in Seq(Byte)
  <2>1. b \in [1..z -> Byte]
    BY <1>2, <1>3 DEF Byte
  <2> QED
    BY <2>1
<1>5. Len(b) = z /\ \A k \in 1..z : b[k] = <<n, k>>
  BY <1>3
<1>6. \A k \in 1..z : k < z => b[k + 1] = Successor(s, b[k])
  <2> SUFFICES ASSUME NEW k \in 1..z, k < z PROVE b[k + 1] = Successor(s, b[k])
    OBVIOUS
  <2>1. k + 1 \in 1..z
    OBVIOUS
  <2>2. b[k] = <<n, k>> /\ b[k + 1] = <<n, k + 1>>
    BY <1>5, <2>1
  <2>3. Successor(s, <<n, k>>) = <<n, k + 1>>
    BY <1>1 DEF Successor
  <2> QED
    BY <2>2, <2>3
<1>7. Contiguous(s, b)
  BY <1>1, <1>4, <1>5, <1>6 DEF Contiguous
<1>8. b[1] = <<n, 1>>
  BY <1>5
<1> QED
  BY <1>1, <1>4, <1>5, <1>7, <1>8 DEF b

(* Bytes that follow those of w are contiguous with them.                  *)
LEMMA ConcatContiguous ==
    ASSUME NEW s, NEW w, NEW v, Contiguous(s, w), Contiguous(s, v),
           w # <<>> /\ v # <<>> => v[1] = Successor(s, w[Len(w)])
    PROVE  Contiguous(s, w \o v)
<1> DEFINE c == w \o v
<1>1. /\ Len(w) \in Nat /\ Len(v) \in Nat /\ c \in Seq(Byte) /\ Len(c) = Len(w) + Len(v)
      /\ \A j \in 1..(Len(w) + Len(v)) : c[j] = IF j <= Len(w) THEN w[j] ELSE v[j - Len(w)]
  BY LenProperties, ConcatProperties DEF Contiguous
<1> HIDE DEF c
<1>2. ASSUME NEW j \in 1..Len(c)
      PROVE  /\ c[j][1] \in 1..Len(s) /\ c[j][2] \in 1..Size[s[c[j][1]]]
             /\ j < Len(c) => c[j + 1] = Successor(s, c[j])
  <2>1. CASE j < Len(w)
    <3>1. j \in 1..Len(w) /\ j + 1 \in 1..(Len(w) + Len(v)) /\ j + 1 <= Len(w) /\ j <= Len(w)
      BY <1>1, <2>1
    <3>2. c[j] = w[j] /\ c[j + 1] = w[j + 1]
      BY <1>1, <3>1
    <3> QED
      BY <2>1, <3>1, <3>2 DEF Contiguous
  <2>2. CASE j = Len(w)
    <3>1. j \in 1..Len(w) /\ c[j] = w[j]
      BY <1>1, <2>2
    <3>2. ASSUME j < Len(c) PROVE c[j + 1] = Successor(s, c[j])
      <4>1. j + 1 \in 1..(Len(w) + Len(v)) /\ ~(j + 1 <= Len(w)) /\ (j + 1) - Len(w) = 1 /\ Len(v) > 0
        BY <1>1, <2>2, <3>2
      <4>2. c[j + 1] = v[1]
        BY <1>1, <4>1
      <4>3. w # <<>> /\ v # <<>>
        BY <1>1, <2>2, <3>1, <4>1, EmptySeq
      <4> QED
        BY <2>2, <3>1, <4>2, <4>3
    <3> QED
      BY <3>1, <3>2 DEF Contiguous
  <2>3. CASE j > Len(w)
    <3>1. PICK i \in 1..Len(v) : i = j - Len(w)
      BY <1>1, <2>3
    <3>2. c[j] = v[i] /\ (j < Len(c) <=> i < Len(v))
      BY <1>1, <2>3, <3>1
    <3>3. ASSUME j < Len(c) PROVE c[j + 1] = v[i + 1]
      <4>1. j + 1 \in 1..(Len(w) + Len(v)) /\ ~(j + 1 <= Len(w)) /\ (j + 1) - Len(w) = i + 1
        BY <1>1, <2>3, <3>1, <3>3
      <4> QED
        BY <1>1, <4>1
    <3> QED
      BY <3>2, <3>3 DEF Contiguous
  <2> QED
    BY <1>1, <2>1, <2>2, <2>3
<1> QED
  BY <1>1, <1>2 DEF Contiguous, c

(* Bytes stay contiguous when more messages are written.                   *)
LEMMA LaterContiguous ==
    ASSUME NEW s \in Seq(Messages), NEW t \in Seq(Messages), Len(s) <= Len(t),
           \A k \in 1..Len(s) : t[k] = s[k], NEW w, Contiguous(s, w)
    PROVE  Contiguous(t, w)
<1>1. Len(s) \in Nat /\ Len(t) \in Nat
  BY LenProperties
<1>2. ASSUME NEW j \in 1..Len(w)
      PROVE  /\ w[j][1] \in 1..Len(t) /\ w[j][2] \in 1..Size[t[w[j][1]]]
             /\ j < Len(w) => w[j + 1] = Successor(t, w[j])
  <2>1. w[j][1] \in 1..Len(s) /\ w[j][2] \in 1..Size[s[w[j][1]]]
    BY DEF Contiguous
  <2>2. t[w[j][1]] = s[w[j][1]]
    BY <2>1
  <2>3. Successor(t, w[j]) = Successor(s, w[j])
    BY <2>2 DEF Successor
  <2> QED
    BY <1>1, <2>1, <2>2, <2>3 DEF Contiguous
<1> QED
  BY <1>2 DEF Contiguous

(* At position p of w is message n of the peer, of size z.                 *)
IsMessage(w, p, n, z) ==
    /\ z = Size[sent[n]] /\ z = SizeAt(w, p) /\ p + z <= Len(w)
    /\ w[p + 1] = <<n, 1>> /\ w[p + z] = <<n, z>>
    /\ SubSeq(w, p + 1, p + z) = BytesOf(sent, n)
    /\ p + z < Len(w) => w[p + z + 1] = <<n + 1, 1>>

(* A complete message is one of the peer's messages, whole, and the next   *)
(* message begins behind it.                                               *)
LEMMA MessageFound ==
    ASSUME sent \in Seq(Messages), NEW w, Contiguous(sent, w), NEW p \in Nat, CompleteMessage(w, p)
    PROVE  \E n \in 1..Len(sent), z \in Nat \ {0} : IsMessage(w, p, n, z)
<1>1. Len(w) \in Nat /\ w \in Seq(Byte)
  BY LenProperties DEF Contiguous
<1>2. PICK z \in Nat \ {0} : z = SizeAt(w, p) /\ p + z <= Len(w)
  BY SizeAtIs DEF CompleteMessage
<1>3. p + 1 \in 1..Len(w)
  BY <1>1, <1>2
<1>4. PICK n \in 1..Len(sent) : n = w[p + 1][1] /\ z = Size[sent[n]]
  BY <1>2, <1>3 DEF Contiguous, SizeAt
<1>5. w[p + 1] = <<n, 1>>
  <2>1. 1 \in 1..HeaderSize
    BY SizeAssumption
  <2>2. w[p + 1] = <<w[p + 1][1], 1>>
    BY <2>1 DEF CompleteMessage, Header
  <2> QED
    BY <1>4, <2>2
<1>6. \A k \in 1..z : w[p + k] = <<n, k>>
  <2>1. p < Len(w) /\ n \in Nat
    BY <1>1, <1>3
  <2>2. HasMessage(sent, w, p, n)
    BY <1>5, <2>1, BytesOfMessage
  <2>3. \A k \in 1..z : p + k <= Len(w)
    BY <1>1, <1>2
  <2> QED
    BY <1>4, <2>2, <2>3 DEF HasMessage
<1>7. w[p + z] = <<n, z>>
  <2>1. z \in 1..z
    OBVIOUS
  <2> QED
    BY <1>6, <2>1
<1>8. SubSeq(w, p + 1, p + z) = BytesOf(sent, n)
  <2> DEFINE t == SubSeq(w, p + 1, p + z)
  <2>1. \A k \in (p + 1)..(p + z) : w[k] \in Byte
    <3>1. \A k \in (p + 1)..(p + z) : k \in 1..Len(w)
      BY <1>1, <1>2
    <3> QED
      BY <1>1, <3>1, ElementOfSeq
  <2>2. /\ t \in Seq(Byte) /\ Len(t) = IF p + 1 <= p + z THEN p + z - (p + 1) + 1 ELSE 0
        /\ \A k \in 1..(p + z - (p + 1) + 1) : t[k] = w[(p + 1) + k - 1]
    <3>1. p + 1 \in Int /\ p + z \in Int
      OBVIOUS
    <3> QED
      BY <2>1, <3>1, SubSeqProperties
  <2>3. p + z - (p + 1) + 1 = z /\ p + 1 <= p + z
    OBVIOUS
  <2> HIDE DEF t
  <2>4. \A k \in 1..z : t[k] = <<n, k>>
    <3> SUFFICES ASSUME NEW k \in 1..z PROVE t[k] = <<n, k>>
      OBVIOUS
    <3>1. (p + 1) + k - 1 = p + k
      OBVIOUS
    <3> QED
      BY <1>6, <2>2, <2>3, <3>1
  <2>5. Len(t) = z /\ t = [k \in 1..Len(t) |-> t[k]]
    BY <2>2, <2>3
  <2>6. t = [k \in 1..z |-> <<n, k>>]
    BY <2>4, <2>5
  <2> QED
    BY <1>4, <2>6 DEF BytesOf, t
<1>9. ASSUME p + z < Len(w) PROVE w[p + z + 1] = <<n + 1, 1>>
  <2>1. PICK q \in 1..Len(w) : q = p + z /\ q < Len(w)
    BY <1>1, <1>2, <1>9
  <2>2. w[q + 1] = Successor(sent, w[q])
    BY <2>1 DEF Contiguous
  <2>3. z = Size[sent[n]]
    BY <1>4
  <2>4. Successor(sent, <<n, z>>) = <<n + 1, 1>>
    BY ONLY <2>3, z \in Nat DEF Successor
  <2> QED
    BY <1>7, <2>1, <2>2, <2>4
<1>10. z = Size[sent[n]] /\ p + z <= Len(w) /\ z = SizeAt(w, p)
  BY <1>2, <1>4
<1>11. IsMessage(w, p, n, z)
  BY <1>5, <1>7, <1>8, <1>9, <1>10 DEF IsMessage
<1> QED
  BY <1>11

(* The K complete messages in w are those of the peer from message f on.   *)
AreMessages(w, f, K) ==
    /\ f + K - 1 \in 1..Len(sent) /\ w[1] = <<f, 1>>
    /\ CompleteMessages(w) = [i \in 1..K |-> BytesOf(sent, f + i - 1)]
    /\ w[LastStop(w)] = <<f + K - 1, Size[sent[f + K - 1]]>>

(* The complete messages are successive messages of the peer, from the one *)
(* the first byte belongs to.                                              *)
LEMMA MessagesFound ==
    ASSUME sent \in Seq(Messages), NEW w, Contiguous(sent, w), CountOf(w) # 0
    PROVE  /\ CountOf(w) \in Nat /\ w # <<>> /\ LastStop(w) \in 1..Len(w)
           /\ \E f \in 1..Len(sent) : AreMessages(w, f, CountOf(w))
<1> DEFINE K == CountOf(w)
           l == LastStop(w)
<1>1. /\ Len(w) \in Nat /\ w \in Seq(Byte) /\ K \in Nat /\ K >= 1 /\ Stops(w) \subseteq 0..Len(w)
  <2>1. Len(w) \in Nat /\ w \in Seq(Byte)
    BY LenProperties DEF Contiguous
  <2>2. K \in Nat
    BY <2>1, LastStopIs
  <2> QED
    BY <2>1, <2>2, StopsAre
<1>2. /\ \A i \in 0..K : Stop(w, i) \in Stops(w) /\ Rank(w, Stop(w, i)) = i
      /\ Stop(w, 0) = 0 /\ Stop(w, K) = l
      /\ \A i \in 0..(K - 1) :
            /\ CompleteMessage(w, Stop(w, i))
            /\ Stop(w, i + 1) = Stop(w, i) + SizeAt(w, Stop(w, i))
  BY <1>1, StopIs
<1>3. ASSUME NEW i \in 0..(K - 1)
      PROVE  /\ CompleteMessage(w, Stop(w, i)) /\ Stop(w, i) \in Nat /\ Stop(w, i) < Len(w)
             /\ Stop(w, i + 1) = Stop(w, i) + SizeAt(w, Stop(w, i))
  <2>1. i \in 0..K
    BY <1>1
  <2>2. CompleteMessage(w, Stop(w, i)) /\ Stop(w, i) \in 0..Len(w)
    BY <1>1, <1>2, <2>1
  <2>3. Stop(w, i) + SizeAt(w, Stop(w, i)) <= Len(w) /\ SizeAt(w, Stop(w, i)) \in Nat \ {0}
    BY <2>2, SizeAtIs DEF CompleteMessage
  <2> QED
    BY <1>1, <1>2, <2>2, <2>3
<1>4. PICK f \in 1..Len(sent) : w[1] = <<f, 1>> /\ w # <<>>
  <2>1. 0 \in 0..(K - 1) /\ 0 \in Nat /\ 0 + 1 = 1
    BY <1>1
  <2>2. CompleteMessage(w, 0) /\ 0 < Len(w)
    BY <1>2, <1>3, <2>1
  <2>3. \E f \in 1..Len(sent) : w[0 + 1] = <<f, 1>>
    <3>1. \E n \in 1..Len(sent), z \in Nat \ {0} : IsMessage(w, 0, n, z)
      BY <2>1, <2>2, MessageFound
    <3> QED
      BY <3>1 DEF IsMessage
  <2>4. w # <<>>
    BY <2>2, EmptySeq
  <2> QED
    BY <2>1, <2>3, <2>4
<1> DEFINE T == {i \in Nat : i \in 0..(K - 1) /\ w[Stop(w, i) + 1] # <<f + i, 1>>}
<1>5. T = {}
  <2> SUFFICES ASSUME T # {} PROVE FALSE
    OBVIOUS
  <2>1. PICK i \in T : \A m \in T : i <= m
    <3>1. T \subseteq Nat
      OBVIOUS
    <3> HIDE DEF T
    <3> QED
      BY <3>1, LeastElement
  <2>2. i \in Nat /\ i \in 0..(K - 1) /\ w[Stop(w, i) + 1] # <<f + i, 1>>
    OBVIOUS
  <2>3. i # 0
    <3> SUFFICES ASSUME i = 0 PROVE FALSE
      OBVIOUS
    <3>1. Stop(w, i) + 1 = 1 /\ f + i = f
      BY <1>2, <1>4
    <3> QED
      BY <1>4, <2>2, <3>1
  <2> DEFINE j == i - 1
  <2>4. j \in Nat /\ j \in 0..(K - 1) /\ ~(i <= j) /\ j + 1 = i
    BY <1>1, <2>2, <2>3
  <2>5. w[Stop(w, j) + 1] = <<f + j, 1>>
    <3>1. j \notin T
      <4> HIDE DEF T, j
      <4> QED
        BY <2>1, <2>4
    <3> HIDE DEF j
    <3> QED
      BY <2>4, <3>1
  <2> HIDE DEF j, T
  <2>6. PICK p \in Nat : p = Stop(w, j)
    BY <1>3, <2>4
  <2>7. CompleteMessage(w, p) /\ Stop(w, i) = p + SizeAt(w, p) /\ Stop(w, i) < Len(w)
    BY <1>3, <2>2, <2>4, <2>6
  <2>8. PICK n \in 1..Len(sent), z \in Nat \ {0} : IsMessage(w, p, n, z)
    BY <2>7, MessageFound
  <2>9. w[Stop(w, i) + 1] = <<n + 1, 1>>
    BY <2>7, <2>8 DEF IsMessage
  <2>10. n = f + j
    BY <2>5, <2>6, <2>8 DEF IsMessage
  <2>11. n + 1 = f + i
    BY <2>4, <2>10
  <2> QED
    BY <2>2, <2>9, <2>11
<1>6. ASSUME NEW i \in 0..(K - 1)
      PROVE  /\ f + i \in 1..Len(sent) /\ SubSeq(w, Stop(w, i) + 1, Stop(w, i) + SizeAt(w, Stop(w, i))) = BytesOf(sent, f + i)
             /\ Stop(w, i + 1) \in 1..Len(w) /\ w[Stop(w, i + 1)] = <<f + i, Size[sent[f + i]]>>
  <2>1. PICK p \in Nat : p = Stop(w, i)
    BY <1>3
  <2>2. CompleteMessage(w, p) /\ Stop(w, i + 1) = p + SizeAt(w, p)
    BY <1>3, <2>1
  <2>3. w[p + 1] = <<f + i, 1>>
    <3>1. i \in Nat
      BY <1>1
    <3>2. i \notin T
      <4> HIDE DEF T
      <4> QED
        BY <1>5
    <3>3. w[Stop(w, i) + 1] = <<f + i, 1>>
      BY <3>1, <3>2
    <3> QED
      BY <2>1, <3>3
  <2>4. PICK n \in 1..Len(sent), z \in Nat \ {0} : IsMessage(w, p, n, z)
    BY <2>2, MessageFound
  <2> HIDE DEF T
  <2>5. n = f + i
    BY <2>3, <2>4 DEF IsMessage
  <2>6. p + z \in 1..Len(w)
    <3>1. Len(w) \in Nat /\ p + z <= Len(w)
      BY <1>1, <2>4 DEF IsMessage
    <3>2. p + z \in Nat /\ 1 <= p + z
      OBVIOUS
    <3> QED
      BY <3>1, <3>2
  <2> QED
    BY <2>1, <2>2, <2>4, <2>5, <2>6 DEF IsMessage
<1>7. f + K - 1 \in 1..Len(sent) /\ l \in 1..Len(w) /\ w[l] = <<f + K - 1, Size[sent[f + K - 1]]>>
  <2>1. PICK i \in 0..(K - 1) : i = K - 1
    BY <1>1
  <2>2. i + 1 = K /\ f + i = f + K - 1
    BY <1>1, <1>4, <2>1
  <2> QED
    BY <1>2, <1>6, <2>2
<1>8. ASSUME NEW i \in 1..K PROVE MessageAt(w, i) = BytesOf(sent, f + i - 1)
  <2>1. PICK j \in 0..(K - 1) : j = i - 1
    BY <1>1
  <2>2. MessageAt(w, i) = SubSeq(w, Stop(w, j) + 1, Stop(w, j) + SizeAt(w, Stop(w, j)))
    BY <2>1 DEF MessageAt, Stop, Rank
  <2>3. f + i - 1 = f + j
    BY <1>4, <2>1
  <2> QED
    BY <1>6, <2>2, <2>3
<1>9. CompleteMessages(w) = [i \in 1..K |-> BytesOf(sent, f + i - 1)]
  BY <1>8 DEF CompleteMessages, CountOf
<1>10. AreMessages(w, f, K)
  BY <1>4, <1>7, <1>9 DEF AreMessages
<1> QED
  BY <1>1, <1>4, <1>7, <1>10

(* Without a complete message the only stop is the beginning.              *)
LEMMA NoMessageFound ==
    ASSUME NEW w, Len(w) \in Nat, CountOf(w) = 0
    PROVE  CompleteMessages(w) = <<>> /\ LastStop(w) = 0
<1>1. LastStop(w) = 0
  BY StopIs
<1> QED
  BY <1>1 DEF CompleteMessages, CountOf

-----------------------------------------------------------------------------
(* The inductive invariant                                                 *)

(* The bytes that were written and are not processed                       *)
InTransit == incomplete \o stream

(* The last message that was written                                       *)
Written == IF Writing THEN Len(sent) - 1 ELSE Len(sent)

Types ==
    /\ sent \in Seq(Messages) /\ Len(sent) <= MaxSent
    /\ nWritten \in {0, LastSize} /\ failed \in BOOLEAN
    /\ incomplete \in Seq(Byte) /\ Len(incomplete) < MaxSize
    /\ stream \in Seq(Byte) /\ delivered \in Seq(Seq(Byte))

(* The last byte of w ends message n.                                      *)
EndsWith(w, n) == w # <<>> => n \in 1..Len(sent) /\ w[Len(w)] = <<n, Size[sent[n]]>>

(* What was processed are whole messages, in order and before all that is  *)
(* in transit.                                                             *)
Number(i) == delivered[i][1][1]
DeliveredWhole ==
    \A i \in 1..Len(delivered) :
       /\ Number(i) \in 1..Written /\ delivered[i] = BytesOf(sent, Number(i))
       /\ \A j \in 1..Len(delivered) : i < j => Number(i) < Number(j)
       /\ \A j \in 1..Len(InTransit) : Number(i) < InTransit[j][1]

(* Until something fails no message is missing, and what is stored is the  *)
(* beginning of the next one.                                              *)
NothingMissing ==
    ~failed =>
       /\ \A i \in 1..Len(delivered) : Number(i) = i
       /\ InTransit = <<>> => Len(delivered) = Written
       /\ InTransit # <<>> => InTransit[1] = <<Len(delivered) + 1, 1>>
       /\ incomplete # <<>> => Len(incomplete) < Size[sent[Len(delivered) + 1]]

Inv ==
    /\ Types
    /\ Contiguous(sent, InTransit)
    /\ EndsWith(InTransit, Written)
    /\ DeliveredWhole
    /\ NothingMissing

(* What the peer has written, from the messages it has begun.              *)
LEMMA WrittenIs ==
    ASSUME Types
    PROVE  /\ Len(sent) \in Nat /\ Written \in Nat /\ Written <= Len(sent) /\ LastSize \in Nat
           /\ Writing => /\ Len(sent) \in 1..Len(sent) /\ Written = Len(sent) - 1 /\ nWritten = 0
                         /\ LastSize = Size[sent[Len(sent)]]
           /\ ~Writing => Written = Len(sent) /\ nWritten = LastSize
<1>1. Len(sent) \in Nat /\ sent \in Seq(Messages)
  BY LenProperties DEF Types
<1>2. CASE sent = <<>>
  <2>1. LastSize = 0 /\ ~Writing
    BY <1>2 DEF Types, LastSize, Writing
  <2> QED
    BY <1>1, <2>1 DEF Written, Types
<1>3. CASE sent # <<>>
  <2>1. Len(sent) \in 1..Len(sent)
    BY <1>1, <1>3, EmptySeq
  <2>2. LastSize = Size[sent[Len(sent)]] /\ LastSize \in Nat \ {0}
    BY <1>1, <1>3, <2>1, SizeIs DEF LastSize
  <2>3. nWritten \in {0, LastSize}
    BY DEF Types
  <2> QED
    BY <1>1, <2>1, <2>2, <2>3 DEF Written, Writing
<1> QED
  BY <1>2, <1>3

(* What is in transit                                                      *)
LEMMA InTransitIs ==
    ASSUME Types
    PROVE  /\ InTransit \in Seq(Byte) /\ Len(InTransit) = Len(incomplete) + Len(stream)
           /\ Len(InTransit) \in Nat /\ Len(incomplete) \in Nat /\ Len(stream) \in Nat
           /\ Len(delivered) \in Nat
           /\ \A j \in 1..Len(incomplete) : InTransit[j] = incomplete[j]
<1>1. incomplete \in Seq(Byte) /\ stream \in Seq(Byte) /\ delivered \in Seq(Seq(Byte))
  BY DEF Types
<1>2. Len(incomplete) \in Nat /\ Len(stream) \in Nat /\ Len(delivered) \in Nat
  BY <1>1, LenProperties
<1>3. /\ InTransit \in Seq(Byte) /\ Len(InTransit) = Len(incomplete) + Len(stream)
      /\ \A j \in 1..(Len(incomplete) + Len(stream)) :
            InTransit[j] = IF j <= Len(incomplete) THEN incomplete[j] ELSE stream[j - Len(incomplete)]
  BY <1>1, ConcatProperties DEF InTransit
<1>4. \A j \in 1..Len(incomplete) : j \in 1..(Len(incomplete) + Len(stream)) /\ j <= Len(incomplete)
  BY <1>2
<1> QED
  BY <1>2, <1>3, <1>4

(* Nothing was written in the beginning.                                   *)
LEMMA InitInv == Init => Inv
<1> SUFFICES ASSUME Init PROVE Inv
  OBVIOUS
<1>1. /\ sent = <<>> /\ nWritten = 0 /\ stream = <<>> /\ incomplete = <<>>
      /\ delivered = <<>> /\ failed = FALSE
  BY DEF Init
<1>2. Types
  <2>1. 0 < MaxSize /\ 0 <= MaxSent
    BY SizeAssumption, BufferAssumption, FlagAssumption
  <2>2. /\ Len(<<>>) = 0 /\ <<>> \in Seq(Messages) /\ <<>> \in Seq(Byte) /\ <<>> \in Seq(Seq(Byte))
    BY EmptySeq
  <2>3. /\ sent \in Seq(Messages) /\ Len(sent) <= MaxSent /\ failed \in BOOLEAN
        /\ nWritten \in {0, LastSize}
    BY <1>1, <2>1, <2>2
  <2>4. /\ incomplete \in Seq(Byte) /\ Len(incomplete) < MaxSize
        /\ stream \in Seq(Byte) /\ delivered \in Seq(Seq(Byte))
    BY <1>1, <2>1, <2>2
  <2> QED
    BY <2>3, <2>4 DEF Types
<1>3. InTransit = <<>> /\ Written = 0
  BY <1>1 DEF InTransit, Written, Writing, LastSize
<1>4. Contiguous(sent, InTransit)
  BY <1>3 DEF Contiguous
<1> QED
  BY <1>1, <1>2, <1>3, <1>4 DEF Inv, EndsWith, DeliveredWhole, NothingMissing

(* The peer begins a message.                                              *)
LEMMA StartWritingStep ==
    ASSUME Inv, NEW m \in Messages, StartWriting(m) PROVE Inv'
<1>1. /\ ~Writing /\ Len(sent) < MaxSent /\ sent' = Append(sent, m) /\ nWritten' = 0
      /\ UNCHANGED <<stream, incomplete, delivered, failed>>
  BY DEF StartWriting
<1>2. Types /\ sent \in Seq(Messages) /\ Len(sent) \in Nat /\ Written = Len(sent)
  BY <1>1, WrittenIs DEF Inv, Types
<1>3. /\ sent' \in Seq(Messages) /\ Len(sent') = Len(sent) + 1 /\ sent'[Len(sent')] = m
      /\ \A k \in 1..Len(sent) : sent'[k] = sent[k]
  BY <1>1, <1>2, AppendProperties
<1>4. Types' /\ InTransit' = InTransit
  BY <1>1, <1>2, <1>3, FlagAssumption DEF Types, InTransit
<1>5. Written' = Written
  <2>1. sent' # <<>>
    BY <1>2, <1>3, EmptySeq
  <2>2. LastSize' = Size[m] /\ Size[m] \in Nat \ {0}
    BY <1>3, <2>1, SizeAssumption DEF LastSize
  <2>3. Writing'
    BY <1>1, <2>2 DEF Writing
  <2> QED
    BY <1>2, <1>3, <2>3 DEF Written
<1>6. Contiguous(sent', InTransit')
  <2>1. Contiguous(sent', InTransit)
    BY <1>2, <1>3, LaterContiguous DEF Inv
  <2> QED
    BY <1>4, <2>1
<1>7. EndsWith(InTransit, Written)'
  BY <1>2, <1>3, <1>4, <1>5 DEF Inv, EndsWith
<1>8. DeliveredWhole'
  <2>1. \A n \in 1..Len(sent) : BytesOf(sent', n) = BytesOf(sent, n)
    BY <1>3 DEF BytesOf
  <2> QED
    BY <1>1, <1>2, <1>4, <1>5, <2>1 DEF Inv, DeliveredWhole, Number
<1>9. NothingMissing'
  <2> SUFFICES ASSUME ~failed PROVE NothingMissing'
    BY <1>1 DEF NothingMissing
  <2>1. /\ \A i \in 1..Len(delivered) : Number(i) = i
        /\ InTransit = <<>> => Len(delivered) = Written
        /\ InTransit # <<>> => InTransit[1] = <<Len(delivered) + 1, 1>>
        /\ incomplete # <<>> => Len(incomplete) < Size[sent[Len(delivered) + 1]]
    BY DEF Inv, NothingMissing
  <2>2. ASSUME incomplete # <<>> PROVE Len(delivered) + 1 \in 1..Len(sent)
    <3>1. 1 \in 1..Len(InTransit) /\ InTransit # <<>>
      BY <1>2, <2>2, InTransitIs, EmptySeq DEF Types
    <3>2. InTransit[1][1] \in 1..Len(sent)
      BY <3>1 DEF Inv, Contiguous
    <3> QED
      BY <2>1, <3>1, <3>2
  <2> QED
    BY <1>1, <1>3, <1>4, <1>5, <2>1, <2>2 DEF NothingMissing, Number
<1> QED
  BY <1>4, <1>6, <1>7, <1>8, <1>9 DEF Inv

(* The peer's call of send takes the rest of the message.                  *)
LEMMA WriteStep ==
    ASSUME Inv, ~PartialSends, NEW n \in 1..LastSize, Write(n) PROVE Inv'
<1> DEFINE last == Len(sent)
           b == BytesOf(sent, last)
<1>1. /\ Writing /\ n = LastSize /\ nWritten' = nWritten + n
      /\ stream' = stream \o SubSeq(Bytes(last), 1, n)
      /\ UNCHANGED <<sent, incomplete, delivered, failed>>
  BY DEF Write
<1>2. /\ Types /\ sent \in Seq(Messages) /\ last \in 1..Len(sent) /\ last \in Nat
      /\ Written = last - 1 /\ nWritten = 0 /\ LastSize = Size[sent[last]]
      /\ incomplete \in Seq(Byte) /\ stream \in Seq(Byte)
  BY <1>1, WrittenIs DEF Inv, Types
<1>3. /\ b \in Seq(Byte) /\ Len(b) = Size[sent[last]] /\ Size[sent[last]] \in Nat \ {0}
      /\ b[Size[sent[last]]] = <<last, Size[sent[last]]>>
      /\ b[1] = <<last, 1>> /\ Contiguous(sent, b) /\ b # <<>>
  <2>1. /\ b \in Seq(Byte) /\ Len(b) = Size[sent[last]] /\ Size[sent[last]] \in Nat \ {0}
        /\ \A k \in 1..Size[sent[last]] : b[k] = <<last, k>>
        /\ b[1] = <<last, 1>> /\ Contiguous(sent, b)
    BY <1>2, BytesAre
  <2> HIDE DEF b
  <2> QED
    BY <2>1, EmptySeq
<1>4. stream' = stream \o b
  <2>1. Bytes(last) = b
    BY DEF Bytes, BytesOf
  <2>2. SubSeq(b, 1, n) = b
    BY <1>1, <1>2, <1>3, SubSeqFull
  <2> QED
    BY <1>1, <2>1, <2>2
<1> HIDE DEF b
<1>5. InTransit' = InTransit \o b
  <2>1. incomplete \in Seq(Byte) /\ stream \in Seq(Byte) /\ b \in Seq(Byte)
    BY <1>2, <1>3
  <2>2. \A x, y, z \in Seq(Byte) : (x \o y) \o z = x \o (y \o z)
    BY ConcatAssociative
  <2>3. (incomplete \o stream) \o b = incomplete \o (stream \o b)
    BY ONLY <2>1, <2>2
  <2> QED
    BY <1>1, <1>4, <2>3 DEF InTransit
<1>6. Types' /\ Written' = last
  <2>1. LastSize' = LastSize /\ nWritten' = LastSize /\ LastSize \in Nat
    BY <1>1, <1>2, <1>3 DEF LastSize
  <2>2. ~Writing'
    BY <2>1 DEF Writing
  <2>3. stream' \in Seq(Byte)
    BY <1>2, <1>3, <1>4, ConcatProperties
  <2> QED
    BY <1>1, <1>2, <2>1, <2>2, <2>3 DEF Types, Written
<1>7. /\ InTransit \in Seq(Byte) /\ Len(InTransit) \in Nat
      /\ Len(InTransit') = Len(InTransit) + Len(b)
      /\ \A j \in 1..(Len(InTransit) + Len(b)) :
            InTransit'[j] = IF j <= Len(InTransit) THEN InTransit[j] ELSE b[j - Len(InTransit)]
  <2>1. InTransit \in Seq(Byte) /\ Len(InTransit) \in Nat
    BY <1>2, InTransitIs
  <2> QED
    BY <1>3, <1>5, <2>1, ConcatProperties
<1>8. Contiguous(sent', InTransit')
  <2>1. ASSUME InTransit # <<>> PROVE b[1] = Successor(sent, InTransit[Len(InTransit)])
    <3>1. InTransit[Len(InTransit)] = <<last - 1, Size[sent[last - 1]]>> /\ last - 1 \in 1..Len(sent)
      BY <1>2, <2>1 DEF Inv, EndsWith
    <3>2. Size[sent[last - 1]] \in Nat \ {0}
      BY <1>2, <3>1, SizeIs
    <3>3. Successor(sent, <<last - 1, Size[sent[last - 1]]>>) = <<(last - 1) + 1, 1>>
      BY <3>1, <3>2 DEF Successor
    <3> QED
      BY <1>2, <1>3, <3>1, <3>3
  <2>2. Contiguous(sent, InTransit \o b)
    BY <1>3, <2>1, ConcatContiguous DEF Inv
  <2> QED
    BY <1>1, <1>5, <2>2
<1>9. EndsWith(InTransit, Written)'
  <2>1. Len(InTransit') \in 1..(Len(InTransit) + Len(b)) /\ Len(b) \in Nat
        /\ ~(Len(InTransit') <= Len(InTransit)) /\ Len(InTransit') - Len(InTransit) = Len(b)
    <3>1. PICK x \in Nat, y \in Nat \ {0} : x = Len(InTransit) /\ y = Len(b) /\ Len(InTransit') = x + y
      BY <1>3, <1>7
    <3>2. x + y \in 1..(x + y) /\ ~(x + y <= x) /\ (x + y) - x = y
      OBVIOUS
    <3> QED
      BY <3>1, <3>2
  <2>2. InTransit'[Len(InTransit')] = b[Len(b)]
    BY <1>7, <2>1
  <2> QED
    BY <1>1, <1>2, <1>3, <1>6, <2>2 DEF EndsWith
<1>10. DeliveredWhole'
  <2> SUFFICES ASSUME NEW i \in 1..Len(delivered)
               PROVE  /\ Number(i) \in 1..last /\ delivered[i] = BytesOf(sent, Number(i))
                      /\ \A j \in 1..Len(delivered) : i < j => Number(i) < Number(j)
                      /\ \A j \in 1..Len(InTransit') : Number(i) < InTransit'[j][1]
    BY <1>1, <1>6 DEF DeliveredWhole, Number
  <2>1. /\ Number(i) \in 1..(last - 1) /\ delivered[i] = BytesOf(sent, Number(i))
        /\ \A j \in 1..Len(delivered) : i < j => Number(i) < Number(j)
        /\ \A j \in 1..Len(InTransit) : Number(i) < InTransit[j][1]
    BY <1>2 DEF Inv, DeliveredWhole
  <2>2. ASSUME NEW j \in 1..Len(InTransit') PROVE Number(i) < InTransit'[j][1]
    <3>1. CASE j <= Len(InTransit)
      <4>1. j \in 1..Len(InTransit) /\ j \in 1..(Len(InTransit) + Len(b))
        BY <1>3, <1>7, <3>1
      <4>2. InTransit'[j] = InTransit[j]
        BY <1>7, <3>1, <4>1
      <4> QED
        BY <2>1, <4>1, <4>2
    <3>2. CASE ~(j <= Len(InTransit))
      <4>1. j - Len(InTransit) \in 1..Len(b) /\ j \in 1..(Len(InTransit) + Len(b))
        <5>1. PICK x \in Nat, y \in Nat : x = Len(InTransit) /\ y = Len(b)
          BY <1>3, <1>7
        <5>2. j \in 1..(x + y) /\ ~(j <= x)
          BY <1>7, <3>2, <5>1
        <5>3. j - x \in 1..y
          BY ONLY <5>2, x \in Nat, y \in Nat
        <5> QED
          BY <5>1, <5>2, <5>3
      <4>2. InTransit'[j] = b[j - Len(InTransit)]
        BY <1>7, <3>2, <4>1
      <4>3. b[j - Len(InTransit)][1] = last
        <5>1. b[j - Len(InTransit)] = <<last, j - Len(InTransit)>>
          BY <1>2, <1>3, <4>1, BytesAre DEF b
        <5> QED
          BY <5>1
      <4> QED
        BY <1>2, <2>1, <4>2, <4>3
    <3> QED
      BY <3>1, <3>2
  <2> QED
    BY <1>2, <2>1, <2>2
<1>11. NothingMissing'
  <2> SUFFICES ASSUME ~failed
               PROVE  /\ \A i \in 1..Len(delivered) : Number(i) = i
                      /\ InTransit' # <<>> /\ InTransit'[1] = <<Len(delivered) + 1, 1>>
                      /\ incomplete # <<>> => Len(incomplete) < Size[sent[Len(delivered) + 1]]
    BY <1>1, <1>6 DEF NothingMissing, Number
  <2>1. /\ \A i \in 1..Len(delivered) : Number(i) = i
        /\ InTransit = <<>> => Len(delivered) = last - 1
        /\ InTransit # <<>> => InTransit[1] = <<Len(delivered) + 1, 1>>
        /\ incomplete # <<>> => Len(incomplete) < Size[sent[Len(delivered) + 1]]
    BY <1>2 DEF Inv, NothingMissing
  <2>2. Len(InTransit') # 0 /\ InTransit' # <<>>
    BY <1>3, <1>7
  <2>3. InTransit'[1] = <<Len(delivered) + 1, 1>>
    <3>1. CASE InTransit = <<>>
      <4>1. Len(InTransit) = 0 /\ 1 \in 1..(Len(InTransit) + Len(b)) /\ ~(1 <= Len(InTransit)) /\ 1 - Len(InTransit) = 1
        BY <1>3, <3>1
      <4>2. InTransit'[1] = b[1]
        BY <1>7, <4>1
      <4> QED
        BY <1>2, <1>3, <2>1, <3>1, <4>2
    <3>2. CASE InTransit # <<>>
      <4>1. 1 \in 1..(Len(InTransit) + Len(b)) /\ 1 <= Len(InTransit)
        BY <1>3, <1>7, <3>2, EmptySeq
      <4>2. InTransit'[1] = InTransit[1]
        BY <1>7, <4>1
      <4> QED
        BY <2>1, <3>2, <4>2
    <3> QED
      BY <3>1, <3>2
  <2> QED
    BY <2>1, <2>2, <2>3
<1> QED
  BY <1>6, <1>8, <1>9, <1>10, <1>11 DEF Inv

-----------------------------------------------------------------------------
(* Bytes are received                                                      *)

(* The messages f, f + 1, ... of the messages s, n of them                 *)
Batch(s, f, n) == [i \in 1..n |-> BytesOf(s, f + i - 1)]

(* A step that takes d bytes from the front and processes n messages, from *)
(* f on.                                                                   *)
Takes(d, f, n) ==
    /\ IsSuffix(InTransit, d, InTransit')
    /\ delivered' = delivered \o Batch(sent, f, n)
    /\ n # 0 => /\ InTransit # <<>> /\ InTransit[1] = <<f, 1>> /\ f + n - 1 \in 1..Written
                /\ d < Len(InTransit) => f + n - 1 < InTransit[d + 1][1]

(* The messages of a batch                                                 *)
IsBatch(s, f, n, b) ==
    /\ b \in Seq(Seq(Byte)) /\ Len(b) = n
    /\ \A i \in 1..n : /\ b[i] = BytesOf(s, f + i - 1)
                       /\ b[i][1][1] = f + i - 1
                       /\ f + i - 1 \in 1..Len(s)

(* A batch of sent messages has them in order.                             *)
LEMMA BatchIs ==
    ASSUME NEW s \in Seq(Messages), NEW n \in Nat, NEW f \in Nat \ {0},
           n # 0 => f + n - 1 \in 1..Len(s)
    PROVE  IsBatch(s, f, n, Batch(s, f, n))
<1>1. Len(s) \in Nat
  BY LenProperties
<1>2. \A i \in 1..n : f + i - 1 \in 1..Len(s)
  BY <1>1
<1>3. ASSUME NEW i \in 1..n
      PROVE  BytesOf(s, f + i - 1) \in Seq(Byte) /\ BytesOf(s, f + i - 1)[1][1] = f + i - 1
  <2>1. PICK k \in 1..Len(s) : k = f + i - 1
    BY <1>2
  <2>2. BytesOf(s, k) \in Seq(Byte) /\ BytesOf(s, k)[1] = <<k, 1>>
    BY BytesAre
  <2> QED
    BY <2>1, <2>2
<1>4. \A i \in 1..n : Batch(s, f, n)[i] = BytesOf(s, f + i - 1)
  BY DEF Batch
<1>5. Batch(s, f, n) \in [1..n -> Seq(Byte)]
  BY <1>3 DEF Batch
<1>6. \A S : \A b \in [1..n -> S] : b \in Seq(S) /\ Len(b) = n
  OBVIOUS
<1>7. Batch(s, f, n) \in Seq(Seq(Byte)) /\ Len(Batch(s, f, n)) = n
  BY ONLY <1>5, <1>6
<1> QED
  BY <1>2, <1>3, <1>4, <1>7 DEF IsBatch

(* Elements of a concatenation                                             *)
IsConcat(S, a, b, c) ==
    /\ c \in Seq(S) /\ Len(c) = Len(a) + Len(b)
    /\ Len(a) \in Nat /\ Len(b) \in Nat /\ Len(c) \in Nat
    /\ \A i \in 1..Len(a) : c[i] = a[i]
    /\ \A i \in 1..Len(b) : c[Len(a) + i] = b[i]
    /\ \A i \in 1..Len(c) : i \in 1..Len(a) \/ \E k \in 1..Len(b) : i = Len(a) + k

(* Every concatenation is one in this sense.                               *)
LEMMA ConcatIs ==
    ASSUME NEW S, NEW a \in Seq(S), NEW b \in Seq(S)
    PROVE  IsConcat(S, a, b, a \o b)
<1> DEFINE c == a \o b
<1>1. /\ c \in Seq(S) /\ Len(c) = Len(a) + Len(b)
      /\ \A i \in 1..(Len(a) + Len(b)) : c[i] = IF i <= Len(a) THEN a[i] ELSE b[i - Len(a)]
  BY ConcatProperties
<1>2. Len(a) \in Nat /\ Len(b) \in Nat
  BY LenProperties
<1> HIDE DEF c
<1>3. ASSUME NEW i \in 1..Len(a) PROVE c[i] = a[i]
  <2>1. i \in 1..(Len(a) + Len(b)) /\ i <= Len(a)
    BY <1>2
  <2> QED
    BY <1>1, <2>1
<1>4. ASSUME NEW i \in 1..Len(b) PROVE c[Len(a) + i] = b[i]
  <2>1. PICK k \in 1..(Len(a) + Len(b)) : k = Len(a) + i
    BY <1>2
  <2>2. ~(k <= Len(a)) /\ k - Len(a) = i
    BY <1>2, <2>1
  <2> QED
    BY <1>1, <2>1, <2>2
<1>5. ASSUME NEW i \in 1..Len(c)
      PROVE  i \in 1..Len(a) \/ \E k \in 1..Len(b) : i = Len(a) + k
  <2>1. CASE i <= Len(a)
    BY <1>2, <2>1
  <2>2. CASE ~(i <= Len(a))
    <3>1. i - Len(a) \in 1..Len(b) /\ i = Len(a) + (i - Len(a))
      BY <1>1, <1>2, <2>2
    <3> QED
      BY <3>1
  <2> QED
    BY <2>1, <2>2
<1>6. Len(c) \in Nat
  BY <1>1, <1>2
<1> QED
  BY <1>1, <1>2, <1>3, <1>4, <1>5, <1>6 DEF c, IsConcat

(* Such a step keeps what was said of the bytes in transit and of the      *)
(* messages processed.                                                     *)
LEMMA TakesStep ==
    ASSUME Inv, UNCHANGED <<sent, nWritten>>, NEW d \in 0..Len(InTransit), NEW n \in Nat, NEW f \in Nat \ {0},
           Takes(d, f, n)
    PROVE  /\ Contiguous(sent', InTransit') /\ EndsWith(InTransit, Written)' /\ DeliveredWhole'
           /\ delivered' \in Seq(Seq(Byte)) /\ Written' = Written
<1>1. /\ InTransit \in Seq(Byte) /\ Len(InTransit) \in Nat /\ Len(delivered) \in Nat
      /\ sent \in Seq(Messages) /\ Written \in Nat /\ Written <= Len(sent) /\ Len(sent) \in Nat
  BY InTransitIs, WrittenIs DEF Inv, Types
<1>2. Written' = Written /\ sent' = sent
  BY DEF Written, Writing, LastSize
<1>3. /\ InTransit' \in Seq(Byte) /\ Len(InTransit') = Len(InTransit) - d /\ Len(InTransit') \in Nat
      /\ \A j \in 1..Len(InTransit') : InTransit'[j] = InTransit[d + j]
  BY <1>1 DEF Takes, IsSuffix
<1>4. Contiguous(sent, InTransit)
  BY DEF Inv
<1>5. Contiguous(sent', InTransit')
  <2>1. IsSuffix(InTransit, d, InTransit')
    BY DEF Takes
  <2>2. Contiguous(sent, InTransit')
    BY <1>4, <2>1, SuffixContiguous
  <2> QED
    BY <1>2, <2>2
<1>6. EndsWith(InTransit, Written)'
  <2> SUFFICES ASSUME InTransit' # <<>>
               PROVE  Written \in 1..Len(sent) /\ InTransit'[Len(InTransit')] = <<Written, Size[sent[Written]]>>
    BY <1>2 DEF EndsWith
  <2>1. Len(InTransit') \in 1..Len(InTransit') /\ d + Len(InTransit') = Len(InTransit) /\ InTransit # <<>>
    BY <1>1, <1>3, EmptySeq
  <2>2. InTransit'[Len(InTransit')] = InTransit[Len(InTransit)]
    BY <1>3, <2>1
  <2> QED
    BY <2>1, <2>2 DEF Inv, EndsWith
<1> DEFINE new == Batch(sent, f, n)
<1>7. /\ new \in Seq(Seq(Byte)) /\ Len(new) = n
      /\ \A i \in 1..n : /\ new[i] = BytesOf(sent, f + i - 1) /\ new[i][1][1] = f + i - 1
                         /\ f + i - 1 \in 1..Len(sent)
  <2>1. n # 0 => f + n - 1 \in 1..Len(sent)
    BY <1>1 DEF Takes
  <2>2. IsBatch(sent, f, n, new)
    BY <1>1, <2>1, BatchIs
  <2> HIDE DEF new
  <2> QED
    BY <2>2 DEF IsBatch
<1>8. /\ delivered' \in Seq(Seq(Byte))
      /\ \A i \in 1..Len(delivered) : delivered'[i] = delivered[i]
      /\ \A i \in 1..n : delivered'[Len(delivered) + i] = new[i]
      /\ \A i \in 1..Len(delivered') : i \in 1..Len(delivered) \/ \E k \in 1..n : i = Len(delivered) + k
  <2>1. delivered' = delivered \o new
    BY DEF Takes
  <2>2. delivered \in Seq(Seq(Byte))
    BY DEF Inv, Types
  <2> HIDE DEF new
  <2>3. IsConcat(Seq(Byte), delivered, new, delivered')
    BY <1>7, <2>1, <2>2, ConcatIs
  <2> QED
    BY <1>7, <2>3 DEF IsConcat
<1> HIDE DEF new
<1> DEFINE N(i) == delivered'[i][1][1]
<1>9. \A i \in 1..Len(delivered) :
         /\ Number(i) \in 1..Written /\ delivered[i] = BytesOf(sent, Number(i))
         /\ \A j \in 1..Len(delivered) : i < j => Number(i) < Number(j)
         /\ \A j \in 1..Len(InTransit) : Number(i) < InTransit[j][1]
  BY DEF Inv, DeliveredWhole
<1>10. \A i \in 1..Len(delivered) : N(i) = Number(i)
  BY <1>8 DEF Number
<1>11. \A i \in 1..n : N(Len(delivered) + i) = f + i - 1
  BY <1>7, <1>8
<1>12. ASSUME NEW i \in 1..Len(delivered')
       PROVE  /\ N(i) \in 1..Written /\ delivered'[i] = BytesOf(sent, N(i))
              /\ \A j \in 1..Len(delivered') : i < j => N(i) < N(j)
              /\ \A j \in 1..Len(InTransit') : N(i) < InTransit'[j][1]
  <2>1. CASE i \in 1..Len(delivered)
    <3>1. N(i) \in 1..Written /\ delivered'[i] = BytesOf(sent, N(i)) /\ N(i) = Number(i)
      BY <1>8, <1>9, <1>10, <2>1
    <3> HIDE DEF N
    <3>2. ASSUME NEW j \in 1..Len(delivered'), i < j PROVE N(i) < N(j)
      <4>1. CASE j \in 1..Len(delivered)
        BY <1>9, <1>10, <2>1, <3>1, <3>2, <4>1
      <4>2. ASSUME NEW k \in 1..n, j = Len(delivered) + k PROVE N(i) < N(j)
        <5>1. InTransit # <<>> /\ InTransit[1] = <<f, 1>>
          BY <4>2 DEF Takes
        <5>2. 1 \in 1..Len(InTransit) /\ InTransit[1][1] = f
          BY <1>1, <5>1, EmptySeq
        <5>3. N(i) < f
          BY <1>9, <2>1, <3>1, <5>2
        <5>4. N(j) = f + k - 1
          BY <1>11, <4>2
        <5>5. N(i) \in Nat
          BY <3>1
        <5> QED
          BY <5>3, <5>4, <5>5
      <4> QED
        BY <1>8, <4>1, <4>2
    <3>3. ASSUME NEW j \in 1..Len(InTransit') PROVE N(i) < InTransit'[j][1]
      <4>1. PICK k \in 1..Len(InTransit) : k = d + j
        BY <1>1, <1>3
      <4>2. InTransit'[j] = InTransit[k]
        BY <1>3, <4>1
      <4> QED
        BY <1>9, <2>1, <3>1, <4>2
    <3> QED
      BY <3>1, <3>2, <3>3
  <2>2. ASSUME NEW k \in 1..n, i = Len(delivered) + k
        PROVE  /\ N(i) \in 1..Written /\ delivered'[i] = BytesOf(sent, N(i))
               /\ \A j \in 1..Len(delivered') : i < j => N(i) < N(j)
               /\ \A j \in 1..Len(InTransit') : N(i) < InTransit'[j][1]
    <3>1. /\ n # 0 /\ f + n - 1 \in 1..Written
          /\ d < Len(InTransit) => f + n - 1 < InTransit[d + 1][1]
      BY DEF Takes
    <3>2. N(i) = f + k - 1 /\ delivered'[i] = BytesOf(sent, N(i))
      BY <1>7, <1>8, <1>11, <2>2
    <3> HIDE DEF N
    <3>3. N(i) \in 1..Written
      BY <1>1, <3>1, <3>2
    <3>4. ASSUME NEW j \in 1..Len(delivered'), i < j PROVE N(i) < N(j)
      <4>1. j \notin 1..Len(delivered)
        BY <1>1, <2>2, <3>4
      <4>2. PICK l \in 1..n : j = Len(delivered) + l
        BY <1>8, <4>1
      <4>3. k < l
        BY <1>1, <2>2, <3>4, <4>2
      <4>4. N(j) = f + l - 1
        BY <1>11, <4>2
      <4> QED
        BY <3>2, <4>3, <4>4
    <3>5. ASSUME NEW j \in 1..Len(InTransit') PROVE N(i) < InTransit'[j][1]
      <4>1. d + 1 \in 1..Len(InTransit) /\ d < Len(InTransit)
        BY <1>1, <1>3
      <4>2. PICK h \in 1..Len(InTransit) : h = d + j
        BY <1>1, <1>3
      <4>3. InTransit'[j] = InTransit[h]
        BY <1>3, <4>2
      <4>4. PICK e \in 1..Len(InTransit) : e = d + 1
        BY <4>1
      <4>5. InTransit[e][1] <= InTransit[h][1]
        <5>1. h \in e..Len(InTransit)
          BY <4>2, <4>4
        <5> QED
          BY <1>1, <1>4, <5>1, BytesAscend
      <4>6. InTransit[e][1] \in Nat /\ InTransit[h][1] \in Nat
        <5>1. \A m \in 1..Len(InTransit) : InTransit[m][1] \in 1..Len(sent)
          BY <1>4 DEF Contiguous
        <5>2. InTransit[e][1] \in 1..Len(sent) /\ InTransit[h][1] \in 1..Len(sent)
          BY <5>1
        <5>3. \A m \in 1..Len(sent) : m \in Nat
          BY <1>1
        <5> QED
          BY ONLY <5>2, <5>3
      <4>7. PICK x \in Nat, y \in Nat : x = InTransit[e][1] /\ y = InTransit[h][1] /\ x <= y
        BY <4>5, <4>6
      <4>8. f + n - 1 < x
        BY <3>1, <4>1, <4>4, <4>7
      <4>9. PICK p \in Nat, q \in Nat : p = f + k - 1 /\ q = f + n - 1 /\ p <= q
        OBVIOUS
      <4>10. q < x
        BY <4>8, <4>9
      <4>11. p <= q /\ x <= y
        BY <4>7, <4>9
      <4>12. p < y
        BY ONLY <4>10, <4>11, p \in Nat, q \in Nat, x \in Nat, y \in Nat
      <4> QED
        BY <3>2, <4>3, <4>7, <4>9, <4>12
    <3> QED
      BY <3>2, <3>3, <3>4, <3>5
  <2> QED
    BY <1>8, <2>1, <2>2
<1>13. DeliveredWhole'
  BY <1>2, <1>12 DEF DeliveredWhole, Number
<1> QED
  BY <1>2, <1>5, <1>6, <1>8, <1>13

(* What is received together with what was stored, and what is left of the *)
(* stream                                                                  *)
Front(a, s, c) == a \o SubSeq(s, 1, c)
Rest(s, c) == SubSeq(s, c + 1, Len(s))

(* What was stored and received is at the front of what is in transit.     *)
LEMMA FrontIs ==
    ASSUME NEW a \in Seq(Byte), NEW s \in Seq(Byte), NEW c \in 1..Len(s)
    PROVE  /\ IsFront(a \o s, Front(a, s, c)) /\ Len(Front(a, s, c)) = Len(a) + c
           /\ Front(a, s, c) # <<>>
<1> DEFINE t == SubSeq(s, 1, c)
           w == a \o s
           v == a \o t
<1>1. Len(s) \in Nat /\ Len(a) \in Nat
  BY LenProperties
<1>2. t \in Seq(Byte) /\ Len(t) = c /\ \A i \in 1..c : t[i] = s[i]
  <2>1. \A i \in 1..c : s[i] \in Byte
    BY <1>1, ElementOfSeq
  <2>2. 1 \in Int /\ c \in Int /\ 1 <= c /\ c - 1 + 1 = c
    BY <1>1
  <2>3. t \in Seq(Byte) /\ Len(t) = c /\ \A i \in 1..(c - 1 + 1) : t[i] = s[1 + i - 1]
    BY <2>1, <2>2, SubSeqProperties
  <2>4. \A i \in 1..c : 1 + i - 1 = i
    OBVIOUS
  <2> HIDE DEF t
  <2> QED
    BY <2>2, <2>3, <2>4
<1> HIDE DEF t
<1>3. IsConcat(Byte, a, s, w)
  BY ConcatIs
<1>4. IsConcat(Byte, a, t, v)
  BY <1>2, ConcatIs
<1> HIDE DEF v, w
<1>5. ASSUME NEW i \in 1..Len(v) PROVE v[i] = w[i]
  <2>1. CASE i \in 1..Len(a)
    BY <1>3, <1>4, <2>1 DEF IsConcat
  <2>2. ASSUME NEW k \in 1..Len(t), i = Len(a) + k PROVE v[i] = w[i]
    <3>1. k \in 1..Len(s) /\ k \in 1..c
      BY <1>1, <1>2
    <3>2. v[Len(a) + k] = t[k] /\ w[Len(a) + k] = s[k]
      BY <1>3, <1>4, <3>1 DEF IsConcat
    <3> QED
      BY <1>2, <2>2, <3>1, <3>2
  <2> QED
    BY <1>4, <2>1, <2>2 DEF IsConcat
<1>6. Len(v) = Len(a) + c /\ v \in Seq(Byte) /\ Len(w) = Len(a) + Len(s) /\ Len(v) \in Nat
  BY <1>2, <1>3, <1>4 DEF IsConcat
<1>7. Len(v) <= Len(w) /\ v # <<>>
  BY <1>1, <1>6
<1> QED
  BY <1>5, <1>6, <1>7 DEF IsFront, Front, v, w, t

(* What is kept of the front, followed by the rest of the stream, is what  *)
(* is left of the bytes in transit.                                        *)
LEMMA RestIs ==
    ASSUME NEW a \in Seq(Byte), NEW s \in Seq(Byte), NEW c \in 1..Len(s),
           NEW l \in 0..(Len(a) + c), NEW left, IsSuffix(Front(a, s, c), l, left)
    PROVE  IsSuffix(a \o s, l, left \o Rest(s, c))
<1> DEFINE w == a \o s
           v == Front(a, s, c)
           r == Rest(s, c)
           x == left \o r
<1>1. Len(s) \in Nat /\ Len(a) \in Nat /\ IsFront(w, v) /\ Len(v) = Len(a) + c
  BY LenProperties, FrontIs
<1>2. r \in Seq(Byte) /\ Len(r) = Len(s) - c /\ \A i \in 1..Len(r) : r[i] = s[c + i]
  <2>1. \A i \in (c + 1)..Len(s) : s[i] \in Byte
    BY <1>1, ElementOfSeq
  <2>2. c + 1 \in Int /\ Len(s) \in Int
    BY <1>1
  <2>3. /\ r \in Seq(Byte) /\ Len(r) = IF c + 1 <= Len(s) THEN Len(s) - (c + 1) + 1 ELSE 0
        /\ \A i \in 1..(Len(s) - (c + 1) + 1) : r[i] = s[(c + 1) + i - 1]
    BY <2>1, <2>2, SubSeqProperties DEF Rest
  <2>4. Len(s) - (c + 1) + 1 = Len(s) - c /\ (~(c + 1 <= Len(s)) => Len(s) - c = 0)
    BY <1>1
  <2>5. \A i \in 1..(Len(s) - c) : (c + 1) + i - 1 = c + i
    BY <1>1
  <2> HIDE DEF r
  <2>6. Len(r) = Len(s) - c
    BY <2>3, <2>4
  <2> QED
    BY <2>3, <2>4, <2>5, <2>6
<1> HIDE DEF r
<1>3. IsConcat(Byte, a, s, w)
  BY ConcatIs
<1>4. /\ left \in Seq(Byte) /\ Len(left) = (Len(a) + c) - l
      /\ \A j \in 1..Len(left) : left[j] = v[l + j]
  BY <1>1 DEF IsSuffix
<1>5. IsConcat(Byte, left, r, x)
  BY <1>2, <1>4, ConcatIs
<1> HIDE DEF x, v, w
<1>6. ASSUME NEW i \in 1..Len(x) PROVE x[i] = w[l + i]
  <2>1. CASE i \in 1..Len(left)
    <3>1. PICK k \in 1..Len(v) : k = l + i
      BY <1>1, <1>4, <2>1
    <3>2. x[i] = v[k]
      BY <1>4, <1>5, <2>1, <3>1 DEF IsConcat
    <3> QED
      BY <1>1, <3>1, <3>2 DEF IsFront
  <2>2. ASSUME NEW k \in 1..Len(r), i = Len(left) + k PROVE x[i] = w[l + i]
    <3>1. PICK h \in 1..Len(s) : h = c + k
      BY <1>1, <1>2
    <3>2. x[Len(left) + k] = r[k] /\ w[Len(a) + h] = s[h]
      BY <1>3, <1>5 DEF IsConcat
    <3>3. Len(a) + h = l + i
      BY <1>1, <1>4, <2>2, <3>1
    <3> QED
      BY <1>2, <2>2, <3>1, <3>2, <3>3
  <2> QED
    BY <1>5, <2>1, <2>2 DEF IsConcat
<1>7. x \in Seq(Byte) /\ Len(x) = Len(left) + Len(r) /\ Len(w) = Len(a) + Len(s)
  BY <1>3, <1>5 DEF IsConcat
<1>8. Len(x) = Len(w) - l
  BY <1>1, <1>2, <1>4, <1>7
<1> QED
  BY <1>6, <1>7, <1>8 DEF IsSuffix, x, w, r

(* What is behind position l, and nothing, are suffixes.                   *)
LEMMA SuffixIs ==
    ASSUME NEW v \in Seq(Byte), NEW l \in 0..Len(v)
    PROVE  IsSuffix(v, l, SubSeq(v, l + 1, Len(v))) /\ IsSuffix(v, Len(v), <<>>)
<1> DEFINE r == SubSeq(v, l + 1, Len(v))
<1>1. Len(v) \in Nat
  BY LenProperties
<1>2. r \in Seq(Byte) /\ Len(r) = Len(v) - l /\ \A i \in 1..Len(r) : r[i] = v[l + i]
  <2>1. \A i \in (l + 1)..Len(v) : v[i] \in Byte
    BY <1>1, ElementOfSeq
  <2>2. l + 1 \in Int /\ Len(v) \in Int
    BY <1>1
  <2>3. /\ r \in Seq(Byte) /\ Len(r) = IF l + 1 <= Len(v) THEN Len(v) - (l + 1) + 1 ELSE 0
        /\ \A i \in 1..(Len(v) - (l + 1) + 1) : r[i] = v[(l + 1) + i - 1]
    BY <2>1, <2>2, SubSeqProperties
  <2>4. Len(v) - (l + 1) + 1 = Len(v) - l /\ (~(l + 1 <= Len(v)) => Len(v) - l = 0)
    BY <1>1
  <2>5. \A i \in 1..(Len(v) - l) : (l + 1) + i - 1 = l + i
    BY <1>1
  <2> HIDE DEF r
  <2>6. Len(r) = Len(v) - l
    BY <2>3, <2>4
  <2> QED
    BY <2>3, <2>4, <2>5, <2>6
<1>3. IsSuffix(v, Len(v), <<>>)
  BY <1>1, EmptySeq DEF IsSuffix
<1> QED
  BY <1>2, <1>3 DEF IsSuffix

(* What completeMessages finds in the front of what is in transit are the  *)
(* messages that come next, and what is behind position d belongs to later *)
(* ones, if d is not before the last stop.                                 *)
LEMMA Processed ==
    ASSUME Inv, NEW v, IsFront(InTransit, v), NEW d \in LastStop(v)..Len(InTransit)
    PROVE  \E f \in Nat \ {0} :
              /\ CompleteMessages(v) = Batch(sent, f, CountOf(v))
              /\ CountOf(v) # 0 =>
                    /\ InTransit # <<>> /\ InTransit[1] = <<f, 1>> /\ f + CountOf(v) - 1 \in 1..Written
                    /\ d < Len(InTransit) => f + CountOf(v) - 1 < InTransit[d + 1][1]
                    /\ LastStop(v) < Len(InTransit) => InTransit[LastStop(v) + 1] = <<f + CountOf(v), 1>>
                    /\ LastStop(v) = Len(InTransit) => f + CountOf(v) - 1 = Written
<1>1. /\ sent \in Seq(Messages) /\ Contiguous(sent, InTransit) /\ Contiguous(sent, v)
      /\ Len(v) \in Nat /\ Len(InTransit) \in Nat /\ Len(v) <= Len(InTransit)
      /\ Written \in Nat /\ Written <= Len(sent) /\ Len(sent) \in Nat
  <2>1. Contiguous(sent, InTransit) /\ Types
    BY DEF Inv
  <2>2. Contiguous(sent, v)
    BY <2>1, FrontContiguous
  <2>3. Len(v) \in Nat /\ Len(v) <= Len(InTransit)
    BY LenProperties DEF IsFront
  <2> QED
    BY <2>1, <2>2, <2>3, WrittenIs, InTransitIs DEF Types
<1> DEFINE w == InTransit
           K == CountOf(v)
           l == LastStop(v)
<1>2. CASE K = 0
  <2>1. CompleteMessages(v) = <<>>
    BY <1>1, <1>2, NoMessageFound
  <2>2. Batch(sent, 1, 0) = <<>>
    BY DEF Batch
  <2>3. 1 \in Nat \ {0}
    OBVIOUS
  <2> QED
    BY <1>2, <2>1, <2>2, <2>3
<1>3. CASE K # 0
  <2>1. K \in Nat /\ v # <<>> /\ l \in 1..Len(v)
    BY <1>1, <1>3, MessagesFound
  <2>2. PICK f \in 1..Len(sent) : AreMessages(v, f, K)
    BY <1>1, <1>3, MessagesFound
  <2>3. PICK g \in 1..Len(sent) : g = f + K - 1
    BY <2>2 DEF AreMessages
  <2>4. /\ w[1] = <<f, 1>> /\ w[l] = <<g, Size[sent[g]]>> /\ l \in 1..Len(w) /\ w # <<>>
        /\ Len(w) \in Nat /\ w \in Seq(Byte)
    <3>1. 1 \in 1..Len(v) /\ l \in 1..Len(w)
      BY <1>1, <2>1
    <3>2. w[1] = v[1] /\ w[l] = v[l]
      BY <2>1, <3>1 DEF IsFront
    <3>3. w # <<>>
      BY <1>1, <3>1, EmptySeq
    <3>4. w \in Seq(Byte)
      BY <1>1 DEF Contiguous
    <3> QED
      BY <1>1, <2>2, <2>3, <3>1, <3>2, <3>3, <3>4 DEF AreMessages
  <2> HIDE DEF K, l, w
  <2>5. ASSUME l < Len(w) PROVE w[l + 1] = <<g + 1, 1>>
    <3>1. w[l + 1] = Successor(sent, w[l])
      BY <1>1, <2>4, <2>5 DEF Contiguous, w
    <3>2. Size[sent[g]] \in Nat \ {0}
      BY <1>1, SizeIs
    <3>3. Successor(sent, <<g, Size[sent[g]]>>) = <<g + 1, 1>>
      BY <3>2 DEF Successor
    <3> QED
      BY <2>4, <3>1, <3>3
  <2>6. ASSUME d < Len(w) PROVE g < w[d + 1][1]
    <3>1. PICK e \in 1..Len(w) : e = l + 1 /\ l < Len(w)
      BY <2>4, <2>6 DEF l
    <3>2. PICK h \in e..Len(w) : h = d + 1
      BY <2>4, <2>6, <3>1 DEF l
    <3>3. w[e][1] <= w[h][1]
      BY <1>1, BytesAscend DEF w
    <3>4. w[e][1] = g + 1
      BY <2>5, <3>1
    <3>5. w[h][1] \in Nat
      <4>1. h \in 1..Len(w)
        BY <2>4
      <4> QED
        BY <1>1, <4>1 DEF Contiguous, w
    <3> QED
      BY <3>2, <3>3, <3>4, <3>5
  <2>7. w[Len(w)] = <<Written, Size[sent[Written]]>> /\ Written \in 1..Len(sent)
    BY <2>4 DEF Inv, EndsWith, w
  <2>8. g <= Written
    <3>1. Len(w) \in l..Len(w) /\ Len(w) \in 1..Len(w)
      BY <2>4
    <3>2. w[l][1] <= w[Len(w)][1]
      BY <1>1, <2>4, <3>1, BytesAscend DEF w
    <3> QED
      BY <2>4, <2>7, <3>2
  <2>9. l = Len(w) => g = Written
    BY <2>4, <2>7
  <2>10. g \in 1..Written /\ g + 1 = f + K /\ f \in Nat \ {0}
    BY <1>1, <2>1, <2>3, <2>8 DEF K
  <2>11. CompleteMessages(v) = Batch(sent, f, K)
    BY <2>2 DEF Batch, AreMessages
  <2> QED
    BY <2>3, <2>4, <2>5, <2>6, <2>9, <2>10, <2>11 DEF K, l, w
<1> QED
  BY <1>2, <1>3

(* What stays behind is shorter than the message it begins.                *)
LEMMA RemainderIsShort ==
    ASSUME Contiguous(sent, InTransit), sent \in Seq(Messages), NEW v, IsFront(InTransit, v),
           ~Garbage(v, LastStop(v)), LastStop(v) < Len(v)
    PROVE  /\ Len(v) - LastStop(v) < MaxSize
           /\ \A n \in 1..Len(sent) :
                 InTransit[LastStop(v) + 1] = <<n, 1>> => Len(v) - LastStop(v) < Size[sent[n]]
<1> DEFINE l == LastStop(v)
<1>1. Len(v) \in Nat /\ l \in 0..Len(v) /\ ~CompleteMessage(v, l) /\ l + 1 \in 1..Len(v)
  <2>1. Len(v) \in Nat
    BY LenProperties DEF IsFront
  <2> QED
    BY <2>1, StopsAre, LastStopIs
<1>2. MinSize \in Nat /\ MaxSize \in Nat /\ MinSize <= MaxSize
  BY SizeAssumption, BufferAssumption
<1>3. CASE Len(v) - l < MinSize
  <2>1. \A n \in 1..Len(sent) : Len(v) - l < Size[sent[n]]
    <3> SUFFICES ASSUME NEW n \in 1..Len(sent) PROVE Len(v) - l < Size[sent[n]]
      OBVIOUS
    <3>1. Size[sent[n]] \in Nat /\ Size[sent[n]] >= MinSize
      BY SizeIs
    <3> HIDE DEF l
    <3> QED
      BY <1>1, <1>2, <1>3, <3>1
  <2>2. Len(v) - l < MaxSize
    BY <1>1, <1>2, <1>3
  <2> QED
    BY <2>1, <2>2
<1>4. CASE ~(Len(v) - l < MinSize)
  <2>1. Header(v, l)
    BY <1>1, <1>2, <1>4 DEF Garbage
  <2>2. SizeAt(v, l) \in MinSize..MaxSize
    BY <2>1 DEF Header, SizeAt
  <2>3. ~(l + SizeAt(v, l) <= Len(v))
    BY <1>1, <1>2, <1>4, <2>1 DEF CompleteMessage
  <2>4. Len(v) - l < SizeAt(v, l)
    BY <1>1, <1>2, <2>2, <2>3
  <2>5. ASSUME NEW n \in 1..Len(sent), InTransit[l + 1] = <<n, 1>> PROVE SizeAt(v, l) = Size[sent[n]]
    <3>1. v[l + 1] = InTransit[l + 1]
      BY <1>1 DEF IsFront
    <3> QED
      BY <2>5, <3>1 DEF SizeAt
  <2> QED
    BY <1>1, <1>2, <2>2, <2>4, <2>5
<1> QED
  BY <1>3, <1>4

(* What is kept when bytes are received                                    *)
LEMMA CutOff ==
    ASSUME Inv, NEW c \in 1..Len(stream), stream' = SubSeq(stream, c + 1, Len(stream)),
           NEW d \in 0..(Len(incomplete) + c), IsSuffix(Front(incomplete, stream, c), d, incomplete')
    PROVE  /\ IsSuffix(InTransit, d, InTransit') /\ d \in 0..Len(InTransit)
           /\ incomplete' \in Seq(Byte) /\ stream' \in Seq(Byte)
<1>1. incomplete \in Seq(Byte) /\ stream \in Seq(Byte) /\ Types
  BY DEF Inv, Types
<1>2. IsSuffix(InTransit, d, InTransit')
  <2>1. IsSuffix(incomplete \o stream, d, incomplete' \o Rest(stream, c))
    BY <1>1, RestIs
  <2>2. Rest(stream, c) = stream'
    BY DEF Rest
  <2> QED
    BY <2>1, <2>2 DEF InTransit
<1>3. d \in 0..Len(InTransit)
  BY <1>1, InTransitIs
<1>4. incomplete' \in Seq(Byte)
  BY DEF IsSuffix
<1>5. stream' \in Seq(Byte)
  <2>1. Len(stream) \in Nat
    BY <1>1, LenProperties
  <2>2. \A i \in (c + 1)..Len(stream) : stream[i] \in Byte
    BY <1>1, <2>1, ElementOfSeq
  <2>3. c + 1 \in Int /\ Len(stream) \in Int
    BY <2>1
  <2> QED
    BY <2>2, <2>3, SubSeqProperties
<1> QED
  BY <1>2, <1>3, <1>4, <1>5

(* A step that takes bytes and processes what is complete                  *)
TakesSome == \E d \in 0..Len(InTransit), f \in Nat \ {0}, n \in Nat : Takes(d, f, n)

(* After a failure nothing is said of what is missing.                     *)
LEMMA FailureStep ==
    ASSUME Inv, UNCHANGED <<sent, nWritten>>, NEW d \in 0..Len(InTransit), NEW n \in Nat, NEW f \in Nat \ {0},
           Takes(d, f, n), failed' = TRUE, incomplete' = <<>>, stream' \in Seq(Byte)
    PROVE  Inv'
<1>1. /\ Contiguous(sent', InTransit') /\ EndsWith(InTransit, Written)' /\ DeliveredWhole'
      /\ delivered' \in Seq(Seq(Byte))
  BY TakesStep
<1>2. Types'
  <2>1. 0 < MaxSize /\ Len(<<>>) = 0 /\ <<>> \in Seq(Byte)
    BY SizeAssumption, BufferAssumption, EmptySeq
  <2>2. LastSize' = LastSize /\ nWritten' \in {0, LastSize} /\ sent' \in Seq(Messages) /\ Len(sent') <= MaxSent
    BY DEF Inv, Types, LastSize
  <2> QED
    BY <1>1, <2>1, <2>2 DEF Types
<1>3. NothingMissing'
  BY DEF NothingMissing
<1> QED
  BY <1>1, <1>2, <1>3 DEF Inv

(* There is no memory to join what was stored and what was received.       *)
LEMMA JoinFailsStep ==
    ASSUME Inv, NEW c \in Chunks, JoinFails(c) PROVE Inv' /\ TakesSome
<1>1. /\ stream' = SubSeq(stream, c + 1, Len(stream)) /\ incomplete' = <<>> /\ failed' = TRUE
      /\ UNCHANGED <<sent, nWritten, delivered>> /\ c \in 1..Len(stream)
  BY DEF JoinFails, Chunks
<1>2. incomplete \in Seq(Byte) /\ stream \in Seq(Byte) /\ delivered \in Seq(Seq(Byte)) /\ Len(incomplete) \in Nat
  BY LenProperties DEF Inv, Types
<1> DEFINE v == Front(incomplete, stream, c)
<1>3. v \in Seq(Byte) /\ Len(v) = Len(incomplete) + c
  BY <1>1, <1>2, FrontIs DEF IsFront
<1>4. PICK d \in 0..(Len(incomplete) + c) : d = Len(v)
  <2>1. Len(incomplete) + c \in 0..(Len(incomplete) + c)
    BY <1>1, <1>2
  <2> QED
    BY <1>3, <2>1
<1>5. IsSuffix(v, d, incomplete')
  <2>1. 0 \in 0..Len(v)
    BY <1>2, <1>3, <1>4
  <2> HIDE DEF v
  <2> QED
    BY <1>1, <1>3, <1>4, <2>1, SuffixIs
<1>6. IsSuffix(InTransit, d, InTransit') /\ d \in 0..Len(InTransit) /\ stream' \in Seq(Byte)
  BY <1>1, <1>5, CutOff
<1>7. Takes(d, 1, 0)
  <2>1. Batch(sent, 1, 0) = <<>>
    BY DEF Batch
  <2>2. delivered' = delivered \o <<>>
    BY <1>1, <1>2, ConcatEmptySeq
  <2> QED
    BY <1>6, <2>1, <2>2 DEF Takes
<1>8. 0 \in Nat /\ 1 \in Nat \ {0}
  OBVIOUS
<1> QED
  BY <1>1, <1>6, <1>7, <1>8, FailureStep DEF TakesSome

(* There is no memory for what stays behind.                               *)
LEMMA StoreFailsStep ==
    ASSUME Inv, NEW c \in Chunks, StoreFails(c) PROVE Inv' /\ TakesSome
<1> DEFINE v == Front(incomplete, stream, c)
<1>1. /\ stream' = SubSeq(stream, c + 1, Len(stream)) /\ incomplete' = <<>> /\ failed' = TRUE
      /\ delivered' = delivered \o CompleteMessages(v)
      /\ UNCHANGED <<sent, nWritten>> /\ c \in 1..Len(stream)
  BY DEF StoreFails, Chunks, Front, Received
<1>2. incomplete \in Seq(Byte) /\ stream \in Seq(Byte) /\ Len(incomplete) \in Nat
  BY LenProperties DEF Inv, Types
<1>3. v \in Seq(Byte) /\ Len(v) = Len(incomplete) + c /\ IsFront(InTransit, v)
  BY <1>1, <1>2, FrontIs DEF IsFront, InTransit
<1> HIDE DEF v
<1>4. PICK d \in 0..(Len(incomplete) + c) : d = Len(v)
  <2>1. Len(incomplete) + c \in 0..(Len(incomplete) + c)
    BY <1>1, <1>2
  <2> QED
    BY <1>3, <2>1
<1>5. IsSuffix(v, d, incomplete')
  <2>1. 0 \in 0..Len(v)
    BY <1>2, <1>3, <1>4
  <2> QED
    BY <1>1, <1>3, <1>4, <2>1, SuffixIs
<1>6. IsSuffix(InTransit, d, InTransit') /\ d \in 0..Len(InTransit) /\ stream' \in Seq(Byte)
  BY <1>1, <1>5, CutOff DEF v
<1>7. d \in LastStop(v)..Len(InTransit) /\ CountOf(v) \in Nat
  <2>1. Len(v) \in Nat /\ Stops(v) \subseteq 0..Len(v) /\ LastStop(v) \in Stops(v) /\ CountOf(v) \in Nat
    BY <1>3, LenProperties, StopsAre, LastStopIs
  <2> QED
    BY <1>4, <1>6, <2>1
<1>8. PICK f \in Nat \ {0} :
        /\ CompleteMessages(v) = Batch(sent, f, CountOf(v))
        /\ CountOf(v) # 0 =>
              /\ InTransit # <<>> /\ InTransit[1] = <<f, 1>> /\ f + CountOf(v) - 1 \in 1..Written
              /\ d < Len(InTransit) => f + CountOf(v) - 1 < InTransit[d + 1][1]
  BY <1>3, <1>7, Processed
<1>9. Takes(d, f, CountOf(v))
  BY <1>1, <1>6, <1>8 DEF Takes
<1> QED
  BY <1>1, <1>6, <1>7, <1>9, FailureStep DEF TakesSome

(* Bytes are received, and the complete messages processed.                *)
LEMMA ReceiveStep ==
    ASSUME Inv, NEW c \in Chunks, Receive(c) PROVE Inv' /\ TakesSome
<1> DEFINE v == Front(incomplete, stream, c)
           l == LastStop(v)
           K == CountOf(v)
<1>1. /\ stream' = SubSeq(stream, c + 1, Len(stream)) /\ incomplete' = Remainder(v)
      /\ failed' = (failed \/ Garbage(v, l))
      /\ delivered' = delivered \o CompleteMessages(v)
      /\ UNCHANGED <<sent, nWritten>> /\ c \in 1..Len(stream)
  BY DEF Receive, Chunks, Front, Received
<1>2. /\ incomplete \in Seq(Byte) /\ stream \in Seq(Byte) /\ Len(incomplete) \in Nat /\ sent \in Seq(Messages)
      /\ Len(delivered) \in Nat /\ failed \in BOOLEAN
  BY LenProperties DEF Inv, Types
<1>3. v \in Seq(Byte) /\ Len(v) = Len(incomplete) + c /\ IsFront(InTransit, v) /\ v # <<>>
  BY <1>1, <1>2, FrontIs DEF IsFront, InTransit
<1>4. l \in 0..Len(v) /\ K \in Nat /\ Len(v) \in Nat
  <2>1. Len(v) \in Nat
    BY <1>3, LenProperties
  <2> QED
    BY <2>1, StopsAre, LastStopIs
<1> HIDE DEF v
<1>5. CASE Garbage(v, l)
  <2>1. incomplete' = <<>> /\ failed' = TRUE
    BY <1>1, <1>5 DEF Remainder
  <2>2. PICK d \in 0..(Len(incomplete) + c) : d = Len(v)
    BY <1>3, <1>4
  <2>3. IsSuffix(v, d, incomplete')
    BY <1>3, <1>4, <2>1, <2>2, SuffixIs
  <2>4. IsSuffix(InTransit, d, InTransit') /\ d \in 0..Len(InTransit) /\ stream' \in Seq(Byte)
    BY <1>1, <2>3, CutOff DEF v
  <2>5. d \in l..Len(InTransit)
    BY <1>4, <2>2, <2>4
  <2>6. PICK f \in Nat \ {0} :
          /\ CompleteMessages(v) = Batch(sent, f, K)
          /\ K # 0 =>
                /\ InTransit # <<>> /\ InTransit[1] = <<f, 1>> /\ f + K - 1 \in 1..Written
                /\ d < Len(InTransit) => f + K - 1 < InTransit[d + 1][1]
    BY <1>3, <2>5, Processed
  <2>7. Takes(d, f, K)
    BY <1>1, <2>4, <2>6 DEF Takes
  <2> QED
    BY <1>1, <1>4, <2>1, <2>4, <2>7, FailureStep DEF TakesSome
<1>6. CASE ~Garbage(v, l)
  <2>1. incomplete' = SubSeq(v, l + 1, Len(v)) /\ failed' = failed
    BY <1>1, <1>2, <1>6 DEF Remainder
  <2>2. l \in 0..(Len(incomplete) + c) /\ IsSuffix(v, l, incomplete')
    BY <1>3, <1>4, <2>1, SuffixIs
  <2>3. /\ IsSuffix(InTransit, l, InTransit') /\ l \in 0..Len(InTransit)
        /\ incomplete' \in Seq(Byte) /\ stream' \in Seq(Byte)
    BY <1>1, <2>2, CutOff DEF v
  <2>4. Len(incomplete') = Len(v) - l /\ Len(InTransit') = Len(InTransit) - l /\ Len(InTransit) \in Nat
    <3>1. Len(InTransit) \in Nat
      BY InTransitIs DEF Inv
    <3> QED
      BY <2>2, <2>3, <3>1 DEF IsSuffix
  <2>5. PICK f \in Nat \ {0} :
          /\ CompleteMessages(v) = Batch(sent, f, K)
          /\ K # 0 =>
                /\ InTransit # <<>> /\ InTransit[1] = <<f, 1>> /\ f + K - 1 \in 1..Written
                /\ l < Len(InTransit) => f + K - 1 < InTransit[l + 1][1]
                /\ l < Len(InTransit) => InTransit[l + 1] = <<f + K, 1>>
                /\ l = Len(InTransit) => f + K - 1 = Written
    <3>1. l \in l..Len(InTransit)
      BY <1>4, <2>3
    <3> QED
      BY <1>3, <3>1, Processed
  <2>6. Takes(l, f, K)
    BY <1>1, <2>3, <2>5 DEF Takes
  <2>7. /\ Contiguous(sent', InTransit') /\ EndsWith(InTransit, Written)' /\ DeliveredWhole'
        /\ delivered' \in Seq(Seq(Byte)) /\ Written' = Written
    BY <1>1, <1>4, <2>3, <2>6, TakesStep
  <2>8. /\ Len(v) - l < MaxSize
        /\ l < Len(v) => \A n \in 1..Len(sent) : InTransit[l + 1] = <<n, 1>> => Len(v) - l < Size[sent[n]]
    <3>1. CASE l < Len(v)
      BY <1>2, <1>3, <1>6, <3>1, RemainderIsShort DEF Inv
    <3>2. CASE l = Len(v)
      BY <1>4, <3>2, SizeAssumption, BufferAssumption
    <3> QED
      BY <1>4, <3>1, <3>2
  <2>9. Types'
    <3>1. LastSize' = LastSize /\ nWritten' \in {0, LastSize} /\ sent' \in Seq(Messages) /\ Len(sent') <= MaxSent
      BY <1>1 DEF Inv, Types, LastSize
    <3> QED
      BY <1>2, <2>1, <2>3, <2>4, <2>7, <2>8, <3>1 DEF Types
  <2>10. NothingMissing'
    <3> SUFFICES ASSUME ~failed PROVE NothingMissing'
      BY <2>1 DEF NothingMissing
    <3>1. /\ \A i \in 1..Len(delivered) : Number(i) = i
          /\ InTransit[1] = <<Len(delivered) + 1, 1>>
      <4>1. InTransit # <<>>
        <5>1. Len(InTransit) # 0
          BY <1>2, <1>3, <1>4, <2>4 DEF IsFront
        <5> QED
          BY <5>1, EmptySeq
      <4> QED
        BY <4>1 DEF Inv, NothingMissing
    <3>2. IsBatch(sent, f, K, CompleteMessages(v))
      <4>1. Written \in Nat /\ Written <= Len(sent) /\ Len(sent) \in Nat
        BY WrittenIs DEF Inv
      <4>2. K # 0 => f + K - 1 \in 1..Len(sent)
        BY <2>5, <4>1
      <4>3. IsBatch(sent, f, K, Batch(sent, f, K))
        BY <1>2, <1>4, <4>2, BatchIs
      <4> QED
        BY <2>5, <4>3
    <3>3. IsConcat(Seq(Byte), delivered, CompleteMessages(v), delivered')
      BY <1>1, <3>2, ConcatIs DEF Inv, Types, IsBatch
    <3>4. Len(delivered') = Len(delivered) + K /\ Len(CompleteMessages(v)) = K
      BY <3>2, <3>3 DEF IsBatch, IsConcat
    <3>5. K # 0 => f = Len(delivered) + 1
      BY <2>5, <3>1
    <3>6. l < Len(InTransit) => InTransit[l + 1] = <<Len(delivered') + 1, 1>>
      <4>1. CASE K # 0
        <5>1. f + K = Len(delivered') + 1
          BY <1>2, <1>4, <3>4, <3>5, <4>1
        <5> QED
          BY <2>5, <4>1, <5>1
      <4>2. CASE K = 0
        <5>1. l = 0 /\ Len(delivered') = Len(delivered)
          BY <1>2, <1>4, <3>4, <4>2, NoMessageFound
        <5> QED
          BY <3>1, <5>1
      <4> QED
        BY <4>1, <4>2
    <3>7. \A i \in 1..Len(delivered') : Number(i)' = i
      <4> SUFFICES ASSUME NEW i \in 1..Len(delivered') PROVE delivered'[i][1][1] = i
        BY DEF Number
      <4>1. CASE i \in 1..Len(delivered)
        BY <3>1, <3>3, <4>1 DEF IsConcat, Number
      <4>2. ASSUME NEW k \in 1..K, i = Len(delivered) + k PROVE delivered'[i][1][1] = i
        <5>1. delivered'[i] = CompleteMessages(v)[k]
          BY <3>3, <3>4, <4>2 DEF IsConcat
        <5>2. CompleteMessages(v)[k][1][1] = f + k - 1
          BY <3>2 DEF IsBatch
        <5>3. K # 0 /\ k \in Nat
          BY <1>4
        <5>4. f = Len(delivered) + 1
          BY <3>5, <5>3
        <5>5. f + k - 1 = i
          BY <1>2, <4>2, <5>3, <5>4
        <5> QED
          BY <5>1, <5>2, <5>5
      <4> QED
        BY <3>3, <3>4, <4>1, <4>2 DEF IsConcat
    <3>8. InTransit' = <<>> => Len(delivered') = Written'
      <4> SUFFICES ASSUME InTransit' = <<>> PROVE Len(delivered') = Written
        BY <2>7
      <4>1. l = Len(InTransit)
        <5>1. Len(InTransit') = 0
          OBVIOUS
        <5> QED
          BY <1>4, <2>4, <5>1
      <4>2. K # 0
        <5> SUFFICES ASSUME K = 0 PROVE FALSE
          OBVIOUS
        <5>1. l = 0
          BY <1>4, NoMessageFound
        <5> QED
          BY <1>2, <1>3, <1>4, <4>1, <5>1 DEF IsFront
      <4> QED
        BY <1>2, <1>4, <2>5, <3>4, <3>5, <4>1, <4>2
    <3>9. InTransit' # <<>> => InTransit'[1] = <<Len(delivered') + 1, 1>>
      <4> SUFFICES ASSUME InTransit' # <<>> PROVE InTransit'[1] = <<Len(delivered') + 1, 1>>
        OBVIOUS
      <4>1. 1 \in 1..Len(InTransit') /\ l < Len(InTransit)
        <5>1. InTransit' \in Seq(Byte)
          BY <2>3 DEF IsSuffix
        <5> QED
          BY <1>4, <2>4, <5>1, EmptySeq
      <4>2. InTransit'[1] = InTransit[l + 1]
        BY <2>3, <4>1 DEF IsSuffix
      <4> QED
        BY <3>6, <4>1, <4>2
    <3>10. incomplete' # <<>> => Len(incomplete') < Size[sent'[Len(delivered') + 1]]
      <4> SUFFICES ASSUME incomplete' # <<>> PROVE Len(incomplete') < Size[sent[Len(delivered') + 1]]
        BY <1>1
      <4>1. l < Len(v) /\ l < Len(InTransit)
        <5>1. Len(incomplete') # 0
          BY <2>3, EmptySeq
        <5>2. Len(v) <= Len(InTransit)
          BY <1>3 DEF IsFront
        <5> QED
          BY <1>4, <2>4, <5>1, <5>2
      <4>2. PICK n \in 1..Len(sent) : InTransit[l + 1] = <<n, 1>> /\ n = Len(delivered') + 1
        <5>1. l + 1 \in 1..Len(InTransit)
          BY <1>4, <2>4, <4>1
        <5>2. InTransit[l + 1][1] \in 1..Len(sent)
          BY <5>1 DEF Inv, Contiguous
        <5> QED
          BY <3>6, <4>1, <5>2
      <4> QED
        BY <2>4, <2>8, <4>1, <4>2
    <3> QED
      BY <3>7, <3>8, <3>9, <3>10 DEF NothingMissing
  <2> QED
    BY <1>4, <2>3, <2>6, <2>7, <2>9, <2>10 DEF Inv, TakesSome
<1> QED
  BY <1>5, <1>6

(* Every step keeps the invariant.                                         *)
LEMMA NextInv ==
    ASSUME ~PartialSends, Inv, [Next]_vars PROVE Inv'
<1>1. ASSUME NEW m \in Messages, StartWriting(m) PROVE Inv'
  BY <1>1, StartWritingStep
<1>2. ASSUME NEW n \in 1..LastSize, Write(n) PROVE Inv'
  BY <1>2, WriteStep
<1>3. ASSUME NEW c \in Chunks, Receive(c) \/ JoinFails(c) \/ StoreFails(c) PROVE Inv'
  BY <1>3, ReceiveStep, JoinFailsStep, StoreFailsStep
<1>4. CASE UNCHANGED vars
  BY <1>4 DEF vars, Inv, Types, Contiguous, EndsWith, DeliveredWhole, NothingMissing, InTransit, Written,
              Writing, LastSize, Number
<1> QED
  BY <1>1, <1>2, <1>3, <1>4 DEF Next

(* The bytes in transit are always the last that were written, without a   *)
(* gap, and what was processed are whole messages before them.             *)
THEOREM MessagesAreWhole ==
    ASSUME ~PartialSends PROVE Spec => []Inv
<1>1. Inv /\ [Next]_vars => Inv'
  BY NextInv
<1> QED
  BY <1>1, InitInv, PTL DEF Spec

-----------------------------------------------------------------------------
(* What follows                                                            *)

(* Every message processed is a message the peer sent.                     *)
LEMMA InOrder == Inv => DeliveredInOrder
<1> SUFFICES ASSUME Inv PROVE DeliveredInOrder
  OBVIOUS
<1>1. /\ sent \in Seq(Messages) /\ delivered \in Seq(Seq(Byte)) /\ Types
      /\ Written \in Nat /\ Written <= Len(sent) /\ Len(sent) \in Nat
  BY WrittenIs DEF Inv, Types
<1>2. DOMAIN delivered = 1..Len(delivered) /\ DOMAIN sent = 1..Len(sent)
  BY <1>1
<1>3. \A i \in 1..Len(delivered) :
         /\ Number(i) \in 1..Len(sent) /\ delivered[i] = Bytes(Number(i))
         /\ \A j \in 1..Len(delivered) : i < j => Number(i) < Number(j)
  <2>1. \A n : Bytes(n) = BytesOf(sent, n)
    BY DEF Bytes, BytesOf
  <2>2. \A n \in 1..Written : n \in 1..Len(sent)
    BY <1>1
  <2> QED
    BY <2>1, <2>2 DEF Inv, DeliveredWhole
<1> QED
  BY <1>2, <1>3 DEF DeliveredInOrder, Number

(* Bytes keep their place, and none is held back when all were received.   *)
LEMMA NotHeldBack == Inv => NothingIsHeldBack
<1> SUFFICES ASSUME Inv PROVE NothingIsHeldBack
  OBVIOUS
<1>1. /\ sent \in Seq(Messages) /\ delivered \in Seq(Seq(Byte)) /\ Types
      /\ incomplete \in Seq(Byte) /\ stream \in Seq(Byte)
      /\ Written \in Nat /\ Written <= Len(sent) /\ Len(sent) \in Nat
      /\ ~Writing => Written = Len(sent)
  BY WrittenIs DEF Inv, Types
<1>2. /\ DOMAIN delivered = 1..Len(delivered) /\ DOMAIN sent = 1..Len(sent)
      /\ DOMAIN incomplete = 1..Len(incomplete) /\ DOMAIN stream = 1..Len(stream)
  BY <1>1
<1> DEFINE InPlace(b) == \A k \in DOMAIN b : b[k][1] \in DOMAIN sent /\ b[k][2] \in 1..Size[sent[b[k][1]]]
<1>3. Contiguous(sent, InTransit) /\ IsConcat(Byte, incomplete, stream, InTransit)
  BY <1>1, ConcatIs DEF Inv, InTransit
<1>4. \A j \in 1..Len(InTransit) :
         InTransit[j][1] \in 1..Len(sent) /\ InTransit[j][2] \in 1..Size[sent[InTransit[j][1]]]
  BY <1>3 DEF Contiguous
<1>5. InPlace(incomplete)
  <2> SUFFICES ASSUME NEW k \in 1..Len(incomplete)
               PROVE  incomplete[k] = InTransit[k] /\ k \in 1..Len(InTransit)
    BY <1>2, <1>4
  <2> QED
    BY <1>3 DEF IsConcat
<1>6. InPlace(stream)
  <2> SUFFICES ASSUME NEW k \in 1..Len(stream)
               PROVE  stream[k] = InTransit[Len(incomplete) + k] /\ Len(incomplete) + k \in 1..Len(InTransit)
    BY <1>2, <1>4
  <2> QED
    BY <1>3 DEF IsConcat
<1>7. ASSUME NEW i \in DOMAIN delivered PROVE InPlace(delivered[i])
  <2>1. PICK n \in 1..Len(sent) : delivered[i] = BytesOf(sent, n)
    <3>1. Number(i) \in 1..Written /\ delivered[i] = BytesOf(sent, Number(i))
      BY <1>2 DEF Inv, DeliveredWhole
    <3>2. Number(i) \in 1..Len(sent)
      BY <1>1, <3>1
    <3> QED
      BY <3>1, <3>2
  <2>2. DOMAIN delivered[i] = 1..Size[sent[n]] /\ \A k \in 1..Size[sent[n]] : delivered[i][k] = <<n, k>>
    BY <2>1 DEF BytesOf
  <2> QED
    BY <1>2, <2>2
<1>8. TypeOK
  <2>1. nWritten \in Nat /\ failed \in BOOLEAN /\ Len(incomplete) < MaxSize /\ Len(sent) <= MaxSent
    BY <1>1, WrittenIs DEF Types
  <2>2. \A b \in {stream, incomplete} \cup {delivered[i] : i \in DOMAIN delivered} : InPlace(b)
    <3> HIDE DEF InPlace
    <3> QED
      BY <1>5, <1>6, <1>7
  <2> QED
    BY <1>1, <2>1, <2>2 DEF TypeOK
<1>9. ASSUME stream = <<>>, ~Writing, ~failed, incomplete # <<>> PROVE FALSE
  <2> DEFINE h == Len(incomplete)
             n == Len(delivered) + 1
  <2>1. InTransit = incomplete
    BY <1>1, <1>9, ConcatEmptySeq DEF InTransit
  <2>2. h \in Nat /\ h # 0 /\ h \in 1..h /\ Len(delivered) \in Nat
    BY <1>1, <1>9, EmptySeq, LenProperties
  <2>3. InTransit[1] = <<n, 1>> /\ h < Size[sent[n]]
    BY <1>9, <2>1 DEF Inv, NothingMissing
  <2>4. Written \in 1..Len(sent) /\ InTransit[h] = <<Written, Size[sent[Written]]>>
    BY <1>9, <2>1 DEF Inv, EndsWith
  <2>5. n \in 1..Len(sent)
    <3>1. InTransit[1][1] \in 1..Len(sent)
      BY <1>4, <2>1, <2>2
    <3> QED
      BY <2>3, <3>1
  <2>6. PICK z \in Nat \ {0} : z = Size[sent[n]]
    BY <1>1, <2>5, SizeIs
  <2>7. InTransit[h] = <<n, h>>
    <3>1. PICK d \in Nat : d = 0
      OBVIOUS
    <3>2. InTransit[d + 1] = <<n, 1>> /\ d < Len(InTransit) /\ n \in Nat
      BY <2>1, <2>2, <2>3, <3>1
    <3> HIDE DEF n
    <3>3. \A k \in 1..Size[sent[n]] : d + k <= Len(InTransit) => InTransit[d + k] = <<n, k>>
      <4>1. sent \in Seq(Messages) /\ Contiguous(sent, InTransit) /\ n \in Nat
        BY <1>1, <1>3, <3>2
      <4>2. PICK m \in Nat : m = n
        BY <4>1
      <4>3. InTransit[d + 1] = <<m, 1>> /\ d < Len(InTransit)
        BY <3>2, <4>2
      <4>4. HasMessage(sent, InTransit, d, m)
        BY <4>1, <4>3, BytesOfMessage
      <4> QED
        BY <4>2, <4>4 DEF HasMessage
    <3>4. h \in 1..Size[sent[n]] /\ d + h = h /\ h <= Len(InTransit)
      BY <2>1, <2>2, <2>3, <2>6, <3>1 DEF n
    <3> QED
      BY <3>3, <3>4 DEF n
  <2>8. n = Written /\ h = Size[sent[n]]
    BY <2>4, <2>7
  <2> QED
    BY <2>2, <2>3, <2>8
<1> QED
  BY <1>8, <1>9 DEF NothingIsHeldBack

(* However the network splits and joins the bytes, and whatever allocation *)
(* fails, the messages UA_Server_processBinaryMessage is given are         *)
(* messages the peer sent, whole, none twice and in order, if the peer's   *)
(* calls of send take whole buffers.                                       *)
THEOREM DeliveredInOrderCorrect ==
    ASSUME ~PartialSends PROVE Spec => []DeliveredInOrder
BY MessagesAreWhole, InOrder, PTL

(* With all bytes received, completeMessages holds nothing back, and what  *)
(* it stores is always smaller than the largest message.                   *)
THEOREM NothingIsHeldBackCorrect ==
    ASSUME ~PartialSends PROVE Spec => []NothingIsHeldBack
BY MessagesAreWhole, NotHeldBack, PTL

-----------------------------------------------------------------------------
(* The connection implements the queue of MessageQueue, safety part.       *)

(* What the queue shows of the messages processed                          *)
Positions == [i \in DOMAIN delivered |-> Position(delivered[i])]

AreNumbers ==
    /\ Positions \in Seq(Nat) /\ Len(Positions) = Len(delivered)
    /\ \A i \in 1..Len(delivered) : Positions[i] = delivered[i][1][1]

(* The positions are those of the messages the first bytes belong to.      *)
LEMMA PositionsAre ==
    ASSUME Inv
    PROVE  /\ Len(delivered) \in Nat /\ Positions = [i \in 1..Len(delivered) |-> Number(i)]
           /\ Positions \in Seq(Nat) /\ Len(Positions) = Len(delivered)
           /\ \A i \in 1..Len(delivered) : Positions[i] = Number(i) /\ Number(i) \in 1..Len(sent)
<1>1. /\ sent \in Seq(Messages) /\ delivered \in Seq(Seq(Byte)) /\ Types /\ Len(delivered) \in Nat
      /\ Written \in Nat /\ Written <= Len(sent) /\ Len(sent) \in Nat
  BY WrittenIs, LenProperties DEF Inv, Types
<1>2. DOMAIN delivered = 1..Len(delivered) /\ DOMAIN sent = 1..Len(sent)
  BY <1>1
<1>3. ASSUME NEW i \in 1..Len(delivered)
      PROVE  Position(delivered[i]) = Number(i) /\ Number(i) \in 1..Len(sent)
  <2>1. Number(i) \in 1..Written /\ delivered[i] = BytesOf(sent, Number(i))
    BY DEF Inv, DeliveredWhole
  <2>2. Number(i) \in 1..Len(sent) /\ BytesOf(sent, Number(i)) = Bytes(Number(i))
    BY <1>1, <2>1 DEF BytesOf, Bytes
  <2> QED
    BY <1>2, <2>1, <2>2 DEF Position, Number
<1>4. Positions = [i \in 1..Len(delivered) |-> Number(i)]
  BY <1>2, <1>3 DEF Positions
<1>5. Positions \in [1..Len(delivered) -> Nat]
  BY <1>3, <1>4
<1>6. \A n \in Nat : \A p \in [1..n -> Nat] : p \in Seq(Nat) /\ Len(p) = n
  OBVIOUS
<1>7. Positions \in Seq(Nat) /\ Len(Positions) = Len(delivered)
  BY ONLY <1>1, <1>5, <1>6
<1> QED
  BY <1>1, <1>3, <1>4, <1>7

(* The same, as a formula.                                                 *)
LEMMA PositionsAreNumbers == Inv => AreNumbers
  BY PositionsAre DEF AreNumbers, Number

(* The same after a step.                                                  *)
LEMMA PositionsAreNumbersNext == Inv' => AreNumbers'
  BY PositionsAreNumbers, PTL

(* The last message processed                                              *)
LastNumber == IF delivered = <<>> THEN 0 ELSE Number(Len(delivered))

(* It is the queue's last message; without a failure all before it were    *)
(* processed, too.                                                         *)
LEMMA LastIs ==
    ASSUME Inv
    PROVE  /\ Queue!Last = LastNumber /\ LastNumber \in 0..Len(sent)
           /\ ~failed => LastNumber = Len(delivered)
<1>1. /\ Len(delivered) \in Nat /\ Len(Positions) = Len(delivered) /\ Positions \in Seq(Nat)
      /\ \A i \in 1..Len(delivered) : Positions[i] = Number(i) /\ Number(i) \in 1..Len(sent)
      /\ delivered \in Seq(Seq(Byte)) /\ Len(sent) \in Nat
  BY PositionsAre, WrittenIs DEF Inv, Types
<1>2. Queue!Last = IF Positions = <<>> THEN 0 ELSE Positions[Len(Positions)]
  BY DEF Queue!Last, Positions
<1>3. CASE delivered = <<>>
  <2>1. Len(delivered) = 0 /\ Positions = <<>>
    BY <1>1, <1>3, EmptySeq
  <2> QED
    BY <1>1, <1>2, <1>3, <2>1 DEF LastNumber
<1>4. CASE delivered # <<>>
  <2>1. Len(delivered) \in 1..Len(delivered) /\ Positions # <<>>
    BY <1>1, <1>4, EmptySeq
  <2>2. Queue!Last = Number(Len(delivered)) /\ Number(Len(delivered)) \in 1..Len(sent)
    BY <1>1, <1>2, <2>1
  <2>3. ~failed => Number(Len(delivered)) = Len(delivered)
    BY <2>1 DEF Inv, NothingMissing
  <2> QED
    BY <1>1, <1>4, <2>2, <2>3 DEF LastNumber
<1> QED
  BY <1>3, <1>4

(* The messages that such a step processes are delivered by the queue.     *)
LEMMA TakesDelivers ==
    ASSUME Inv, Inv', sent' = sent, NEW d, NEW f \in Nat \ {0}, NEW n \in Nat, Takes(d, f, n)
    PROVE  /\ n \in 0..Len(sent)
           /\ \E first \in (LastNumber + 1)..(Len(sent) + 1) :
                 /\ Queue!Deliver(first, n)
                 /\ n # 0 => first \in (LastNumber + 1)..Len(sent)
<1>1. /\ sent \in Seq(Messages) /\ delivered \in Seq(Seq(Byte)) /\ Types /\ InTransit \in Seq(Byte)
      /\ Written \in Nat /\ Written <= Len(sent) /\ Len(sent) \in Nat /\ Len(InTransit) \in Nat
  BY WrittenIs, InTransitIs DEF Inv, Types
<1>2. /\ Len(delivered) \in Nat /\ Len(Positions) = Len(delivered) /\ Positions \in Seq(Nat)
      /\ \A i \in 1..Len(delivered) : Positions[i] = Number(i)
      /\ Queue!Last = LastNumber /\ LastNumber \in 0..Len(sent)
      /\ ~failed => LastNumber = Len(delivered)
  BY PositionsAre, LastIs
<1>3. PICK first \in (LastNumber + 1)..(Len(sent) + 1) :
        /\ n # 0 => first = f /\ first \in (LastNumber + 1)..Len(sent) /\ f + n - 1 \in 1..Written
        /\ ~failed => first = LastNumber + 1
  <2>1. CASE n = 0
    <3>1. LastNumber + 1 \in (LastNumber + 1)..(Len(sent) + 1)
      BY <1>1, <1>2
    <3> QED
      BY <2>1, <3>1
  <2>2. CASE n # 0
    <3>1. InTransit # <<>> /\ InTransit[1] = <<f, 1>> /\ f + n - 1 \in 1..Written
      BY <2>2 DEF Takes
    <3>2. 1 \in 1..Len(InTransit)
      BY <1>1, <3>1, EmptySeq
    <3>3. LastNumber < f
      <4>1. CASE delivered = <<>>
        BY <4>1 DEF LastNumber
      <4>2. CASE delivered # <<>>
        <5>1. Len(delivered) \in 1..Len(delivered)
          BY <1>1, <1>2, <4>2, EmptySeq
        <5>2. Number(Len(delivered)) < InTransit[1][1]
          BY <3>2, <5>1 DEF Inv, DeliveredWhole
        <5> QED
          BY <3>1, <4>2, <5>2 DEF LastNumber
      <4> QED
        BY <4>1, <4>2
    <3>4. ~failed => f = LastNumber + 1
      BY <1>2, <3>1 DEF Inv, NothingMissing
    <3>5. f \in (LastNumber + 1)..Len(sent) /\ f \in (LastNumber + 1)..(Len(sent) + 1)
      BY <1>1, <1>2, <2>2, <3>1, <3>3
    <3> QED
      BY <2>2, <3>1, <3>4, <3>5
  <2> QED
    BY <2>1, <2>2
<1>4. first + n - 1 <= Len(sent) /\ n \in 0..Len(sent)
  BY <1>1, <1>2, <1>3
<1> DEFINE new == [i \in 1..n |-> first + i - 1]
<1>5. Positions' = Positions \o new
  <2> DEFINE p == Positions \o new
  <2>1. new \in Seq(Nat) /\ Len(new) = n /\ \A i \in 1..n : new[i] = first + i - 1
    <3>1. \A i \in 1..n : first + i - 1 \in Nat
      BY <1>2
    <3>2. new \in [1..n -> Nat]
      BY <3>1
    <3>3. \A i \in 1..n : new[i] = first + i - 1
      OBVIOUS
    <3>4. \A m \in Nat : \A q \in [1..m -> Nat] : q \in Seq(Nat) /\ Len(q) = m
      OBVIOUS
    <3>5. n \in Nat
      OBVIOUS
    <3>6. new \in Seq(Nat) /\ Len(new) = n
      BY ONLY <3>2, <3>4, <3>5
    <3> QED
      BY <3>3, <3>6
  <2> HIDE DEF new
  <2>2. IsConcat(Nat, Positions, new, p)
    BY <1>2, <2>1, ConcatIs
  <2>3. IsBatch(sent, f, n, Batch(sent, f, n))
    <3>1. n # 0 => f + n - 1 \in 1..Len(sent)
      BY <1>1, <1>3
    <3> QED
      BY <1>1, <3>1, BatchIs
  <2>4. IsConcat(Seq(Byte), delivered, Batch(sent, f, n), delivered')
    BY <1>1, <2>3, ConcatIs DEF IsBatch, Takes
  <2>5. /\ Positions' \in Seq(Nat) /\ Len(Positions') = Len(delivered')
        /\ \A i \in 1..Len(delivered') : Positions'[i] = delivered'[i][1][1]
    BY PositionsAreNumbersNext DEF AreNumbers
  <2> HIDE DEF p
  <2>6. p \in Seq(Nat) /\ Len(p) = Len(Positions')
    BY <1>2, <2>1, <2>2, <2>3, <2>4, <2>5 DEF IsConcat, IsBatch
  <2>7. ASSUME NEW i \in 1..Len(delivered') PROVE Positions'[i] = p[i]
    <3>1. CASE i \in 1..Len(delivered)
      <4>1. delivered'[i] = delivered[i] /\ p[i] = Positions[i]
        BY <1>2, <2>2, <2>4, <3>1 DEF IsConcat
      <4>2. Positions[i] = delivered[i][1][1]
        BY <1>2, <3>1 DEF Number
      <4> QED
        BY <2>5, <4>1, <4>2
    <3>2. ASSUME NEW k \in 1..n, i = Len(delivered) + k PROVE Positions'[i] = p[i]
      <4>1. p[i] = first + k - 1
        BY <1>2, <2>1, <2>2, <3>2 DEF IsConcat
      <4>2. delivered'[i] = Batch(sent, f, n)[k] /\ Batch(sent, f, n)[k][1][1] = f + k - 1
        BY <2>3, <2>4, <3>2 DEF IsConcat, IsBatch
      <4>3. n # 0
        OBVIOUS
      <4> QED
        BY <1>3, <2>5, <4>1, <4>2, <4>3
    <3> QED
      BY <2>3, <2>4, <3>1, <3>2 DEF IsConcat, IsBatch
  <2>8. Positions' = p
    BY <2>5, <2>6, <2>7, SeqEqual
  <2> QED
    BY <2>8 DEF p
<1>6. Queue!Deliver(first, n)
  BY <1>2, <1>3, <1>4, <1>5 DEF Queue!Deliver, Positions
<1> QED
  BY <1>3, <1>4, <1>6

(* Nothing that the queue shows changes.                                   *)
Same == UNCHANGED <<sent, Positions, failed>>

(* What is processed in a step that takes bytes, the queue delivers; an    *)
(* allocation that fails is a failure of the queue.                        *)
LEMMA TakesImplements ==
    ASSUME Inv, Inv', sent' = sent, TakesSome, failed => failed'
    PROVE  Same \/ Queue!Arrive \/ Queue!Fail
<1>1. PICK d \in 0..Len(InTransit), f \in Nat \ {0}, n \in Nat : Takes(d, f, n)
  BY DEF TakesSome
<1>2. n \in 0..Len(sent) /\ Len(sent) \in Nat /\ failed \in BOOLEAN /\ failed' \in BOOLEAN
  BY <1>1, TakesDelivers, WrittenIs DEF Inv, Types
<1>3. PICK first \in (LastNumber + 1)..(Len(sent) + 1) :
        /\ Queue!Deliver(first, n)
        /\ n # 0 => first \in (LastNumber + 1)..Len(sent)
  BY <1>1, TakesDelivers
<1>4. Queue!Last = LastNumber
  BY LastIs
<1>5. CASE failed'
  BY <1>2, <1>3, <1>4, <1>5 DEF Queue!Fail
<1>6. CASE ~failed' /\ n # 0
  <2>1. n \in 1..Len(sent) /\ failed' = failed
    BY <1>2, <1>6
  <2> QED
    BY <1>3, <1>4, <1>6, <2>1 DEF Queue!Arrive
<1>7. CASE ~failed' /\ n = 0
  <2>1. Batch(sent, f, n) = <<>>
    BY <1>7 DEF Batch
  <2>2. delivered' = delivered
    BY <1>1, <2>1, ConcatEmptySeq DEF Takes, Inv, Types
  <2>3. Positions' = Positions
    BY <2>2 DEF Positions, Position, Bytes
  <2> QED
    BY <1>2, <1>7, <2>3 DEF Same
<1> QED
  BY <1>5, <1>6, <1>7

(* Every step of the connection is one of the queue, or shows nothing.     *)
LEMMA StepImplements ==
    ASSUME ~PartialSends, Inv, Inv', [Next]_vars
    PROVE  Queue!Next \/ Same
<1>1. ASSUME NEW m \in Messages, StartWriting(m) PROVE Queue!Next
  <2>1. /\ Len(sent) < MaxSent /\ sent' = Append(sent, m) /\ failed' = failed /\ delivered' = delivered
    BY <1>1 DEF StartWriting
  <2>2. Positions' = Positions
    <3>1. /\ Positions \in Seq(Nat) /\ Len(Positions) = Len(delivered)
          /\ \A i \in 1..Len(delivered) : Positions[i] = delivered[i][1][1]
      BY PositionsAreNumbers DEF AreNumbers
    <3>2. /\ Positions' \in Seq(Nat) /\ Len(Positions') = Len(delivered)
          /\ \A i \in 1..Len(delivered) : Positions'[i] = delivered[i][1][1]
      BY <2>1, PositionsAreNumbersNext DEF AreNumbers
    <3>3. \A i \in 1..Len(Positions) : Positions'[i] = Positions[i]
      BY <3>1, <3>2
    <3> QED
      BY <3>1, <3>2, <3>3, SeqEqual
  <2>3. Queue!Send(m)
    BY <2>1, <2>2 DEF Queue!Send, Positions
  <2> QED
    BY <2>3 DEF Queue!Next
<1>2. ASSUME NEW n \in 1..LastSize, Write(n) PROVE Same
  <2>1. UNCHANGED <<sent, delivered, failed>>
    BY <1>2 DEF Write
  <2> QED
    BY <2>1 DEF Same, Positions, Position, Bytes
<1>3. ASSUME NEW c \in Chunks, Receive(c) \/ JoinFails(c) \/ StoreFails(c) PROVE Queue!Next \/ Same
  <2>1. TakesSome
    BY <1>3, ReceiveStep, JoinFailsStep, StoreFailsStep
  <2>2. sent' = sent /\ (failed => failed')
    BY <1>3 DEF Receive, JoinFails, StoreFails
  <2>3. Same \/ Queue!Arrive \/ Queue!Fail
    BY <2>1, <2>2, TakesImplements
  <2> QED
    BY <2>3 DEF Queue!Next
<1>4. CASE UNCHANGED vars
  BY <1>4 DEF vars, Same, Positions, Position, Bytes
<1> QED
  BY <1>1, <1>2, <1>3, <1>4 DEF Next

(* The connection is the queue of MessageQueue, but for its liveness: a    *)
(* job delivers messages that follow each other, and none is left out      *)
(* until an allocation fails or a message is too large.                    *)
THEOREM ConnectionIsAQueue ==
    ASSUME ~PartialSends PROVE Spec => Queue!Init /\ [][Queue!Next]_(Queue!vars)
<1>1. Init => Queue!Init
  <2> SUFFICES ASSUME Init PROVE Queue!Init
    OBVIOUS
  <2>1. sent = <<>> /\ delivered = <<>> /\ failed = FALSE
    BY DEF Init
  <2>2. Positions = <<>>
    BY <2>1 DEF Positions
  <2> QED
    BY <2>1, <2>2 DEF Queue!Init, Positions
<1>2. Inv /\ Inv' /\ [Next]_vars => [Queue!Next]_(Queue!vars)
  <2> SUFFICES ASSUME Inv, Inv', [Next]_vars PROVE Queue!Next \/ UNCHANGED Queue!vars
    OBVIOUS
  <2>1. Same => UNCHANGED Queue!vars
    BY DEF Same, Queue!vars, Positions
  <2> QED
    BY <2>1, StepImplements
<1> QED
  BY <1>1, <1>2, MessagesAreWhole, PTL DEF Spec
=============================================================================
