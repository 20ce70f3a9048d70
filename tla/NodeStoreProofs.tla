--------------------------- MODULE NodeStoreProofs ---------------------------
(***************************************************************************)
(* Proofs about the node store, for any NodeIds and hashes, any primes as  *)
(* sizes and any number of entries: every search ends, memory is kept      *)
(* exactly as long as it is used, and the store implements the map.        *)
(***************************************************************************)
EXTENDS NodeStore, TLAPS, FiniteSetTheorems, NaturalsInduction, WellFoundedInduction

-----------------------------------------------------------------------------
(* The probes of a search visit every slot                                 *)

(* A set of natural numbers that is not empty has a least element.         *)
LEMMA LeastElement ==
    ASSUME NEW T, T \subseteq Nat, T # {}
    PROVE  \E n \in T : \A m \in T : n <= m
<1>1. PICK n \in T : \A m \in T : <<m, n>> \notin OpToRel(<, Nat)
  BY NatLessThanWellFounded, WFMin
<1>2. \A m \in T : ~(m < n)
  BY <1>1 DEF OpToRel
<1> QED
  BY <1>2

(* Division with remainder, and the remainder is unique.                   *)
LEMMA Remainder ==
    ASSUME NEW n \in Nat \ {0}, NEW x \in Nat
    PROVE  x % n \in 0..(n - 1) /\ \E q \in Nat : x = n * q + (x % n)
<1>1. x % n \in 0..(n - 1) /\ x \div n \in Nat /\ x = n * (x \div n) + (x % n)
  OBVIOUS
<1> QED
  BY <1>1

(* A number has one remainder only.                                        *)
LEMMA RemainderIsUnique ==
    ASSUME NEW n \in Nat \ {0}, NEW x \in Nat, NEW q \in Int, NEW r \in 0..(n - 1), x = n * q + r
    PROVE  x % n = r
OBVIOUS

(* A prime that divides a product of two numbers divides one of them: the  *)
(* least multiplier x with p | x * y divides p.                            *)
LEMMA EuclidsLemma ==
    ASSUME NEW p \in Nat, IsPrime(p), NEW x0 \in 1..(p - 1), NEW y \in 1..(p - 1)
    PROVE  (x0 * y) % p # 0
<1> DEFINE T == {x \in Nat : x > 0 /\ \E k \in Int : x * y = p * k}
<1> SUFFICES ASSUME (x0 * y) % p = 0 PROVE FALSE
  OBVIOUS
<1>0. p \in Nat \ {0} /\ p > 1 /\ p \in T
  <2>1. p * y = p * y /\ y \in Int
    OBVIOUS
  <2>2. p > 1 /\ p \in Nat
    BY DEF IsPrime
  <2> QED
    BY <2>1, <2>2
<1>1. x0 \in T
  <2>1. x0 * y \in Nat
    OBVIOUS
  <2>2. PICK q \in Nat : x0 * y = p * q + ((x0 * y) % p)
    BY <1>0, <2>1, Remainder
  <2>3. x0 * y = p * q
    BY <2>2
  <2> QED
    BY <2>3
<1>2. PICK x \in T : \A z \in T : x <= z
  <2>1. T \subseteq Nat /\ T # {}
    BY <1>1
  <2> HIDE DEF T
  <2> QED
    BY <2>1, LeastElement
<1>3. x \in Nat \ {0} /\ x <= p - 1
  <2>1. x <= x0
    BY <1>1, <1>2
  <2> QED
    BY <2>1
<1>4. PICK k \in Int : x * y = p * k
  OBVIOUS
<1>5. p % x = 0
  <2>1. PICK q \in Nat : p = x * q + (p % x)
    BY <1>0, <1>3, Remainder
  <2> DEFINE r == p % x
  <2>2. r \in 0..(x - 1)
    BY <1>0, <1>3, Remainder
  <2>3. r * y = p * (y - q * k)
    <3> HIDE DEF r
    <3>1. r = p - x * q
      BY <1>3, <2>1, <2>2 DEF r
    <3>2. r * y = p * y - (x * q) * y
      BY <3>1, <1>3
    <3>3. (x * q) * y = q * (x * y)
      BY <1>3
    <3>4. q * (x * y) = q * (p * k)
      BY <1>4
    <3>5. q * (p * k) = p * (q * k)
      OBVIOUS
    <3> QED
      BY <3>2, <3>3, <3>4, <3>5
  <2>4. r \notin T
    <3>1. ~(x <= r)
      BY <2>2, <1>3
    <3> HIDE DEF T, r
    <3> QED
      BY <1>2, <3>1
  <2>5. y - q * k \in Int
    OBVIOUS
  <2> HIDE DEF r
  <2>6. r = 0
    <3>1. \E c \in Int : r * y = p * c
      BY <2>3, <2>5
    <3>2. r \in Nat /\ (r > 0 => r \in T)
      BY <1>3, <2>2, <3>1
    <3> HIDE DEF T
    <3> QED
      BY <2>4, <3>2
  <2> QED
    BY <2>6 DEF r
<1>6. x = 1
  <2>1. \A d \in 2..(p - 1) : p % d # 0
    BY DEF IsPrime
  <2>2. x \notin 2..(p - 1)
    BY <1>5, <2>1
  <2> QED
    BY <1>3, <2>2
<1>7. y = p * k
  BY <1>4, <1>6
<1>8. CASE k <= 0
  <2>1. p * k <= 0
    BY <1>8
  <2> QED
    BY <1>7, <2>1
<1>9. CASE k >= 1
  <2>1. p * k >= p
    BY <1>9
  <2> QED
    BY <1>7, <2>1
<1> QED
  BY <1>8, <1>9

(* Steps of any length below a prime size come to different slots.         *)
LEMMA StepsDiffer ==
    ASSUME NEW n \in Nat, IsPrime(n), NEW a \in Nat, NEW s \in 1..(n - 1),
           NEW i \in 0..(n - 1), NEW j \in 0..(n - 1), i < j
    PROVE  (a + i * s) % n # (a + j * s) % n
<1> SUFFICES ASSUME (a + i * s) % n = (a + j * s) % n PROVE FALSE
  OBVIOUS
<1>0. n \in Nat \ {0}
  BY DEF IsPrime
<1>1. a + i * s \in Nat /\ a + j * s \in Nat
  OBVIOUS
<1>2. PICK q \in Nat : a + i * s = n * q + ((a + i * s) % n)
  BY <1>0, <1>1, Remainder
<1>3. PICK u \in Nat : a + j * s = n * u + ((a + j * s) % n)
  BY <1>0, <1>1, Remainder
<1>4. (a + i * s) % n \in 0..(n - 1)
  BY <1>0, <1>1, Remainder
<1>5. PICK r \in 0..(n - 1) : a + i * s = n * q + r /\ a + j * s = n * u + r
  BY <1>2, <1>3, <1>4
<1>6. (j - i) * s = n * (u - q)
  <2>1. j * s - i * s = n * u - n * q
    BY <1>5
  <2>2. (j - i) * s = j * s - i * s
    OBVIOUS
  <2>3. n * (u - q) = n * u - n * q
    OBVIOUS
  <2> QED
    BY <2>1, <2>2, <2>3
<1>7. j - i \in 1..(n - 1) /\ (j - i) * s \in Nat /\ u - q \in Int
  OBVIOUS
<1>8. ((j - i) * s) % n = 0
  <2>1. (j - i) * s = n * (u - q) + 0 /\ 0 \in 0..(n - 1)
    BY <1>0, <1>6
  <2> QED
    BY ONLY <1>0, <1>7, <2>1, RemainderIsUnique
<1> QED
  BY <1>7, <1>8, EuclidsLemma

-----------------------------------------------------------------------------
(* Tables, and the search in a table for a NodeId, by the NodeIds M of     *)
(* the entries                                                             *)

Stored == Entries \cup {NULL}

(* A table has a prime size and no entry in two slots.                     *)
IsTable(T) ==
    /\ \E n \in Primes : T \in [0..(n - 1) -> Stored]
    /\ \A s, t \in DOMAIN T : T[s] = T[t] /\ T[s] # NULL => s = t

HasRoom(T) == \E s \in DOMAIN T : T[s] = NULL

StopsAt(T, M, id, i) ==
    LET e == T[Probe[Size(T)][id][i]] IN e = NULL \/ M[e] = id

IsFirst(T, M, id, i) ==
    i \in DOMAIN T /\ StopsAt(T, M, id, i) /\ \A j \in 0..(i - 1) : ~StopsAt(T, M, id, j)

(* Where the search for id ends.                                           *)
Slot(T, M, id) ==
    LET i == CHOOSE i \in DOMAIN T :
               StopsAt(T, M, id, i) /\ \A j \in 0..(i - 1) : ~StopsAt(T, M, id, j)
    IN  Probe[Size(T)][id][i]

(* The search that the store makes is the one by the NodeIds of the store. *)
LEMMA SlotOfIs ==
    ASSUME NEW T, NEW id
    PROVE  /\ SlotOf(T, id) = Slot(T, nodeOf, id)
           /\ \A i : Stops(T, id, i) = StopsAt(T, nodeOf, id, i)
           /\ Contains(T, id) <=> T[Slot(T, nodeOf, id)] # NULL
<1>1. \A i : Stops(T, id, i) = StopsAt(T, nodeOf, id, i)
  BY DEF Stops, StopsAt
<1>2. SlotOf(T, id) = Slot(T, nodeOf, id)
  BY DEF SlotOf, Slot, Stops, StopsAt
<1> QED
  BY <1>1, <1>2 DEF Contains

(* The size of a table is the number of its slots.                         *)
LEMMA SizeIs ==
    ASSUME NEW n \in Nat, NEW T, DOMAIN T = 0..(n - 1)
    PROVE  Size(T) = n
<1>1. Cardinality(0..(n - 1)) = IF 0 > n - 1 THEN 0 ELSE (n - 1) - 0 + 1
  BY FS_Interval
<1> QED
  BY <1>1 DEF Size

(* What the assumptions say of a size.                                     *)
LEMMA PrimesAre ==
    ASSUME NEW n \in Primes
    PROVE  n \in Nat /\ n >= 5 /\ IsPrime(n)
BY SizeAssumption

(* The size of a table is one of the primes, its slots are counted from 0. *)
LEMMA TableIs ==
    ASSUME NEW T, IsTable(T)
    PROVE  /\ Size(T) \in Primes
           /\ Size(T) \in Nat /\ Size(T) >= 5
           /\ DOMAIN T = 0..(Size(T) - 1)
           /\ T \in [0..(Size(T) - 1) -> Stored]
           /\ \A s \in DOMAIN T : T[s] \in Stored
<1>1. PICK n \in Primes : T \in [0..(n - 1) -> Stored]
  BY DEF IsTable
<1>2. n \in Nat /\ n >= 5
  BY PrimesAre
<1>3. DOMAIN T = 0..(n - 1)
  BY <1>1
<1>4. Size(T) = n
  BY <1>2, <1>3, SizeIs
<1> QED
  BY <1>1, <1>2, <1>3, <1>4

(* The probes of a search are slots, and different ones.                   *)
LEMMA ProbeIs ==
    ASSUME NEW n \in Primes, NEW id \in NodeIds, NEW i \in 0..(n - 1)
    PROVE  /\ Probe[n][id][i] \in 0..(n - 1)
           /\ \A j \in 0..(n - 1) : Probe[n][id][i] = Probe[n][id][j] => i = j
<1>1. n \in Nat \ {0} /\ n >= 5 /\ IsPrime(n) /\ n - 2 \in Nat \ {0}
  BY PrimesAre
<1> DEFINE h == Hash[id]
           a == h % n
           s == Step(id, n)
<1>2. h \in Nat
  BY HashAssumption
<1>3. a \in Nat
  <2> HIDE DEF h
  <2>1. h % n \in 0..(n - 1)
    BY <1>1, <1>2, Remainder
  <2> QED
    BY <1>1, <2>1
<1>4. s \in 1..(n - 1)
  <2>1. h % (n - 2) \in 0..((n - 2) - 1)
    BY <1>1, <1>2, Remainder
  <2>2. s = 1 + (h % (n - 2))
    BY DEF Step
  <2> HIDE DEF s, h
  <2> QED
    BY <1>1, <2>1, <2>2
<1>5. \A j \in 0..(n - 1) : Probe[n][id][j] = (a + j * s) % n
  BY DEF Probe
<1> HIDE DEF s, a, h
<1>6. \A j \in 0..(n - 1) : a + j * s \in Nat
  BY <1>1, <1>3, <1>4
<1>7. Probe[n][id][i] \in 0..(n - 1)
  BY <1>1, <1>5, <1>6, Remainder
<1>8. ASSUME NEW j \in 0..(n - 1), Probe[n][id][i] = Probe[n][id][j] PROVE i = j
  <2>1. (a + i * s) % n = (a + j * s) % n
    BY <1>5, <1>8
  <2>2. ~(i < j)
    BY <1>1, <1>3, <1>4, <2>1, StepsDiffer
  <2>3. ~(j < i)
    BY <1>1, <1>3, <1>4, <2>1, StepsDiffer
  <2> QED
    BY <1>1, <2>2, <2>3
<1> QED
  BY <1>7, <1>8

(* A function on 0..n-1 whose values are different slots meets every slot. *)
LEMMA InjectionsMeetAll ==
    ASSUME NEW n \in Nat \ {0}, NEW f \in [0..(n - 1) -> 0..(n - 1)],
           \A i, j \in 0..(n - 1) : f[i] = f[j] => i = j,
           NEW s \in 0..(n - 1)
    PROVE  \E i \in 0..(n - 1) : f[i] = s
<1> SUFFICES ASSUME \A i \in 0..(n - 1) : f[i] # s PROVE FALSE
  OBVIOUS
<1> DEFINE S == 0..(n - 1)
           T == S \ {s}
<1>1. IsFiniteSet(S) /\ Cardinality(S) = n
  <2>1. Cardinality(0..(n - 1)) = IF 0 > n - 1 THEN 0 ELSE (n - 1) - 0 + 1
    BY FS_Interval
  <2>2. IsFiniteSet(0..(n - 1))
    BY FS_Interval
  <2> QED
    BY <2>1, <2>2
<1>2. IsFiniteSet(T) /\ Cardinality(T) = n - 1
  <2> HIDE DEF S
  <2>1. s \in S
    BY DEF S
  <2> QED
    BY <1>1, <2>1, FS_RemoveElement
<1>3. f \in [S -> T]
  OBVIOUS
<1>4. \E x, y \in S : x # y /\ f[x] = f[y]
  <2>1. Cardinality(T) < Cardinality(S)
    <3> HIDE DEF S, T
    <3> QED
      BY <1>1, <1>2
  <2>2. IsFiniteSet(S) /\ IsFiniteSet(T)
    BY <1>1, <1>2
  <2> HIDE DEF S, T
  <2> QED
    BY ONLY <1>3, <2>1, <2>2, FS_PigeonHole, SMTT(30)
<1> QED
  BY <1>4

(* Every slot is probed, whatever the NodeId.                              *)
LEMMA ProbesReachAll ==
    ASSUME NEW n \in Primes, NEW id \in NodeIds, NEW s \in 0..(n - 1)
    PROVE  \E i \in 0..(n - 1) : Probe[n][id][i] = s
<1> DEFINE f == [i \in 0..(n - 1) |-> Probe[n][id][i]]
<1>1. n \in Nat \ {0}
  BY PrimesAre
<1>2. f \in [0..(n - 1) -> 0..(n - 1)]
  BY ProbeIs
<1>3. \A i, j \in 0..(n - 1) : f[i] = f[j] => i = j
  BY ProbeIs
<1>4. \E i \in 0..(n - 1) : f[i] = s
  <2> HIDE DEF f
  <2> QED
    BY <1>1, <1>2, <1>3, InjectionsMeetAll
<1> QED
  BY <1>4

(* The search for any NodeId ends where there is an empty slot.            *)
LEMMA SearchHasFirst ==
    ASSUME NEW T, IsTable(T), HasRoom(T), NEW M, NEW id \in NodeIds
    PROVE  \E i : IsFirst(T, M, id, i)
<1> DEFINE n == Size(T)
           I == {i \in 0..(n - 1) : StopsAt(T, M, id, i)}
<1>1. n \in Primes /\ n \in Nat /\ DOMAIN T = 0..(n - 1)
  BY TableIs
<1>2. PICK s \in 0..(n - 1) : T[s] = NULL
  BY <1>1 DEF HasRoom
<1>3. PICK k \in 0..(n - 1) : Probe[n][id][k] = s
  BY <1>1, ProbesReachAll
<1>4. StopsAt(T, M, id, k)
  BY <1>2, <1>3 DEF StopsAt
<1>5. PICK i \in I : \A j \in I : i <= j
  <2>1. I \subseteq Nat /\ I # {}
    BY <1>1, <1>4
  <2> HIDE DEF I
  <2> QED
    BY <2>1, LeastElement
<1>6. \A j \in 0..(i - 1) : j \in 0..(n - 1) /\ ~(i <= j)
  BY <1>1
<1>7. \A j \in 0..(i - 1) : ~StopsAt(T, M, id, j)
  BY <1>5, <1>6
<1> QED
  BY <1>1, <1>5, <1>7 DEF IsFirst

(* It ends at the first of its stops.                                      *)
LEMMA SlotIs ==
    ASSUME NEW T, NEW n \in Nat, DOMAIN T = 0..(n - 1), NEW M, NEW id, NEW i, IsFirst(T, M, id, i)
    PROVE  Slot(T, M, id) = Probe[Size(T)][id][i]
<1> DEFINE Q(k) == StopsAt(T, M, id, k) /\ \A j \in 0..(k - 1) : ~StopsAt(T, M, id, j)
           c == CHOOSE k \in DOMAIN T : Q(k)
<1>1. i \in DOMAIN T /\ Q(i)
  BY DEF IsFirst
<1>2. c \in DOMAIN T /\ Q(c)
  <2> HIDE DEF Q
  <2> QED
    BY <1>1
<1>3. c = i
  <2> HIDE DEF c
  <2>1. c \in Nat /\ i \in Nat
    BY <1>1, <1>2
  <2>2. ~(c < i)
    BY <1>1, <1>2, <2>1
  <2>3. ~(i < c)
    BY <1>1, <1>2, <2>1
  <2> QED
    BY <2>1, <2>2, <2>3
<1>4. Slot(T, M, id) = Probe[Size(T)][id][c]
  BY DEF Slot
<1> QED
  BY <1>3, <1>4

-----------------------------------------------------------------------------
(* What a change of a table does to the searches                           *)

(* A search ends at an empty slot or at an entry with the NodeId.          *)
LEMMA SlotEnds ==
    ASSUME NEW T, IsTable(T), HasRoom(T), NEW M, NEW id \in NodeIds
    PROVE  LET s == Slot(T, M, id) IN s \in DOMAIN T /\ (T[s] = NULL \/ M[T[s]] = id)
<1>1. PICK i : IsFirst(T, M, id, i)
  BY SearchHasFirst
<1> DEFINE n == Size(T)
<1>2. n \in Primes /\ n \in Nat /\ DOMAIN T = 0..(n - 1)
  BY TableIs
<1>3. Slot(T, M, id) = Probe[n][id][i]
  BY <1>1, <1>2, SlotIs
<1>4. i \in 0..(n - 1) /\ StopsAt(T, M, id, i)
  BY <1>1, <1>2 DEF IsFirst
<1>5. Probe[n][id][i] \in 0..(n - 1)
  BY <1>2, <1>4, ProbeIs
<1> QED
  BY <1>2, <1>3, <1>4, <1>5 DEF StopsAt

(* A table has an empty slot if its entries are among fewer than its size. *)
LEMMA RoomIsLeft ==
    ASSUME NEW T, IsTable(T), NEW A, IsFiniteSet(A), Cardinality(A) < Size(T),
           \A s \in DOMAIN T : T[s] # NULL => T[s] \in A
    PROVE  HasRoom(T)
<1> SUFFICES ASSUME ~HasRoom(T) PROVE FALSE
  OBVIOUS
<1> DEFINE n == Size(T)
           S == 0..(n - 1)
<1>1. n \in Nat /\ n >= 5 /\ DOMAIN T = S /\ T \in [S -> Stored]
  BY TableIs
<1>2. \A s \in S : T[s] \in A
  BY <1>1 DEF HasRoom
<1>3. T \in [S -> A]
  BY <1>1, <1>2
<1>4. IsFiniteSet(S) /\ Cardinality(S) = n
  <2>1. Cardinality(0..(n - 1)) = IF 0 > n - 1 THEN 0 ELSE (n - 1) - 0 + 1
    BY <1>1, FS_Interval
  <2>2. IsFiniteSet(0..(n - 1))
    BY <1>1, FS_Interval
  <2> HIDE DEF n
  <2> QED
    BY <1>1, <2>1, <2>2
<1>5. \E x, y \in S : x # y /\ T[x] = T[y]
  <2>1. Cardinality(A) < Cardinality(S)
    BY <1>4
  <2>2. IsFiniteSet(S)
    BY <1>4
  <2> HIDE DEF S
  <2> QED
    BY ONLY <1>3, <2>1, <2>2, IsFiniteSet(A), FS_PigeonHole
<1> QED
  BY <1>1, <1>5 DEF IsTable, HasRoom

(* A search in U ends where it ends in T if it stops there in U as well,   *)
(* and at no place where it does not in T.                                 *)
LEMMA SameSlot ==
    ASSUME NEW T, IsTable(T), HasRoom(T), NEW U, DOMAIN U = DOMAIN T, NEW M, NEW M2, NEW id \in NodeIds,
           LET s == Slot(T, M, id) IN U[s] = NULL \/ M2[U[s]] = id,
           \A s \in DOMAIN T :
               /\ s # Slot(T, M, id)
               /\ U[s] = NULL \/ M2[U[s]] = id
               => T[s] = NULL \/ M[T[s]] = id
    PROVE  Slot(U, M2, id) = Slot(T, M, id)
<1>1. PICK i : IsFirst(T, M, id, i)
  BY SearchHasFirst
<1> DEFINE n == Size(T)
<1>2. n \in Primes /\ n \in Nat /\ DOMAIN T = 0..(n - 1) /\ Size(U) = n
  BY TableIs, SizeIs
<1>3. Slot(T, M, id) = Probe[n][id][i]
  BY <1>1, <1>2, SlotIs
<1>4. i \in 0..(n - 1)
  BY <1>1, <1>2 DEF IsFirst
<1>5. IsFirst(U, M2, id, i)
  <2>1. StopsAt(U, M2, id, i)
    BY <1>2, <1>3 DEF StopsAt
  <2>2. ASSUME NEW j \in 0..(i - 1) PROVE ~StopsAt(U, M2, id, j)
    <3>1. j \in 0..(n - 1) /\ j # i
      BY <1>2, <1>4
    <3>2. Probe[n][id][j] \in DOMAIN T /\ Probe[n][id][j] # Probe[n][id][i]
      BY <1>2, <1>4, <3>1, ProbeIs
    <3>3. ~StopsAt(T, M, id, j)
      BY <1>1 DEF IsFirst
    <3> QED
      BY <1>2, <1>3, <3>2, <3>3 DEF StopsAt
  <2> QED
    BY <1>2, <1>4, <2>1, <2>2 DEF IsFirst
<1>6. Slot(U, M2, id) = Probe[n][id][i]
  <2>1. DOMAIN U = 0..(n - 1)
    BY <1>2
  <2> QED
    BY <1>2, <1>5, <2>1, SlotIs
<1> QED
  BY <1>3, <1>6

(* A NodeId is in the table, is found there, is there and not found.       *)
Has(T, M, id) == \E s \in DOMAIN T : T[s] # NULL /\ M[T[s]] = id
Finds(T, M, id) == T[Slot(T, M, id)] # NULL
Loses(T, M, id) == \E s \in DOMAIN T : T[s] # NULL /\ M[T[s]] = id /\ Slot(T, M, id) # s

(* A NodeId that is in the table is found or lost.                         *)
LEMMA HasIs ==
    ASSUME NEW T, IsTable(T), HasRoom(T), NEW M, NEW id \in NodeIds
    PROVE  Has(T, M, id) <=> Finds(T, M, id) \/ Loses(T, M, id)
BY SlotEnds DEF Has, Finds, Loses

(* What every change of a table keeps: what was found is found, and        *)
(* nothing is lost that was not.                                           *)
Keeps(T, M, U, M2) ==
    \A id \in NodeIds :
        /\ Finds(T, M, id) => Finds(U, M2, id)
        /\ Loses(U, M2, id) => Loses(T, M, id)

(* An entry e that is not in the table can get the NodeId id in M2.        *)
CanPut(T, M, M2, id, e) ==
    /\ IsTable(T) /\ HasRoom(T)
    /\ id \in NodeIds /\ e \in Entries /\ M2[e] = id
    /\ \A s \in DOMAIN T : T[s] # NULL => T[s] # e /\ M2[T[s]] = M[T[s]]

(* What U is if it is T with e where the search for id ends.               *)
IsPut(U, T, M, M2, id, e) ==
    /\ IsTable(U) /\ Size(U) = Size(T) /\ DOMAIN U = DOMAIN T
    /\ \A s \in DOMAIN U : U[s] # NULL => U[s] = e \/ U[s] = T[s]
    /\ Finds(U, M2, id) /\ Keeps(T, M, U, M2)
    /\ \A id2 \in NodeIds : Has(U, M2, id2) <=> Has(T, M, id2) \/ id2 = id

(* Putting an entry where the search for its NodeId ends keeps the rest.   *)
LEMMA PutKeeps ==
    ASSUME NEW T, NEW M, NEW M2, NEW id, NEW e, CanPut(T, M, M2, id, e)
    PROVE  IsPut([T EXCEPT ![Slot(T, M, id)] = e], T, M, M2, id, e)
<1>0. /\ IsTable(T) /\ HasRoom(T)
      /\ id \in NodeIds /\ e \in Entries /\ M2[e] = id
      /\ \A s \in DOMAIN T : T[s] # NULL => T[s] # e /\ M2[T[s]] = M[T[s]]
  BY DEF CanPut
<1> USE <1>0
<1> DEFINE s0 == Slot(T, M, id)
           U == [T EXCEPT ![s0] = e]
           n == Size(T)
<1>1. n \in Primes /\ n \in Nat /\ DOMAIN T = 0..(n - 1) /\ T \in [0..(n - 1) -> Stored]
  BY TableIs
<1>2. s0 \in DOMAIN T /\ (T[s0] = NULL \/ M[T[s0]] = id)
  BY SlotEnds
<1> HIDE DEF s0
<1>3. e # NULL /\ e \in Stored
  BY NodeNullAssumption DEF Stored
<1>4. DOMAIN U = DOMAIN T /\ U[s0] = e /\ \A s \in DOMAIN T : s # s0 => U[s] = T[s]
  BY <1>2
<1>5. U \in [0..(n - 1) -> Stored]
  BY <1>1, <1>3
<1> HIDE DEF U
<1>6. Size(U) = n
  BY <1>1, <1>4, SizeIs
<1>7. IsTable(U)
  BY <1>1, <1>2, <1>4, <1>5 DEF IsTable
<1>8. Slot(U, M2, id) = s0
  <2>1. U[s0] = NULL \/ M2[U[s0]] = id
    BY <1>4
  <2>2. \A s \in DOMAIN T : s # s0 /\ (U[s] = NULL \/ M2[U[s]] = id) => T[s] = NULL \/ M[T[s]] = id
    BY <1>4
  <2> QED
    BY <1>4, <2>1, <2>2, SameSlot DEF s0
<1>9. ASSUME NEW id2 \in NodeIds, id2 # id, Finds(T, M, id2)
      PROVE  Slot(U, M2, id2) = Slot(T, M, id2)
  <2> DEFINE s2 == Slot(T, M, id2)
  <2>1. s2 \in DOMAIN T /\ T[s2] # NULL /\ M[T[s2]] = id2
    BY <1>9, SlotEnds DEF Finds
  <2> HIDE DEF s2
  <2>2. s2 # s0
    BY <1>2, <1>9, <2>1
  <2>3. U[s2] = NULL \/ M2[U[s2]] = id2
    BY <1>4, <2>1, <2>2
  <2>4. \A s \in DOMAIN T : s # s2 /\ (U[s] = NULL \/ M2[U[s]] = id2) => T[s] = NULL \/ M[T[s]] = id2
    <3>1. U[s0] # NULL /\ M2[U[s0]] # id2
      BY <1>3, <1>4, <1>9
    <3>2. \A s \in DOMAIN T : s # s0 /\ T[s] # NULL => U[s] = T[s] /\ M2[U[s]] = M[T[s]]
      BY <1>4
    <3> QED
      BY <3>1, <3>2
  <2> QED
    BY <1>4, <2>3, <2>4, SameSlot DEF s2
<1>10. Finds(U, M2, id)
  BY <1>3, <1>4, <1>8 DEF Finds
<1>11. Keeps(T, M, U, M2)
  <2>1. ASSUME NEW id2 \in NodeIds, Finds(T, M, id2) PROVE Finds(U, M2, id2)
    <3>1. CASE id2 # id
      <4>1. Slot(T, M, id2) \in DOMAIN T
        BY SlotEnds
      <4> QED
        BY <1>3, <1>4, <1>9, <2>1, <3>1, <4>1 DEF Finds
    <3> QED
      BY <1>10, <3>1
  <2>2. ASSUME NEW id2 \in NodeIds, Loses(U, M2, id2) PROVE Loses(T, M, id2)
    <3>1. PICK s \in DOMAIN U : U[s] # NULL /\ M2[U[s]] = id2 /\ Slot(U, M2, id2) # s
      BY <2>2 DEF Loses
    <3>2. s # s0
      BY <1>4, <1>8, <3>1
    <3>3. s \in DOMAIN T /\ T[s] # NULL /\ M[T[s]] = id2
      BY <1>4, <3>1, <3>2
    <3>4. CASE id2 = id
      BY <3>2, <3>3, <3>4 DEF Loses, s0
    <3>5. CASE id2 # id
      <4>1. Slot(T, M, id2) # s
        BY <1>9, <3>1, <3>3, <3>5 DEF Finds
      <4> QED
        BY <3>3, <4>1 DEF Loses
    <3> QED
      BY <3>4, <3>5
  <2> QED
    BY <2>1, <2>2 DEF Keeps
<1>12. ASSUME NEW id2 \in NodeIds PROVE Has(U, M2, id2) <=> Has(T, M, id2) \/ id2 = id
  <2>1. ASSUME Has(U, M2, id2) PROVE Has(T, M, id2) \/ id2 = id
    BY <1>4, <2>1 DEF Has
  <2>2. ASSUME Has(T, M, id2), id2 # id PROVE Has(U, M2, id2)
    <3>1. PICK s \in DOMAIN T : T[s] # NULL /\ M[T[s]] = id2
      BY <2>2 DEF Has
    <3>2. s # s0
      BY <1>2, <2>2, <3>1
    <3> QED
      BY <1>4, <3>1, <3>2 DEF Has
  <2>3. Has(U, M2, id)
    BY <1>2, <1>3, <1>4 DEF Has
  <2> QED
    BY <2>1, <2>2, <2>3
<1>13. \A s \in DOMAIN U : U[s] # NULL => U[s] = e \/ U[s] = T[s]
  BY <1>4
<1>14. IsPut(U, T, M, M2, id, e)
  BY ONLY <1>4, <1>6, <1>7, <1>10, <1>11, <1>12, <1>13 DEF IsPut
<1> QED
  BY <1>14 DEF U, s0

(* Nothing changes for the searches if each slot has an entry with the     *)
(* same NodeId as before, or none as before.                               *)
LEMMA SameSearches ==
    ASSUME NEW T, IsTable(T), HasRoom(T), NEW U, DOMAIN U = DOMAIN T, NEW M, NEW M2,
           \A s \in DOMAIN T : /\ T[s] = NULL <=> U[s] = NULL
                               /\ T[s] # NULL => M2[U[s]] = M[T[s]],
           NEW id \in NodeIds
    PROVE  /\ Slot(U, M2, id) = Slot(T, M, id)
           /\ Finds(U, M2, id) <=> Finds(T, M, id)
           /\ Loses(U, M2, id) <=> Loses(T, M, id)
<1>1. Slot(T, M, id) \in DOMAIN T /\ (T[Slot(T, M, id)] = NULL \/ M[T[Slot(T, M, id)]] = id)
  BY SlotEnds
<1>2. Slot(U, M2, id) = Slot(T, M, id)
  <2> DEFINE s0 == Slot(T, M, id)
  <2>1. U[s0] = NULL \/ M2[U[s0]] = id
    BY <1>1
  <2>2. \A s \in DOMAIN T : s # s0 /\ (U[s] = NULL \/ M2[U[s]] = id) => T[s] = NULL \/ M[T[s]] = id
    OBVIOUS
  <2> QED
    BY <2>1, <2>2, SameSlot
<1>3. Finds(U, M2, id) <=> Finds(T, M, id)
  BY <1>1, <1>2 DEF Finds
<1>4. Loses(U, M2, id) <=> Loses(T, M, id)
  BY <1>2 DEF Loses
<1> QED
  BY <1>2, <1>3, <1>4

-----------------------------------------------------------------------------
(* The larger or smaller table that expand fills                           *)

(* The recursion of RehashedTo defines a function.                         *)
IsRehash(f, n, T, m) ==
    f = [k \in 0..m |-> IF k = 0 THEN Empty(n) ELSE Placed(f[k - 1], T[k - 1])]

LEMMA RehashExists ==
    ASSUME NEW n, NEW T, NEW m \in Nat
    PROVE  \E f : IsRehash(f, n, T, m)
<1> DEFINE Body(f, k) == IF k = 0 THEN Empty(n) ELSE Placed(f[k - 1], T[k - 1])
           B == {l \in Nat : ~ \E f : f = [k \in 0..l |-> Body(f, k)]}
<1>1. B = {}
  <2> SUFFICES ASSUME B # {} PROVE FALSE
    OBVIOUS
  <2>1. PICK l \in B : \A h \in B : l <= h
    <3>1. B \subseteq Nat
      OBVIOUS
    <3> HIDE DEF B
    <3> QED
      BY <3>1, LeastElement
  <2>2. l \in Nat
    OBVIOUS
  <2>3. CASE l = 0
    <3> DEFINE f == [k \in 0..0 |-> Empty(n)]
    <3>1. f = [k \in 0..0 |-> Body(f, k)]
      <4>1. \A k \in 0..0 : Body(f, k) = Empty(n)
        OBVIOUS
      <4> QED
        BY <4>1
    <3> QED
      BY <2>3, <3>1
  <2>4. CASE l # 0
    <3>1. l - 1 \in Nat /\ ~(l <= l - 1)
      BY <2>2, <2>4
    <3>2. l - 1 \notin B
      <4> HIDE DEF B
      <4> QED
        BY <2>1, <3>1
    <3>3. PICK f : f = [k \in 0..(l - 1) |-> Body(f, k)]
      BY <3>1, <3>2
    <3> DEFINE g == [k \in 0..l |-> IF k = l THEN Body(f, l) ELSE f[k]]
    <3>4. \A k \in 0..l : g[k] = Body(g, k)
      <4> SUFFICES ASSUME NEW k \in 0..l PROVE g[k] = Body(g, k)
        OBVIOUS
      <4>1. k # 0 => g[k - 1] = f[k - 1]
        BY <2>2
      <4>2. Body(g, k) = Body(f, k)
        BY <4>1
      <4>3. g[k] = Body(f, k)
        <5>1. CASE k = l
          BY <5>1
        <5>2. CASE k # l
          <6>1. k \in 0..(l - 1)
            BY <2>2, <5>2
          <6> HIDE DEF Body
          <6>2. f[k] = Body(f, k)
            BY <3>3, <6>1
          <6> QED
            BY <5>2, <6>2
        <5> QED
          BY <5>1, <5>2
      <4> QED
        BY <4>2, <4>3
    <3>5. g = [k \in 0..l |-> g[k]]
      OBVIOUS
    <3> HIDE DEF g, Body
    <3>6. g = [k \in 0..l |-> Body(g, k)]
      BY <3>4, <3>5
    <3> QED
      BY <3>6
  <2> QED
    BY <2>3, <2>4
<1> QED
  BY <1>1 DEF IsRehash

(* The table after the first k slots of T: it has their NodeIds and no     *)
(* other, and every node is found.                                         *)
IsPart(R, n, T, k) ==
    /\ IsTable(R) /\ Size(R) = n
    /\ \A s \in DOMAIN R : R[s] # NULL => \E j \in 0..(k - 1) : R[s] = T[j]
    /\ \A id \in NodeIds :
           /\ Has(R, nodeOf, id) <=> \E j \in 0..(k - 1) : T[j] # NULL /\ nodeOf[T[j]] = id
           /\ ~Loses(R, nodeOf, id)

(* The recursion begins with the empty table.                              *)
LEMMA EmptyIsPart ==
    ASSUME NEW n \in Primes, NEW T
    PROVE  IsPart(Empty(n), n, T, 0)
<1>1. n \in Nat
  BY PrimesAre
<1>2. DOMAIN Empty(n) = 0..(n - 1) /\ \A s \in 0..(n - 1) : Empty(n)[s] = NULL
  BY DEF Empty
<1>3. Empty(n) \in [0..(n - 1) -> Stored]
  BY DEF Empty, Stored
<1>4. IsTable(Empty(n))
  BY <1>2, <1>3 DEF IsTable
<1>5. Size(Empty(n)) = n
  BY <1>1, <1>2, SizeIs
<1>6. \A id : ~Has(Empty(n), nodeOf, id) /\ ~Loses(Empty(n), nodeOf, id)
  BY <1>2 DEF Has, Loses
<1>7. \A j : j \notin 0..(0 - 1)
  OBVIOUS
<1> QED
  BY <1>2, <1>4, <1>5, <1>6, <1>7 DEF IsPart

(* One step of the recursion: the entry of slot k is put.                  *)
LEMMA PartGrows ==
    ASSUME NEW T, IsTable(T), NEW k \in DOMAIN T, NEW n \in Primes, NEW R, IsPart(R, n, T, k),
           NEW A, IsFiniteSet(A), Cardinality(A) < n,
           \A s \in DOMAIN T : T[s] # NULL => T[s] \in A /\ nodeOf[T[s]] \in NodeIds
    PROVE  IsPart(Placed(R, T[k]), n, T, k + 1)
<1>1. k \in Nat /\ \A j \in 0..k : j \in DOMAIN T
  BY TableIs
<1>2. \A j : j \in 0..((k + 1) - 1) <=> j \in 0..(k - 1) \/ j = k
  BY <1>1
<1>3. CASE T[k] = NULL
  <2>1. Placed(R, T[k]) = R
    BY <1>3 DEF Placed
  <2> QED
    BY <1>2, <1>3, <2>1 DEF IsPart
<1>4. CASE T[k] # NULL
  <2> DEFINE e == T[k]
             id == nodeOf[e]
             U == [R EXCEPT ![Slot(R, nodeOf, id)] = e]
  <2>1. Placed(R, e) = U
    BY <1>4, SlotOfIs DEF Placed
  <2>2. id \in NodeIds /\ e \in Entries /\ e # NULL
    <3>1. e \in Stored
      BY TableIs
    <3> QED
      BY <1>4, <3>1 DEF Stored
  <2>3. \A s \in DOMAIN R : R[s] # NULL => R[s] \in A /\ R[s] # e /\ \E j \in 0..(k - 1) : R[s] = T[j]
    <3> SUFFICES ASSUME NEW s \in DOMAIN R, R[s] # NULL
                 PROVE  R[s] \in A /\ R[s] # e /\ \E j \in 0..(k - 1) : R[s] = T[j]
      OBVIOUS
    <3>1. PICK j \in 0..(k - 1) : R[s] = T[j]
      BY DEF IsPart
    <3>2. j \in DOMAIN T /\ j # k
      BY <1>1
    <3> QED
      BY <3>1, <3>2 DEF IsTable
  <2>4. IsTable(R) /\ Size(R) = n /\ HasRoom(R)
    <3>1. IsTable(R) /\ Size(R) = n
      BY DEF IsPart
    <3> QED
      BY <2>3, <3>1, RoomIsLeft
  <2> HIDE DEF e, id
  <2>5. /\ IsTable(U) /\ Size(U) = n
        /\ \A s \in DOMAIN U : U[s] # NULL => U[s] = e \/ (s \in DOMAIN R /\ U[s] = R[s])
        /\ Keeps(R, nodeOf, U, nodeOf)
        /\ \A id2 \in NodeIds : Has(U, nodeOf, id2) <=> Has(R, nodeOf, id2) \/ id2 = id
    <3>1. nodeOf[e] = id
      BY DEF id
    <3>2. \A s \in DOMAIN R : R[s] # NULL => R[s] # e /\ nodeOf[R[s]] = nodeOf[R[s]]
      BY <2>3
    <3>3. CanPut(R, nodeOf, nodeOf, id, e)
      BY <2>2, <2>4, <3>1, <3>2 DEF CanPut
    <3>4. IsPut(U, R, nodeOf, nodeOf, id, e)
      <4> HIDE DEF U
      <4>1. IsPut([R EXCEPT ![Slot(R, nodeOf, id)] = e], R, nodeOf, nodeOf, id, e)
        BY <3>3, PutKeeps
      <4> QED
        BY <4>1 DEF U
    <3> HIDE DEF U
    <3> QED
      BY <2>4, <3>4 DEF IsPut
  <2> HIDE DEF U
  <2>6. \A s \in DOMAIN U : U[s] # NULL => \E j \in 0..((k + 1) - 1) : U[s] = T[j]
    BY <1>2, <2>3, <2>5 DEF e
  <2>7. ASSUME NEW id2 \in NodeIds
        PROVE  /\ Has(U, nodeOf, id2) <=> \E j \in 0..((k + 1) - 1) : T[j] # NULL /\ nodeOf[T[j]] = id2
               /\ ~Loses(U, nodeOf, id2)
    <3>1. Has(R, nodeOf, id2) <=> \E j \in 0..(k - 1) : T[j] # NULL /\ nodeOf[T[j]] = id2
      BY DEF IsPart
    <3>2. (id2 = id) <=> (T[k] # NULL /\ nodeOf[T[k]] = id2)
      BY <1>4 DEF id, e
    <3>3. Has(U, nodeOf, id2) <=> \E j \in 0..((k + 1) - 1) : T[j] # NULL /\ nodeOf[T[j]] = id2
      BY <1>2, <2>5, <3>1, <3>2
    <3>4. ~Loses(U, nodeOf, id2)
      BY <2>5 DEF IsPart, Keeps
    <3> QED
      BY <3>3, <3>4
  <2>8. IsPart(U, n, T, k + 1)
    BY <2>5, <2>6, <2>7 DEF IsPart
  <2> QED
    BY <2>1, <2>8 DEF e
<1> QED
  BY <1>3, <1>4

(* What RehashedTo returns.                                                *)
LEMMA RehashIs ==
    ASSUME NEW T, IsTable(T), NEW n \in Primes, NEW A, IsFiniteSet(A), Cardinality(A) < n,
           \A s \in DOMAIN T : T[s] # NULL => T[s] \in A /\ nodeOf[T[s]] \in NodeIds
    PROVE  LET R == RehashedTo(n, T) IN
           /\ IsTable(R) /\ Size(R) = n /\ HasRoom(R)
           /\ \A s \in DOMAIN R : R[s] # NULL => \E j \in DOMAIN T : R[s] = T[j]
           /\ \A id \in NodeIds : /\ Has(R, nodeOf, id) <=> Has(T, nodeOf, id)
                                  /\ ~Loses(R, nodeOf, id)
<1> DEFINE m == Size(T)
           Body(f, k) == IF k = 0 THEN Empty(n) ELSE Placed(f[k - 1], T[k - 1])
           table == CHOOSE f : f = [k \in 0..m |-> Body(f, k)]
<1>1. m \in Nat /\ DOMAIN T = 0..(m - 1)
  BY TableIs
<1>2. RehashedTo(n, T) = table[m]
  BY DEF RehashedTo
<1>3. table = [k \in 0..m |-> Body(table, k)]
  <2>1. \E f : f = [k \in 0..m |-> Body(f, k)]
    <3> HIDE DEF m
    <3>1. PICK f : IsRehash(f, n, T, m)
      BY <1>1, RehashExists
    <3> QED
      BY <3>1 DEF IsRehash
  <2> HIDE DEF Body
  <2> QED
    BY <2>1
<1> HIDE DEF table
<1>4. table[0] = Empty(n) /\ \A k \in 1..m : table[k] = Placed(table[k - 1], T[k - 1])
  <2>1. \A k \in 0..m : table[k] = Body(table, k)
    <3> HIDE DEF Body
    <3> QED
      BY <1>3
  <2>2. table[0] = Empty(n)
    BY <1>1, <2>1
  <2>3. \A k \in 1..m : k \in 0..m /\ k # 0
    BY <1>1
  <2> QED
    BY <2>1, <2>2, <2>3
<1> DEFINE B == {k \in Nat : k <= m /\ ~IsPart(table[k], n, T, k)}
<1>5. B = {}
  <2> SUFFICES ASSUME B # {} PROVE FALSE
    OBVIOUS
  <2>1. PICK k \in B : \A j \in B : k <= j
    <3>1. B \subseteq Nat
      OBVIOUS
    <3> HIDE DEF B
    <3> QED
      BY <3>1, LeastElement
  <2>2. k # 0
    BY <1>4, EmptyIsPart
  <2>3. k \in 1..m /\ k - 1 \in DOMAIN T /\ k - 1 \in Nat /\ ~(k <= k - 1) /\ (k - 1) + 1 = k
    BY <1>1, <2>2
  <2>4. k - 1 \notin B
    <3> HIDE DEF B
    <3> QED
      BY <2>1, <2>3
  <2>5. IsPart(table[k - 1], n, T, k - 1)
    <3>1. k - 1 <= m
      BY <1>1, <2>3
    <3> QED
      BY <2>3, <2>4, <3>1
  <2>6. PICK l \in DOMAIN T : l = k - 1
    BY <2>3
  <2>7. IsPart(Placed(table[l], T[l]), n, T, l + 1)
    BY <2>5, <2>6, PartGrows
  <2> QED
    BY <1>4, <2>3, <2>6, <2>7
<1>6. IsPart(table[m], n, T, m)
  BY <1>1, <1>5
<1> DEFINE R == RehashedTo(n, T)
<1>7. IsPart(R, n, T, m)
  BY <1>2, <1>6
<1> HIDE DEF R
<1>8. IsTable(R) /\ Size(R) = n
  BY <1>7 DEF IsPart
<1>9. \A s \in DOMAIN R : R[s] # NULL => \E j \in DOMAIN T : R[s] = T[j]
  BY <1>1, <1>7 DEF IsPart
<1>10. HasRoom(R)
  BY <1>8, <1>9, RoomIsLeft
<1>11. \A id \in NodeIds : (Has(R, nodeOf, id) <=> Has(T, nodeOf, id)) /\ ~Loses(R, nodeOf, id)
  BY <1>1, <1>7 DEF IsPart, Has
<1> QED
  BY <1>8, <1>9, <1>10, <1>11 DEF R

(* The sizes of the tables that expand fills: a prime of the list.         *)
LEMMA HigherPrimeIs ==
    ASSUME NEW k \in Nat, \E p \in Primes : p >= k
    PROVE  HigherPrime(k) \in Primes /\ HigherPrime(k) >= k
<1> DEFINE P == {p \in Primes : p >= k}
<1>1. \E p \in P : \A q \in P : p <= q
  <2>1. P \subseteq Nat /\ P # {}
    BY PrimesAre
  <2> HIDE DEF P
  <2> QED
    BY <2>1, LeastElement
<1>2. \E p \in Primes : p >= k /\ \A q \in Primes : q >= k => p <= q
  BY <1>1
<1> QED
  BY <1>2 DEF HigherPrime

(* R has the nodes of T, with the entries of A, and finds no less.         *)
IsRemade(R, T, A) ==
    /\ IsTable(R) /\ HasRoom(R)
    /\ \A s \in DOMAIN R : R[s] # NULL => R[s] \in A
    /\ Keeps(T, nodeOf, R, nodeOf)
    /\ \A id \in NodeIds : Has(R, nodeOf, id) <=> Has(T, nodeOf, id)

(* What expand returns for a table with the c entries of A: a table with   *)
(* room, with the nodes of the old one.                                    *)
LEMMA ExpandedIs ==
    ASSUME NEW T, IsTable(T), NEW A, A \subseteq Entries, NEW c \in Nat, Cardinality(A) = c, c < Size(T),
           \A e \in A : nodeOf[e] \in NodeIds,
           \A s \in DOMAIN T : T[s] # NULL => T[s] \in A
    PROVE  LET R == Expanded(T, c) IN
           /\ IsRemade(R, T, A) /\ Size(R) \in Nat /\ c < Size(R)
           /\ R = T \/ 2 * c <= Size(R)
           /\ 2 * c >= Size(T) => 2 * c <= Size(R)
<1> DEFINE stays == 2 * c < Size(T) /\ (8 * c > Size(T) \/ Size(T) <= Floor)
           n == HigherPrime(2 * c)
           R == RehashedTo(n, T)
<1>1. IsFiniteSet(A) /\ c <= Cardinality(Entries) /\ Cardinality(Entries) \in Nat
  BY SizeAssumption, FS_Subset, FS_CardinalityType
<1>2. Size(T) \in Nat /\ HasRoom(T)
  BY <1>1, TableIs, RoomIsLeft
<1>3. CASE stays
  <2>1. Expanded(T, c) = T
    BY <1>3 DEF Expanded
  <2>2. IsRemade(T, T, A)
    BY <1>2 DEF IsRemade, Keeps
  <2> QED
    BY <1>2, <1>3, <2>1, <2>2
<1>4. CASE ~stays
  <2>1. Expanded(T, c) = R
    BY <1>4 DEF Expanded
  <2>2. n \in Primes /\ n >= 2 * c
    <3>1. 2 * c \in Nat /\ \E p \in Primes : p >= 2 * c
      <4>1. PICK p \in Primes : p >= 2 * Cardinality(Entries)
        BY SizeAssumption
      <4>2. p \in Nat
        BY PrimesAre
      <4> QED
        BY <1>1, <4>1, <4>2
    <3> QED
      BY <3>1, HigherPrimeIs
  <2>3. n \in Nat /\ c < n
    <3>1. n \in Nat /\ n >= 5
      BY <2>2, PrimesAre
    <3> HIDE DEF n
    <3> QED
      BY <2>2, <3>1
  <2> HIDE DEF n
  <2>4. \A s \in DOMAIN T : T[s] # NULL => T[s] \in A /\ nodeOf[T[s]] \in NodeIds
    OBVIOUS
  <2>5. /\ IsTable(R) /\ Size(R) = n /\ HasRoom(R)
        /\ \A s \in DOMAIN R : R[s] # NULL => \E j \in DOMAIN T : R[s] = T[j]
        /\ \A id \in NodeIds : (Has(R, nodeOf, id) <=> Has(T, nodeOf, id)) /\ ~Loses(R, nodeOf, id)
    BY <1>1, <2>2, <2>3, <2>4, RehashIs
  <2> HIDE DEF R
  <2>6. \A id \in NodeIds : Finds(T, nodeOf, id) => Finds(R, nodeOf, id)
    BY <1>2, <2>5, HasIs
  <2>7. \A s \in DOMAIN R : R[s] # NULL => R[s] \in A
    BY <2>5
  <2>8. IsRemade(R, T, A)
    BY <2>5, <2>6, <2>7 DEF IsRemade, Keeps
  <2> QED
    BY <2>1, <2>2, <2>3, <2>5, <2>8
<1> QED
  BY <1>3, <1>4

(* There is a NodeId to assign: the numbers that are tried are as many as  *)
(* the slots, and one slot is empty.                                       *)
LEMMA FreshIdIs ==
    ASSUME NEW T, IsTable(T), HasRoom(T), count \in Nat
    PROVE  FreshId(T) \in NodeIds /\ ~Contains(T, FreshId(T))
<1> DEFINE n == Size(T)
           c == count + 1
           step == 1 + (c % (n - 2))
           Candidate(i) == (c + i * step) % n
           S == 0..(n - 1)
<1>1. n \in Primes /\ n \in Nat \ {0} /\ n >= 5 /\ IsPrime(n) /\ n - 2 \in Nat \ {0} /\ DOMAIN T = S
  BY TableIs, PrimesAre
<1>2. c \in Nat
  OBVIOUS
<1>3. step \in 1..(n - 1)
  <2>1. c % (n - 2) \in 0..((n - 2) - 1)
    BY <1>1, <1>2, Remainder
  <2> HIDE DEF n, c
  <2> QED
    BY <1>1, <2>1
<1> HIDE DEF step
<1>4. \A i \in S : c + i * step \in Nat
  <2> HIDE DEF c, n
  <2> QED
    BY <1>1, <1>2, <1>3
<1>5. \A i \in S : Candidate(i) \in 0..(n - 1)
  <2> HIDE DEF c, n
  <2> QED
    BY <1>1, <1>4, Remainder
<1>6. \A i \in S : Candidate(i) \in NodeIds
  <2> HIDE DEF Candidate
  <2> QED
    BY <1>1, <1>5, SizeAssumption
<1>7. \A i, j \in S : Candidate(i) = Candidate(j) => i = j
  <2> SUFFICES ASSUME NEW i \in S, NEW j \in S, Candidate(i) = Candidate(j) PROVE i = j
    OBVIOUS
  <2>1. (c + i * step) % n = (c + j * step) % n
    OBVIOUS
  <2> HIDE DEF c, n, Candidate
  <2>2. ~(i < j)
    BY <1>1, <1>2, <1>3, <2>1, StepsDiffer
  <2>3. ~(j < i)
    BY <1>1, <1>2, <1>3, <2>1, StepsDiffer
  <2> QED
    BY <1>1, <2>2, <2>3
<1> HIDE DEF Candidate
<1>8. \E i \in S : ~Contains(T, Candidate(i))
  <2> SUFFICES ASSUME \A i \in S : Contains(T, Candidate(i)) PROVE FALSE
    OBVIOUS
  <2> DEFINE f == [i \in S |-> Slot(T, nodeOf, Candidate(i))]
  <2>1. \A i \in S : f[i] \in S /\ T[f[i]] # NULL /\ nodeOf[T[f[i]]] = Candidate(i)
    BY <1>1, <1>6, SlotOfIs, SlotEnds
  <2> HIDE DEF f
  <2>2. \A i, j \in S : f[i] = f[j] => i = j
    BY <1>7, <2>1
  <2>3. f \in [S -> S]
    <3>1. f = [i \in S |-> f[i]]
      BY DEF f
    <3> QED
      BY <2>1, <3>1
  <2>4. PICK s \in S : T[s] = NULL
    BY <1>1 DEF HasRoom
  <2>5. \E i \in S : f[i] = s
    <3> HIDE DEF n
    <3> QED
      BY <1>1, <2>2, <2>3, InjectionsMeetAll, ZenonT(30)
  <2> QED
    BY <2>1, <2>4, <2>5
<1> DEFINE I == {i \in S : ~Contains(T, Candidate(i))}
<1>9. PICK i \in I : \A j \in I : i <= j
  <2>1. I \subseteq Nat /\ I # {}
    <3> HIDE DEF n
    <3> QED
      BY <1>1, <1>8
  <2> HIDE DEF I
  <2> QED
    BY <2>1, LeastElement
<1>10. i \in DOMAIN T /\ ~Contains(T, Candidate(i)) /\ \A j \in 0..(i - 1) : Contains(T, Candidate(j))
  <2>1. \A j \in 0..(i - 1) : j \in S /\ ~(i <= j)
    <3> HIDE DEF n
    <3> QED
      BY <1>1
  <2> QED
    BY <1>1, <1>9, <2>1
<1> DEFINE Q(k) == ~Contains(T, Candidate(k)) /\ \A j \in 0..(k - 1) : Contains(T, Candidate(j))
           d == CHOOSE k \in DOMAIN T : Q(k)
<1>11. d \in DOMAIN T /\ ~Contains(T, Candidate(d))
  <2>1. \E k \in DOMAIN T : Q(k)
    BY <1>10
  <2>2. d \in DOMAIN T /\ Q(d)
    <3> HIDE DEF Q
    <3> QED
      BY <2>1
  <2> QED
    BY <2>2
<1>12. FreshId(T) = Candidate(d)
  BY DEF FreshId, Candidate, step
<1> HIDE DEF d
<1> QED
  BY <1>1, <1>6, <1>11, <1>12

-----------------------------------------------------------------------------
(* The inductive invariant: the entries in the table are alive, the count  *)
(* is that of the entries that are alive and leaves a slot empty, and      *)
(* memory is allocated for the entries that are alive or held.             *)

Alive == {e \in Entries : alive[e]}

TableOK == IsTable(slots) /\ \A s \in DOMAIN slots : slots[s] # NULL => slots[s] \in Alive
MemoryOK == \A e \in Entries : nodeOf[e] # NULL <=> alive[e] \/ refs[e] > 0
CountOK == count = Cardinality(Alive) /\ count < Size(slots)

Inv == TypeOK /\ TableOK /\ MemoryOK /\ CountOK

Answers == Statuses \X (NodeIds \cup {NULL})

(* What the invariant says of the table and of the entries in it.          *)
LEMMA InvGives ==
    ASSUME Inv
    PROVE  /\ IsTable(slots) /\ HasRoom(slots)
           /\ Alive \subseteq Entries /\ IsFiniteSet(Alive) /\ count \in Nat /\ count = Cardinality(Alive)
           /\ \A e \in Alive : nodeOf[e] \in NodeIds
           /\ \A s \in DOMAIN slots : slots[s] # NULL => slots[s] \in Alive /\ nodeOf[slots[s]] \in NodeIds
<1>1. IsTable(slots) /\ count = Cardinality(Alive) /\ count < Size(slots)
  BY DEF Inv, TableOK, CountOK
<1>2. Alive \subseteq Entries /\ IsFiniteSet(Alive)
  BY SizeAssumption, FS_Subset DEF Alive
<1>3. count \in Nat
  BY DEF Inv, TypeOK
<1>4. \A s \in DOMAIN slots : slots[s] # NULL => slots[s] \in Alive
  BY DEF Inv, TableOK
<1>5. HasRoom(slots)
  BY <1>1, <1>2, <1>4, RoomIsLeft
<1>6. \A e \in Alive : nodeOf[e] \in NodeIds
  BY DEF Inv, TypeOK, MemoryOK, Alive
<1> QED
  BY <1>1, <1>2, <1>3, <1>4, <1>5, <1>6

(* The table that an insertion looks for a slot in has room for one more.  *)
LEMMA InsertTableIs ==
    ASSUME Inv
    PROVE  IsRemade(TableForInsert, slots, Alive) /\ count + 1 < Size(TableForInsert)
<1>1. /\ IsTable(slots) /\ HasRoom(slots) /\ Alive \subseteq Entries /\ count \in Nat /\ count = Cardinality(Alive)
      /\ \A e \in Alive : nodeOf[e] \in NodeIds
      /\ \A s \in DOMAIN slots : slots[s] # NULL => slots[s] \in Alive
  BY InvGives
<1>2. Size(slots) \in Nat /\ Size(slots) >= 5 /\ count < Size(slots)
  BY <1>1, TableIs DEF Inv, CountOK
<1>3. CASE NeedsRoom
  <2> DEFINE R == Expanded(slots, count)
  <2>1. 3 * Size(slots) <= 4 * count
    BY <1>3 DEF NeedsRoom
  <2>2. 2 * count >= Size(slots) /\ count >= 4
    BY <1>1, <1>2, <2>1
  <2>3. IsRemade(R, slots, Alive) /\ Size(R) \in Nat /\ 2 * count <= Size(R)
    BY <1>1, <1>2, <2>2, ExpandedIs
  <2>4. count + 1 < Size(R)
    BY <1>1, <2>2, <2>3
  <2>5. TableForInsert = R
    BY <1>3 DEF TableForInsert
  <2> QED
    BY <2>3, <2>4, <2>5
<1>4. CASE ~NeedsRoom
  <2>1. count + 1 < Size(slots)
    BY <1>1, <1>2, <1>4 DEF NeedsRoom
  <2>2. IsRemade(slots, slots, Alive)
    BY <1>1 DEF IsRemade, Keeps
  <2>3. TableForInsert = slots
    BY <1>4 DEF TableForInsert
  <2> QED
    BY <2>1, <2>2, <2>3
<1> QED
  BY <1>3, <1>4

(* The type of the table.                                                  *)
LEMMA TableType ==
    ASSUME NEW T, IsTable(T)
    PROVE  \E n \in Primes : T \in [0..(n - 1) -> Entries \cup {NULL}]
BY DEF IsTable, Stored

(* The invariant holds of the empty store.                                 *)
LEMMA InitInv == Init => Inv
<1> SUFFICES ASSUME Init PROVE Inv
  OBVIOUS
<1> USE DEF Init
<1>1. InitialSize \in Primes /\ InitialSize \in Nat /\ InitialSize >= 5
  BY SizeAssumption
<1>2. DOMAIN slots = 0..(InitialSize - 1) /\ \A s \in DOMAIN slots : slots[s] = NULL
  BY DEF Empty
<1>3. slots \in [0..(InitialSize - 1) -> Stored]
  BY <1>2 DEF Empty, Stored
<1>4. IsTable(slots) /\ Size(slots) = InitialSize
  <2>1. Size(slots) = InitialSize
    BY <1>1, <1>2, SizeIs
  <2> QED
    BY <1>1, <1>2, <1>3, <2>1 DEF IsTable
<1>5. TypeOK
  <2>1. \E n \in Primes : slots \in [0..(n - 1) -> Entries \cup {NULL}]
    BY <1>4, TableType
  <2> QED
    BY <2>1, BoundsAssumption DEF TypeOK, Statuses
<1>6. Alive = {}
  BY DEF Alive
<1>7. CountOK
  BY <1>1, <1>4, <1>6, FS_EmptySet DEF CountOK
<1> QED
  BY <1>2, <1>4, <1>5, <1>7 DEF Inv, TableOK, MemoryOK

(* The entry e is stored in T under id.                                    *)
LEMMA StoreKeeps ==
    ASSUME Inv, NEW T, IsRemade(T, slots, Alive), count + 1 < Size(T),
           NEW id \in NodeIds, NEW e \in FreeEntries, NEW kept \in 0..MaxRefs,
           Store(T, id, e, kept), answer' \in Answers
    PROVE  Inv' /\ IsPut(slots', T, nodeOf, nodeOf', id, e)
<1> USE DEF Store
<1>1. e \in Entries /\ nodeOf[e] = NULL /\ e # NULL /\ id # NULL
  BY NodeNullAssumption DEF FreeEntries
<1>2. ~alive[e] /\ refs[e] = 0 /\ e \notin Alive
  BY <1>1, BoundsAssumption DEF Inv, TypeOK, MemoryOK, Alive
<1>3. nodeOf' \in [Entries -> NodeIds \cup {NULL}] /\ refs' \in [Entries -> 0..MaxRefs] /\ alive' \in [Entries -> BOOLEAN]
  BY <1>1 DEF Inv, TypeOK
<1>4. nodeOf'[e] = id /\ \A x \in Entries : x # e => nodeOf'[x] = nodeOf[x]
  BY <1>1 DEF Inv, TypeOK
<1>5. CanPut(T, nodeOf, nodeOf', id, e)
  <2>1. \A s \in DOMAIN T : T[s] # NULL => T[s] # e /\ nodeOf'[T[s]] = nodeOf[T[s]]
    BY <1>2, <1>4 DEF IsRemade, Alive
  <2> QED
    BY <1>1, <1>4, <2>1 DEF CanPut, IsRemade
<1>6. IsPut(slots', T, nodeOf, nodeOf', id, e)
  <2>1. IsPut([T EXCEPT ![Slot(T, nodeOf, id)] = e], T, nodeOf, nodeOf', id, e)
    BY <1>5, PutKeeps
  <2>2. slots' = [T EXCEPT ![Slot(T, nodeOf, id)] = e]
    BY SlotOfIs
  <2> QED
    BY <2>1, <2>2
<1>7. Alive' = Alive \cup {e}
  BY <1>1 DEF Alive, Inv, TypeOK
<1>8. TableOK'
  BY <1>6, <1>7 DEF TableOK, IsPut, IsRemade
<1>9. MemoryOK'
  <2> SUFFICES ASSUME NEW x \in Entries PROVE (nodeOf'[x] # NULL <=> alive'[x] \/ refs'[x] > 0)
    BY DEF MemoryOK
  <2>1. CASE x = e
    BY <1>1, <2>1 DEF Inv, TypeOK
  <2>2. CASE x # e
    BY <2>2 DEF Inv, TypeOK, MemoryOK
  <2> QED
    BY <2>1, <2>2
<1>10. CountOK'
  <2>1. Cardinality(Alive') = count + 1
    <3>1. IsFiniteSet(Alive) /\ count = Cardinality(Alive)
      BY InvGives
    <3>2. Cardinality(Alive \cup {e}) = Cardinality(Alive) + 1
      BY <1>2, <3>1, FS_AddElement
    <3> QED
      BY <1>7, <3>1, <3>2
  <2> QED
    BY <1>6, <2>1 DEF CountOK, IsPut
<1>11. TypeOK'
  <2>1. \E n \in Primes : slots' \in [0..(n - 1) -> Entries \cup {NULL}]
    BY <1>6, TableType DEF IsPut
  <2>2. count' \in Nat
    BY InvGives
  <2> QED
    BY <1>3, <2>1, <2>2 DEF TypeOK, Answers
<1> QED
  BY <1>6, <1>8, <1>9, <1>10, <1>11 DEF Inv

(* Each operation keeps the invariant; what an insertion does to the       *)
(* table.                                                                  *)
LEMMA InsertKeeps ==
    ASSUME Inv, NEW kept \in 0..MaxRefs, NEW id \in Named, Insert(id, kept)
    PROVE  /\ Inv'
           /\ \E e \in FreeEntries : IsPut(slots', TableForInsert, nodeOf, nodeOf', id, e)
<1>1. PICK e \in FreeEntries : Store(TableForInsert, id, e, kept)
  BY DEF Insert
<1>2. id \in NodeIds
  BY NodeIdsAssumption
<1>3. answer' \in Answers
  BY <1>2 DEF Insert, Answers, Statuses
<1> QED
  BY <1>1, <1>2, <1>3, InsertTableIs, StoreKeeps

(* An insertion under an assigned NodeId, which is new.                    *)
LEMMA InsertFreshKeeps ==
    ASSUME Inv, NEW kept \in 0..MaxRefs, InsertFresh(kept)
    PROVE  LET id == FreshId(TableForInsert) IN
           /\ Inv' /\ id \in NodeIds /\ ~Contains(TableForInsert, id)
           /\ \E e \in FreeEntries : IsPut(slots', TableForInsert, nodeOf, nodeOf', id, e)
<1> DEFINE id == FreshId(TableForInsert)
<1>1. id \in NodeIds /\ ~Contains(TableForInsert, id)
  BY InsertTableIs, InvGives, FreshIdIs DEF IsRemade
<1>2. PICK e \in FreeEntries : Store(TableForInsert, id, e, kept)
  BY DEF InsertFresh
<1>3. answer' \in Answers
  BY <1>1 DEF InsertFresh, Answers, Statuses
<1> HIDE DEF id
<1>4. Inv' /\ IsPut(slots', TableForInsert, nodeOf, nodeOf', id, e)
  BY <1>1, <1>2, <1>3, InsertTableIs, StoreKeeps
<1> QED
  BY <1>1, <1>4 DEF id

(* Nothing but the table and the answer changes.                           *)
LEMMA TableKeeps ==
    ASSUME Inv, IsRemade(slots', slots, Alive), count < Size(slots'), answer' \in Answers,
           UNCHANGED <<count, nodeOf, refs, alive>>
    PROVE  Inv'
<1>1. Alive' = Alive
  BY DEF Alive
<1>2. TableOK'
  BY <1>1 DEF TableOK, IsRemade
<1>3. MemoryOK' /\ CountOK'
  BY <1>1 DEF MemoryOK, CountOK, Inv
<1>4. TypeOK'
  <2>1. \E n \in Primes : slots' \in [0..(n - 1) -> Entries \cup {NULL}]
    BY TableType DEF IsRemade
  <2> QED
    BY <2>1 DEF Inv, TypeOK, Answers
<1> QED
  BY <1>2, <1>3, <1>4 DEF Inv

(* A refused insertion may still have replaced the table.                  *)
LEMMA InsertExistingKeeps ==
    ASSUME Inv, NEW id \in Named, InsertExisting(id)
    PROVE  Inv' /\ IsRemade(slots', slots, Alive)
<1>1. IsRemade(slots', slots, Alive) /\ count < Size(slots')
  <2>1. IsRemade(TableForInsert, slots, Alive) /\ count + 1 < Size(TableForInsert)
    BY InsertTableIs
  <2>2. Size(TableForInsert) \in Nat /\ count \in Nat
    BY <2>1, TableIs, InvGives DEF IsRemade
  <2> QED
    BY <2>1, <2>2 DEF InsertExisting
<1>2. answer' \in Answers
  BY NodeIdsAssumption DEF InsertExisting, Answers, Statuses
<1> QED
  BY <1>1, <1>2, TableKeeps DEF InsertExisting

(* So may one for which there is no memory.                                *)
LEMMA InsertFailsKeeps ==
    ASSUME Inv, InsertFails
    PROVE  Inv' /\ IsRemade(slots', slots, Alive)
<1>1. IsRemade(slots', slots, Alive) /\ count < Size(slots')
  <2>1. IsRemade(TableForInsert, slots, Alive) /\ count + 1 < Size(TableForInsert)
    BY InsertTableIs
  <2>2. Size(TableForInsert) \in Nat /\ count \in Nat
    BY <2>1, TableIs, InvGives DEF IsRemade
  <2> QED
    BY <2>1, <2>2 DEF InsertFails
<1>2. answer' \in Answers
  BY DEF InsertFails, Answers, Statuses
<1> QED
  BY <1>1, <1>2, TableKeeps DEF InsertFails

(* Only the answer changes.                                                *)
LEMMA AnswerKeeps ==
    ASSUME Inv, answer' \in Answers, UNCHANGED <<slots, count, nodeOf, refs, alive>>
    PROVE  Inv'
BY DEF Inv, TypeOK, TableOK, MemoryOK, CountOK, Alive, Answers

(* The operations that change nothing but the answer.                      *)
LEMMA RefusalsKeep ==
    ASSUME Inv, InsertRefused \/ (\E id \in Sought : Unknown(id)) \/ (\E e \in Entries : ReplaceFails(e))
    PROVE  Inv' /\ UNCHANGED <<slots, nodeOf>>
<1>1. answer' \in Answers /\ UNCHANGED <<slots, count, nodeOf, refs, alive>>
  BY NodeIdsAssumption DEF InsertRefused, Unknown, ReplaceFails, Answers, Statuses
<1> QED
  BY <1>1, AnswerKeeps

(* A lookup counts one more reference to the entry it found.               *)
LEMMA GetKeeps ==
    ASSUME Inv, NEW id \in Sought, Get(id)
    PROVE  Inv' /\ Finds(slots, nodeOf, id)
<1> DEFINE e == slots[SlotOf(slots, id)]
<1>1. id \in NodeIds
  BY NodeIdsAssumption
<1>2. Slot(slots, nodeOf, id) \in DOMAIN slots /\ SlotOf(slots, id) = Slot(slots, nodeOf, id)
  BY <1>1, InvGives, SlotEnds, SlotOfIs
<1>3. e # NULL /\ refs[e] < MaxRefs /\ refs' = [refs EXCEPT ![e] = @ + 1]
  BY DEF Get
<1>4. e \in Alive
  BY <1>2, <1>3, InvGives
<1>5. Finds(slots, nodeOf, id)
  BY <1>2, <1>3 DEF Finds
<1> HIDE DEF e
<1>6. e \in Entries /\ alive[e]
  BY <1>4 DEF Alive
<1>7. refs' \in [Entries -> 0..MaxRefs]
  <2>1. refs[e] + 1 \in 0..MaxRefs
    BY <1>3, <1>6, BoundsAssumption DEF Inv, TypeOK
  <2> QED
    BY <1>3, <1>6, <2>1 DEF Inv, TypeOK
<1>8. MemoryOK'
  <2> SUFFICES ASSUME NEW x \in Entries PROVE (nodeOf'[x] # NULL <=> alive'[x] \/ refs'[x] > 0)
    BY DEF MemoryOK
  <2>1. CASE x = e
    BY <1>6, <2>1 DEF Get, Inv, MemoryOK
  <2>2. CASE x # e
    BY <1>3, <2>2 DEF Get, Inv, TypeOK, MemoryOK
  <2> QED
    BY <2>1, <2>2
<1>9. TableOK' /\ CountOK'
  BY DEF Get, Inv, TableOK, CountOK, Alive
<1>10. TypeOK'
  BY <1>1, <1>7 DEF Get, Inv, TypeOK, Statuses
<1> QED
  BY <1>5, <1>8, <1>9, <1>10 DEF Inv

(* A release never frees the memory of an entry that is alive.             *)
LEMMA ReleaseKeeps ==
    ASSUME Inv, NEW e \in Entries, Release(e)
    PROVE  Inv' /\ UNCHANGED slots /\ \A x \in Alive : nodeOf'[x] = nodeOf[x]
<1>1. refs' \in [Entries -> 0..MaxRefs]
  <2>1. refs[e] - 1 \in 0..MaxRefs
    BY BoundsAssumption DEF Release, Inv, TypeOK
  <2> QED
    BY <2>1 DEF Release, Inv, TypeOK
<1>2. nodeOf' = [nodeOf EXCEPT ![e] = IF refs[e] - 1 > 0 \/ alive[e] THEN @ ELSE NULL]
  BY DEF Release, Freed
<1>3. nodeOf' \in [Entries -> NodeIds \cup {NULL}]
  BY <1>2 DEF Inv, TypeOK
<1>4. \A x \in Alive : nodeOf'[x] = nodeOf[x]
  BY <1>2 DEF Inv, TypeOK, Alive
<1>5. MemoryOK'
  <2> SUFFICES ASSUME NEW x \in Entries PROVE (nodeOf'[x] # NULL <=> alive'[x] \/ refs'[x] > 0)
    BY DEF MemoryOK
  <2>1. CASE x = e
    <3>1. refs'[e] = refs[e] - 1 /\ alive'[e] = alive[e] /\ nodeOf[e] # NULL
      BY DEF Release, Inv, TypeOK, MemoryOK
    <3>2. nodeOf'[e] = IF refs[e] - 1 > 0 \/ alive[e] THEN nodeOf[e] ELSE NULL
      BY <1>2 DEF Inv, TypeOK
    <3> QED
      BY <2>1, <3>1, <3>2
  <2>2. CASE x # e
    BY <1>2, <2>2 DEF Release, Inv, TypeOK, MemoryOK
  <2> QED
    BY <2>1, <2>2
<1>6. TableOK' /\ CountOK'
  BY DEF Release, Inv, TableOK, CountOK, Alive
<1>7. TypeOK'
  BY <1>1, <1>3 DEF Release, Inv, TypeOK
<1> QED
  BY <1>4, <1>5, <1>6, <1>7 DEF Release, Inv

(* A node takes the slot of a node with its NodeId: no search changes.     *)
LEMMA ReplaceKeeps ==
    ASSUME Inv, NEW old \in Entries, NEW kept \in 0..MaxRefs, Replace(old, kept)
    PROVE  /\ Inv' /\ nodeOf[old] \in NodeIds /\ Finds(slots, nodeOf, nodeOf[old])
           /\ DOMAIN slots' = DOMAIN slots
           /\ \A s \in DOMAIN slots : /\ slots[s] = NULL <=> slots'[s] = NULL
                                      /\ slots[s] # NULL => nodeOf'[slots'[s]] = nodeOf[slots[s]]
<1> DEFINE id == nodeOf[old]
           slot == Slot(slots, nodeOf, id)
<1>1. id \in NodeIds
  BY DEF Replace, Inv, TypeOK, MemoryOK
<1>2. IsTable(slots) /\ HasRoom(slots) /\ slot \in DOMAIN slots /\ slots[slot] = old
  BY <1>1, InvGives, SlotEnds, SlotOfIs DEF Replace
<1>3. PICK e \in FreeEntries :
          /\ slots' = [slots EXCEPT ![slot] = e]
          /\ nodeOf' = [nodeOf EXCEPT ![e] = id]
          /\ refs' = [refs EXCEPT ![e] = kept]
          /\ alive' = [alive EXCEPT ![e] = TRUE, ![old] = FALSE]
  <2>1. SlotOf(slots, nodeOf[old]) = slot
    BY SlotOfIs
  <2> HIDE DEF slot
  <2> QED
    BY <2>1 DEF Replace
<1>4. old # NULL /\ old \in Alive
  BY <1>2, NodeNullAssumption, InvGives
<1>5. Finds(slots, nodeOf, id)
  BY <1>2, <1>4 DEF Finds
<1>6. e \in Entries /\ e # NULL /\ nodeOf[e] = NULL /\ e # old /\ e \notin Alive /\ refs[e] = 0
  BY <1>1, NodeNullAssumption, BoundsAssumption DEF FreeEntries, Inv, TypeOK, MemoryOK, Alive
<1> HIDE DEF slot
<1>7. DOMAIN slots' = DOMAIN slots /\ slots'[slot] = e /\ \A s \in DOMAIN slots : s # slot => slots'[s] = slots[s]
  BY <1>2, <1>3
<1>8. \A s \in DOMAIN slots : /\ slots[s] = NULL <=> slots'[s] = NULL
                              /\ slots[s] # NULL => nodeOf'[slots'[s]] = nodeOf[slots[s]]
  <2> SUFFICES ASSUME NEW s \in DOMAIN slots
               PROVE  /\ slots[s] = NULL <=> slots'[s] = NULL
                      /\ slots[s] # NULL => nodeOf'[slots'[s]] = nodeOf[slots[s]]
    OBVIOUS
  <2>1. CASE s = slot
    <3>1. nodeOf'[e] = id
      BY <1>3, <1>6 DEF Inv, TypeOK
    <3> QED
      BY <1>2, <1>4, <1>6, <1>7, <2>1, <3>1
  <2>2. CASE s # slot
    <3>1. slots[s] # NULL => slots[s] \in Entries /\ slots[s] # e
      BY <1>6, InvGives DEF Alive
    <3> QED
      BY <1>3, <1>7, <2>2, <3>1 DEF Inv, TypeOK
  <2> QED
    BY <2>1, <2>2
<1> HIDE DEF id
<1>9. Alive' = (Alive \ {old}) \cup {e}
  BY <1>3, <1>6 DEF Alive, Inv, TypeOK
<1>10. Cardinality(Alive') = count
  <2>1. IsFiniteSet(Alive) /\ count = Cardinality(Alive) /\ count \in Nat
    BY InvGives
  <2> DEFINE A == Alive \ {old}
  <2>2. IsFiniteSet(A) /\ Cardinality(A) = Cardinality(Alive) - 1
    BY <1>4, <2>1, FS_RemoveElement
  <2>3. e \notin A
    BY <1>6
  <2>4. Cardinality(A \cup {e}) = Cardinality(A) + 1
    <3> HIDE DEF A
    <3> QED
      BY <2>2, <2>3, FS_AddElement
  <2> QED
    BY <1>9, <2>1, <2>2, <2>4
<1>11. IsTable(slots') /\ Size(slots') = Size(slots)
  <2>1. \A s, t \in DOMAIN slots' : slots'[s] = slots'[t] /\ slots'[s] # NULL => s = t
    <3>1. \A s \in DOMAIN slots : slots[s] # NULL => slots[s] # e
      BY <1>6, InvGives
    <3> QED
      BY <1>2, <1>6, <1>7, <3>1 DEF IsTable
  <2>2. PICK n \in Primes : slots \in [0..(n - 1) -> Stored]
    BY <1>2 DEF IsTable
  <2>3. slots' \in [0..(n - 1) -> Stored]
    BY <1>3, <1>6, <2>2 DEF Stored
  <2> QED
    BY <1>7, <2>1, <2>3 DEF IsTable, Size
<1>12. TableOK'
  <2> SUFFICES ASSUME NEW s \in DOMAIN slots', slots'[s] # NULL PROVE slots'[s] \in Alive'
    BY <1>11 DEF TableOK
  <2>1. CASE s = slot
    BY <1>7, <1>9, <2>1
  <2>2. CASE s # slot
    <3>1. slots'[s] = slots[s] /\ slots[s] # old /\ slots[s] \in Alive
      BY <1>2, <1>4, <1>7, <2>2, InvGives DEF IsTable
    <3> QED
      BY <1>9, <3>1
  <2> QED
    BY <2>1, <2>2
<1>13. CountOK'
  BY <1>10, <1>11 DEF CountOK, Inv, Replace
<1>14. MemoryOK'
  <2> SUFFICES ASSUME NEW x \in Entries PROVE (nodeOf'[x] # NULL <=> alive'[x] \/ refs'[x] > 0)
    BY DEF MemoryOK
  <2>1. CASE x = e
    <3>1. nodeOf'[e] = id /\ alive'[e] /\ id # NULL
      BY <1>1, <1>3, <1>6, NodeNullAssumption DEF Inv, TypeOK
    <3> QED
      BY <2>1, <3>1
  <2>2. CASE x = old
    <3>1. nodeOf'[old] = id /\ refs'[old] = refs[old] /\ refs[old] > 0 /\ id # NULL
      BY <1>1, <1>3, <1>6, NodeNullAssumption DEF Inv, TypeOK, Replace, id
    <3> QED
      BY <2>2, <3>1
  <2>3. CASE x # e /\ x # old
    <3>1. nodeOf'[x] = nodeOf[x] /\ alive'[x] = alive[x] /\ refs'[x] = refs[x]
      BY <1>3, <2>3 DEF Inv, TypeOK
    <3> QED
      BY <3>1 DEF Inv, MemoryOK
  <2> QED
    BY <2>1, <2>2, <2>3
<1>15. TypeOK'
  <2>1. \E n \in Primes : slots' \in [0..(n - 1) -> Entries \cup {NULL}]
    BY <1>11, TableType
  <2>2. /\ nodeOf' \in [Entries -> NodeIds \cup {NULL}] /\ refs' \in [Entries -> 0..MaxRefs]
        /\ alive' \in [Entries -> BOOLEAN]
    BY <1>1, <1>3 DEF Inv, TypeOK
  <2>3. count' \in Nat /\ answer' \in Statuses \X (NodeIds \cup {NULL})
    BY <1>1, InvGives DEF Replace, id, Statuses
  <2> QED
    BY <2>1, <2>2, <2>3 DEF TypeOK
<1> QED
  BY <1>1, <1>5, <1>7, <1>8, <1>12, <1>13, <1>14, <1>15 DEF Inv, id

(* The table without the entry in slot s.                                  *)
Without(T, s) == [T EXCEPT ![s] = NULL]

(* It is a table, with the other entries where they were.                  *)
LEMMA WithoutIs ==
    ASSUME NEW T, IsTable(T), NEW s0 \in DOMAIN T
    PROVE  LET U == Without(T, s0) IN
           /\ IsTable(U) /\ Size(U) = Size(T) /\ DOMAIN U = DOMAIN T
           /\ U[s0] = NULL /\ \A s \in DOMAIN T : s # s0 => U[s] = T[s]
<1> DEFINE U == Without(T, s0)
<1>1. DOMAIN U = DOMAIN T /\ U[s0] = NULL /\ \A s \in DOMAIN T : s # s0 => U[s] = T[s]
  BY DEF Without
<1>2. PICK n \in Primes : T \in [0..(n - 1) -> Stored]
  BY DEF IsTable
<1>3. U \in [0..(n - 1) -> Stored]
  BY <1>2 DEF Without, Stored
<1> HIDE DEF U
<1>4. IsTable(U) /\ Size(U) = Size(T)
  BY <1>1, <1>3 DEF IsTable, Size
<1> QED
  BY <1>1, <1>4 DEF U

(* The node leaves the table, which may become smaller.                    *)
LEMMA RemoveKeeps ==
    ASSUME Inv, NEW id \in Sought, Remove(id)
    PROVE  LET s0 == Slot(slots, nodeOf, id)
               e  == slots[s0]
           IN
           /\ Inv' /\ id \in NodeIds /\ s0 \in DOMAIN slots /\ e # NULL /\ nodeOf[e] = id
           /\ IsRemade(slots', Without(slots, s0), Alive \ {e})
           /\ \A x \in Alive \ {e} : nodeOf'[x] = nodeOf[x]
<1> DEFINE s0 == Slot(slots, nodeOf, id)
           e  == slots[s0]
           U  == Without(slots, s0)
           A  == Alive \ {e}
           c  == count - 1
<1>1. id \in NodeIds /\ IsTable(slots) /\ HasRoom(slots)
  BY InvGives, NodeIdsAssumption
<1>2. s0 \in DOMAIN slots /\ (e = NULL \/ nodeOf[e] = id)
  BY <1>1, SlotEnds
<1>3. /\ e # NULL
      /\ alive' = [alive EXCEPT ![e] = FALSE]
      /\ nodeOf' = [nodeOf EXCEPT ![e] = IF refs[e] > 0 THEN @ ELSE NULL]
      /\ slots' \in {U} \cup {Expanded(U, c)}
      /\ count' = c /\ UNCHANGED refs
      /\ answer' = <<"GOOD", id>>
  BY SlotOfIs DEF Remove, Freed, Emptied, Without
<1>4. e \in Alive /\ e \in Entries /\ alive[e]
  BY <1>2, <1>3, InvGives DEF Alive
<1> HIDE DEF s0
<1>5. /\ IsTable(U) /\ Size(U) = Size(slots) /\ DOMAIN U = DOMAIN slots
      /\ U[s0] = NULL /\ \A s \in DOMAIN slots : s # s0 => U[s] = slots[s]
  BY <1>1, <1>2, WithoutIs
<1>6. IsFiniteSet(Alive) /\ count = Cardinality(Alive) /\ count \in Nat
  BY InvGives
<1> HIDE DEF U
<1>7. Alive' = A
  BY <1>3, <1>4 DEF Alive, Inv, TypeOK
<1>8. A \subseteq Entries /\ IsFiniteSet(A) /\ Cardinality(A) = c /\ c \in Nat
  <2>1. IsFiniteSet(A) /\ Cardinality(A) = Cardinality(Alive) - 1
    <3> HIDE DEF e
    <3> QED
      BY <1>4, <1>6, FS_RemoveElement
  <2>2. Cardinality(A) \in Nat
    <3> HIDE DEF A
    <3> QED
      BY <2>1, FS_CardinalityType
  <2> QED
    BY <1>6, <2>1, <2>2, InvGives
<1>9. \A x \in A : nodeOf[x] \in NodeIds /\ nodeOf'[x] = nodeOf[x]
  BY <1>3, <1>8, InvGives DEF Inv, TypeOK
<1>10. \A s \in DOMAIN U : U[s] # NULL => U[s] \in A
  <2> SUFFICES ASSUME NEW s \in DOMAIN slots, U[s] # NULL PROVE U[s] \in A
    BY <1>5
  <2>1. s # s0 /\ U[s] = slots[s]
    BY <1>5
  <2>2. slots[s] # e /\ slots[s] \in Alive
    BY <1>1, <1>2, <1>3, <2>1, InvGives DEF IsTable
  <2> QED
    BY <2>1, <2>2
<1>11. Size(slots) \in Nat /\ c < Size(U)
  <2>1. Size(slots) \in Nat /\ count < Size(slots)
    BY <1>1, TableIs DEF Inv, CountOK
  <2> QED
    BY <1>5, <1>6, <2>1
<1> HIDE DEF A, c, e
<1>12. IsRemade(slots', U, A) /\ c < Size(slots')
  <2>1. CASE slots' = U
    <3>1. HasRoom(U)
      BY <1>2, <1>5 DEF HasRoom
    <3> QED
      BY <1>5, <1>10, <1>11, <2>1, <3>1 DEF IsRemade, Keeps
  <2>2. CASE slots' = Expanded(U, c)
    <3>1. IsRemade(Expanded(U, c), U, A) /\ c < Size(Expanded(U, c))
      BY <1>5, <1>8, <1>9, <1>10, <1>11, ExpandedIs
    <3> QED
      BY <2>2, <3>1
  <2> QED
    BY <1>3, <2>1, <2>2
<1>13. TableOK' /\ CountOK'
  BY <1>3, <1>7, <1>8, <1>12 DEF TableOK, CountOK, IsRemade
<1>14. MemoryOK'
  <2> SUFFICES ASSUME NEW x \in Entries PROVE (nodeOf'[x] # NULL <=> alive'[x] \/ refs'[x] > 0)
    BY DEF MemoryOK
  <2>1. CASE x = e
    <3>1. alive'[e] = FALSE /\ refs'[e] = refs[e] /\ nodeOf'[e] = (IF refs[e] > 0 THEN nodeOf[e] ELSE NULL)
      BY <1>3, <1>4 DEF Inv, TypeOK
    <3>2. nodeOf[e] # NULL
      BY <1>4 DEF Inv, MemoryOK
    <3> QED
      BY <2>1, <3>1, <3>2
  <2>2. CASE x # e
    <3>1. nodeOf'[x] = nodeOf[x] /\ alive'[x] = alive[x] /\ refs'[x] = refs[x]
      BY <1>3, <2>2 DEF Inv, TypeOK
    <3> QED
      BY <3>1 DEF Inv, MemoryOK
  <2> QED
    BY <2>1, <2>2
<1>15. TypeOK'
  <2>1. \E n \in Primes : slots' \in [0..(n - 1) -> Entries \cup {NULL}]
    BY <1>12, TableType DEF IsRemade
  <2>2. /\ nodeOf' \in [Entries -> NodeIds \cup {NULL}] /\ refs' \in [Entries -> 0..MaxRefs]
        /\ alive' \in [Entries -> BOOLEAN]
    BY <1>3 DEF Inv, TypeOK
  <2>3. count' \in Nat /\ answer' \in Statuses \X (NodeIds \cup {NULL})
    BY <1>1, <1>3, <1>8 DEF Statuses
  <2> QED
    BY <2>1, <2>2, <2>3 DEF TypeOK
<1>16. Inv'
  BY <1>13, <1>14, <1>15 DEF Inv
<1> QED
  BY <1>1, <1>2, <1>3, <1>9, <1>12, <1>16 DEF U, A, s0, e

-----------------------------------------------------------------------------
(* Memory and searches                                                     *)

(* Every step keeps the invariant.                                         *)
LEMMA StepInv == Inv /\ [Next]_vars => Inv'
<1> SUFFICES ASSUME Inv, [Next]_vars PROVE Inv'
  OBVIOUS
<1>1. ASSUME NEW kept \in {0, 1} \cap 0..MaxRefs, NEW id \in Named, Insert(id, kept) PROVE Inv'
  BY <1>1, InsertKeeps
<1>2. ASSUME NEW kept \in {0, 1} \cap 0..MaxRefs, InsertFresh(kept) PROVE Inv'
  BY <1>2, InsertFreshKeeps
<1>3. ASSUME NEW kept \in {0, 1} \cap 0..MaxRefs, NEW e \in Entries, Replace(e, kept) PROVE Inv'
  BY <1>3, ReplaceKeeps
<1>4. ASSUME NEW id \in Named, InsertExisting(id) PROVE Inv'
  BY <1>4, InsertExistingKeeps
<1>5. CASE InsertFails
  BY <1>5, InsertFailsKeeps
<1>6. CASE InsertRefused \/ (\E id \in Sought : Unknown(id)) \/ (\E e \in Entries : ReplaceFails(e))
  BY <1>6, RefusalsKeep
<1>7. ASSUME NEW id \in Sought, Get(id) PROVE Inv'
  BY <1>7, GetKeeps
<1>8. ASSUME NEW id \in Sought, Remove(id) PROVE Inv'
  BY <1>8, RemoveKeeps
<1>9. ASSUME NEW e \in Entries, Release(e) PROVE Inv'
  BY <1>9, ReleaseKeeps
<1>10. CASE UNCHANGED vars
  BY <1>10 DEF vars, Inv, TypeOK, TableOK, MemoryOK, CountOK, Alive
<1> QED
  BY <1>1, <1>2, <1>3, <1>4, <1>5, <1>6, <1>7, <1>8, <1>9, <1>10 DEF Next

(* The invariant holds of every state of the store.                        *)
LEMMA Invariance == Spec => []Inv
BY InitInv, StepInv, PTL DEF Spec

(* Every search ends, for any hashes: containsNodeId never loops for ever. *)
THEOREM EverySearchEndsCorrect == Spec => []EverySearchEnds
<1>1. Inv => EverySearchEnds
  <2> SUFFICES ASSUME Inv, NEW id \in NodeIds PROVE SearchEnds(slots, id)
    BY DEF EverySearchEnds
  <2>1. PICK i : IsFirst(slots, nodeOf, id, i)
    BY InvGives, SearchHasFirst
  <2> QED
    BY <2>1, SlotOfIs DEF SearchEnds, IsFirst
<1> QED
  BY <1>1, Invariance, PTL

(* The memory of a node is kept while it is stored or held, and freed      *)
(* afterwards, in any order of replacements, removals and releases.        *)
THEOREM MemoryIsKeptWhileUsedCorrect == Spec => []MemoryIsKeptWhileUsed
<1>1. Inv => MemoryIsKeptWhileUsed
  <2> SUFFICES ASSUME Inv PROVE MemoryIsKeptWhileUsed
    OBVIOUS
  <2>1. TypeOK
    BY DEF Inv
  <2>2. \A e \in StoredEntries : alive[e]
    BY InvGives DEF StoredEntries, Alive
  <2>3. HeldNodesAreAllocated
    BY <2>2 DEF HeldNodesAreAllocated, IsUsed, Inv, MemoryOK
  <2>4. DeadEntriesAreFreed
    BY DEF DeadEntriesAreFreed, IsUsed, Inv, MemoryOK
  <2> QED
    BY <2>1, <2>3, <2>4 DEF MemoryIsKeptWhileUsed
<1> QED
  BY <1>1, Invariance, PTL

-----------------------------------------------------------------------------
(* The store implements the map                                            *)

FindsOf(T, M) == {id \in NodeIds : Finds(T, M, id)}
LosesOf(T, M) == {id \in NodeIds : Loses(T, M, id)}

(* The map's variables, by the searches in the table.                      *)
Mapped == FoundIds = FindsOf(slots, nodeOf) /\ LostIds = LosesOf(slots, nodeOf)

TableHasRoom == IsTable(slots) /\ HasRoom(slots)

(* The invariant leaves an empty slot, which a search needs to end.        *)
LEMMA RoomHolds == Inv => TableHasRoom
BY InvGives DEF TableHasRoom

(* The map's variables are what the searches in the table find and miss.   *)
LEMMA MappedHolds == Inv => Mapped
<1> SUFFICES ASSUME Inv PROVE Mapped
  OBVIOUS
<1>0. /\ IsTable(slots) /\ HasRoom(slots)
      /\ \A s \in DOMAIN slots : slots[s] # NULL => nodeOf[slots[s]] \in NodeIds
  BY InvGives
<1>1. \A id \in NodeIds : Slot(slots, nodeOf, id) \in DOMAIN slots
  BY <1>0, SlotEnds
<1>2. \A id : id \in StoredIds <=> \E s \in DOMAIN slots : slots[s] # NULL /\ nodeOf[slots[s]] = id
  BY DEF StoredIds, StoredEntries
<1>3. ASSUME NEW id PROVE id \in FoundIds <=> id \in NodeIds /\ Finds(slots, nodeOf, id)
  <2>1. id \in FoundIds <=> id \in StoredIds /\ Finds(slots, nodeOf, id)
    BY SlotOfIs DEF FoundIds, Finds
  <2>2. id \in StoredIds => id \in NodeIds
    BY <1>0, <1>2
  <2>3. id \in NodeIds /\ Finds(slots, nodeOf, id) => id \in StoredIds
    BY <1>0, <1>2, SlotEnds DEF Finds
  <2> QED
    BY <2>1, <2>2, <2>3
<1>4. ASSUME NEW id PROVE id \in LostIds <=> id \in NodeIds /\ Loses(slots, nodeOf, id)
  <2>1. id \in LostIds <=> \E x \in StoredEntries : nodeOf[x] = id /\ slots[Slot(slots, nodeOf, nodeOf[x])] # x
    BY SlotOfIs DEF LostIds
  <2>2. ASSUME NEW x \in StoredEntries, nodeOf[x] = id, slots[Slot(slots, nodeOf, nodeOf[x])] # x
        PROVE  id \in NodeIds /\ Loses(slots, nodeOf, id)
    BY <1>0, <2>2 DEF StoredEntries, Loses
  <2>3. ASSUME id \in NodeIds, Loses(slots, nodeOf, id)
        PROVE  \E x \in StoredEntries : nodeOf[x] = id /\ slots[Slot(slots, nodeOf, nodeOf[x])] # x
    <3>1. PICK s \in DOMAIN slots : slots[s] # NULL /\ nodeOf[slots[s]] = id /\ Slot(slots, nodeOf, id) # s
      BY <2>3 DEF Loses
    <3>2. slots[Slot(slots, nodeOf, id)] # slots[s]
      BY <1>0, <1>1, <2>3, <3>1 DEF IsTable
    <3> QED
      BY <3>1, <3>2 DEF StoredEntries
  <2> QED
    BY <2>1, <2>2, <2>3
<1> QED
  BY <1>3, <1>4 DEF Mapped, FindsOf, LosesOf

(* The state that the map sees, before and after a step.                   *)
LEMMA MappedStep ==
    ASSUME Inv, Inv'
    PROVE  /\ FoundIds = FindsOf(slots, nodeOf) /\ LostIds = LosesOf(slots, nodeOf)
           /\ FoundIds' = FindsOf(slots', nodeOf') /\ LostIds' = LosesOf(slots', nodeOf')
           /\ \A id \in NodeIds : Has(slots, nodeOf, id) => id \in FoundIds \cup LostIds
           /\ \A id \in NodeIds : /\ id \in FoundIds' \cup LostIds' => Has(slots', nodeOf', id)
                                  /\ Has(slots', nodeOf', id) => id \in FoundIds' \cup LostIds'
<1>1. Mapped /\ Mapped'
  <2>1. Inv' => Mapped'
    BY MappedHolds, PTL
  <2> QED
    BY <2>1, MappedHolds
<1>2. IsTable(slots) /\ HasRoom(slots)
  BY InvGives
<1>3. IsTable(slots') /\ HasRoom(slots')
  <2>1. Inv' => TableHasRoom'
    BY RoomHolds, PTL
  <2> QED
    BY <2>1 DEF TableHasRoom
<1>4. FoundIds' = FindsOf(slots', nodeOf') /\ LostIds' = LosesOf(slots', nodeOf')
  BY <1>1 DEF Mapped
<1>5. FoundIds = FindsOf(slots, nodeOf) /\ LostIds = LosesOf(slots, nodeOf)
  BY <1>1 DEF Mapped
<1>6. \A id \in NodeIds : Has(slots, nodeOf, id) => id \in FoundIds \cup LostIds
  BY <1>2, <1>5, HasIs DEF FindsOf, LosesOf
<1>7. \A id \in NodeIds : Has(slots', nodeOf', id) <=> id \in FoundIds' \cup LostIds'
  BY <1>3, <1>4, HasIs DEF FindsOf, LosesOf
<1> QED
  BY <1>4, <1>5, <1>6, <1>7

(* Where searches find what they found, and X, and the table has no other  *)
(* NodeIds than before and X, the map sees nodes return.                   *)
LEMMA MapReturns ==
    ASSUME Inv, Inv', Keeps(slots, nodeOf, slots', nodeOf'), NEW X, X \subseteq NodeIds,
           \A id \in X : Finds(slots', nodeOf', id),
           \A id \in NodeIds : Has(slots', nodeOf', id) => Has(slots, nodeOf, id) \/ id \in X
    PROVE  Map!Return(FoundIds \cup X)
<1>1. FoundIds \cup X \subseteq FoundIds'
  BY MappedStep DEF FindsOf, Keeps
<1>2. FoundIds' \subseteq (FoundIds \cup X) \cup LostIds
  <2> SUFFICES ASSUME NEW id \in FoundIds' PROVE id \in (FoundIds \cup X) \cup LostIds
    OBVIOUS
  <2>1. id \in NodeIds
    BY MappedStep DEF FindsOf
  <2> QED
    BY <2>1, MappedStep
<1>3. LostIds' \subseteq LostIds
  BY MappedStep DEF LosesOf, Keeps
<1> QED
  BY <1>1, <1>2, <1>3 DEF Map!Return

(* A node is inserted under id into T, which has the nodes of the store.   *)
LEMMA MapInserts ==
    ASSUME Inv, Inv', NEW T, IsRemade(T, slots, Alive), NEW id \in NodeIds, NEW e,
           IsPut(slots', T, nodeOf, nodeOf', id, e), ~Contains(T, id), answer' = <<"GOOD", id>>
    PROVE  Map!Next
<1>1. Keeps(slots, nodeOf, slots', nodeOf')
  BY DEF IsRemade, IsPut, Keeps
<1>2. Finds(slots', nodeOf', id)
  BY DEF IsPut
<1>3. \A id2 \in NodeIds : Has(slots', nodeOf', id2) => Has(slots, nodeOf, id2) \/ id2 \in {id}
  BY DEF IsRemade, IsPut
<1>4. Map!Return(FoundIds \cup {id})
  BY <1>1, <1>2, <1>3, MapReturns
<1>5. id \notin FoundIds
  <2>1. ~Finds(T, nodeOf, id)
    BY SlotOfIs DEF Finds
  <2>2. ~Finds(slots, nodeOf, id)
    BY <2>1 DEF IsRemade, Keeps
  <2> QED
    BY <2>2, MappedStep DEF FindsOf
<1>6. Map!Insert(id)
  BY <1>4, <1>5 DEF Map!Insert
<1> QED
  BY <1>6 DEF Map!Next

(* An insertion under a NodeId that is found is the map's InsertExisting.  *)
LEMMA MapInsertExisting ==
    ASSUME Inv, Inv', NEW id \in Named, InsertExisting(id)
    PROVE  Map!Next
<1>1. id \in NodeIds
  BY NodeIdsAssumption
<1>2. IsRemade(slots', slots, Alive) /\ nodeOf' = nodeOf
  BY InsertExistingKeeps DEF InsertExisting
<1>3. Finds(slots', nodeOf', id)
  BY <1>2, SlotOfIs DEF InsertExisting, Finds
<1>4. Map!Return(FoundIds)
  <2>1. Map!Return(FoundIds \cup {})
    BY <1>2, MapReturns DEF IsRemade
  <2> QED
    BY <2>1
<1>5. id \in FoundIds'
  BY <1>1, <1>3, MappedStep DEF FindsOf
<1>6. id \in FoundIds \cup LostIds
  <2>1. Has(slots', nodeOf', id)
    BY <1>1, <1>5, MappedStep
  <2> QED
    BY <1>1, <1>2, <2>1, MappedStep DEF IsRemade
<1>7. answer' = <<"BADNODEIDEXISTS", id>>
  BY DEF InsertExisting
<1>8. Map!InsertExisting(id)
  BY <1>4, <1>5, <1>6, <1>7 DEF Map!InsertExisting
<1> QED
  BY <1>1, <1>8 DEF Map!Next

(* An operation that fails for want of memory, or for an obsolete node.    *)
LEMMA MapRefuses ==
    ASSUME Inv, Inv', InsertFails \/ InsertRefused \/ (\E e \in Entries : ReplaceFails(e))
    PROVE  Map!Next
<1>1. Keeps(slots, nodeOf, slots', nodeOf') /\ \A id \in NodeIds : Has(slots', nodeOf', id) => Has(slots, nodeOf, id)
  <2>1. CASE InsertFails
    <3>1. IsRemade(slots', slots, Alive) /\ nodeOf' = nodeOf
      BY <2>1, InsertFailsKeeps DEF InsertFails
    <3> QED
      BY <3>1 DEF IsRemade
  <2>2. CASE InsertRefused \/ (\E e \in Entries : ReplaceFails(e))
    <3>1. slots' = slots /\ nodeOf' = nodeOf
      BY <2>2 DEF InsertRefused, ReplaceFails
    <3> QED
      BY <3>1 DEF Keeps
  <2> QED
    BY <2>1, <2>2
<1>2. Map!Return(FoundIds)
  <2>1. Map!Return(FoundIds \cup {})
    BY <1>1, MapReturns
  <2> QED
    BY <2>1
<1>3. answer' \in {"BADOUTOFMEMORY", "BADINTERNALERROR"} \X {NULL}
  BY DEF InsertFails, InsertRefused, ReplaceFails
<1>4. Map!Refuse
  BY <1>2, <1>3 DEF Map!Refuse
<1> QED
  BY <1>4 DEF Map!Next

(* Where no search changes, the map does not change.                       *)
LEMMA MapStays ==
    ASSUME Inv, Inv', DOMAIN slots' = DOMAIN slots,
           \A s \in DOMAIN slots : /\ slots[s] = NULL <=> slots'[s] = NULL
                                   /\ slots[s] # NULL => nodeOf'[slots'[s]] = nodeOf[slots[s]]
    PROVE  UNCHANGED <<FoundIds, LostIds>>
<1>1. \A id \in NodeIds : /\ Finds(slots', nodeOf', id) <=> Finds(slots, nodeOf, id)
                          /\ Loses(slots', nodeOf', id) <=> Loses(slots, nodeOf, id)
  BY InvGives, SameSearches
<1> QED
  BY <1>1, MappedStep DEF FindsOf, LosesOf

(* A lookup is the map's Found or Unknown.                                 *)
LEMMA MapLookups ==
    ASSUME Inv, Inv', NEW id \in Sought, Get(id) \/ Unknown(id)
    PROVE  Map!Next
<1>1. id \in NodeIds
  BY NodeIdsAssumption
<1>2. UNCHANGED <<FoundIds, LostIds>>
  BY MapStays DEF Get, Unknown
<1>3. CASE Get(id)
  <2>1. id \in FoundIds
    BY <1>1, <1>3, GetKeeps, MappedStep DEF FindsOf
  <2>2. Map!Found(id)
    BY <1>2, <1>3, <2>1 DEF Map!Found, Get
  <2> QED
    BY <1>1, <2>2 DEF Map!Next
<1>4. CASE Unknown(id)
  <2>1. id \notin FoundIds
    BY <1>4, SlotOfIs, MappedStep DEF FindsOf, Finds, Unknown
  <2>2. Map!Unknown(id)
    BY <1>2, <1>4, <2>1 DEF Map!Unknown, Unknown
  <2> QED
    BY <1>1, <2>2 DEF Map!Next
<1> QED
  BY <1>3, <1>4

(* A replacement finds the node, and changes nothing the map sees.         *)
LEMMA MapReplaces ==
    ASSUME Inv, Inv', NEW old \in Entries, NEW kept \in 0..MaxRefs, Replace(old, kept)
    PROVE  Map!Next
<1> DEFINE id == nodeOf[old]
<1>1. id \in NodeIds /\ Finds(slots, nodeOf, id)
  BY ReplaceKeeps
<1>2. UNCHANGED <<FoundIds, LostIds>>
  BY ReplaceKeeps, MapStays
<1>3. id \in FoundIds /\ answer' = <<"GOOD", id>>
  BY <1>1, MappedStep DEF FindsOf, Replace
<1> HIDE DEF id
<1>4. Map!Found(id)
  BY <1>2, <1>3 DEF Map!Found
<1> QED
  BY <1>1, <1>4 DEF Map!Next

(* The map does not see a release.                                         *)
LEMMA MapReleases ==
    ASSUME Inv, Inv', NEW e \in Entries, Release(e)
    PROVE  UNCHANGED <<FoundIds, LostIds, answer>>
<1>1. slots' = slots /\ \A x \in Alive : nodeOf'[x] = nodeOf[x]
  BY ReleaseKeeps
<1>2. \A s \in DOMAIN slots : slots[s] # NULL => nodeOf'[slots'[s]] = nodeOf[slots[s]]
  BY <1>1, InvGives
<1>3. UNCHANGED <<FoundIds, LostIds>>
  BY <1>1, <1>2, MapStays
<1> QED
  BY <1>3 DEF Release

(* A removal: only the removed node leaves, the others are found or lost.  *)
LEMMA MapRemoves ==
    ASSUME Inv, Inv', NEW id \in Sought, Remove(id)
    PROVE  Map!Next
<1> DEFINE s0 == Slot(slots, nodeOf, id)
           e  == slots[s0]
           U  == Without(slots, s0)
<1>1. /\ id \in NodeIds /\ s0 \in DOMAIN slots /\ e # NULL /\ nodeOf[e] = id
      /\ IsRemade(slots', U, Alive \ {e})
      /\ \A x \in Alive \ {e} : nodeOf'[x] = nodeOf[x]
  BY RemoveKeeps
<1>2. DOMAIN U = DOMAIN slots /\ U[s0] = NULL /\ \A s \in DOMAIN slots : s # s0 => U[s] = slots[s]
  BY <1>1, InvGives, WithoutIs
<1> HIDE DEF U, e
<1>3. ASSUME NEW x \in NodeIds PROVE Has(slots', nodeOf', x) <=> Has(U, nodeOf, x)
  <2>1. \A s \in DOMAIN slots' : slots'[s] # NULL => nodeOf'[slots'[s]] = nodeOf[slots'[s]]
    BY <1>1 DEF IsRemade
  <2>2. Has(slots', nodeOf', x) <=> Has(slots', nodeOf, x)
    BY <2>1 DEF Has
  <2> QED
    BY <1>1, <2>2 DEF IsRemade
<1>4. ASSUME NEW x \in NodeIds, Has(U, nodeOf, x) PROVE x \in (FoundIds \ {id}) \cup LostIds
  <2>1. PICK s \in DOMAIN slots : U[s] # NULL /\ nodeOf[U[s]] = x
    BY <1>2, <1>4 DEF Has
  <2>2. s # s0 /\ slots[s] # NULL /\ nodeOf[slots[s]] = x
    BY <1>2, <2>1
  <2>3. CASE x = id
    <3>1. Loses(slots, nodeOf, id)
      BY <2>2, <2>3 DEF Loses
    <3> QED
      BY <1>1, <2>3, <3>1, MappedStep DEF LosesOf
  <2>4. CASE x # id
    <3>1. Has(slots, nodeOf, x)
      BY <2>2 DEF Has
    <3> QED
      BY <2>4, <3>1, MappedStep
  <2> QED
    BY <2>3, <2>4
<1>5. FoundIds' \cup LostIds' \subseteq (FoundIds \ {id}) \cup LostIds
  <2> SUFFICES ASSUME NEW x \in FoundIds' \cup LostIds' PROVE x \in (FoundIds \ {id}) \cup LostIds
    OBVIOUS
  <2>1. x \in NodeIds
    BY MappedStep DEF FindsOf, LosesOf
  <2> QED
    BY <1>3, <1>4, <2>1, MappedStep
<1>6. FoundIds \ {id} \subseteq FoundIds' \cup LostIds'
  <2> SUFFICES ASSUME NEW x \in FoundIds, x # id PROVE x \in FoundIds' \cup LostIds'
    OBVIOUS
  <2>1. x \in NodeIds /\ Finds(slots, nodeOf, x)
    BY MappedStep DEF FindsOf
  <2>2. PICK s \in DOMAIN slots : slots[s] # NULL /\ nodeOf[slots[s]] = x
    BY <2>1, InvGives, SlotEnds DEF Finds
  <2>3. s # s0
    BY <1>1, <2>2 DEF e
  <2>4. Has(U, nodeOf, x)
    BY <1>2, <2>2, <2>3 DEF Has
  <2> QED
    BY <1>3, <2>1, <2>4, MappedStep
<1>7. id \in FoundIds
  BY <1>1, MappedStep DEF FindsOf, Finds, e
<1>8. answer' = <<"GOOD", id>>
  BY DEF Remove
<1>9. Map!Remove(id)
  BY <1>5, <1>6, <1>7, <1>8 DEF Map!Remove
<1> QED
  BY <1>1, <1>9 DEF Map!Next

(* Every step of the store is a step of the map, or none.                  *)
LEMMA MapStep == Inv /\ Inv' /\ [Next]_vars => [Map!Next]_(Map!vars)
<1> SUFFICES ASSUME Inv, Inv', [Next]_vars PROVE Map!Next \/ UNCHANGED <<FoundIds, LostIds, answer>>
  BY DEF Map!vars
<1>1. ASSUME NEW kept \in {0, 1} \cap 0..MaxRefs, NEW id \in Named, Insert(id, kept) PROVE Map!Next
  <2>1. PICK e \in FreeEntries : IsPut(slots', TableForInsert, nodeOf, nodeOf', id, e)
    BY <1>1, InsertKeeps
  <2>2. id \in NodeIds /\ ~Contains(TableForInsert, id) /\ answer' = <<"GOOD", id>>
    BY <1>1, NodeIdsAssumption DEF Insert
  <2> QED
    BY <2>1, <2>2, InsertTableIs, MapInserts
<1>2. ASSUME NEW kept \in {0, 1} \cap 0..MaxRefs, InsertFresh(kept) PROVE Map!Next
  <2> DEFINE id == FreshId(TableForInsert)
  <2>1. /\ id \in NodeIds /\ ~Contains(TableForInsert, id) /\ answer' = <<"GOOD", id>>
        /\ \E e \in FreeEntries : IsPut(slots', TableForInsert, nodeOf, nodeOf', id, e)
    BY <1>2, InsertFreshKeeps DEF InsertFresh
  <2> HIDE DEF id
  <2> QED
    BY <2>1, InsertTableIs, MapInserts
<1>3. ASSUME NEW kept \in {0, 1} \cap 0..MaxRefs, NEW e \in Entries, Replace(e, kept) PROVE Map!Next
  BY <1>3, MapReplaces
<1>4. ASSUME NEW id \in Named, InsertExisting(id) PROVE Map!Next
  BY <1>4, MapInsertExisting
<1>5. CASE InsertFails \/ InsertRefused \/ (\E e \in Entries : ReplaceFails(e))
  BY <1>5, MapRefuses
<1>6. ASSUME NEW id \in Sought, Get(id) \/ Unknown(id) PROVE Map!Next
  BY <1>6, MapLookups
<1>7. ASSUME NEW id \in Sought, Remove(id) PROVE Map!Next
  BY <1>7, MapRemoves
<1>8. ASSUME NEW e \in Entries, Release(e) PROVE UNCHANGED <<FoundIds, LostIds, answer>>
  BY <1>8, MapReleases
<1>9. CASE UNCHANGED vars
  <2>1. UNCHANGED <<FoundIds, LostIds>>
    BY <1>9, MapStays DEF vars
  <2> QED
    BY <1>9, <2>1 DEF vars
<1> QED
  BY <1>1, <1>2, <1>3, <1>4, <1>5, <1>6, <1>7, <1>8, <1>9 DEF Next

(* The empty store is the empty map.                                       *)
LEMMA MapInit == Init => Map!Init
<1> SUFFICES ASSUME Init PROVE Map!Init
  OBVIOUS
<1>1. \A s \in DOMAIN slots : slots[s] = NULL
  BY DEF Init, Empty
<1>2. StoredEntries = {}
  BY <1>1 DEF StoredEntries
<1>3. FoundIds = {} /\ LostIds = {}
  BY <1>2 DEF FoundIds, StoredIds, LostIds
<1> QED
  BY <1>3 DEF Map!Init, Init

(* The store implements the map, for any hashes: every operation, the      *)
(* change of the table's size included, is one of the map.                 *)
THEOREM IsANodeMapCorrect == Spec => IsANodeMap
<1>1. Inv /\ Inv' /\ [Next]_vars => [Map!Next]_(Map!vars)
  BY MapStep
<1> QED
  BY <1>1, MapInit, Invariance, PTL DEF Spec, IsANodeMap, Map!Spec

=============================================================================
