------------------------- MODULE RepeatedJobsProofs -------------------------
(***************************************************************************)
(* Proofs about the list of repeated jobs, for any jobs, intervals and     *)
(* memory, any width of the product and any delay of the main loop: the    *)
(* list stays in order, entries are allocated exactly while they are       *)
(* listed, and a job leaves the list only when it is removed.              *)
(*                                                                         *)
(* The list is seen without its memory: view[m] is what the m-th entry     *)
(* holds.  What an operation does to the view is proved first, then what   *)
(* it does to the memory.                                                  *)
(***************************************************************************)
EXTENDS RepeatedJobs, TLAPS, SequenceTheorems, NaturalsInduction, WellFoundedInduction

-----------------------------------------------------------------------------
(* Numbers and sequences                                                   *)

(* A set of natural numbers that is not empty has a least element.         *)
LEMMA LeastElement ==
    ASSUME NEW T, T \subseteq Nat, T # {}
    PROVE  \E n \in T : \A m \in T : n <= m
<1>1. PICK n \in T : \A m \in T : <<m, n>> \notin OpToRel(<, Nat)
  BY NatLessThanWellFounded, WFMin
<1>2. \A m \in T : ~(m < n)
  BY <1>1 DEF OpToRel
<1> QED
  BY <1>2

(* The product of an interval wraps, and so does not leave its width.      *)
LEMMA IntervalIs ==
    ASSUME NEW ms \in Nat
    PROVE  Interval(ms) \in 0..(Modulus - 1)
<1>1. ms * Unit \in Nat
  BY UnitAssumption
<1>2. Modulus \in Nat /\ Modulus > 0
  BY UnitAssumption
<1> QED
  BY <1>1, <1>2 DEF Interval

(* What RemoveAt returns: the elements behind m move up.                   *)
LEMMA RemoveAtIs ==
    ASSUME NEW S, NEW s \in Seq(S), NEW m \in 1..Len(s)
    PROVE  /\ RemoveAt(s, m) \in Seq(S) /\ Len(RemoveAt(s, m)) = Len(s) - 1
           /\ \A k \in 1..(Len(s) - 1) :
                 RemoveAt(s, m)[k] = IF k < m THEN s[k] ELSE s[k + 1]
<1>1. Len(s) \in Nat /\ m \in Nat /\ m >= 1 /\ m <= Len(s)
  BY LenProperties
<1> DEFINE a == SubSeq(s, 1, m - 1)
           b == SubSeq(s, m + 1, Len(s))
<1>2. /\ a \in Seq(S) /\ Len(a) = m - 1
      /\ \A x \in 1..(m - 1) : a[x] = s[x]
  <2>1. \A x \in 1..(m - 1) : s[x] \in S
    BY <1>1, ElementOfSeq
  <2>2. /\ a \in Seq(S) /\ Len(a) = IF 1 <= m - 1 THEN (m - 1) - 1 + 1 ELSE 0
        /\ \A x \in 1..((m - 1) - 1 + 1) : a[x] = s[1 + x - 1]
    <3>1. 1 \in Int /\ m - 1 \in Int
      BY <1>1
    <3> QED
      BY <2>1, <3>1, SubSeqProperties
  <2> QED
    BY <1>1, <2>2
<1>3. /\ b \in Seq(S) /\ Len(b) = Len(s) - m
      /\ \A x \in 1..(Len(s) - m) : b[x] = s[m + x]
  <2>1. \A x \in (m + 1)..Len(s) : s[x] \in S
    BY <1>1, ElementOfSeq
  <2>2. /\ b \in Seq(S) /\ Len(b) = IF m + 1 <= Len(s) THEN Len(s) - (m + 1) + 1 ELSE 0
        /\ \A x \in 1..(Len(s) - (m + 1) + 1) : b[x] = s[(m + 1) + x - 1]
    <3>1. m + 1 \in Int /\ Len(s) \in Int
      BY <1>1
    <3> QED
      BY <2>1, <3>1, SubSeqProperties
  <2>3. Len(s) - (m + 1) + 1 = Len(s) - m
    BY <1>1
  <2>4. ASSUME NEW x \in 1..(Len(s) - m) PROVE b[x] = s[m + x]
    <3>1. (m + 1) + x - 1 = m + x
      BY <1>1
    <3> QED
      BY <2>2, <2>3, <3>1
  <2>5. Len(b) = Len(s) - m
    BY <1>1, <2>2
  <2> QED
    BY <2>2, <2>4, <2>5
<1>4. RemoveAt(s, m) = a \o b
  BY DEF RemoveAt
<1> HIDE DEF a, b
<1>5. /\ a \o b \in Seq(S) /\ Len(a \o b) = Len(a) + Len(b)
      /\ \A x \in 1..(Len(a) + Len(b)) :
            (a \o b)[x] = IF x <= Len(a) THEN a[x] ELSE b[x - Len(a)]
  BY <1>2, <1>3, ConcatProperties
<1>6. Len(a) + Len(b) = Len(s) - 1
  BY <1>1, <1>2, <1>3
<1>7. ASSUME NEW k \in 1..(Len(s) - 1)
      PROVE  (a \o b)[k] = IF k < m THEN s[k] ELSE s[k + 1]
  <2>1. CASE k < m
    BY <1>1, <1>2, <1>5, <1>6, <2>1
  <2>2. CASE ~(k < m)
    <3>1. k - (m - 1) \in 1..(Len(s) - m) /\ m + (k - (m - 1)) = k + 1
      BY <1>1, <2>2
    <3>2. (a \o b)[k] = b[k - (m - 1)]
      BY <1>1, <1>2, <1>5, <1>6, <2>2
    <3> QED
      BY <1>3, <2>2, <3>1, <3>2
  <2> QED
    BY <2>1, <2>2
<1> QED
  BY <1>4, <1>5, <1>6, <1>7

(* What InsertAt returns: the elements from m on move down.                *)
LEMMA InsertAtIs ==
    ASSUME NEW S, NEW s \in Seq(S), NEW e \in S, NEW m \in 1..(Len(s) + 1)
    PROVE  /\ InsertAt(s, m, e) \in Seq(S) /\ Len(InsertAt(s, m, e)) = Len(s) + 1
           /\ \A k \in 1..(Len(s) + 1) :
                 InsertAt(s, m, e)[k] = IF k < m THEN s[k] ELSE IF k = m THEN e ELSE s[k - 1]
<1>1. Len(s) \in Nat /\ m \in Nat /\ m >= 1 /\ m <= Len(s) + 1
  BY LenProperties
<1> DEFINE a == SubSeq(s, 1, m - 1)
           b == SubSeq(s, m, Len(s))
           c == <<e>>
<1>2. /\ a \in Seq(S) /\ Len(a) = m - 1
      /\ \A x \in 1..(m - 1) : a[x] = s[x]
  <2>1. \A x \in 1..(m - 1) : s[x] \in S
    BY <1>1, ElementOfSeq
  <2>2. /\ a \in Seq(S) /\ Len(a) = IF 1 <= m - 1 THEN (m - 1) - 1 + 1 ELSE 0
        /\ \A x \in 1..((m - 1) - 1 + 1) : a[x] = s[1 + x - 1]
    <3>1. 1 \in Int /\ m - 1 \in Int
      BY <1>1
    <3> QED
      BY <2>1, <3>1, SubSeqProperties
  <2> QED
    BY <1>1, <2>2
<1>3. /\ b \in Seq(S) /\ Len(b) = Len(s) - m + 1
      /\ \A x \in 1..(Len(s) - m + 1) : b[x] = s[m + x - 1]
  <2>1. \A x \in m..Len(s) : s[x] \in S
    BY <1>1, ElementOfSeq
  <2>2. /\ b \in Seq(S) /\ Len(b) = IF m <= Len(s) THEN Len(s) - m + 1 ELSE 0
        /\ \A x \in 1..(Len(s) - m + 1) : b[x] = s[m + x - 1]
    <3>1. m \in Int /\ Len(s) \in Int
      BY <1>1
    <3> QED
      BY <2>1, <3>1, SubSeqProperties
  <2> QED
    BY <1>1, <2>2
<1>4. c \in Seq(S) /\ Len(c) = 1 /\ c[1] = e
  OBVIOUS
<1>5. InsertAt(s, m, e) = (a \o c) \o b
  BY DEF InsertAt
<1> HIDE DEF a, b, c
<1>6. /\ a \o c \in Seq(S) /\ Len(a \o c) = m
      /\ \A x \in 1..m : (a \o c)[x] = IF x <= m - 1 THEN a[x] ELSE c[x - (m - 1)]
  <2>1. /\ a \o c \in Seq(S) /\ Len(a \o c) = Len(a) + Len(c)
        /\ \A x \in 1..(Len(a) + Len(c)) :
              (a \o c)[x] = IF x <= Len(a) THEN a[x] ELSE c[x - Len(a)]
    BY <1>2, <1>4, ConcatProperties
  <2>2. Len(a) + Len(c) = m
    BY <1>1, <1>2, <1>4
  <2> QED
    BY <1>2, <2>1, <2>2
<1> DEFINE d == a \o c
<1>7. /\ d \in Seq(S) /\ Len(d) = m
      /\ \A x \in 1..m : d[x] = IF x <= m - 1 THEN a[x] ELSE c[x - (m - 1)]
  BY <1>6
<1>8. InsertAt(s, m, e) = d \o b
  BY <1>5
<1> HIDE DEF d
<1>9. /\ d \o b \in Seq(S) /\ Len(d \o b) = Len(s) + 1
      /\ \A x \in 1..(Len(s) + 1) : (d \o b)[x] = IF x <= m THEN d[x] ELSE b[x - m]
  <2>1. /\ d \o b \in Seq(S) /\ Len(d \o b) = Len(d) + Len(b)
        /\ \A x \in 1..(Len(d) + Len(b)) :
              (d \o b)[x] = IF x <= Len(d) THEN d[x] ELSE b[x - Len(d)]
    BY <1>3, <1>7, ConcatProperties
  <2>2. Len(d) + Len(b) = Len(s) + 1 /\ Len(d) = m
    BY <1>1, <1>3, <1>7
  <2> QED
    BY <2>1, <2>2
<1>10. ASSUME NEW k \in 1..(Len(s) + 1)
      PROVE  (d \o b)[k] = IF k < m THEN s[k] ELSE IF k = m THEN e ELSE s[k - 1]
  <2>1. CASE k < m
    <3>1. k \in 1..m /\ k <= m - 1 /\ k \in 1..(m - 1)
      BY <1>1, <2>1
    <3> QED
      BY <1>2, <1>7, <1>9, <2>1, <3>1
  <2>2. CASE k = m
    <3>1. k \in 1..m /\ ~(k <= m - 1) /\ k - (m - 1) = 1 /\ k <= m /\ ~(k < m)
      BY <1>1, <2>2
    <3>2. (d \o b)[k] = c[1]
      BY <1>7, <1>9, <3>1
    <3> QED
      BY <1>4, <2>2, <3>1, <3>2
  <2>3. CASE k > m
    <3>1. ~(k <= m) /\ k - m \in 1..(Len(s) - m + 1) /\ ~(k < m) /\ k # m
      BY <1>1, <2>3
    <3>2. m + (k - m) - 1 = k - 1
      BY <1>1
    <3>3. (d \o b)[k] = b[k - m]
      BY <1>9, <3>1
    <3>4. b[k - m] = s[m + (k - m) - 1]
      BY <1>3, <3>1
    <3>5. (d \o b)[k] = s[k - 1]
      BY <3>2, <3>3, <3>4
    <3> QED
      BY <3>1, <3>5
  <2>4. k < m \/ k = m \/ k > m
    BY <1>1
  <2> QED
    BY <2>1, <2>2, <2>3, <2>4
<1> QED
  BY <1>8, <1>9, <1>10

-----------------------------------------------------------------------------
(* The view of a list: n entries                                           *)

JobsAt(r) == {r.jobs[k] : k \in 1..Len(r.jobs)}
ViewJobs(n, v) == UNION {JobsAt(v[m]) : m \in 1..n}

(* An entry has jobs, each of them once, and is due in time.               *)
EntryOK(r) ==
    /\ r \in EntryType /\ r.due <= r.interval /\ r.jobs # <<>>
    /\ \A j, k \in 1..Len(r.jobs) : r.jobs[j] = r.jobs[k] => j = k

(* The entries come in the order they are due; an interval and a job have  *)
(* one entry each.                                                         *)
ViewOK(n, v) ==
    /\ \A m \in 1..n : EntryOK(v[m])
    /\ \A j, k \in 1..n : j < k => v[j].due <= v[k].due
    /\ \A j, k \in 1..n : v[j].interval = v[k].interval => j = k
    /\ \A j, k \in 1..n : JobsAt(v[j]) \cap JobsAt(v[k]) # {} => j = k

(* What one of n is taken out of v, put into v and replaced in v.          *)
TakenOut(n, v, m, w) == \A k \in 1..(n - 1) : w[k] = IF k < m THEN v[k] ELSE v[k + 1]
PutIn(n, v, m, r, w) ==
    \A k \in 1..(n + 1) : w[k] = IF k < m THEN v[k] ELSE IF k = m THEN r ELSE v[k - 1]
Replaced(n, v, m, r, w) == \A k \in 1..n : w[k] = IF k = m THEN r ELSE v[k]

(* m is the place of r, and r has nothing that an entry has already.       *)
FitsIn(n, v, m, r) ==
    /\ \A k \in 1..n : (k < m => v[k].due <= r.due) /\ (k >= m => r.due <= v[k].due)
    /\ \A k \in 1..n : v[k].interval # r.interval
    /\ JobsAt(r) \cap ViewJobs(n, v) = {}
FitsFor(n, v, m, r) ==
    /\ r.due = v[m].due /\ r.interval = v[m].interval
    /\ \A k \in 1..n : k # m => JobsAt(r) \cap JobsAt(v[k]) = {}

(* An entry is taken out of the list.                                      *)
LEMMA ViewRemoved ==
    ASSUME NEW n \in Nat, NEW v, ViewOK(n, v), NEW m \in 1..n, NEW w,
           TakenOut(n, v, m, w)
    PROVE  ViewOK(n - 1, w) /\ ViewJobs(n - 1, w) = ViewJobs(n, v) \ JobsAt(v[m])
<1> DEFINE p(k) == IF k < m THEN k ELSE k + 1
<1>1. ASSUME NEW k \in 1..(n - 1)
      PROVE  p(k) \in 1..n /\ w[k] = v[p(k)] /\ p(k) # m
  BY DEF TakenOut
<1>2. \A j, k \in 1..(n - 1) : (j < k => p(j) < p(k)) /\ (p(j) = p(k) => j = k)
  OBVIOUS
<1>3. ASSUME NEW k \in 1..n, k # m PROVE \E j \in 1..(n - 1) : p(j) = k
  <2>1. CASE k < m
    BY <2>1
  <2>2. CASE k > m
    <3>1. k - 1 \in 1..(n - 1) /\ p(k - 1) = k
      BY <2>2
    <3> QED
      BY <3>1
  <2>3. k < m \/ k > m
    BY <1>3
  <2> HIDE DEF p
  <2> QED
    BY <2>1, <2>2, <2>3
<1> HIDE DEF p
<1>4. ViewOK(n - 1, w)
  <2>1. \A k \in 1..(n - 1) : EntryOK(w[k])
    BY <1>1 DEF ViewOK
  <2>2. ASSUME NEW j \in 1..(n - 1), NEW k \in 1..(n - 1)
        PROVE  /\ j < k => w[j].due <= w[k].due
               /\ w[j].interval = w[k].interval => j = k
               /\ JobsAt(w[j]) \cap JobsAt(w[k]) # {} => j = k
    <3>1. /\ p(j) \in 1..n /\ w[j] = v[p(j)] /\ p(k) \in 1..n /\ w[k] = v[p(k)]
          /\ j < k => p(j) < p(k)
          /\ p(j) = p(k) => j = k
      BY <1>1, <1>2
    <3>2. /\ p(j) < p(k) => v[p(j)].due <= v[p(k)].due
          /\ v[p(j)].interval = v[p(k)].interval => p(j) = p(k)
          /\ JobsAt(v[p(j)]) \cap JobsAt(v[p(k)]) # {} => p(j) = p(k)
      BY <3>1 DEF ViewOK
    <3> QED
      BY <3>1, <3>2
  <2> QED
    BY <2>1, <2>2 DEF ViewOK
<1>5. ASSUME NEW x \in ViewJobs(n - 1, w) PROVE x \in ViewJobs(n, v) \ JobsAt(v[m])
  <2>1. PICK k \in 1..(n - 1) : x \in JobsAt(w[k])
    BY <1>5 DEF ViewJobs
  <2>2. x \in JobsAt(v[p(k)]) /\ p(k) \in 1..n /\ p(k) # m
    BY <1>1, <2>1
  <2> QED
    BY <2>2 DEF ViewJobs, ViewOK
<1>6. ASSUME NEW x \in ViewJobs(n, v), x \notin JobsAt(v[m]) PROVE x \in ViewJobs(n - 1, w)
  <2>1. PICK k \in 1..n : x \in JobsAt(v[k])
    BY <1>6 DEF ViewJobs
  <2>2. PICK j \in 1..(n - 1) : p(j) = k
    BY <1>3, <1>6, <2>1
  <2> QED
    BY <1>1, <2>1, <2>2 DEF ViewJobs
<1> QED
  BY <1>4, <1>5, <1>6

(* An entry is put into the list, where it is due, with an interval and    *)
(* jobs of its own.                                                        *)
LEMMA ViewInserted ==
    ASSUME NEW n \in Nat, NEW v, ViewOK(n, v), NEW r, EntryOK(r), NEW m \in 1..(n + 1), NEW w,
           PutIn(n, v, m, r, w), FitsIn(n, v, m, r)
    PROVE  ViewOK(n + 1, w) /\ ViewJobs(n + 1, w) = ViewJobs(n, v) \cup JobsAt(r)
<1> DEFINE p(k) == IF k < m THEN k ELSE k - 1
<1>1. ASSUME NEW k \in 1..(n + 1), k # m
      PROVE  p(k) \in 1..n /\ w[k] = v[p(k)] /\ (k < m => p(k) < m) /\ (k > m => p(k) >= m)
  BY <1>1 DEF PutIn
<1>2. m \in 1..(n + 1) /\ w[m] = r
  BY DEF PutIn
<1>3. ASSUME NEW j \in 1..(n + 1), NEW k \in 1..(n + 1), j # m, k # m
      PROVE  (j < k => p(j) < p(k)) /\ (p(j) = p(k) => j = k)
  BY <1>3
<1>4. ASSUME NEW k \in 1..n PROVE \E j \in 1..(n + 1) : j # m /\ p(j) = k
  <2>1. CASE k < m
    <3>1. k \in 1..(n + 1) /\ k # m /\ p(k) = k
      BY <2>1
    <3> QED
      BY <3>1
  <2>2. CASE k >= m
    <3>1. k + 1 \in 1..(n + 1) /\ k + 1 # m /\ p(k + 1) = k
      BY <2>2
    <3> QED
      BY <3>1
  <2> QED
    BY <2>1, <2>2
<1> HIDE DEF p
<1>5. \A k \in 1..n : v[k].interval # r.interval /\ JobsAt(v[k]) \cap JobsAt(r) = {}
  BY DEF ViewJobs, FitsIn
<1>6. ASSUME NEW j \in 1..(n + 1), NEW k \in 1..(n + 1), j < k PROVE w[j].due <= w[k].due
  <2>1. CASE j = m
    BY <1>1, <1>2, <1>6, <2>1 DEF FitsIn
  <2>2. CASE k = m
    BY <1>1, <1>2, <1>6, <2>2 DEF FitsIn
  <2>3. CASE j # m /\ k # m
    <3>1. /\ p(j) \in 1..n /\ w[j] = v[p(j)] /\ p(k) \in 1..n /\ w[k] = v[p(k)]
          /\ p(j) < p(k)
      BY <1>1, <1>3, <1>6, <2>3
    <3>2. v[p(j)].due <= v[p(k)].due
      BY <3>1 DEF ViewOK
    <3> QED
      BY <3>1, <3>2
  <2> QED
    BY <2>1, <2>2, <2>3
<1>7. \A k \in 1..(n + 1) : EntryOK(w[k])
  BY <1>1, <1>2 DEF ViewOK
<1>8. ASSUME NEW j \in 1..(n + 1), NEW k \in 1..(n + 1), j # k
      PROVE  w[j].interval # w[k].interval /\ JobsAt(w[j]) \cap JobsAt(w[k]) = {}
  <2>1. CASE j = m
    <3>1. k # m /\ p(k) \in 1..n /\ w[k] = v[p(k)] /\ w[j] = r
      BY <1>1, <1>2, <1>8, <2>1
    <3> QED
      BY <1>5, <3>1
  <2>2. CASE k = m
    <3>1. j # m /\ p(j) \in 1..n /\ w[j] = v[p(j)] /\ w[k] = r
      BY <1>1, <1>2, <1>8, <2>2
    <3> QED
      BY <1>5, <3>1
  <2>3. CASE j # m /\ k # m
    <3>1. /\ p(j) \in 1..n /\ w[j] = v[p(j)] /\ p(k) \in 1..n /\ w[k] = v[p(k)]
          /\ p(j) # p(k)
      BY <1>1, <1>3, <1>8, <2>3
    <3> QED
      BY <3>1 DEF ViewOK
  <2> QED
    BY <2>1, <2>2, <2>3
<1>9. ViewOK(n + 1, w)
  BY <1>6, <1>7, <1>8 DEF ViewOK
<1>10. ASSUME NEW x \in ViewJobs(n + 1, w) PROVE x \in ViewJobs(n, v) \cup JobsAt(r)
  <2>1. PICK k \in 1..(n + 1) : x \in JobsAt(w[k])
    BY <1>10 DEF ViewJobs
  <2> QED
    BY <1>1, <1>2, <2>1 DEF ViewJobs
<1>11. ASSUME NEW x \in ViewJobs(n, v) \cup JobsAt(r) PROVE x \in ViewJobs(n + 1, w)
  <2>1. CASE x \in JobsAt(r)
    BY <1>2, <2>1 DEF ViewJobs
  <2>2. CASE x \in ViewJobs(n, v)
    <3>1. PICK k \in 1..n : x \in JobsAt(v[k])
      BY <2>2 DEF ViewJobs
    <3>2. PICK j \in 1..(n + 1) : j # m /\ p(j) = k
      BY <1>4
    <3> QED
      BY <1>1, <3>1, <3>2 DEF ViewJobs
  <2> QED
    BY <1>11, <2>1, <2>2
<1> QED
  BY <1>9, <1>10, <1>11

(* An entry gets other jobs, which no other entry has.                     *)
LEMMA ViewReplaced ==
    ASSUME NEW n \in Nat, NEW v, ViewOK(n, v), NEW m \in 1..n, NEW r, EntryOK(r), NEW w,
           Replaced(n, v, m, r, w), FitsFor(n, v, m, r)
    PROVE  ViewOK(n, w) /\ ViewJobs(n, w) = (ViewJobs(n, v) \ JobsAt(v[m])) \cup JobsAt(r)
<1>1. w[m] = r /\ \A k \in 1..n : k # m => w[k] = v[k]
  BY DEF Replaced
<1>2. \A k \in 1..n : EntryOK(w[k]) /\ w[k].due = v[k].due /\ w[k].interval = v[k].interval
  BY DEF ViewOK, Replaced, FitsFor
<1>3. ASSUME NEW j \in 1..n, NEW k \in 1..n, j # k PROVE JobsAt(w[j]) \cap JobsAt(w[k]) = {}
  <2>1. CASE j = m
    BY <1>1, <1>3, <2>1 DEF FitsFor
  <2>2. CASE k = m
    BY <1>1, <1>3, <2>2 DEF FitsFor
  <2>3. CASE j # m /\ k # m
    BY <1>1, <1>3, <2>3 DEF ViewOK
  <2> QED
    BY <2>1, <2>2, <2>3
<1>4. ViewOK(n, w)
  BY <1>2, <1>3 DEF ViewOK
<1>5. ASSUME NEW x \in ViewJobs(n, w) PROVE x \in (ViewJobs(n, v) \ JobsAt(v[m])) \cup JobsAt(r)
  <2>1. PICK k \in 1..n : x \in JobsAt(w[k])
    BY <1>5 DEF ViewJobs
  <2>2. CASE k = m
    BY <1>1, <2>1, <2>2
  <2>3. CASE k # m
    <3>1. x \in JobsAt(v[k]) /\ x \notin JobsAt(v[m])
      BY <1>1, <2>1, <2>3 DEF ViewOK
    <3> QED
      BY <3>1 DEF ViewJobs
  <2> QED
    BY <2>2, <2>3
<1>6. ASSUME NEW x \in (ViewJobs(n, v) \ JobsAt(v[m])) \cup JobsAt(r) PROVE x \in ViewJobs(n, w)
  <2>1. CASE x \in JobsAt(r)
    BY <1>1, <2>1 DEF ViewJobs
  <2>2. CASE x \in ViewJobs(n, v) /\ x \notin JobsAt(v[m])
    <3>1. PICK k \in 1..n : x \in JobsAt(v[k])
      BY <2>2 DEF ViewJobs
    <3>2. w[k] = v[k]
      BY <1>1, <2>2, <3>1
    <3> QED
      BY <3>1, <3>2 DEF ViewJobs
  <2> QED
    BY <1>6, <2>1, <2>2
<1> QED
  BY <1>4, <1>5, <1>6

(* Every entry is due earlier, by the same time.                           *)
LEMMA ViewLater ==
    ASSUME NEW n \in Nat, NEW v, ViewOK(n, v), NEW w,
           \A k \in 1..n : w[k] = [v[k] EXCEPT !.due = v[k].due - 1]
    PROVE  ViewOK(n, w) /\ ViewJobs(n, w) = ViewJobs(n, v)
<1>1. ASSUME NEW k \in 1..n
      PROVE  /\ EntryOK(w[k]) /\ w[k].due = v[k].due - 1 /\ v[k].due \in Int
             /\ w[k].interval = v[k].interval /\ JobsAt(w[k]) = JobsAt(v[k])
  <2> DEFINE due == v[k].due - 1
             r == [v[k] EXCEPT !.due = due]
  <2>1. v[k] \in EntryType /\ EntryOK(v[k])
    BY DEF ViewOK, EntryOK
  <2>2. due \in Int /\ v[k].due \in Int /\ v[k].interval \in Int
    BY <2>1 DEF EntryType
  <2>3. w[k] = r
    OBVIOUS
  <2> HIDE DEF due
  <2>4. r \in EntryType /\ r.due = due /\ r.interval = v[k].interval /\ r.jobs = v[k].jobs
    BY <2>1, <2>2 DEF EntryType
  <2> HIDE DEF r
  <2>5. due <= v[k].interval
    BY <2>1, <2>2 DEF due, EntryOK
  <2> QED
    BY <2>1, <2>2, <2>3, <2>4, <2>5 DEF EntryOK, JobsAt, due
<1>2. ViewOK(n, w)
  BY <1>1 DEF ViewOK
<1> QED
  BY <1>1, <1>2 DEF ViewJobs

-----------------------------------------------------------------------------
(* The memory of a list                                                    *)

View(l, ent) == [m \in 1..Len(l) |-> ent[l[m]]]

(* Entries are allocated exactly while they are listed, once.              *)
MemoryOK(l, ent) ==
    /\ l \in Seq(Entries) /\ ent \in [Entries -> EntryType \cup {NULL}]
    /\ \A j, k \in 1..Len(l) : l[j] = l[k] => j = k
    /\ \A e \in Entries : ent[e] # NULL <=> \E k \in 1..Len(l) : l[k] = e

(* NULL is not an entry and does not hold one.                             *)
LEMMA NullIs == NULL \notin Entries /\ NULL \notin EntryType
  BY EntryAssumption

(* A listed entry holds what the view shows.                               *)
LEMMA ViewIs ==
    ASSUME NEW l, NEW ent, MemoryOK(l, ent), NEW m \in 1..Len(l)
    PROVE  /\ l[m] \in Entries /\ View(l, ent)[m] = ent[l[m]] /\ ent[l[m]] \in EntryType
           /\ Len(l) \in Nat /\ DOMAIN l = 1..Len(l)
<1>1. l \in Seq(Entries) /\ Len(l) \in Nat /\ DOMAIN l = 1..Len(l) /\ l[m] \in Entries
  BY LenProperties, ElementOfSeq DEF MemoryOK
<1>2. ent[l[m]] # NULL /\ ent[l[m]] \in EntryType \cup {NULL}
  BY <1>1 DEF MemoryOK
<1> QED
  BY <1>1, <1>2 DEF View

(* The memory of an entry is freed when it leaves the list.                *)
LEMMA MemoryRemoved ==
    ASSUME NEW l, NEW ent, MemoryOK(l, ent), NEW m \in 1..Len(l),
           NEW k, k = RemoveAt(l, m), NEW freed, freed = [ent EXCEPT ![l[m]] = NULL]
    PROVE  /\ MemoryOK(k, freed) /\ Len(k) = Len(l) - 1
           /\ TakenOut(Len(l), l, m, k) /\ TakenOut(Len(l), View(l, ent), m, View(k, freed))
<1> DEFINE p(j) == IF j < m THEN j ELSE j + 1
<1>1. /\ l \in Seq(Entries) /\ ent \in [Entries -> EntryType \cup {NULL}] /\ l[m] \in Entries
      /\ Len(l) \in Nat
  BY ViewIs DEF MemoryOK
<1>2. /\ k \in Seq(Entries) /\ Len(k) = Len(l) - 1
      /\ \A j \in 1..(Len(l) - 1) : k[j] = l[p(j)]
  BY <1>1, RemoveAtIs
<1>3. TakenOut(Len(l), l, m, k)
  BY <1>2 DEF TakenOut
<1>4. \A j \in 1..(Len(l) - 1) : p(j) \in 1..Len(l) /\ p(j) # m
  BY <1>1
<1>5. \A x, y \in 1..(Len(l) - 1) : p(x) = p(y) => x = y
  BY <1>1
<1>6. ASSUME NEW n \in 1..Len(l), n # m PROVE \E j \in 1..(Len(l) - 1) : p(j) = n
  <2>1. CASE n < m
    BY <1>1, <2>1
  <2>2. CASE n > m
    <3>1. n - 1 \in 1..(Len(l) - 1) /\ p(n - 1) = n
      BY <1>1, <2>2
    <3> QED
      BY <3>1
  <2>3. n < m \/ n > m
    BY <1>1, <1>6
  <2> HIDE DEF p
  <2> QED
    BY <2>1, <2>2, <2>3
<1> HIDE DEF p
<1>7. /\ freed \in [Entries -> EntryType \cup {NULL}] /\ freed[l[m]] = NULL
      /\ \A e \in Entries : e # l[m] => freed[e] = ent[e]
  BY <1>1
<1>8. \A j \in 1..(Len(l) - 1) : l[p(j)] # l[m] /\ l[p(j)] \in Entries
  BY <1>1, <1>4, ElementOfSeq DEF MemoryOK
<1>9. ASSUME NEW e \in Entries
      PROVE  freed[e] # NULL <=> \E j \in 1..Len(k) : k[j] = e
  <2>1. CASE e = l[m]
    BY <1>2, <1>7, <1>8, <2>1
  <2>2. CASE e # l[m]
    <3>1. freed[e] # NULL <=> \E n \in 1..Len(l) : l[n] = e
      BY <1>7, <2>2 DEF MemoryOK
    <3>2. ASSUME NEW n \in 1..Len(l), l[n] = e PROVE \E j \in 1..Len(k) : k[j] = e
      <4>1. PICK j \in 1..(Len(l) - 1) : p(j) = n
        BY <1>6, <2>2, <3>2
      <4> QED
        BY <1>2, <3>2, <4>1
    <3>3. ASSUME NEW j \in 1..Len(k), k[j] = e PROVE \E n \in 1..Len(l) : l[n] = e
      BY <1>2, <1>4, <3>3
    <3> QED
      BY <3>1, <3>2, <3>3
  <2> QED
    BY <2>1, <2>2
<1>10. \A x, y \in 1..Len(k) : k[x] = k[y] => x = y
  BY <1>2, <1>4, <1>5 DEF MemoryOK
<1>11. MemoryOK(k, freed)
  BY <1>2, <1>7, <1>9, <1>10 DEF MemoryOK
<1>12. ASSUME NEW j \in 1..(Len(l) - 1) PROVE View(k, freed)[j] = View(l, ent)[p(j)]
  <2>1. View(k, freed)[j] = freed[k[j]] /\ View(l, ent)[p(j)] = ent[l[p(j)]]
    BY <1>2, <1>4, <1>12 DEF View
  <2> QED
    BY <1>2, <1>7, <1>8, <1>12, <2>1
<1> QED
  BY <1>2, <1>3, <1>11, <1>12 DEF TakenOut, p

(* Free memory is allocated when an entry joins the list.                  *)
LEMMA MemoryInserted ==
    ASSUME NEW l, NEW ent, MemoryOK(l, ent), NEW e \in Entries, ent[e] = NULL,
           NEW r \in EntryType, NEW m \in 1..(Len(l) + 1),
           NEW k, k = InsertAt(l, m, e), NEW allocated, allocated = [ent EXCEPT ![e] = r]
    PROVE  /\ MemoryOK(k, allocated) /\ Len(k) = Len(l) + 1
           /\ PutIn(Len(l), l, m, e, k) /\ PutIn(Len(l), View(l, ent), m, r, View(k, allocated))
<1> DEFINE p(j) == IF j < m THEN j ELSE j - 1
<1>1. l \in Seq(Entries) /\ ent \in [Entries -> EntryType \cup {NULL}] /\ Len(l) \in Nat
  BY LenProperties DEF MemoryOK
<1>2. /\ k \in Seq(Entries) /\ Len(k) = Len(l) + 1
      /\ \A j \in 1..(Len(l) + 1) : k[j] = IF j < m THEN l[j] ELSE IF j = m THEN e ELSE l[j - 1]
  <2>1. e \in Entries /\ m \in 1..(Len(l) + 1)
    OBVIOUS
  <2> QED
    BY <1>1, <2>1, InsertAtIs, SMTT(30)
<1>3. /\ m \in 1..(Len(l) + 1) /\ k[m] = e
      /\ \A j \in 1..(Len(l) + 1) : j # m => k[j] = l[p(j)] /\ p(j) \in 1..Len(l)
  <2>1. m \in 1..(Len(l) + 1) /\ k[m] = e
    BY <1>1, <1>2
  <2>2. ASSUME NEW j \in 1..(Len(l) + 1), j # m PROVE k[j] = l[p(j)] /\ p(j) \in 1..Len(l)
    BY <1>1, <1>2, <2>2
  <2> QED
    BY <2>1, <2>2
<1>4. \A x, y \in 1..(Len(l) + 1) : x # m /\ y # m /\ p(x) = p(y) => x = y
  BY <1>1
<1>5. ASSUME NEW n \in 1..Len(l) PROVE \E j \in 1..(Len(l) + 1) : j # m /\ p(j) = n
  <2>1. CASE n < m
    <3>1. n \in 1..(Len(l) + 1) /\ n # m /\ p(n) = n
      BY <1>1, <2>1
    <3> QED
      BY <3>1
  <2>2. CASE ~(n < m)
    <3>1. n + 1 \in 1..(Len(l) + 1) /\ n + 1 # m /\ p(n + 1) = n
      BY <1>1, <2>2
    <3> QED
      BY <3>1
  <2> QED
    BY <2>1, <2>2
<1>6. /\ allocated \in [Entries -> EntryType \cup {NULL}] /\ allocated[e] = r /\ r # NULL
      /\ \A x \in Entries : x # e => allocated[x] = ent[x]
  BY <1>1, NullIs
<1>7. \A n \in 1..Len(l) : l[n] # e /\ l[n] \in Entries
  BY <1>1, ElementOfSeq DEF MemoryOK
<1>11. ASSUME NEW j \in 1..(Len(l) + 1)
       PROVE  View(k, allocated)[j] =
                 IF j < m THEN View(l, ent)[j] ELSE IF j = m THEN r ELSE View(l, ent)[j - 1]
  <2>1. View(k, allocated)[j] = allocated[k[j]]
    BY <1>2 DEF View
  <2>2. CASE j = m
    <3>1. ~(j < m)
      BY <1>1, <2>2
    <3> QED
      BY <1>3, <1>6, <2>1, <2>2, <3>1
  <2>3. CASE j # m
    <3>1. View(l, ent)[p(j)] = ent[l[p(j)]]
      BY <1>3, <2>3 DEF View
    <3>2. View(k, allocated)[j] = View(l, ent)[p(j)]
      BY <1>3, <1>6, <1>7, <2>1, <2>3, <3>1
    <3> QED
      BY <2>3, <3>2
  <2> QED
    BY <2>2, <2>3
<1> HIDE DEF p
<1>8. ASSUME NEW x \in Entries
      PROVE  allocated[x] # NULL <=> \E j \in 1..Len(k) : k[j] = x
  <2>1. CASE x = e
    BY <1>2, <1>3, <1>6, <2>1
  <2>2. CASE x # e
    <3>1. allocated[x] # NULL <=> \E n \in 1..Len(l) : l[n] = x
      BY <1>6, <2>2 DEF MemoryOK
    <3>2. ASSUME NEW n \in 1..Len(l), l[n] = x PROVE \E j \in 1..Len(k) : k[j] = x
      <4>1. PICK j \in 1..(Len(l) + 1) : j # m /\ p(j) = n
        BY <1>5
      <4> QED
        BY <1>2, <1>3, <3>2, <4>1
    <3>3. ASSUME NEW j \in 1..Len(k), k[j] = x PROVE \E n \in 1..Len(l) : l[n] = x
      BY <1>2, <1>3, <2>2, <3>3
    <3> QED
      BY <3>1, <3>2, <3>3
  <2> QED
    BY <2>1, <2>2
<1>9. ASSUME NEW x \in 1..Len(k), NEW y \in 1..Len(k), k[x] = k[y] PROVE x = y
  <2>1. CASE x = m \/ y = m
    BY <1>2, <1>3, <1>7, <1>9, <2>1
  <2>2. CASE x # m /\ y # m
    <3>1. /\ x \in 1..(Len(l) + 1) /\ y \in 1..(Len(l) + 1)
          /\ p(x) \in 1..Len(l) /\ p(y) \in 1..Len(l) /\ l[p(x)] = l[p(y)]
      BY <1>2, <1>3, <1>9, <2>2
    <3>2. p(x) = p(y)
      BY <3>1 DEF MemoryOK
    <3> QED
      BY <1>4, <2>2, <3>1, <3>2
  <2> QED
    BY <2>1, <2>2
<1>10. MemoryOK(k, allocated)
  BY <1>2, <1>6, <1>8, <1>9 DEF MemoryOK
<1> QED
  BY <1>2, <1>10, <1>11 DEF PutIn

(* An entry changes and stays where it is.                                 *)
LEMMA MemoryReplaced ==
    ASSUME NEW l, NEW ent, MemoryOK(l, ent), NEW m \in 1..Len(l), NEW r \in EntryType,
           NEW changed, changed = [ent EXCEPT ![l[m]] = r]
    PROVE  MemoryOK(l, changed) /\ Replaced(Len(l), View(l, ent), m, r, View(l, changed))
<1>1. l \in Seq(Entries) /\ ent \in [Entries -> EntryType \cup {NULL}] /\ l[m] \in Entries
  BY ViewIs DEF MemoryOK
<1>2. /\ changed \in [Entries -> EntryType \cup {NULL}] /\ changed[l[m]] = r /\ r # NULL
      /\ \A x \in Entries : x # l[m] => changed[x] = ent[x]
  BY <1>1, NullIs
<1>3. \A j \in 1..Len(l) : l[j] \in Entries /\ (l[j] = l[m] => j = m)
  BY <1>1, ElementOfSeq DEF MemoryOK
<1>4. ent[l[m]] # NULL
  BY <1>1 DEF MemoryOK
<1>5. \A x \in Entries : changed[x] # NULL <=> ent[x] # NULL
  BY <1>2, <1>4
<1>6. MemoryOK(l, changed)
  BY <1>2, <1>5 DEF MemoryOK
<1>7. ASSUME NEW j \in 1..Len(l)
      PROVE  View(l, changed)[j] = IF j = m THEN r ELSE View(l, ent)[j]
  BY <1>2, <1>3 DEF View
<1> QED
  BY <1>6, <1>7 DEF Replaced

(* The list with new at the places of old                                  *)
Renamed(l, old, new) == [j \in DOMAIN l |-> IF l[j] = old THEN new ELSE l[j]]

(* The memory after old was freed and new allocated                        *)
Reallocated(ent, old, new, r) == [[ent EXCEPT ![old] = NULL] EXCEPT ![new] = r]

(* An entry changes and moves to free memory.                              *)
LEMMA MemoryMoved ==
    ASSUME NEW l, NEW ent, MemoryOK(l, ent), NEW m \in 1..Len(l), NEW r \in EntryType,
           NEW new \in Entries, ent[new] = NULL,
           NEW k, k = Renamed(l, l[m], new),
           NEW moved, moved = Reallocated(ent, l[m], new, r)
    PROVE  /\ MemoryOK(k, moved) /\ Len(k) = Len(l)
           /\ Replaced(Len(l), l, m, new, k) /\ Replaced(Len(l), View(l, ent), m, r, View(k, moved))
<1>1. /\ l \in Seq(Entries) /\ ent \in [Entries -> EntryType \cup {NULL}] /\ l[m] \in Entries
      /\ Len(l) \in Nat /\ DOMAIN l = 1..Len(l)
  BY ViewIs DEF MemoryOK
<1>2. \A j \in 1..Len(l) : l[j] \in Entries /\ (l[j] = l[m] => j = m) /\ l[j] # new
  BY <1>1, ElementOfSeq DEF MemoryOK
<1>3. /\ moved \in [Entries -> EntryType \cup {NULL}] /\ moved[l[m]] = NULL /\ moved[new] = r
      /\ r # NULL /\ l[m] # new
      /\ \A x \in Entries : x # l[m] /\ x # new => moved[x] = ent[x]
  BY <1>1, <1>2, NullIs DEF Reallocated
<1>4. \A j \in 1..Len(l) : k[j] = IF j = m THEN new ELSE l[j]
  BY <1>1, <1>2 DEF Renamed
<1>5. k \in Seq(Entries) /\ Len(k) = Len(l)
  <2>1. k \in [1..Len(l) -> Entries]
    BY <1>1, <1>2 DEF Renamed
  <2> QED
    BY <1>1, <2>1
<1>6. ASSUME NEW x \in Entries PROVE moved[x] # NULL <=> \E j \in 1..Len(k) : k[j] = x
  <2>1. CASE x = new
    BY <1>3, <1>4, <1>5, <2>1
  <2>2. CASE x = l[m]
    BY <1>2, <1>3, <1>4, <1>5, <2>2
  <2>3. CASE x # new /\ x # l[m]
    <3>1. moved[x] # NULL <=> \E j \in 1..Len(l) : l[j] = x
      BY <1>3, <2>3 DEF MemoryOK
    <3>2. (\E j \in 1..Len(l) : l[j] = x) <=> \E j \in 1..Len(k) : k[j] = x
      BY <1>4, <1>5, <2>3
    <3> QED
      BY <3>1, <3>2
  <2> QED
    BY <2>1, <2>2, <2>3
<1>7. \A x, y \in 1..Len(k) : k[x] = k[y] => x = y
  BY <1>2, <1>4, <1>5 DEF MemoryOK
<1>8. MemoryOK(k, moved)
  BY <1>3, <1>5, <1>6, <1>7 DEF MemoryOK
<1>9. ASSUME NEW j \in 1..Len(l)
      PROVE  View(k, moved)[j] = IF j = m THEN r ELSE View(l, ent)[j]
  BY <1>2, <1>3, <1>4, <1>5 DEF View
<1> QED
  BY <1>4, <1>5, <1>8, <1>9 DEF Replaced

-----------------------------------------------------------------------------
(* The inductive invariant                                                 *)

Shown == View(list, entry)
ShownJobs == ViewJobs(Len(list), Shown)

(* The entry whose jobs are executed is the first one, and is due.         *)
RoundOK ==
    /\ tw \in Entries \cup {NULL} /\ i \in Nat /\ lag \in 0..MaxLag
    /\ tw = NULL => i = 0 /\ lag = 0
    /\ tw # NULL => 1 \in 1..Len(list) /\ list[1] = tw /\ entry[tw].due <= -lag

Inv ==
    /\ MemoryOK(list, entry)
    /\ ViewOK(Len(list), Shown)
    /\ accepted \subseteq Jobs /\ ShownJobs \subseteq accepted
    /\ RoundOK

(* Jobs leave the view when they are removed, and only then.               *)
Leaves == ShownJobs \ ShownJobs' = ShownJobs \cap (accepted \ accepted')

(* What the view shows of an entry.                                        *)
LEMMA ShownIs ==
    ASSUME Inv
    PROVE  /\ Len(list) \in Nat /\ DOMAIN list = 1..Len(list)
           /\ \A m \in 1..Len(list) :
                 /\ list[m] \in Entries /\ Shown[m] = entry[list[m]] /\ EntryOK(Shown[m])
                 /\ Shown[m] \in EntryType /\ Shown[m].due \in Int
                 /\ Shown[m].interval \in 0..(Modulus - 1) /\ Shown[m].jobs \in Seq(Jobs)
<1>1. Len(list) \in Nat /\ DOMAIN list = 1..Len(list)
  BY LenProperties DEF Inv, MemoryOK
<1>2. ASSUME NEW m \in 1..Len(list)
      PROVE  list[m] \in Entries /\ Shown[m] = entry[list[m]] /\ EntryOK(Shown[m])
  BY ViewIs DEF Inv, ViewOK, Shown
<1>3. ASSUME NEW m \in 1..Len(list)
      PROVE  /\ Shown[m] \in EntryType /\ Shown[m].due \in Int
             /\ Shown[m].interval \in 0..(Modulus - 1) /\ Shown[m].jobs \in Seq(Jobs)
  <2>1. Shown[m] \in EntryType
    BY <1>2 DEF EntryOK
  <2> QED
    BY <2>1 DEF EntryType
<1> QED
  BY <1>1, <1>2, <1>3

(* An entry that is allocated has one position in the list.                *)
LEMMA PositionIs ==
    ASSUME Inv, NEW e \in Listed
    PROVE  /\ Position(e) \in 1..Len(list) /\ list[Position(e)] = e
           /\ \A m \in 1..Len(list) : list[m] = e => m = Position(e)
<1>1. \E m \in DOMAIN list : list[m] = e
  BY DEF Listed
<1>2. Position(e) \in DOMAIN list /\ list[Position(e)] = e
  BY <1>1 DEF Position
<1> QED
  BY <1>2, ShownIs DEF Inv, MemoryOK

(* There is a place for an entry that is due at t, before the first one    *)
(* that is due later.                                                      *)
LEMMA LeadingIs ==
    ASSUME Inv, NEW t \in Int
    PROVE  /\ Leading(t) \in 0..Len(list)
           /\ \A k \in 1..Leading(t) : Shown[k].due <= t
           /\ Leading(t) < Len(list) => Shown[Leading(t) + 1].due > t
<1> DEFINE Good(n) == /\ \A k \in 1..n : entry[list[k]].due <= t
                      /\ n < Len(list) => entry[list[n + 1]].due > t
           T == {n \in 0..Len(list) : n < Len(list) => entry[list[n + 1]].due > t}
<1>0. Len(list) \in Nat /\ \A m \in 1..Len(list) : entry[list[m]] = Shown[m] /\ Shown[m].due \in Int
  BY ShownIs
<1>1. \E n \in 0..Len(list) : Good(n)
  <2>1. T \subseteq Nat /\ Len(list) \in T
    BY <1>0
  <2>2. PICK n \in T : \A m \in T : n <= m
    <3>1. T # {}
      BY <2>1
    <3> HIDE DEF T
    <3> QED
      BY <2>1, <3>1, LeastElement
  <2>3. ASSUME NEW k \in 1..n PROVE entry[list[k]].due <= t
    <3>1. k - 1 \in 0..Len(list) /\ k - 1 < n /\ (k - 1) + 1 = k /\ k \in 1..Len(list)
      BY <1>0
    <3>2. k - 1 \notin T
      <4>1. n \in Int /\ k - 1 \in Int /\ ~(n <= k - 1)
        BY <1>0, <2>1, <3>1
      <4> HIDE DEF T
      <4> QED
        BY <2>2, <4>1
    <3>3. ~(entry[list[k]].due > t)
      BY <3>1, <3>2
    <3> QED
      BY <1>0, <3>1, <3>3
  <2> QED
    BY <2>3
<1>2. Leading(t) = CHOOSE n \in 0..Len(list) : Good(n)
  BY DEF Leading
<1>3. Leading(t) \in 0..Len(list) /\ Good(Leading(t))
  BY <1>1, <1>2
<1>4. \A k \in 1..Leading(t) : k \in 1..Len(list)
  BY <1>0, <1>3
<1>5. Leading(t) < Len(list) => Leading(t) + 1 \in 1..Len(list)
  BY <1>0, <1>3
<1> QED
  BY <1>0, <1>3, <1>4, <1>5

(* The jobs that are listed are those of the view.                         *)
LEMMA ListedJobsAre ==
    ASSUME Inv
    PROVE  ListedJobs = ShownJobs
<1>1. \A e \in Listed : entry[e] # NULL
  BY ShownIs DEF Listed, Inv, MemoryOK
<1>2. Listed = {list[m] : m \in 1..Len(list)}
  BY ShownIs DEF Listed
<1>3. ASSUME NEW m \in 1..Len(list) PROVE JobsOf(list[m]) = JobsAt(Shown[m])
  <2>1. Shown[m] = entry[list[m]] /\ Shown[m].jobs \in Seq(Jobs)
    BY ShownIs
  <2>2. DOMAIN Shown[m].jobs = 1..Len(Shown[m].jobs)
    BY <2>1, LenProperties
  <2> QED
    BY <2>1, <2>2 DEF JobsOf, JobsAt
<1>4. ListedJobs = UNION {JobsOf(e) : e \in Listed}
  BY <1>1 DEF ListedJobs
<1> QED
  BY <1>2, <1>3, <1>4 DEF ShownJobs, ViewJobs

(* A job joins those of an entry.                                          *)
LEMMA AppendedIs ==
    ASSUME NEW r, EntryOK(r), NEW job \in Jobs, job \notin JobsAt(r)
    PROVE  LET s == [r EXCEPT !.jobs = Append(r.jobs, job)]
           IN  /\ EntryOK(s) /\ s.due = r.due /\ s.interval = r.interval
               /\ JobsAt(s) = JobsAt(r) \cup {job}
<1> DEFINE jobs == Append(r.jobs, job)
           s == [r EXCEPT !.jobs = jobs]
<1>1. r \in EntryType /\ r.jobs \in Seq(Jobs) /\ Len(r.jobs) \in Nat
  BY DEF EntryOK, EntryType
<1>2. /\ jobs \in Seq(Jobs) /\ Len(jobs) = Len(r.jobs) + 1 /\ jobs # <<>>
      /\ \A k \in 1..Len(r.jobs) : jobs[k] = r.jobs[k]
      /\ jobs[Len(r.jobs) + 1] = job
  BY <1>1, AppendProperties
<1> HIDE DEF jobs
<1>3. s \in EntryType /\ s.jobs = jobs /\ s.due = r.due /\ s.interval = r.interval
  BY <1>1, <1>2 DEF EntryType
<1> HIDE DEF s
<1>4. \A k \in 1..Len(jobs) : k \in 1..Len(r.jobs) \/ k = Len(r.jobs) + 1
  BY <1>1, <1>2
<1>5. \A k \in 1..Len(r.jobs) : r.jobs[k] # job /\ k \in 1..Len(jobs)
  BY <1>1, <1>2 DEF JobsAt
<1>6. Len(r.jobs) + 1 \in 1..Len(jobs)
  BY <1>1, <1>2
<1>7. ASSUME NEW j \in 1..Len(jobs), NEW k \in 1..Len(jobs), jobs[j] = jobs[k] PROVE j = k
  BY <1>2, <1>4, <1>5, <1>7 DEF EntryOK
<1>8. JobsAt(s) = JobsAt(r) \cup {job}
  <2>1. ASSUME NEW x \in JobsAt(s) PROVE x \in JobsAt(r) \cup {job}
    BY <1>2, <1>3, <1>4, <2>1 DEF JobsAt
  <2>2. ASSUME NEW x \in JobsAt(r) \cup {job} PROVE x \in JobsAt(s)
    BY <1>2, <1>3, <1>5, <1>6, <2>2 DEF JobsAt
  <2> QED
    BY <2>1, <2>2
<1> QED
  BY <1>2, <1>3, <1>7, <1>8 DEF EntryOK, s, jobs

(* A job that is not the last one of its entry is removed from it.         *)
LEMMA OverwrittenIs ==
    ASSUME NEW r, EntryOK(r), NEW k \in 1..Len(r.jobs), Len(r.jobs) # 1
    PROVE  LET s == [r EXCEPT !.jobs = Overwritten(r.jobs, k)]
           IN  /\ EntryOK(s) /\ s.due = r.due /\ s.interval = r.interval
               /\ JobsAt(s) = JobsAt(r) \ {r.jobs[k]}
<1> DEFINE n == Len(r.jobs)
           ex == [r.jobs EXCEPT ![k] = r.jobs[n]]
           jobs == Overwritten(r.jobs, k)
           s == [r EXCEPT !.jobs = jobs]
<1>1. r \in EntryType /\ r.jobs \in Seq(Jobs) /\ n \in Nat /\ n > 1
  <2>1. r \in EntryType /\ r.jobs \in Seq(Jobs) /\ r.jobs # <<>>
    BY DEF EntryOK, EntryType
  <2>2. n \in Nat \ {0} /\ n # 1
    BY <2>1, EmptySeq
  <2> HIDE DEF n
  <2> QED
    BY <2>1, <2>2
<1>2. n \in 1..n /\ r.jobs[n] \in Jobs
  BY <1>1, ElementOfSeq
<1>3. /\ ex \in Seq(Jobs) /\ Len(ex) = n
      /\ \A j \in 1..n : ex[j] = IF j = k THEN r.jobs[n] ELSE r.jobs[j]
  BY <1>1, <1>2, ExceptSeq
<1>4. jobs = SubSeq(ex, 1, n - 1)
  BY <1>3 DEF Overwritten
<1> HIDE DEF ex, jobs
<1>5. /\ jobs \in Seq(Jobs) /\ Len(jobs) = n - 1
      /\ \A j \in 1..(n - 1) : jobs[j] = IF j = k THEN r.jobs[n] ELSE r.jobs[j]
  <2>1. 1 \in Int /\ n - 1 \in Int
    BY <1>1
  <2>2. \A j \in 1..(n - 1) : ex[j] \in Jobs
    BY <1>1, <1>3, ElementOfSeq
  <2>3. /\ SubSeq(ex, 1, n - 1) \in Seq(Jobs)
        /\ Len(SubSeq(ex, 1, n - 1)) = IF 1 <= n - 1 THEN (n - 1) - 1 + 1 ELSE 0
        /\ \A j \in 1..((n - 1) - 1 + 1) : SubSeq(ex, 1, n - 1)[j] = ex[1 + j - 1]
    BY <2>1, <2>2, SubSeqProperties
  <2> QED
    BY <1>1, <1>3, <1>4, <2>3
<1>6. s \in EntryType /\ s.jobs = jobs /\ s.due = r.due /\ s.interval = r.interval
  BY <1>1, <1>5 DEF EntryType
<1> HIDE DEF s
<1>7. jobs # <<>>
  BY <1>1, <1>5
<1>8. \A x, y \in 1..n : r.jobs[x] = r.jobs[y] => x = y
  BY DEF EntryOK
<1>9. ASSUME NEW x \in 1..(n - 1), NEW y \in 1..(n - 1), jobs[x] = jobs[y] PROVE x = y
  <2>1. x \in 1..n /\ y \in 1..n /\ x # n /\ y # n
    BY <1>1
  <2> QED
    BY <1>2, <1>5, <1>8, <1>9, <2>1
<1>10. JobsAt(s) = JobsAt(r) \ {r.jobs[k]}
  <2>1. ASSUME NEW job \in JobsAt(s) PROVE job \in JobsAt(r) \ {r.jobs[k]}
    <3>1. PICK x \in 1..(n - 1) : job = jobs[x]
      BY <1>5, <1>6 DEF JobsAt
    <3>2. x \in 1..n /\ x # n
      BY <1>1
    <3>3. CASE x = k
      BY <1>2, <1>5, <1>8, <3>1, <3>2, <3>3 DEF JobsAt
    <3>4. CASE x # k
      BY <1>5, <1>8, <3>1, <3>2, <3>4 DEF JobsAt
    <3> QED
      BY <3>3, <3>4
  <2>2. ASSUME NEW x \in 1..n, x # k PROVE r.jobs[x] \in JobsAt(s)
    <3>1. CASE x = n
      <4>1. k \in 1..(n - 1)
        BY <1>1, <2>2, <3>1
      <4>2. jobs[k] = r.jobs[x]
        BY <1>5, <3>1, <4>1
      <4> QED
        BY <1>5, <1>6, <4>1, <4>2 DEF JobsAt
    <3>2. CASE x # n
      <4>1. x \in 1..(n - 1)
        BY <1>1, <3>2
      <4>2. jobs[x] = r.jobs[x]
        BY <1>5, <2>2, <4>1
      <4> QED
        BY <1>5, <1>6, <4>1, <4>2 DEF JobsAt
    <3> QED
      BY <3>1, <3>2
  <2>3. ASSUME NEW job \in JobsAt(r), job # r.jobs[k] PROVE job \in JobsAt(s)
    <3>1. PICK x \in 1..n : job = r.jobs[x]
      BY DEF JobsAt
    <3> QED
      BY <2>2, <2>3, <3>1
  <2> QED
    BY <2>1, <2>3
<1> QED
  BY <1>5, <1>6, <1>7, <1>9, <1>10 DEF EntryOK, s, jobs

-----------------------------------------------------------------------------
(* Jobs are added                                                          *)

(* What the search of addRepeatedJob finds has the interval; what it does  *)
(* not find, because it gives up, has another.                             *)
LEMMA SearchIsComplete ==
    ASSUME Inv, NEW ms \in Nat, Matching(ms) = {}, NEW k \in 1..Len(list)
    PROVE  Shown[k].interval # Interval(ms)
<1> DEFINE n == Leading(FirstTime(ms))
<1>1. /\ n \in 0..Len(list) /\ (n < Len(list) => Shown[n + 1].due > FirstTime(ms))
      /\ Interval(ms) \in 0..(Modulus - 1) /\ FirstTime(ms) = Interval(ms)
  <2>1. Interval(ms) \in 0..(Modulus - 1) /\ FirstTime(ms) = Interval(ms)
    BY IntervalIs DEF FirstTime
  <2>2. Interval(ms) \in Int
    BY <2>1
  <2> QED
    BY <2>1, <2>2, LeadingIs
<1> HIDE DEF n
<1>2. /\ Len(list) \in Nat /\ DOMAIN list = 1..Len(list)
      /\ Shown[k] = entry[list[k]] /\ Shown[k].interval \in Int /\ Shown[k].due \in Int
      /\ Shown[k].due <= Shown[k].interval
  BY ShownIs DEF EntryOK
<1>3. CASE k \in 1..(n + 1)
  BY <1>2, <1>3 DEF Matching, n
<1>4. CASE k \notin 1..(n + 1)
  <2>1. n + 1 \in 1..Len(list) /\ n + 1 < k /\ n < Len(list)
    BY <1>1, <1>2, <1>4
  <2>2. Shown[n + 1].due <= Shown[k].due /\ Shown[n + 1].due \in Int
    BY <2>1, ShownIs DEF Inv, ViewOK
  <2>3. Shown[k].due > FirstTime(ms)
    BY <1>1, <1>2, <2>1, <2>2
  <2> QED
    BY <1>1, <1>2, <2>3
<1> QED
  BY <1>3, <1>4

(* The first job with its interval: a new entry, behind the one whose jobs *)
(* are executed.                                                           *)
LEMMA NewEntryStep ==
    ASSUME Inv, NEW job \in Jobs, NEW ms \in Nat, job \notin accepted,
           NewEntry(job, ms), UNCHANGED <<tw, i, lag>>
    PROVE  Inv' /\ Leaves
<1> DEFINE t == FirstTime(ms)
           r == [due |-> t, interval |-> Interval(ms), jobs |-> <<job>>]
           m == Leading(t) + 1
<1>1. PICK e \in Entries :
         /\ entry[e] = NULL
         /\ list' = InsertAt(list, m, e)
         /\ entry' = [entry EXCEPT ![e] = r]
  BY DEF NewEntry, FreeEntries, Inserted
<1>2. accepted' = accepted \cup {job} /\ Matching(ms) = {}
  BY DEF NewEntry
<1>3. t = Interval(ms) /\ t \in 0..(Modulus - 1) /\ t \in Int /\ t >= 0
  BY IntervalIs, UnitAssumption DEF FirstTime
<1>4. /\ Leading(t) \in 0..Len(list)
      /\ \A k \in 1..Leading(t) : Shown[k].due <= t
      /\ Leading(t) < Len(list) => Shown[Leading(t) + 1].due > t
  BY <1>3, LeadingIs
<1> HIDE DEF t
<1>5. /\ r \in EntryType /\ r.due = t /\ r.interval = t /\ r.jobs = <<job>>
  BY <1>3 DEF EntryType
<1> HIDE DEF r
<1>6. EntryOK(r) /\ JobsAt(r) = {job}
  BY <1>3, <1>5 DEF EntryOK, JobsAt
<1>7. Len(list) \in Nat /\ m \in 1..(Len(list) + 1)
  BY <1>4, ShownIs
<1>8. ASSUME NEW k \in 1..Len(list)
      PROVE  (k < m => Shown[k].due <= r.due) /\ (k >= m => r.due <= Shown[k].due)
  <2>1. CASE k < m
    <3>1. k \in 1..Leading(t) /\ ~(k >= m)
      BY <1>4, <1>7, <2>1
    <3> QED
      BY <1>4, <1>5, <3>1
  <2>2. CASE k >= m
    <3>1. /\ Leading(t) < Len(list) /\ m \in 1..Len(list) /\ (m < k \/ m = k) /\ ~(k < m)
      BY <1>4, <1>7, <2>2
    <3>2. Shown[m].due \in Int /\ Shown[k].due \in Int
      BY <3>1, ShownIs
    <3>3. t < Shown[m].due /\ Shown[m].due <= Shown[k].due
      BY <1>3, <1>4, <3>1, <3>2 DEF Inv, ViewOK
    <3> QED
      BY <1>3, <1>5, <3>1, <3>2, <3>3
  <2> QED
    BY <1>7, <2>1, <2>2
<1>9. \A k \in 1..Len(list) : Shown[k].interval # r.interval
  BY <1>2, <1>3, <1>5, SearchIsComplete
<1>10. JobsAt(r) \cap ShownJobs = {}
  BY <1>6 DEF Inv
<1>11. MemoryOK(list, entry) /\ ViewOK(Len(list), Shown)
  BY DEF Inv
<1> HIDE DEF m
<1>12. /\ MemoryOK(list', entry') /\ Len(list') = Len(list) + 1
       /\ PutIn(Len(list), list, m, e, list') /\ PutIn(Len(list), Shown, m, r, Shown')
  <2>1. View(list', entry') = Shown' /\ View(list, entry) = Shown
    BY DEF Shown
  <2> QED
    BY <1>1, <1>5, <1>7, <1>11, <2>1, MemoryInserted
<1>13. /\ ViewOK(Len(list) + 1, Shown')
       /\ ViewJobs(Len(list) + 1, Shown') = ViewJobs(Len(list), Shown) \cup JobsAt(r)
  <2>1. FitsIn(Len(list), Shown, m, r)
    BY <1>8, <1>9, <1>10 DEF FitsIn, ShownJobs
  <2> QED
    BY <1>6, <1>7, <1>11, <1>12, <2>1, ViewInserted
<1>14. ViewOK(Len(list'), Shown') /\ ShownJobs' = ShownJobs \cup {job}
  BY <1>6, <1>12, <1>13 DEF ShownJobs
<1>15. RoundOK'
  <2> SUFFICES ASSUME tw # NULL PROVE 1 \in 1..Len(list') /\ list'[1] = tw /\ entry'[tw].due <= -lag
    BY DEF Inv, RoundOK
  <2>1. 1 \in 1..Len(list) /\ list[1] = tw /\ entry[tw].due <= -lag /\ lag \in Nat
    BY DEF Inv, RoundOK
  <2>2. Shown[1].due <= -lag /\ Shown[1].due \in Int /\ entry[tw] # NULL /\ tw \in Entries
    BY <2>1, ShownIs DEF Inv, MemoryOK
  <2>3. 1 < m
    <3> SUFFICES ASSUME m = 1 PROVE FALSE
      BY <1>7
    <3>1. Leading(t) = 0 /\ Leading(t) < Len(list) /\ Leading(t) + 1 = 1
      BY <1>4, <1>7, <2>1 DEF m
    <3>2. Shown[1].due > t
      BY <1>4, <3>1
    <3> QED
      BY <1>3, <2>1, <2>2, <3>2
  <2>4. 1 \in 1..(Len(list) + 1) /\ tw # e
    BY <1>1, <1>7, <2>2
  <2>5. entry'[tw] = entry[tw]
    BY <1>1, <2>2, <2>4, <1>11 DEF MemoryOK
  <2> QED
    BY <1>12, <2>1, <2>3, <2>4, <2>5 DEF PutIn
<1>16. accepted' \subseteq Jobs /\ ShownJobs' \subseteq accepted'
  BY <1>2, <1>14 DEF Inv
<1> QED
  BY <1>2, <1>12, <1>14, <1>15, <1>16 DEF Inv, Leaves

(* A job joins the entry of its interval, which is not the one whose jobs  *)
(* are executed.                                                           *)
LEMMA JoinStep ==
    ASSUME Inv, ~OwnEntry, NEW job \in Jobs, NEW ms \in Nat, job \notin accepted,
           Join(job, ms), UNCHANGED <<tw, i, lag>>
    PROVE  Inv' /\ Leaves
<1>1. PICK e \in Matching(ms), new \in Entries :
         /\ e # tw
         /\ new = e \/ new \in FreeEntries
         /\ list' = [k \in DOMAIN list |-> IF list[k] = e THEN new ELSE list[k]]
         /\ entry' = [[entry EXCEPT ![e] = NULL] EXCEPT
                         ![new] = [entry[e] EXCEPT !.jobs = Append(@, job)]]
         /\ accepted' = accepted \cup {job}
  BY DEF Join, MayChange
<1>2. PICK m \in 1..Len(list) : list[m] = e
  BY ShownIs DEF Matching
<1> DEFINE r == [Shown[m] EXCEPT !.jobs = Append(Shown[m].jobs, job)]
<1>3. /\ MemoryOK(list, entry) /\ ViewOK(Len(list), Shown) /\ job \notin ShownJobs
      /\ EntryOK(Shown[m]) /\ Shown[m] = entry[e] /\ Shown[m] \in EntryType /\ e \in Entries
      /\ Len(list) \in Nat
  BY <1>2, ShownIs DEF Inv
<1>4. job \notin JobsAt(Shown[m])
  BY <1>3 DEF ShownJobs, ViewJobs
<1>5. /\ EntryOK(r) /\ r.due = Shown[m].due /\ r.interval = Shown[m].interval
      /\ JobsAt(r) = JobsAt(Shown[m]) \cup {job}
  BY <1>3, <1>4, AppendedIs
<1>6. entry' = [[entry EXCEPT ![e] = NULL] EXCEPT ![new] = r]
  BY <1>1, <1>3
<1> HIDE DEF r
<1>7. r \in EntryType
  BY <1>5 DEF EntryOK
<1>8. View(list', entry') = Shown' /\ View(list, entry) = Shown
  BY DEF Shown
<1>9. /\ MemoryOK(list', entry') /\ Len(list') = Len(list)
      /\ Replaced(Len(list), list, m, new, list') /\ Replaced(Len(list), Shown, m, r, Shown')
  <2>1. CASE new = e
    <3>1. list' = list
      <4>1. list' = [k \in DOMAIN list |-> list[k]]
        BY <1>1, <2>1
      <4> QED
        BY <1>3, <4>1 DEF MemoryOK
    <3>2. entry' = [entry EXCEPT ![list[m]] = r]
      BY <1>2, <1>3, <1>6, <2>1 DEF MemoryOK
    <3>3. MemoryOK(list, entry') /\ Replaced(Len(list), View(list, entry), m, r, View(list, entry'))
      BY <1>3, <1>7, <3>2, MemoryReplaced
    <3>4. Replaced(Len(list), list, m, new, list)
      BY <1>2, <2>1 DEF Replaced
    <3>5. View(list, entry') = Shown'
      BY <3>1 DEF Shown
    <3>6. Replaced(Len(list), Shown, m, r, Shown')
      BY <1>8, <3>3, <3>5
    <3>7. MemoryOK(list', entry') /\ Len(list') = Len(list) /\ Replaced(Len(list), list, m, new, list')
      BY <3>1, <3>3, <3>4
    <3> QED
      BY <3>6, <3>7
  <2>2. CASE new # e
    <3>1. entry[new] = NULL
      BY <1>1, <2>2 DEF FreeEntries
    <3>2. /\ list' = Renamed(list, list[m], new)
          /\ entry' = Reallocated(entry, list[m], new, r)
      BY <1>1, <1>2, <1>6 DEF Renamed, Reallocated
    <3>3. m \in 1..Len(list) /\ new \in Entries
      BY <1>1, <1>2
    <3>4. /\ MemoryOK(list', entry') /\ Len(list') = Len(list)
          /\ Replaced(Len(list), list, m, new, list')
          /\ Replaced(Len(list), View(list, entry), m, r, View(list', entry'))
      BY <1>3, <1>7, <3>1, <3>2, <3>3, MemoryMoved
    <3> QED
      BY <1>8, <3>4
  <2> QED
    BY <2>1, <2>2
<1>10. FitsFor(Len(list), Shown, m, r)
  <2> SUFFICES ASSUME NEW k \in 1..Len(list), k # m PROVE JobsAt(r) \cap JobsAt(Shown[k]) = {}
    BY <1>5 DEF FitsFor
  <2>1. job \notin JobsAt(Shown[k])
    BY <1>3 DEF ShownJobs, ViewJobs
  <2>2. JobsAt(Shown[m]) \cap JobsAt(Shown[k]) = {}
    BY <1>3 DEF ViewOK
  <2> QED
    BY <1>5, <2>1, <2>2
<1>11. /\ ViewOK(Len(list), Shown')
       /\ ViewJobs(Len(list), Shown') = (ViewJobs(Len(list), Shown) \ JobsAt(Shown[m])) \cup JobsAt(r)
  BY <1>3, <1>5, <1>9, <1>10, ViewReplaced
<1>12. ViewOK(Len(list'), Shown') /\ ShownJobs' = ShownJobs \cup {job}
  <2>1. JobsAt(Shown[m]) \subseteq ShownJobs
    BY DEF ShownJobs, ViewJobs
  <2> QED
    BY <1>5, <1>9, <1>11, <2>1 DEF ShownJobs
<1>13. RoundOK'
  <2> SUFFICES ASSUME tw # NULL PROVE 1 \in 1..Len(list') /\ list'[1] = tw /\ entry'[tw].due <= -lag
    BY DEF Inv, RoundOK
  <2>1. 1 \in 1..Len(list) /\ list[1] = tw /\ entry[tw].due <= -lag
    BY DEF Inv, RoundOK
  <2>2. m # 1
    BY <1>1, <1>2, <2>1
  <2>3. entry[tw] # NULL /\ tw \in Entries /\ tw # new
    BY <1>1, <2>1, ShownIs DEF Inv, MemoryOK, FreeEntries
  <2>4. entry'[tw] = entry[tw]
    BY <1>1, <1>3, <2>3 DEF MemoryOK
  <2> QED
    BY <1>9, <2>1, <2>2, <2>4 DEF Replaced
<1>14. accepted' \subseteq Jobs /\ ShownJobs' \subseteq accepted'
  BY <1>1, <1>12 DEF Inv
<1> QED
  BY <1>1, <1>9, <1>12, <1>13, <1>14 DEF Inv, Leaves

(* A job is added, or there is no memory and it is accepted all the same.  *)
LEMMA AddStep ==
    ASSUME Inv, ~OwnEntry, NEW job \in Jobs, NEW ms \in Requests, AddRepeatedJob(job, ms)
    PROVE  Inv' /\ Leaves
<1>1. ms \in Nat /\ job \notin accepted /\ UNCHANGED <<tw, i, lag>>
  BY RequestAssumption DEF AddRepeatedJob
<1>2. CASE NoMemory(job, ms)
  BY <1>1, <1>2 DEF NoMemory, Inv, RoundOK, Leaves, ShownJobs, Shown
<1> QED
  BY <1>1, <1>2, JoinStep, NewEntryStep DEF AddRepeatedJob

-----------------------------------------------------------------------------
(* Jobs are removed                                                        *)

(* A job is removed: the entry goes with its last job, unless it is the    *)
(* one whose jobs are executed.                                            *)
LEMMA RemoveStep ==
    ASSUME Inv, ~OwnEntry, NEW job \in Jobs, RemoveRepeatedJob(job)
    PROVE  Inv' /\ Leaves
<1>1. PICK e \in Listed :
         /\ e # tw
         /\ \E k \in DOMAIN entry[e].jobs :
               /\ entry[e].jobs[k] = job
               /\ IF Len(entry[e].jobs) = 1
                  THEN list' = Without(e) /\ entry' = FreedEntry(e)
                  ELSE entry' = [entry EXCEPT ![e].jobs = Overwritten(@, k)] /\ UNCHANGED list
  BY DEF RemoveRepeatedJob, MayChange
<1>2. PICK k \in DOMAIN entry[e].jobs :
         /\ e # tw
         /\ entry[e].jobs[k] = job
         /\ IF Len(entry[e].jobs) = 1
            THEN list' = Without(e) /\ entry' = FreedEntry(e)
            ELSE entry' = [entry EXCEPT ![e].jobs = Overwritten(@, k)] /\ UNCHANGED list
  BY <1>1
<1>3. accepted' = accepted \ {job} /\ UNCHANGED <<tw, i, lag>>
  BY DEF RemoveRepeatedJob
<1> DEFINE m == Position(e)
<1>4. m \in 1..Len(list) /\ list[m] = e
  BY PositionIs
<1> HIDE DEF m
<1>5. /\ MemoryOK(list, entry) /\ ViewOK(Len(list), Shown)
      /\ EntryOK(Shown[m]) /\ Shown[m] = entry[e] /\ Shown[m] \in EntryType /\ e \in Entries
      /\ Len(list) \in Nat /\ Shown[m].jobs \in Seq(Jobs)
  BY <1>4, ShownIs DEF Inv
<1>6. /\ k \in 1..Len(Shown[m].jobs) /\ Shown[m].jobs[k] = job
      /\ job \in JobsAt(Shown[m])
  <2>1. k \in 1..Len(Shown[m].jobs) /\ Shown[m].jobs[k] = job
    BY <1>2, <1>5, LenProperties
  <2> QED
    BY <2>1 DEF JobsAt
<1>7. JobsAt(Shown[m]) \subseteq ShownJobs
  BY <1>4 DEF ShownJobs, ViewJobs
<1>8. View(list', entry') = Shown' /\ View(list, entry) = Shown
  BY DEF Shown
<1>9. ASSUME MemoryOK(list', entry'), ViewOK(Len(list'), Shown'), ShownJobs' = ShownJobs \ {job},
             tw # NULL => 1 \in 1..Len(list') /\ list'[1] = list[1] /\ entry'[tw] = entry[tw]
      PROVE  Inv' /\ Leaves
  <2>1. RoundOK'
    BY <1>3, <1>9 DEF Inv, RoundOK
  <2>2. accepted' \subseteq Jobs /\ ShownJobs' \subseteq accepted'
    BY <1>3, <1>9 DEF Inv
  <2>3. job \in accepted
    BY <1>6, <1>7 DEF Inv
  <2> QED
    BY <1>3, <1>6, <1>7, <1>9, <2>1, <2>2, <2>3 DEF Inv, Leaves
<1>10. tw # NULL => 1 \in 1..Len(list) /\ list[1] = tw /\ tw \in Entries /\ m # 1
  BY <1>2, <1>4, ShownIs DEF Inv, RoundOK
<1>11. CASE Len(entry[e].jobs) = 1
  <2>1. list' = RemoveAt(list, m) /\ entry' = [entry EXCEPT ![list[m]] = NULL]
    BY <1>2, <1>4, <1>11 DEF Without, FreedEntry, m
  <2>2. /\ MemoryOK(list', entry') /\ Len(list') = Len(list) - 1
        /\ TakenOut(Len(list), list, m, list') /\ TakenOut(Len(list), Shown, m, Shown')
    BY <1>4, <1>5, <1>8, <2>1, MemoryRemoved
  <2>3. /\ ViewOK(Len(list) - 1, Shown')
        /\ ViewJobs(Len(list) - 1, Shown') = ViewJobs(Len(list), Shown) \ JobsAt(Shown[m])
    BY <1>4, <1>5, <2>2, ViewRemoved
  <2>4. JobsAt(Shown[m]) = {job}
    <3>1. Len(Shown[m].jobs) = 1
      BY <1>5, <1>11
    <3>2. 1..Len(Shown[m].jobs) = {k}
      BY <1>6, <3>1
    <3> QED
      BY <1>6, <3>2 DEF JobsAt
  <2>5. ASSUME tw # NULL PROVE 1 \in 1..Len(list') /\ list'[1] = list[1] /\ entry'[tw] = entry[tw]
    <3>1. 1 \in 1..(Len(list) - 1) /\ 1 < m
      BY <1>4, <1>5, <1>10, <2>5
    <3>2. list'[1] = list[1]
      BY <2>2, <3>1 DEF TakenOut
    <3>3. entry'[tw] = entry[tw]
      BY <1>2, <1>4, <1>5, <1>10, <2>1, <2>5 DEF MemoryOK
    <3> QED
      BY <2>2, <3>1, <3>2, <3>3
  <2>6. ShownJobs' = ShownJobs \ {job}
    BY <2>2, <2>3, <2>4 DEF ShownJobs
  <2> QED
    BY <1>9, <2>2, <2>3, <2>5, <2>6
<1>12. CASE Len(entry[e].jobs) # 1
  <2> DEFINE r == [Shown[m] EXCEPT !.jobs = Overwritten(Shown[m].jobs, k)]
  <2>1. list' = list /\ entry' = [entry EXCEPT ![list[m]] = r]
    BY <1>2, <1>4, <1>5, <1>12
  <2>2. /\ EntryOK(r) /\ r.due = Shown[m].due /\ r.interval = Shown[m].interval
        /\ JobsAt(r) = JobsAt(Shown[m]) \ {job}
    BY <1>5, <1>6, <1>12, OverwrittenIs
  <2> HIDE DEF r
  <2>3. r \in EntryType
    BY <2>2 DEF EntryOK
  <2>4. MemoryOK(list, entry') /\ Replaced(Len(list), View(list, entry), m, r, View(list, entry'))
    BY <1>4, <1>5, <2>1, <2>3, MemoryReplaced
  <2>5. View(list, entry') = Shown'
    BY <2>1 DEF Shown
  <2>6. FitsFor(Len(list), Shown, m, r)
    <3> SUFFICES ASSUME NEW j \in 1..Len(list), j # m PROVE JobsAt(r) \cap JobsAt(Shown[j]) = {}
      BY <2>2 DEF FitsFor
    <3>1. JobsAt(Shown[m]) \cap JobsAt(Shown[j]) = {}
      BY <1>4, <1>5 DEF ViewOK
    <3> QED
      BY <2>2, <3>1
  <2>7. /\ ViewOK(Len(list), Shown')
        /\ ViewJobs(Len(list), Shown') = (ViewJobs(Len(list), Shown) \ JobsAt(Shown[m])) \cup JobsAt(r)
    BY <1>4, <1>5, <1>8, <2>2, <2>4, <2>5, <2>6, ViewReplaced
  <2>8. ShownJobs' = ShownJobs \ {job}
    <3>1. Len(list') = Len(list)
      BY <2>1
    <3>2. ShownJobs' = (ShownJobs \ JobsAt(Shown[m])) \cup (JobsAt(Shown[m]) \ {job})
      BY <2>2, <2>7, <3>1 DEF ShownJobs
    <3> QED
      BY <1>6, <1>7, <3>2
  <2>9. ASSUME tw # NULL PROVE 1 \in 1..Len(list') /\ list'[1] = list[1] /\ entry'[tw] = entry[tw]
    BY <1>2, <1>4, <1>5, <1>10, <2>1, <2>9 DEF MemoryOK
  <2> QED
    BY <1>9, <2>1, <2>4, <2>7, <2>8, <2>9
<1> QED
  BY <1>11, <1>12

(* All jobs are removed when the server is deleted.                        *)
LEMMA DeleteAllStep ==
    ASSUME Inv, DeleteAll PROVE Inv' /\ Leaves
<1>1. /\ tw = NULL /\ list' = <<>> /\ accepted' = {} /\ UNCHANGED <<tw, i, lag>>
      /\ entry' = [e \in Entries |-> IF e \in Listed THEN NULL ELSE entry[e]]
  BY DEF DeleteAll
<1>2. /\ entry \in [Entries -> EntryType \cup {NULL}]
      /\ \A e \in Entries : entry[e] # NULL => e \in Listed
  BY ShownIs DEF Inv, MemoryOK, Listed
<1>3. entry' \in [Entries -> EntryType \cup {NULL}] /\ \A e \in Entries : entry'[e] = NULL
  BY <1>1, <1>2
<1>4. MemoryOK(list', entry')
  BY <1>1, <1>3 DEF MemoryOK
<1>5. ViewOK(Len(list'), Shown') /\ ShownJobs' = {}
  BY <1>1 DEF ViewOK, ShownJobs, ViewJobs
<1> QED
  BY <1>1, <1>4, <1>5 DEF Inv, RoundOK, Leaves

-----------------------------------------------------------------------------
(* Jobs are executed                                                       *)

(* A round goes on with the first entry of the list, when that is due.     *)
LEMMA NextEntryStep ==
    ASSUME NEW end, MemoryOK(list', entry'), NextEntry(list', entry', end), RoundOK
    PROVE  RoundOK'
<1>1. CASE tw' = NULL /\ i' = 0 /\ lag' = 0
  BY <1>1, UnitAssumption DEF RoundOK
<1>2. CASE list' # <<>> /\ Due(entry'[list'[1]]) /\ tw' = list'[1] /\ i' = 1 /\ lag' = lag
  <2>1. list' \in Seq(Entries) /\ Len(list') \in Nat /\ Len(list') # 0
    BY <1>2, EmptySeq DEF MemoryOK
  <2>2. 1 \in 1..Len(list')
    BY <2>1
  <2>3. list'[1] \in Entries
    BY <2>1, <2>2, ElementOfSeq
  <2> QED
    BY <1>2, <2>2, <2>3, NullIs DEF RoundOK, Due
<1> QED
  BY <1>1, <1>2 DEF NextEntry

(* A round starts.                                                         *)
LEMMA StartRoundStep ==
    ASSUME Inv, StartRound PROVE Inv' /\ Leaves
<1>1. NextEntry(list', entry', FALSE) /\ UNCHANGED <<list, entry, accepted>>
  BY DEF StartRound, NextEntry
<1>2. RoundOK'
  BY <1>1, NextEntryStep DEF Inv
<1> QED
  BY <1>1, <1>2 DEF Inv, Leaves, ShownJobs, Shown

(* The next job of the entry is executed.                                  *)
LEMMA NextJobStep ==
    ASSUME Inv, NextJob PROVE Inv' /\ Leaves
  BY DEF NextJob, Inv, RoundOK, Leaves, ShownJobs, Shown

(* The first entry has a place behind those that are due before its next   *)
(* time.                                                                   *)
LEMMA ReinsertedIs ==
    ASSUME Inv, NEW ent, NEW r, tw # NULL, ent = [entry EXCEPT ![tw] = r],
           r \in EntryType
    PROVE  \E n \in 1..Len(list) :
              /\ \A k \in 2..n : Shown[k].due <= r.due
              /\ n < Len(list) => Shown[n + 1].due > r.due
              /\ Reinserted(ent) = IF n = 1 THEN list ELSE InsertAt(RemoveAt(list, 1), n, tw)
<1>1. /\ 1 \in 1..Len(list) /\ list[1] = tw /\ Len(list) \in Nat /\ tw \in Entries
      /\ \A m \in 1..Len(list) :
            /\ list[m] \in Entries /\ Shown[m] = entry[list[m]] /\ Shown[m].due \in Int
            /\ list[m] = tw <=> m = 1
  BY ShownIs DEF Inv, RoundOK, MemoryOK
<1>2. ent[tw] = r /\ r.due \in Int
  BY <1>1 DEF Inv, MemoryOK, EntryType
<1>3. ASSUME NEW m \in 1..Len(list), m # 1 PROVE ent[list[m]] = Shown[m]
  BY <1>1, <1>3 DEF Inv, MemoryOK
<1> DEFINE Good(n) == /\ \A k \in 2..n : ent[list[k]].due <= ent[tw].due
                      /\ n < Len(list) => ent[list[n + 1]].due > ent[tw].due
           p == CHOOSE n \in 1..Len(list) : Good(n)
           T == {n \in 1..Len(list) : n < Len(list) => ent[list[n + 1]].due > ent[tw].due}
<1>4. \E n \in 1..Len(list) : Good(n)
  <2>1. T \subseteq Nat /\ Len(list) \in T
    BY <1>1
  <2>2. PICK n \in T : \A m \in T : n <= m
    <3>1. T # {}
      BY <2>1
    <3> HIDE DEF T
    <3> QED
      BY <2>1, <3>1, LeastElement
  <2>3. ASSUME NEW k \in 2..n PROVE ent[list[k]].due <= ent[tw].due
    <3>1. /\ k - 1 \in 1..Len(list) /\ k - 1 < n /\ (k - 1) + 1 = k /\ k \in 1..Len(list)
          /\ k # 1
      BY <1>1
    <3>2. k - 1 \notin T
      <4>1. ~(n <= k - 1)
        BY <2>1, <3>1
      <4> HIDE DEF T
      <4> QED
        BY <2>2, <4>1
    <3>3. ~(ent[list[k]].due > ent[tw].due)
      BY <3>1, <3>2
    <3> QED
      BY <1>1, <1>2, <1>3, <3>1, <3>3
  <2> QED
    BY <2>3
<1>5. p \in 1..Len(list) /\ Good(p)
  BY <1>4
<1>6. Reinserted(ent) = IF list[p] = tw THEN list
                        ELSE InsertAt(Without(tw), IF Position(tw) < p THEN p ELSE p + 1, tw)
  BY DEF Reinserted
<1> HIDE DEF p
<1>7. tw \in Listed /\ Position(tw) = 1
  <2>1. tw \in Listed
    BY <1>1, ShownIs DEF Listed
  <2> QED
    BY <1>1, <2>1, PositionIs
<1>8. Reinserted(ent) = IF p = 1 THEN list ELSE InsertAt(RemoveAt(list, 1), p, tw)
  <2>1. p # 1 => 1 < p
    BY <1>5
  <2> QED
    BY <1>1, <1>5, <1>6, <1>7, <2>1 DEF Without
<1>9. \A k \in 2..p : Shown[k].due <= r.due
  <2> SUFFICES ASSUME NEW k \in 2..p PROVE Shown[k].due <= r.due
    OBVIOUS
  <2>1. k \in 1..Len(list) /\ k # 1
    BY <1>1, <1>5
  <2> QED
    BY <1>2, <1>3, <1>5, <2>1
<1>10. ASSUME p < Len(list) PROVE Shown[p + 1].due > r.due
  <2>1. p + 1 \in 1..Len(list) /\ p + 1 # 1
    BY <1>1, <1>5, <1>10
  <2> QED
    BY <1>2, <1>3, <1>5, <1>10, <2>1
<1> QED
  BY <1>5, <1>8, <1>9, <1>10

(* The jobs of the first entry have been executed: it is due again, and    *)
(* moves to its place.                                                     *)
LEMMA FinishEntryStep ==
    ASSUME Inv, FinishEntry PROVE Inv' /\ Leaves
<1> DEFINE v == Shown[1]
           due == v.due + v.interval
           r == [v EXCEPT !.due = due]
<1>1. /\ tw # NULL /\ list' = Reinserted(entry') /\ NextEntry(list', entry', TRUE)
      /\ entry' = [entry EXCEPT ![tw].due = @ + entry[tw].interval] /\ UNCHANGED accepted
  BY DEF FinishEntry
<1>2. /\ MemoryOK(list, entry) /\ ViewOK(Len(list), Shown) /\ Len(list) \in Nat
      /\ 1 \in 1..Len(list) /\ list[1] = tw /\ v = entry[tw] /\ tw \in Entries
      /\ EntryOK(v) /\ v \in EntryType /\ v.due \in Int /\ v.interval \in Int
  BY <1>1, ShownIs DEF Inv, RoundOK
<1>3. v.due <= 0
  BY <1>1, <1>2 DEF Inv, RoundOK
<1>4. entry' = [entry EXCEPT ![list[1]] = r]
  BY <1>1, <1>2
<1>5. due \in Int /\ due <= v.interval
  BY <1>2, <1>3
<1> HIDE DEF due
<1>6. r \in EntryType /\ r.due = due /\ r.interval = v.interval /\ r.jobs = v.jobs
  BY <1>2, <1>5 DEF EntryType
<1> HIDE DEF r
<1>7. EntryOK(r) /\ JobsAt(r) = JobsAt(v)
  BY <1>2, <1>5, <1>6 DEF EntryOK, JobsAt
<1> HIDE DEF v
<1>8. PICK p \in 1..Len(list) :
         /\ \A k \in 2..p : Shown[k].due <= r.due
         /\ p < Len(list) => Shown[p + 1].due > r.due
         /\ list' = IF p = 1 THEN list ELSE InsertAt(RemoveAt(list, 1), p, tw)
  <2>1. entry' = [entry EXCEPT ![tw] = r]
    BY <1>2, <1>4
  <2>2. \E p \in 1..Len(list) :
           /\ \A k \in 2..p : Shown[k].due <= r.due
           /\ p < Len(list) => Shown[p + 1].due > r.due
           /\ Reinserted(entry') = IF p = 1 THEN list ELSE InsertAt(RemoveAt(list, 1), p, tw)
    BY <1>1, <1>6, <2>1, ReinsertedIs
  <2> QED
    BY <1>1, <2>2
<1> DEFINE l == RemoveAt(list, 1)
           freed == [entry EXCEPT ![list[1]] = NULL]
           w == View(l, freed)
<1>9. /\ MemoryOK(l, freed) /\ Len(l) = Len(list) - 1
      /\ TakenOut(Len(list), list, 1, l) /\ TakenOut(Len(list), Shown, 1, w)
  BY <1>2, MemoryRemoved DEF Shown
<1>10. /\ freed[tw] = NULL /\ [freed EXCEPT ![tw] = r] = entry'
  BY <1>2, <1>4 DEF MemoryOK
<1> HIDE DEF l, freed, w
<1>11. /\ ViewOK(Len(l), w) /\ ViewJobs(Len(l), w) = ViewJobs(Len(list), Shown) \ JobsAt(v)
  BY <1>2, <1>9, ViewRemoved DEF v
<1>12. Len(l) \in Nat /\ p \in 1..(Len(l) + 1) /\ Len(l) + 1 = Len(list)
  BY <1>2, <1>9
<1>13. \A k \in 1..Len(l) : w[k] = Shown[k + 1] /\ k + 1 \in 1..Len(list) /\ k + 1 # 1
  BY <1>2, <1>9, <1>12 DEF TakenOut
<1>14. /\ MemoryOK(list', entry') /\ Len(list') = Len(list) /\ PutIn(Len(l), w, p, r, Shown')
  <2>1. View(list', entry') = Shown'
    BY DEF Shown
  <2>2. CASE p = 1
    <3>1. /\ MemoryOK(list, entry')
          /\ Replaced(Len(list), View(list, entry), 1, r, View(list, entry'))
      BY <1>2, <1>4, <1>6, MemoryReplaced
    <3>2. list' = list /\ View(list, entry) = Shown
      BY <1>8, <2>2 DEF Shown
    <3>3. \A k \in 1..Len(list) : Shown'[k] = IF k = 1 THEN r ELSE Shown[k]
      BY <2>1, <3>1, <3>2 DEF Replaced
    <3>4. ASSUME NEW k \in 1..(Len(l) + 1)
          PROVE  Shown'[k] = IF k < p THEN w[k] ELSE IF k = p THEN r ELSE w[k - 1]
      <4>1. CASE k = 1
        BY <1>12, <2>2, <3>3, <4>1
      <4>2. CASE k # 1
        <5>1. k - 1 \in 1..Len(l) /\ (k - 1) + 1 = k /\ ~(k < p) /\ k \in 1..Len(list)
          BY <1>12, <2>2, <4>2
        <5>2. w[k - 1] = Shown[k]
          BY <1>13, <5>1
        <5> QED
          BY <2>2, <3>3, <4>2, <5>1, <5>2
      <4> QED
        BY <4>1, <4>2
    <3> QED
      BY <3>1, <3>2, <3>4 DEF PutIn
  <2>3. CASE p # 1
    <3>1. list' = InsertAt(l, p, tw)
      BY <1>8, <2>3 DEF l
    <3> QED
      BY <1>2, <1>6, <1>9, <1>10, <1>12, <2>1, <3>1, MemoryInserted DEF w
  <2> QED
    BY <2>2, <2>3
<1>15. FitsIn(Len(l), w, p, r)
  <2>1. ASSUME NEW k \in 1..Len(l) PROVE (k < p => w[k].due <= r.due) /\ (k >= p => r.due <= w[k].due)
    <3>1. w[k] = Shown[k + 1] /\ k + 1 \in 1..Len(list) /\ Shown[k + 1].due \in Int
      BY <1>13, ShownIs
    <3>2. CASE k < p
      <4>1. k + 1 \in 2..p /\ ~(k >= p)
        BY <1>12, <3>2
      <4> QED
        BY <1>8, <3>1, <4>1
    <3>3. CASE k >= p
      <4>1. p < Len(list) /\ p + 1 \in 1..Len(list) /\ (p + 1 < k + 1 \/ p + 1 = k + 1) /\ ~(k < p)
        BY <1>12, <3>3
      <4>2. Shown[p + 1].due \in Int /\ Shown[p + 1].due > r.due
        BY <1>8, <4>1, ShownIs
      <4>3. Shown[p + 1].due <= Shown[k + 1].due
        BY <1>2, <3>1, <4>1, <4>2 DEF ViewOK
      <4> QED
        BY <1>5, <1>6, <3>1, <4>1, <4>2, <4>3
    <3> QED
      BY <1>12, <3>2, <3>3
  <2>2. \A k \in 1..Len(l) : w[k].interval # r.interval
    BY <1>2, <1>6, <1>13 DEF ViewOK, v
  <2>3. JobsAt(r) \cap ViewJobs(Len(l), w) = {}
    BY <1>7, <1>11
  <2> QED
    BY <2>1, <2>2, <2>3 DEF FitsIn
<1>16. /\ ViewOK(Len(l) + 1, Shown')
       /\ ViewJobs(Len(l) + 1, Shown') = ViewJobs(Len(l), w) \cup JobsAt(r)
  BY <1>7, <1>11, <1>12, <1>14, <1>15, ViewInserted
<1>17. ViewOK(Len(list'), Shown') /\ ShownJobs' = ShownJobs
  <2>1. JobsAt(v) \subseteq ShownJobs
    BY <1>2 DEF ShownJobs, ViewJobs, v
  <2>2. ShownJobs' = (ShownJobs \ JobsAt(v)) \cup JobsAt(v)
    BY <1>7, <1>11, <1>12, <1>14, <1>16 DEF ShownJobs
  <2> QED
    BY <1>12, <1>14, <1>16, <2>1, <2>2
<1>18. RoundOK'
  BY <1>1, <1>14, NextEntryStep DEF Inv
<1> QED
  BY <1>1, <1>14, <1>17, <1>18 DEF Inv, Leaves

(* Time passes: every entry is due earlier.                                *)
LEMMA TickStep ==
    ASSUME Inv, Tick PROVE Inv' /\ Leaves
<1>1. /\ lag < MaxLag /\ UNCHANGED <<list, accepted, tw, i>>
      /\ entry' = [e \in Entries |-> IF entry[e] = NULL THEN NULL ELSE [entry[e] EXCEPT !.due = @ - 1]]
      /\ lag' = IF tw = NULL THEN 0 ELSE lag + 1
  BY DEF Tick
<1>2. MemoryOK(list, entry) /\ ViewOK(Len(list), Shown) /\ Len(list) \in Nat
  BY ShownIs DEF Inv
<1>3. ASSUME NEW e \in Entries
      PROVE  /\ entry[e] = NULL => entry'[e] = NULL
             /\ entry[e] # NULL => /\ entry'[e] = [entry[e] EXCEPT !.due = entry[e].due - 1]
                                   /\ entry'[e] \in EntryType /\ entry[e].due \in Int
                                   /\ entry'[e].due = entry[e].due - 1
  <2>1. CASE entry[e] = NULL
    BY <1>1, <2>1
  <2>2. CASE entry[e] # NULL
    <3>1. entry[e] \in EntryType
      BY <1>2, <2>2 DEF MemoryOK
    <3> DEFINE due == entry[e].due - 1
    <3>2. due \in Int /\ entry[e].due \in Int
      BY <3>1 DEF EntryType
    <3>3. entry'[e] = [entry[e] EXCEPT !.due = due]
      BY <1>1, <2>2
    <3> HIDE DEF due
    <3>4. entry'[e] \in EntryType /\ entry'[e].due = due
      BY <3>1, <3>2, <3>3 DEF EntryType
    <3> QED
      BY <2>2, <3>2, <3>3, <3>4 DEF due
  <2> QED
    BY <2>1, <2>2
<1>4. entry' \in [Entries -> EntryType \cup {NULL}] /\ \A e \in Entries : entry'[e] # NULL <=> entry[e] # NULL
  <2>1. \A e \in Entries : entry'[e] \in EntryType \cup {NULL} /\ (entry'[e] # NULL <=> entry[e] # NULL)
    BY <1>3, NullIs
  <2>2. entry' = [e \in Entries |-> entry'[e]]
    BY <1>1
  <2> QED
    BY <2>1, <2>2
<1>5. MemoryOK(list', entry')
  BY <1>1, <1>2, <1>4 DEF MemoryOK
<1>6. \A m \in 1..Len(list) : Shown'[m] = [Shown[m] EXCEPT !.due = Shown[m].due - 1]
  <2> SUFFICES ASSUME NEW m \in 1..Len(list) PROVE Shown'[m] = [Shown[m] EXCEPT !.due = Shown[m].due - 1]
    OBVIOUS
  <2>1. list[m] \in Entries /\ Shown[m] = entry[list[m]] /\ entry[list[m]] # NULL
    BY ShownIs, <1>2 DEF MemoryOK
  <2>2. Shown'[m] = entry'[list[m]]
    BY <1>1, <1>5 DEF Shown, View
  <2> QED
    BY <1>3, <2>1, <2>2
<1>7. ViewOK(Len(list), Shown') /\ ViewJobs(Len(list), Shown') = ViewJobs(Len(list), Shown)
  BY <1>2, <1>6, ViewLater
<1>8. ViewOK(Len(list'), Shown') /\ ShownJobs' = ShownJobs
  BY <1>1, <1>7 DEF ShownJobs
<1>9. RoundOK'
  <2>1. CASE tw = NULL
    BY <1>1, <2>1, UnitAssumption DEF Inv, RoundOK
  <2>2. CASE tw # NULL
    <3>1. /\ 1 \in 1..Len(list) /\ list[1] = tw /\ entry[tw].due <= -lag /\ lag \in 0..MaxLag
          /\ tw \in Entries
      BY <2>2, NullIs DEF Inv, RoundOK
    <3>2. entry[tw] # NULL
      BY <1>2, <3>1 DEF MemoryOK
    <3>3. entry'[tw].due = entry[tw].due - 1 /\ entry[tw].due \in Int
      BY <1>3, <3>1, <3>2
    <3>4. lag' = lag + 1 /\ lag' \in 0..MaxLag
      BY <1>1, <2>2, <3>1, UnitAssumption
    <3>5. entry'[tw].due <= -lag'
      BY <3>1, <3>3, <3>4
    <3> QED
      BY <1>1, <2>2, <3>1, <3>4, <3>5 DEF Inv, RoundOK
  <2> QED
    BY <2>1, <2>2
<1> QED
  BY <1>1, <1>5, <1>8, <1>9 DEF Inv, Leaves

-----------------------------------------------------------------------------
(* The theorems                                                            *)

(* There are no jobs in the beginning.                                     *)
LEMMA InitInv == Init => Inv
<1> SUFFICES ASSUME Init PROVE Inv
  OBVIOUS
<1>1. /\ list = <<>> /\ entry = [e \in Entries |-> NULL] /\ accepted = {}
      /\ tw = NULL /\ i = 0 /\ lag = 0
  BY DEF Init
<1>2. MemoryOK(list, entry)
  BY <1>1 DEF MemoryOK
<1>3. ViewOK(Len(list), Shown) /\ ShownJobs = {}
  BY <1>1 DEF ViewOK, ShownJobs, ViewJobs
<1>4. RoundOK
  BY <1>1, UnitAssumption DEF RoundOK
<1> QED
  BY <1>1, <1>2, <1>3, <1>4 DEF Inv

(* Every step keeps the invariant, and jobs leave as they should, if jobs  *)
(* do not change the entry they are executed from.                         *)
LEMMA NextInv ==
    ASSUME ~OwnEntry, Inv, [Next]_vars PROVE Inv' /\ Leaves
<1>1. CASE UNCHANGED vars
  BY <1>1 DEF vars, Inv, RoundOK, Leaves, ShownJobs, Shown
<1>2. CASE \E job \in Jobs : (\E ms \in Requests : AddRepeatedJob(job, ms)) \/ RemoveRepeatedJob(job)
  BY <1>2, AddStep, RemoveStep
<1> QED
  BY <1>1, <1>2, StartRoundStep, NextJobStep, FinishEntryStep, DeleteAllStep, TickStep DEF Next

(* The inductive invariant holds in every state.                           *)
LEMMA InvHolds ==
    ASSUME ~OwnEntry PROVE Spec => []Inv
<1>1. Init => Inv
  BY InitInv
<1>2. Inv /\ [Next]_vars => Inv'
  BY NextInv
<1> QED
  BY <1>1, <1>2, PTL DEF Spec

(* The list is sorted by the time the entries are due, has one entry for   *)
(* each interval, and none that is due later than its interval: what the   *)
(* searches of addRepeatedJob and processRepeatedJobs, which stop early,   *)
(* rely on.  The jobs keep out of the entry they are executed from.        *)
THEOREM ListIsInOrderCorrect ==
    ASSUME ~OwnEntry PROVE Spec => []ListIsInOrder
<1>1. Inv => ListIsInOrder
  <2> SUFFICES ASSUME Inv PROVE ListIsInOrder
    OBVIOUS
  <2>1. TypeOK
    BY DEF Inv, MemoryOK, RoundOK, TypeOK
  <2>2. /\ DOMAIN list = 1..Len(list)
        /\ \A m \in 1..Len(list) : entry[list[m]] = Shown[m] /\ EntryOK(Shown[m])
    BY ShownIs
  <2>3. ListIsSorted /\ OneEntryPerInterval
    BY <2>2 DEF Inv, ViewOK, ListIsSorted, OneEntryPerInterval
  <2>4. NextRunIsInTime
    BY <2>2 DEF NextRunIsInTime, Listed, EntryOK
  <2> QED
    BY <2>1, <2>3, <2>4 DEF ListIsInOrder
<1> QED
  BY <1>1, InvHolds, PTL

(* Entries are allocated exactly while they are listed, with at least one  *)
(* job each, and no job is listed twice.                                   *)
THEOREM ListedEntriesAreAllocatedCorrect ==
    ASSUME ~OwnEntry PROVE Spec => []ListedEntriesAreAllocated
<1>1. Inv => ListedEntriesAreAllocated
  <2> SUFFICES ASSUME Inv PROVE ListedEntriesAreAllocated
    OBVIOUS
  <2>1. /\ DOMAIN list = 1..Len(list)
        /\ \A m \in 1..Len(list) :
              /\ entry[list[m]] = Shown[m] /\ EntryOK(Shown[m])
              /\ DOMAIN Shown[m].jobs = 1..Len(Shown[m].jobs)
    <3>1. \A m \in 1..Len(list) : Shown[m].jobs \in Seq(Jobs)
      BY ShownIs
    <3>2. \A m \in 1..Len(list) : DOMAIN Shown[m].jobs = 1..Len(Shown[m].jobs)
      BY <3>1, LenProperties
    <3> QED
      BY <3>2, ShownIs
  <2>2. \A e \in Entries : entry[e] # NULL <=> e \in Listed
    BY <2>1 DEF Inv, MemoryOK, Listed
  <2>3. \A e \in Listed : entry[e].jobs # <<>>
    BY <2>1 DEF Listed, EntryOK
  <2>4. ASSUME NEW d \in Listed, NEW e \in Listed,
               NEW m \in DOMAIN entry[d].jobs, NEW n \in DOMAIN entry[e].jobs,
               entry[d].jobs[m] = entry[e].jobs[n]
        PROVE  d = e /\ m = n
    <3>1. PICK j \in 1..Len(list) : list[j] = d
      BY <2>1 DEF Listed
    <3>2. PICK k \in 1..Len(list) : list[k] = e
      BY <2>1 DEF Listed
    <3>3. /\ entry[d] = Shown[j] /\ entry[e] = Shown[k]
          /\ m \in 1..Len(Shown[j].jobs) /\ n \in 1..Len(Shown[k].jobs)
      BY <2>1, <3>1, <3>2
    <3>4. Shown[j].jobs[m] \in JobsAt(Shown[j]) \cap JobsAt(Shown[k])
      BY <2>4, <3>3 DEF JobsAt
    <3>5. j = k
      BY <3>4 DEF Inv, ViewOK
    <3> QED
      BY <2>1, <2>4, <3>1, <3>2, <3>3, <3>5 DEF EntryOK
  <2> QED
    BY <2>2, <2>3, <2>4 DEF ListedEntriesAreAllocated
<1> QED
  BY <1>1, InvHolds, PTL

(* The listed jobs are those that are shown, in every state.               *)
LEMMA ListedJobsAreShown == Inv => (ListedJobs = ShownJobs)
  BY ListedJobsAre

(* The same after a step.                                                  *)
LEMMA ListedJobsAreShownNext == Inv' => (ListedJobs = ShownJobs)'
  BY ListedJobsAreShown, PTL

(* The removal of a job takes that job off the list and no other, and no   *)
(* job leaves the list in another way.                                     *)
THEOREM JobsLeaveWhenRemovedCorrect ==
    ASSUME ~OwnEntry PROVE Spec => JobsLeaveWhenRemoved
<1>1. Inv /\ Inv' /\ [Next]_vars => [ListedJobs \ ListedJobs' = ListedJobs \cap (accepted \ accepted')]_vars
  <2> SUFFICES ASSUME Inv, Inv', [Next]_vars
               PROVE  ListedJobs \ ListedJobs' = ListedJobs \cap (accepted \ accepted')
    OBVIOUS
  <2>1. Leaves
    BY NextInv
  <2> QED
    BY <2>1, ListedJobsAreShown, ListedJobsAreShownNext DEF Leaves
<1> QED
  BY <1>1, InvHolds, PTL DEF Spec, JobsLeaveWhenRemoved
=============================================================================
