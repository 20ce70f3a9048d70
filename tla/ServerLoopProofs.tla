-------------------------- MODULE ServerLoopProofs --------------------------
(***************************************************************************)
(* Proofs about the run of a server for any number of peers and failures:  *)
(* the order in which jobs are made and processed frees every connection   *)
(* once, when nothing points to it any more, and all of them in the end.   *)
(* What is proved of the loop, and of namespace 0 while it is built, holds *)
(* of the server that is put together from the two.                        *)
(***************************************************************************)
EXTENDS Server, TLAPS, SequenceTheorems, FiniteSetTheorems

JobType == [type : {"message", "detach", "free"}, conn : Conns]
Allocation == {"open", "closed"}

(* A connection is detached right before it is freed, it has no other jobs *)
(* by then, and nothing is attached to it when it is freed next.           *)
JobsInOrder ==
    /\ \A i \in DOMAIN jobs : jobs[i].type = "free" =>
          IF i = 1 THEN jobs[i].conn \notin attached ELSE jobs[i - 1] = Job("detach", jobs[i].conn)
    /\ \A i, j \in DOMAIN jobs :
          i < j /\ jobs[i].conn = jobs[j].conn => j = i + 1 /\ jobs[i].type = "detach"

(* There are jobs only while they are made and processed.  The mappings    *)
(* that are still to be read have none; what is freed is not mapped.       *)
TurnsAhead ==
    /\ pc \in {"new", "start", "while", "repeated", "layer", "js", "shutdown", "stopped", "deleted"} =>
          jobs = <<>>
    /\ pc = "receive" =>
          \A i \in DOMAIN jobs, k \in DOMAIN mappings : k >= at => jobs[i].conn # mappings[k]
    /\ stops = 0 => \A i \in DOMAIN jobs : jobs[i].type # "message" => jobs[i].conn \notin Mapped

(* Where the layer was stopped, and how often; no message comes after it.  *)
StopsOnce ==
    /\ pc \in {"new", "start", "repeated", "layer", "js", "receive"} => stops = 0
    /\ pc \in {"while", "jobs"} => stops = 0 \/ (stops = 1 /\ ~running)
    /\ pc = "shutdown" => stops \in {0, 1}
    /\ pc = "last jobs" => stops > 0
    /\ pc \in {"stopped", "deleted"} => stops > 0 \/ layers = 0
    /\ stops > 0 => \A i \in DOMAIN jobs : jobs[i].type # "message"

(* What is mapped, attached or the matter of a job is allocated.           *)
Allocated ==
    /\ \A c \in Mapped : sock[c] \notin {"none", "waiting"}
    /\ stops = 0 => \A c \in Mapped : conn[c] \in Allocation
    /\ stops < 2 => \A i \in DOMAIN jobs : conn[jobs[i].conn] \in Allocation
    /\ \A c \in attached : conn[c] \in Allocation

(* What is allocated is mapped or about to be freed, if no call failed.    *)
Accounted ==
    faults = 0 =>
        /\ pc # "new" => layers = 1
        /\ \A c \in Conns : conn[c] \in Allocation =>
              (stops = 0 /\ c \in Mapped) \/ \E i \in DOMAIN jobs : jobs[i] = Job("free", c)

IInv == TypeOK /\ JobsInOrder /\ TurnsAhead /\ StopsOnce /\ Allocated /\ Accounted

-----------------------------------------------------------------------------
(* What is left of the jobs when the next one is taken.                    *)
LEMMA TailOfJobs ==
    ASSUME jobs \in Seq(JobType), jobs # <<>>
    PROVE  /\ Head(jobs) = jobs[1] /\ 1 \in DOMAIN jobs
           /\ Tail(jobs) \in Seq(JobType)
           /\ \A i \in DOMAIN Tail(jobs) : i \in Nat \ {0} /\ i + 1 \in DOMAIN jobs /\ Tail(jobs)[i] = jobs[i + 1]
           /\ \A i \in DOMAIN jobs : i # 1 => i - 1 \in DOMAIN Tail(jobs) /\ Tail(jobs)[i - 1] = jobs[i]
<1>1. Len(jobs) \in Nat /\ Len(jobs) # 0 /\ DOMAIN jobs = 1..Len(jobs)
  BY EmptySeq, LenProperties
<1>2. /\ Head(jobs) = jobs[1] /\ Tail(jobs) \in Seq(JobType) /\ Len(Tail(jobs)) = Len(jobs) - 1
      /\ \A i \in 1..Len(Tail(jobs)) : Tail(jobs)[i] = jobs[i + 1]
  BY HeadTailProperties
<1>3. DOMAIN Tail(jobs) = 1..(Len(jobs) - 1)
  BY <1>2, LenProperties
<1> QED
  BY <1>1, <1>2, <1>3

(* The last mapping takes the place of the one that ended.                 *)
LEMMA WithoutMappingIs ==
    ASSUME TypeOK, at \in DOMAIN mappings
    PROVE  /\ WithoutMapping \in Seq(Conns)
           /\ DOMAIN WithoutMapping = 1..(Len(mappings) - 1)
           /\ \A k \in 1..(Len(mappings) - 1) :
                 WithoutMapping[k] = IF k = at THEN mappings[Len(mappings)] ELSE mappings[k]
<1> DEFINE n == Len(mappings)
           m == [mappings EXCEPT ![at] = mappings[n]]
<1>0. mappings \in Seq(Conns)
  BY DEF TypeOK
<1>1. n \in Nat /\ n # 0 /\ DOMAIN mappings = 1..n /\ at \in 1..n
  BY <1>0, LenProperties
<1>2. m \in Seq(Conns) /\ Len(m) = n
  BY <1>0, <1>1, ExceptSeq, ElementOfSeq
<1>3. WithoutMapping = SubSeq(m, 1, n - 1)
  BY <1>2 DEF WithoutMapping, Front, Last
<1>4. /\ SubSeq(m, 1, n - 1) \in Seq(Conns) /\ Len(SubSeq(m, 1, n - 1)) = n - 1
      /\ \A k \in 1..(n - 1) : SubSeq(m, 1, n - 1)[k] = m[k]
  BY <1>1, <1>2, SubSeqProperties
<1>5. \A k \in 1..(n - 1) : m[k] = IF k = at THEN mappings[n] ELSE mappings[k]
  BY <1>1
<1> QED
  BY <1>3, <1>4, <1>5, LenProperties

(* Stopping the layer makes a pair of jobs for each mapping.               *)
LEMMA StopJobsAre ==
    ASSUME TypeOK
    PROVE  /\ StopJobs \in Seq(JobType)
           /\ \A j \in DOMAIN mappings : 2 * j \in DOMAIN StopJobs /\ StopJobs[2 * j] = Job("free", mappings[j])
           /\ \A k \in DOMAIN StopJobs : \E j \in DOMAIN mappings :
                 \/ k = 2 * j - 1 /\ StopJobs[k] = Job("detach", mappings[j])
                 \/ k = 2 * j /\ StopJobs[k] = Job("free", mappings[j])
           /\ \A j \in DOMAIN mappings : StopJobs[2 * j - 1] = Job("detach", mappings[j])
<1> DEFINE n == Len(mappings)
<1>1. mappings \in Seq(Conns) /\ n \in Nat /\ DOMAIN mappings = 1..n /\ \A j \in 1..n : mappings[j] \in Conns
  BY LenProperties, ElementOfSeq DEF TypeOK
<1>2. DOMAIN StopJobs = 1..(2 * n) /\ \A k \in 1..(2 * n) : StopJobs[k] = EndJobAt(k)
  BY DEF StopJobs
<1>3. \A c \in Conns : EndJobs(c)[1] = Job("detach", c) /\ EndJobs(c)[2] = Job("free", c)
  BY DEF EndJobs
<1>4. ASSUME NEW j \in 1..n
      PROVE  /\ 2 * j \in 1..(2 * n) /\ EndJobAt(2 * j) = Job("free", mappings[j])
             /\ 2 * j - 1 \in 1..(2 * n) /\ EndJobAt(2 * j - 1) = Job("detach", mappings[j])
  <2>1. (2 * j + 1) \div 2 = j /\ (2 * j - 1 + 1) \div 2 = j
    BY <1>1, Z3
  <2>2. 2 - ((2 * j) % 2) = 2 /\ 2 - ((2 * j - 1) % 2) = 1
    BY <1>1, Z3
  <2>3. 2 * j \in 1..(2 * n) /\ 2 * j - 1 \in 1..(2 * n)
    BY <1>1
  <2> QED
    BY <1>1, <1>3, <2>1, <2>2, <2>3 DEF EndJobAt
<1>5. ASSUME NEW k \in 1..(2 * n)
      PROVE  \E j \in 1..n : k = 2 * j - 1 \/ k = 2 * j
  <2>1. (k + 1) \div 2 \in 1..n /\ (k = 2 * ((k + 1) \div 2) - 1 \/ k = 2 * ((k + 1) \div 2))
    BY <1>1, Z3
  <2> QED
    BY <2>1
<1>6. \A k \in 1..(2 * n) : EndJobAt(k) \in JobType
  <2> SUFFICES ASSUME NEW k \in 1..(2 * n) PROVE EndJobAt(k) \in JobType
    OBVIOUS
  <2>1. PICK j \in 1..n : k = 2 * j - 1 \/ k = 2 * j
    BY <1>5
  <2>2. mappings[j] \in Conns
    BY <1>1
  <2>3. EndJobAt(k) = Job("free", mappings[j]) \/ EndJobAt(k) = Job("detach", mappings[j])
    BY <1>4, <2>1
  <2> QED
    BY <2>2, <2>3 DEF JobType, Job
<1>7. StopJobs \in Seq(JobType)
  <2>1. 2 * n \in Nat /\ StopJobs \in [1..(2 * n) -> JobType]
    BY <1>1, <1>6 DEF StopJobs
  <2> QED
    BY <2>1, SeqDef
<1>8. ASSUME NEW k \in 1..(2 * n)
      PROVE  \E j \in 1..n :
                 \/ k = 2 * j - 1 /\ StopJobs[k] = Job("detach", mappings[j])
                 \/ k = 2 * j /\ StopJobs[k] = Job("free", mappings[j])
  <2>1. PICK j \in 1..n : k = 2 * j - 1 \/ k = 2 * j
    BY <1>5
  <2> QED
    BY <1>2, <1>4, <2>1
<1>9. \A j \in 1..n :
         /\ 2 * j \in 1..(2 * n) /\ StopJobs[2 * j] = Job("free", mappings[j])
         /\ StopJobs[2 * j - 1] = Job("detach", mappings[j])
  BY <1>2, <1>4
<1> QED
  BY <1>1, <1>2, <1>7, <1>8, <1>9

-----------------------------------------------------------------------------
(* A bounded number of calls fails, and a failure is counted.              *)
LEMMA FaultsAreCounted ==
    ASSUME TypeOK, Works \/ Fails
    PROVE  faults' \in 0..MaxFaults /\ (Fails => faults' # 0) /\ (faults' = 0 => faults = 0)
<1>1. faults \in 0..MaxFaults /\ MaxFaults \in Nat
  BY BoundAssumption DEF TypeOK
<1>2. CASE Works
  BY <1>1, <1>2 DEF Works, Fails
<1>3. CASE Fails
  BY <1>1, <1>3 DEF Fails
<1> QED
  BY <1>2, <1>3

(* What an index stands for.                                               *)
LEMMA MappedIs ==
    ASSUME NEW s
    PROVE  \A c : c \in ToSet(s) <=> \E i \in DOMAIN s : s[i] = c
  BY DEF ToSet

(* A mapped connection is a connection.                                    *)
LEMMA MappedAreConns ==
    ASSUME TypeOK
    PROVE  /\ Mapped \subseteq Conns
           /\ mappings \in Seq(Conns) /\ Len(mappings) \in Nat /\ DOMAIN mappings = 1..Len(mappings)
           /\ \A i \in DOMAIN mappings : mappings[i] \in Conns /\ mappings[i] \in Mapped
           /\ \A i, j \in DOMAIN mappings : mappings[i] = mappings[j] => i = j
<1>1. mappings \in Seq(Conns) /\ \A i, j \in DOMAIN mappings : mappings[i] = mappings[j] => i = j
  BY DEF TypeOK
<1>2. Len(mappings) \in Nat /\ DOMAIN mappings = 1..Len(mappings)
  BY <1>1, LenProperties
<1>3. \A i \in DOMAIN mappings : mappings[i] \in Conns
  BY <1>1, <1>2, ElementOfSeq
<1> QED
  BY <1>1, <1>2, <1>3, MappedIs DEF Mapped

(* The steps that only move the thread, or count a failure.                *)
Quiet ==
    \/ AddNetworkLayer \/ RunStartup \/ Run \/ AllocateJobs \/ EndReceive
    \/ EndJobsLoop \/ WithoutLayer \/ Interrupt

(* They keep the invariant.                                                *)
LEMMA QuietStep ==
    ASSUME IInv, Quiet PROVE IInv'
<1> USE DEF IInv
<1>1. /\ UNCHANGED <<stops, conn, sock, unread, mappings, attached, jobs, ready, results, at>>
      /\ Works \/ Fails
  BY DEF Quiet, AddNetworkLayer, RunStartup, Run, AllocateJobs, EndReceive, EndJobsLoop,
         WithoutLayer, Interrupt, network, selected, Works
<1>2. faults' \in 0..MaxFaults /\ (Fails => faults' # 0) /\ (faults' = 0 => faults = 0)
  BY <1>1, FaultsAreCounted
<1>3. TypeOK'
  <2>1. layers' \in {0, 1} /\ running' \in BOOLEAN
    BY DEF Quiet, AddNetworkLayer, RunStartup, Run, AllocateJobs, EndReceive, EndJobsLoop,
           WithoutLayer, Interrupt, TypeOK
  <2>2. pc' \in {"start", "while", "shutdown", "repeated", "receive", "jobs", "stopped", pc}
    BY DEF Quiet, AddNetworkLayer, RunStartup, Run, AllocateJobs, EndReceive, EndJobsLoop,
           WithoutLayer, Interrupt, TypeOK
  <2> QED
    BY <1>1, <1>2, <2>1, <2>2 DEF TypeOK
<1>4. JobsInOrder'
  BY <1>1 DEF JobsInOrder
<1>5. TurnsAhead'
  <2>1. pc' = pc \/ pc' = "jobs" \/ jobs = <<>>
    BY DEF TurnsAhead, Quiet, AddNetworkLayer, RunStartup, Run, AllocateJobs, EndReceive,
           EndJobsLoop, WithoutLayer, Interrupt
  <2> QED
    BY <1>1, <2>1 DEF TurnsAhead, Mapped
<1>6. StopsOnce'
  <2>1. \/ pc' = pc
        \/ pc = "new" /\ pc' = "start"
        \/ pc = "start" /\ pc' \in {"while", "shutdown"}
        \/ pc = "while" /\ (IF running THEN pc' = "repeated" ELSE pc' = "shutdown")
        \/ pc \in {"js", "receive", "layer"} /\ pc' \in {"receive", "jobs", "while"}
        \/ pc = "jobs" /\ pc' = "while"
        \/ pc = "last jobs" /\ pc' = "stopped"
    BY DEF Quiet, AddNetworkLayer, RunStartup, Run, AllocateJobs, EndReceive, EndJobsLoop,
           WithoutLayer, Interrupt
  <2>2. pc' \in {"stopped", "deleted"} => layers' = layers
    BY DEF Quiet, AddNetworkLayer, RunStartup, Run, AllocateJobs, EndReceive, EndJobsLoop,
           WithoutLayer, Interrupt
  <2>3. stops \in Nat
    BY DEF TypeOK
  <2>4. ~running => ~running'
    BY DEF Quiet, AddNetworkLayer, RunStartup, Run, AllocateJobs, EndReceive, EndJobsLoop,
           WithoutLayer, Interrupt
  <2> QED
    BY <1>1, <2>1, <2>2, <2>3, <2>4 DEF StopsOnce
<1>7. Allocated'
  BY <1>1 DEF Allocated, Mapped, Allocation
<1>8. Accounted'
  BY <1>1, <1>2 DEF Accounted, Mapped, Quiet, AddNetworkLayer, RunStartup, Run, AllocateJobs,
                    EndReceive, EndJobsLoop, WithoutLayer, Interrupt
<1> QED
  BY <1>3, <1>4, <1>5, <1>6, <1>7, <1>8

(* UA_Server_cleanup: what is removed was attached and stays allocated.    *)
LEMMA ProcessRepeatedJobsStep ==
    ASSUME IInv, ProcessRepeatedJobs PROVE IInv'
<1> USE DEF IInv, ProcessRepeatedJobs, CloseConnections
<1>1. TypeOK'
  BY DEF TypeOK, selected
<1>2. /\ \A c \in Conns : conn'[c] \in Allocation <=> conn[c] \in Allocation
      /\ \A c \in Conns : sock'[c] \in {sock[c], "shut"}
      /\ attached' \subseteq attached /\ jobs = <<>> /\ Mapped \subseteq Conns /\ attached \subseteq Conns
  BY MappedAreConns DEF TypeOK, TurnsAhead, Allocation
<1>3. JobsInOrder'
  BY <1>2 DEF JobsInOrder
<1>4. TurnsAhead'
  BY <1>2 DEF TurnsAhead, Mapped
<1>5. StopsOnce'
  BY <1>2 DEF StopsOnce
<1>6. Allocated'
  BY <1>2 DEF Allocated, Mapped
<1>7. Accounted'
  BY <1>2 DEF Accounted, Mapped
<1> QED
  BY <1>1, <1>3, <1>4, <1>5, <1>6, <1>7

(* The peers; the sockets that wait are not mapped.                        *)
LEMMA PeerStepStep ==
    ASSUME IInv, PeerStep PROVE IInv'
<1> USE DEF IInv
<1>1. PICK c \in Conns : Connect(c) \/ Send(c) \/ HangUp(c)
  BY DEF PeerStep
<1>2. /\ UNCHANGED <<pc, running, layers, stops, conn, mappings, attached, jobs, ready, results, at, faults>>
      /\ \A d \in Conns : sock'[d] \in {"none", "waiting"} => sock[d] \in {"none", "waiting"}
  BY <1>1 DEF Connect, Send, HangUp, selected, TypeOK
<1>3. TypeOK'
  <2>1. sock' \in [Conns -> {"none", "waiting", "open", "eof", "shut", "closed", "lost"}]
    BY <1>1 DEF Connect, Send, HangUp, TypeOK
  <2>2. unread' \subseteq Conns
    BY <1>1 DEF Connect, Send, HangUp, TypeOK
  <2> QED
    BY <1>2, <2>1, <2>2 DEF TypeOK
<1>4. JobsInOrder' /\ TurnsAhead' /\ StopsOnce'
  BY <1>2 DEF JobsInOrder, TurnsAhead, StopsOnce, Mapped
<1>5. Allocated'
  <2>1. Mapped \subseteq Conns
    BY MappedAreConns
  <2> QED
    BY <1>2, <2>1 DEF Allocated, Mapped, Allocation
<1>6. Accounted'
  BY <1>2 DEF Accounted, Mapped
<1> QED
  BY <1>3, <1>4, <1>5, <1>6

(* UA_Server_delete has no jobs before it.                                 *)
LEMMA DeleteStep ==
    ASSUME IInv, Delete PROVE IInv'
<1> USE DEF IInv, Delete, CloseConnections
<1>1. pc' \in {"deleted", "broken"}
  BY DEF GoesOn
<1>2. TypeOK'
  BY <1>1 DEF TypeOK, selected
<1>3. /\ \A c \in Conns : conn'[c] \in Allocation <=> conn[c] \in Allocation
      /\ \A c \in Conns : sock'[c] \in {sock[c], "shut"}
      /\ jobs = <<>> /\ jobs' = <<>> /\ attached' = {} /\ Mapped \subseteq Conns
  BY MappedAreConns DEF TypeOK, TurnsAhead, Allocation
<1>4. JobsInOrder'
  BY <1>3 DEF JobsInOrder
<1>5. TurnsAhead'
  BY <1>1, <1>3 DEF TurnsAhead, Mapped
<1>6. StopsOnce'
  BY <1>1, <1>3 DEF StopsOnce
<1>7. Allocated'
  BY <1>3 DEF Allocated, Mapped
<1>8. Accounted'
  BY <1>1, <1>3 DEF Accounted, Mapped
<1> QED
  BY <1>2, <1>4, <1>5, <1>6, <1>7, <1>8

(* ServerNetworkLayerTCP_getJobs adds a connection that is new.            *)
LEMMA GetJobsStep ==
    ASSUME IInv, GetJobs PROVE IInv'
<1> USE DEF IInv
<1>0. /\ jobs = <<>> /\ jobs' = <<>> /\ stops = 0 /\ stops' = 0 /\ layers = 1 /\ layers' = 1
      /\ pc' \in {"jobs", "js"} /\ UNCHANGED <<running, attached>>
  BY DEF GetJobs, TurnsAhead, StopsOnce
<1>A. JobsInOrder'
  BY <1>0 DEF JobsInOrder
<1>B. TurnsAhead'
  BY <1>0 DEF TurnsAhead
<1>C. StopsOnce'
  BY <1>0 DEF StopsOnce
<1>1. Readable \subseteq Conns /\ Cardinality(Readable) \in Nat
  <2>1. Readable \subseteq Conns
    BY MappedAreConns DEF Readable
  <2>2. IsFiniteSet(Readable)
    BY <2>1, ConnsAssumption, FS_Subset
  <2> QED
    BY <2>1, <2>2, FS_CardinalityType
<1>2. Works \/ Fails
  BY DEF GetJobs, AcceptOne, Works
<1>3. faults' \in 0..MaxFaults /\ (Fails => faults' # 0) /\ (faults' = 0 => faults = 0)
  BY <1>2, FaultsAreCounted
<1>4. ready' \subseteq Conns /\ results' \in Nat /\ at' \in Nat \ {0}
  BY <1>1 DEF GetJobs
<1>5. CASE UNCHANGED <<network, mappings>>
  <2>1. TypeOK'
    BY <1>0, <1>3, <1>4, <1>5 DEF TypeOK, network
  <2>2. Allocated'
    BY <1>0, <1>5 DEF Allocated, Mapped, network
  <2>3. Accounted'
    BY <1>0, <1>3, <1>5 DEF Accounted, Mapped, network
  <2> QED
    BY <1>A, <1>B, <1>C, <2>1, <2>2, <2>3
<1>6. CASE \E c \in Waiting :
              /\ Fails /\ sock' = [sock EXCEPT ![c] = "lost"]
              /\ UNCHANGED <<conn, unread, mappings>>
  <2>1. TypeOK'
    BY <1>0, <1>3, <1>4, <1>6 DEF TypeOK
  <2>2. Accounted'
    BY <1>0, <1>3, <1>6 DEF Accounted, Mapped
  <2>3. \A d \in Conns : sock'[d] \in {"none", "waiting"} => sock'[d] = sock[d]
    BY <1>6 DEF TypeOK
  <2>4. Allocated'
    BY <1>0, <1>6, <2>3, MappedAreConns DEF Allocated, Mapped
  <2> QED
    BY <1>A, <1>B, <1>C, <2>1, <2>2, <2>4
<1>7. CASE \E c \in Waiting :
              /\ Works
              /\ conn' = [conn EXCEPT ![c] = "open"] /\ sock' = [sock EXCEPT ![c] = "open"]
              /\ mappings' = Append(mappings, c) /\ UNCHANGED unread
  <2>1. PICK c \in Waiting :
              /\ Works
              /\ conn' = [conn EXCEPT ![c] = "open"] /\ sock' = [sock EXCEPT ![c] = "open"]
              /\ mappings' = Append(mappings, c) /\ UNCHANGED unread
    BY <1>7
  <2>2. c \in Conns /\ sock[c] = "waiting" /\ c \notin Mapped
    BY DEF Waiting, Allocated
  <2>3. /\ mappings \in Seq(Conns) /\ Len(mappings) \in Nat /\ DOMAIN mappings = 1..Len(mappings)
        /\ \A i, j \in DOMAIN mappings : mappings[i] = mappings[j] => i = j
        /\ \A i \in DOMAIN mappings : mappings[i] # c
    BY <2>2, MappedAreConns
  <2>4. /\ mappings' \in Seq(Conns) /\ Len(mappings') = Len(mappings) + 1
        /\ DOMAIN mappings' = 1..(Len(mappings) + 1)
        /\ \A i \in DOMAIN mappings : mappings'[i] = mappings[i]
        /\ mappings'[Len(mappings) + 1] = c
    BY <2>1, <2>2, <2>3, AppendProperties
  <2>5. \A i, j \in DOMAIN mappings' : mappings'[i] = mappings'[j] => i = j
    BY <2>3, <2>4
  <2>6. TypeOK'
    BY <1>0, <1>3, <1>4, <2>1, <2>2, <2>4, <2>5 DEF TypeOK
  <2>8. \A d : d \in Mapped' <=> d \in Mapped \/ d = c
    BY <2>3, <2>4, MappedIs DEF Mapped
  <2>9. Allocated'
    <3>1. \A d \in Conns : /\ conn'[d] = IF d = c THEN "open" ELSE conn[d]
                         /\ sock'[d] = IF d = c THEN "open" ELSE sock[d]
      BY <2>1 DEF TypeOK
    <3>2. Mapped \subseteq Conns /\ attached \subseteq Conns
      BY MappedAreConns DEF TypeOK
    <3> QED
      BY <1>0, <2>2, <2>8, <3>1, <3>2 DEF Allocated, Allocation
  <2>10. Accounted'
    BY <1>0, <1>3, <2>1, <2>2, <2>8 DEF Accounted, Allocation, TypeOK
  <2> QED
    BY <1>A, <1>B, <1>C, <2>6, <2>9, <2>10
<1> QED
  BY <1>5, <1>6, <1>7 DEF GetJobs, AcceptOne, network

(* ServerNetworkLayerTCP_getJobs reads: nothing but new jobs for the       *)
(* mapping it has come to.                                                 *)
LEMMA ReceiveStep ==
    ASSUME IInv, Receive PROVE IInv'
<1> DEFINE c == mappings[at]
           n == Len(jobs)
<1> USE DEF IInv
<1>1. /\ pc = "receive" /\ pc' = "receive" /\ stops = 0 /\ stops' = 0 /\ at' = at + 1
      /\ UNCHANGED <<running, layers, attached, ready, results>>
  BY DEF Receive, StopsOnce
<1>2. /\ at \in DOMAIN mappings /\ at \in Nat \ {0} /\ c \in Conns /\ c \in Mapped /\ conn[c] \in Allocation
      /\ \A i \in DOMAIN jobs : jobs[i].conn # c
  <2>1. at \in Nat \ {0} /\ at <= Len(mappings)
    BY DEF Receive, TypeOK
  <2>2. at \in DOMAIN mappings
    BY <2>1, MappedAreConns
  <2> QED
    BY <1>1, <2>1, <2>2, MappedAreConns DEF Allocated, TurnsAhead
<1>3. /\ jobs \in Seq(JobType) /\ n \in Nat /\ DOMAIN jobs = 1..n
      /\ \A i \in DOMAIN jobs : jobs[i] \in JobType
  <2>1. jobs \in Seq(JobType)
    BY DEF TypeOK, JobType
  <2> QED
    BY <2>1, LenProperties, ElementOfSeq
<1>4. StopsOnce'
  BY <1>1 DEF StopsOnce
<1>5. CASE PassBy(c)
  <2>1. UNCHANGED <<conn, sock, unread, mappings, jobs, faults>>
    BY <1>5 DEF PassBy, Works, network
  <2>2. TypeOK'
    BY <1>1, <1>2, <2>1 DEF TypeOK
  <2>3. JobsInOrder' /\ Allocated' /\ Accounted'
    BY <1>1, <2>1 DEF JobsInOrder, Allocated, Accounted, Mapped
  <2>4. TurnsAhead'
    BY <1>1, <1>2, <2>1, MappedAreConns DEF TurnsAhead, Mapped
  <2> QED
    BY <1>4, <2>2, <2>3, <2>4
<1>6. CASE c \in ready /\ ReceiveMessage(c)
  <2>1. /\ UNCHANGED <<conn, sock, mappings>> /\ unread' \subseteq unread
        /\ jobs' = jobs \/ jobs' = Append(jobs, Job("message", c))
        /\ Works \/ Fails
    BY <1>6 DEF ReceiveMessage
  <2>2. faults' \in 0..MaxFaults /\ (faults' = 0 => faults = 0)
    BY <2>1, FaultsAreCounted
  <2>3. CASE jobs' = jobs
    <3>1. TypeOK'
      BY <1>1, <1>2, <2>1, <2>2, <2>3 DEF TypeOK
    <3>2. JobsInOrder' /\ Allocated' /\ Accounted'
      BY <1>1, <2>1, <2>2, <2>3 DEF JobsInOrder, Allocated, Accounted, Mapped
    <3>3. TurnsAhead'
      BY <1>1, <1>2, <2>1, <2>3, MappedAreConns DEF TurnsAhead, Mapped
    <3> QED
      BY <1>4, <3>1, <3>2, <3>3
  <2>4. CASE jobs' = Append(jobs, Job("message", c))
    <3>0. Job("message", c) \in JobType /\ Job("message", c).type = "message" /\ Job("message", c).conn = c
      BY <1>2 DEF JobType, Job
    <3>1. /\ jobs' \in Seq(JobType) /\ DOMAIN jobs' = 1..(n + 1)
          /\ \A i \in 1..n : jobs'[i] = jobs[i]
          /\ jobs'[n + 1].type = "message" /\ jobs'[n + 1].conn = c
      BY <1>3, <2>4, <3>0, AppendProperties
    <3>2. TypeOK'
      BY <1>1, <1>2, <2>1, <2>2, <3>1 DEF TypeOK, JobType
    <3>3. JobsInOrder'
      BY <1>1, <1>2, <1>3, <3>1 DEF JobsInOrder
    <3>4. TurnsAhead'
      <4>1. ASSUME NEW i \in DOMAIN jobs', NEW k \in DOMAIN mappings, k >= at + 1
            PROVE  jobs'[i].conn # mappings[k]
        <5>1. k \in Nat /\ k >= at /\ k # at
          BY <1>2, <4>1, MappedAreConns
        <5>2. mappings[k] # c
          BY <1>2, <5>1, MappedAreConns
        <5>3. CASE i \in 1..n
          BY <1>1, <1>3, <3>1, <4>1, <5>1, <5>3 DEF TurnsAhead
        <5>4. CASE i = n + 1
          BY <3>1, <5>2, <5>4
        <5> QED
          BY <1>3, <3>1, <5>3, <5>4
      <4>2. ASSUME NEW i \in DOMAIN jobs', jobs'[i].type # "message" PROVE jobs'[i].conn \notin Mapped
        BY <1>1, <1>3, <3>1, <4>2 DEF TurnsAhead
      <4> QED
        BY <1>1, <2>1, <4>1, <4>2 DEF TurnsAhead, Mapped
    <3>5. Allocated'
      BY <1>1, <1>2, <1>3, <2>1, <3>1 DEF Allocated, Mapped
    <3>6. Accounted'
      BY <1>1, <1>3, <2>1, <2>2, <3>1 DEF Accounted, Mapped
    <3> QED
      BY <1>4, <3>2, <3>3, <3>4, <3>5, <3>6
  <2> QED
    BY <2>1, <2>3, <2>4
<1>7. CASE c \in ready /\ ReceiveEnd(c)
  <2> DEFINE m == Len(mappings)
  <2>1. /\ \A d \in Conns : conn'[d] = IF d = c THEN "closed" ELSE conn[d]
        /\ \A d \in Conns : sock'[d] = IF d = c THEN "closed" ELSE sock[d]
        /\ conn' \in [Conns -> {"none", "open", "closed", "freed"}]
        /\ sock' \in [Conns -> {"none", "waiting", "open", "eof", "shut", "closed", "lost"}]
        /\ faults' = faults /\ unread' = unread
    BY <1>7 DEF ReceiveEnd, Works, TypeOK
  <2>2. /\ jobs' \in Seq(JobType) /\ DOMAIN jobs' = 1..(n + 2)
        /\ \A i \in 1..n : jobs'[i] = jobs[i]
        /\ jobs'[n + 1] = Job("detach", c) /\ jobs'[n + 2] = Job("free", c)
    <3>1. EndJobs(c) \in Seq(JobType) /\ Len(EndJobs(c)) = 2
      BY <1>2 DEF EndJobs, Job, JobType
    <3>2. EndJobs(c)[1] = Job("detach", c) /\ EndJobs(c)[2] = Job("free", c)
      BY DEF EndJobs
    <3>3. jobs' = jobs \o EndJobs(c)
      BY <1>7 DEF ReceiveEnd
    <3>4. /\ jobs' \in Seq(JobType) /\ Len(jobs') = n + 2
          /\ \A i \in 1..(n + 2) : jobs'[i] = IF i <= n THEN jobs[i] ELSE EndJobs(c)[i - n]
      BY <1>3, <3>1, <3>3, ConcatProperties
    <3> QED
      BY <1>3, <3>2, <3>4, LenProperties
  <2>3. /\ Job("detach", c).type = "detach" /\ Job("free", c).type = "free"
        /\ Job("detach", c).conn = c /\ Job("free", c).conn = c
    BY DEF Job
  <2>4. /\ mappings' \in Seq(Conns) /\ DOMAIN mappings' = 1..(m - 1) /\ m \in Nat
        /\ DOMAIN mappings = 1..m
        /\ \A k \in 1..(m - 1) : mappings'[k] = IF k = at THEN mappings[m] ELSE mappings[k]
        /\ \A i, j \in 1..m : mappings[i] = mappings[j] => i = j
    BY <1>2, <1>7, WithoutMappingIs, MappedAreConns DEF ReceiveEnd
  <2>5. \A d : d \in Mapped' <=> d \in Mapped /\ d # c
    <3>1. \A d : d \in Mapped' <=> \E k \in 1..(m - 1) : mappings'[k] = d
      BY <2>4, MappedIs DEF Mapped
    <3>2. \A d : d \in Mapped <=> \E k \in 1..m : mappings[k] = d
      BY <2>4, MappedIs DEF Mapped
    <3>3. ASSUME NEW k \in 1..m, mappings[k] # c PROVE \E i \in 1..(m - 1) : mappings'[i] = mappings[k]
      <4>1. CASE k = m
        BY <1>2, <2>4, <3>3, <4>1
      <4>2. CASE k # m
        <5>1. k # at
          BY <3>3
        <5>2. m \in Nat /\ k \in 1..m /\ k # m
          BY <2>4, <3>3, <4>2
        <5>3. k \in 1..(m - 1)
          BY ONLY <5>2
        <5> QED
          BY <2>4, <5>1, <5>3
      <4> QED
        BY <4>1, <4>2
    <3>4. ASSUME NEW k \in 1..(m - 1) PROVE mappings'[k] # c /\ \E i \in 1..m : mappings[i] = mappings'[k]
      BY <1>2, <2>4
    <3> QED
      BY <3>1, <3>2, <3>3, <3>4
  <2>6. TypeOK'
    <3>1. \A i, j \in DOMAIN mappings' : mappings'[i] = mappings'[j] => i = j
      BY <1>2, <2>4
    <3> QED
      BY <1>1, <1>2, <2>1, <2>2, <2>4, <3>1 DEF TypeOK, JobType
  <2>7. JobsInOrder'
    <3>1. ASSUME NEW i \in DOMAIN jobs', jobs'[i].type = "free", i # 1
          PROVE  jobs'[i - 1] = Job("detach", jobs'[i].conn)
      <4>1. CASE i \in 1..n
        BY <1>3, <2>2, <3>1, <4>1 DEF JobsInOrder
      <4>2. CASE i = n + 2
        BY <1>3, <2>2, <2>3, <4>2
      <4> QED
        BY <1>3, <2>2, <2>3, <3>1, <4>1, <4>2
    <3>2. ASSUME jobs'[1].type = "free" PROVE jobs'[1].conn \notin attached'
      BY <1>1, <1>3, <2>2, <2>3, <3>2 DEF JobsInOrder
    <3>3. ASSUME NEW i \in DOMAIN jobs', NEW j \in DOMAIN jobs', i < j, jobs'[i].conn = jobs'[j].conn
          PROVE  j = i + 1 /\ jobs'[i].type = "detach"
      <4>1. CASE j \in 1..n
        BY <1>3, <2>2, <3>3, <4>1 DEF JobsInOrder
      <4>2. CASE j \in {n + 1, n + 2}
        <5>1. jobs'[i].conn = c
          BY <2>2, <2>3, <3>3, <4>2
        <5>2. i \notin 1..n
          BY <1>2, <1>3, <2>2, <5>1
        <5> QED
          BY <1>3, <2>2, <2>3, <3>3, <4>2, <5>2
      <4> QED
        BY <1>3, <2>2, <3>3, <4>1, <4>2
    <3> QED
      BY <3>1, <3>2, <3>3 DEF JobsInOrder
  <2>8. TurnsAhead'
    <3>1. \A k \in DOMAIN mappings' : k >= at + 1 => mappings'[k] = mappings[k] /\ mappings[k] # c /\ k \in DOMAIN mappings
      BY <1>2, <2>4
    <3>2. \A i \in DOMAIN jobs', k \in DOMAIN mappings' : k >= at + 1 => jobs'[i].conn # mappings'[k]
      <4> SUFFICES ASSUME NEW i \in DOMAIN jobs', NEW k \in DOMAIN mappings', k >= at + 1
                   PROVE  jobs'[i].conn # mappings[k]
        BY <3>1
      <4>1. k \in DOMAIN mappings /\ k >= at /\ mappings[k] # c
        BY <1>2, <2>4, <3>1
      <4>2. CASE i \in 1..n
        BY <1>1, <1>3, <2>2, <4>1, <4>2 DEF TurnsAhead
      <4>3. CASE i \in {n + 1, n + 2}
        BY <2>2, <2>3, <4>1, <4>3
      <4> QED
        BY <1>3, <2>2, <4>2, <4>3
    <3>3. \A i \in DOMAIN jobs' : jobs'[i].type # "message" => jobs'[i].conn \notin Mapped'
      BY <1>1, <1>3, <2>2, <2>3, <2>5 DEF TurnsAhead
    <3> QED
      BY <1>1, <3>2, <3>3 DEF TurnsAhead
  <2>9. Allocated'
    <3>1. \A i \in DOMAIN jobs' : jobs'[i].conn \in Conns /\ ((i \in DOMAIN jobs /\ jobs'[i] = jobs[i]) \/ jobs'[i].conn = c)
      BY <1>2, <1>3, <2>2, <2>3 DEF JobType
    <3>2. Mapped \subseteq Conns /\ attached \subseteq Conns
      BY MappedAreConns DEF TypeOK
    <3> QED
      BY <1>1, <1>2, <2>1, <2>5, <3>1, <3>2 DEF Allocated, Allocation
  <2>10. Accounted'
    <3>1. \A d \in Conns : (\E i \in DOMAIN jobs : jobs[i] = Job("free", d)) => \E i \in DOMAIN jobs' : jobs'[i] = Job("free", d)
      BY <1>3, <2>2
    <3>2. \E i \in DOMAIN jobs' : jobs'[i] = Job("free", c)
      BY <1>3, <2>2
    <3> QED
      BY <1>1, <2>1, <2>5, <3>1, <3>2 DEF Accounted
  <2> QED
    BY <1>4, <2>6, <2>7, <2>8, <2>9, <2>10
<1> QED
  BY <1>5, <1>6, <1>7 DEF Receive

(* processJobs takes one job: what is left is in order, and if it starts   *)
(* with "free" the one that was taken detached the connection.             *)
LEMMA TakenJob ==
    ASSUME IInv, NEW type, Taken(type), pc' \in {pc, "broken"}, UNCHANGED <<running, layers, stops, mappings>>
    PROVE  /\ NextJob.type = type /\ NextJob.conn \in Conns /\ jobs' \in Seq(JobType)
           /\ \A i \in DOMAIN jobs' : jobs'[i].conn \in Conns /\ \E k \in DOMAIN jobs : jobs'[i] = jobs[k]
           /\ \A i \in DOMAIN jobs : jobs[i] = NextJob \/ \E k \in DOMAIN jobs' : jobs'[k] = jobs[i]
           /\ \A i \in DOMAIN jobs' : jobs'[i].type = "free" =>
                 IF i = 1 THEN type = "detach" /\ jobs'[1].conn = NextJob.conn
                 ELSE jobs'[i - 1] = Job("detach", jobs'[i].conn)
           /\ \A i, j \in DOMAIN jobs' :
                 i < j /\ jobs'[i].conn = jobs'[j].conn => j = i + 1 /\ jobs'[i].type = "detach"
           /\ type # "detach" => \A i \in DOMAIN jobs' : jobs'[i].conn # NextJob.conn
           /\ type = "free" => NextJob.conn \notin attached
           /\ type # "message" /\ stops = 0 => NextJob.conn \notin Mapped
           /\ type = "message" => stops = 0
           /\ stops < 2 => conn[NextJob.conn] \in Allocation
           /\ TurnsAhead' /\ StopsOnce'
<1> USE DEF IInv
<1>1. /\ jobs \in Seq(JobType) /\ jobs # <<>> /\ jobs' = Tail(jobs) /\ NextJob = Head(jobs)
      /\ NextJob.type = type /\ pc \in {"jobs", "last jobs"}
  BY DEF Taken, Processing, NextJob, TypeOK, JobType
<1>2. /\ Len(jobs) \in Nat /\ DOMAIN jobs = 1..Len(jobs) /\ \A i \in DOMAIN jobs : jobs[i] \in JobType
  BY <1>1, LenProperties, ElementOfSeq
<1>3. /\ NextJob = jobs[1] /\ 1 \in DOMAIN jobs /\ jobs' \in Seq(JobType)
      /\ \A i \in DOMAIN jobs' : i \in Nat \ {0} /\ i + 1 \in DOMAIN jobs /\ jobs'[i] = jobs[i + 1]
      /\ \A i \in DOMAIN jobs : i # 1 => i - 1 \in DOMAIN jobs' /\ jobs'[i - 1] = jobs[i]
  <2>1. /\ Head(jobs) = jobs[1] /\ 1 \in DOMAIN jobs
        /\ Tail(jobs) \in Seq(JobType)
        /\ \A i \in DOMAIN Tail(jobs) : i \in Nat \ {0} /\ i + 1 \in DOMAIN jobs /\ Tail(jobs)[i] = jobs[i + 1]
        /\ \A i \in DOMAIN jobs : i # 1 => i - 1 \in DOMAIN Tail(jobs) /\ Tail(jobs)[i - 1] = jobs[i]
    BY <1>1, TailOfJobs
  <2> QED
    BY <1>1, <2>1
<1>4. \A i \in DOMAIN jobs' : jobs'[i].conn \in Conns /\ \E k \in DOMAIN jobs : jobs'[i] = jobs[k]
  BY <1>2, <1>3 DEF JobType
<1>5. ASSUME NEW i \in DOMAIN jobs', jobs'[i].type = "free"
      PROVE  IF i = 1 THEN type = "detach" /\ jobs'[1].conn = NextJob.conn
             ELSE jobs'[i - 1] = Job("detach", jobs'[i].conn)
  <2>1. i \in Nat \ {0} /\ i + 1 \in DOMAIN jobs /\ i + 1 # 1 /\ jobs[i + 1] = jobs'[i] /\ (i + 1) - 1 = i
    BY <1>3
  <2>2. jobs[i] = Job("detach", jobs'[i].conn)
    BY <1>5, <2>1 DEF JobsInOrder
  <2>3. CASE i = 1
    <3>1. NextJob = Job("detach", jobs'[1].conn)
      BY <1>3, <2>2, <2>3
    <3>2. NextJob.type = "detach" /\ NextJob.conn = jobs'[1].conn
      BY <3>1 DEF Job
    <3> QED
      BY <1>1, <2>3, <3>2
  <2>4. CASE i # 1
    <3>1. i \in DOMAIN jobs
      BY <1>2, <2>1
    <3> QED
      BY <1>3, <2>2, <2>4, <3>1
  <2> QED
    BY <2>3, <2>4
<1>6. ASSUME NEW i \in DOMAIN jobs', NEW j \in DOMAIN jobs', i < j, jobs'[i].conn = jobs'[j].conn
      PROVE  j = i + 1 /\ jobs'[i].type = "detach"
  <2>1. /\ i + 1 \in DOMAIN jobs /\ j + 1 \in DOMAIN jobs /\ i + 1 < j + 1
        /\ jobs[i + 1] = jobs'[i] /\ jobs[j + 1] = jobs'[j] /\ i \in Nat /\ j \in Nat
    BY <1>3, <1>6
  <2>2. j + 1 = (i + 1) + 1 /\ jobs[i + 1].type = "detach"
    BY <1>6, <2>1 DEF JobsInOrder
  <2> QED
    BY <2>1, <2>2
<1>7. ASSUME NEW i \in DOMAIN jobs', jobs'[i].conn = NextJob.conn PROVE type = "detach"
  <2>1. i + 1 \in DOMAIN jobs /\ 1 < i + 1 /\ jobs[i + 1].conn = jobs[1].conn
    BY <1>3, <1>7
  <2>2. jobs[1].type = "detach"
    BY <1>3, <2>1 DEF JobsInOrder
  <2> QED
    BY <1>1, <1>3, <2>2
<1>8. /\ type = "free" => NextJob.conn \notin attached
      /\ type # "message" /\ stops = 0 => NextJob.conn \notin Mapped
      /\ type = "message" => stops = 0
      /\ stops < 2 => conn[NextJob.conn] \in Allocation
      /\ NextJob.conn \in Conns
  <2>1. jobs[1] = NextJob /\ 1 \in DOMAIN jobs /\ jobs[1].type = type
    BY <1>1, <1>3
  <2>2. type = "free" => NextJob.conn \notin attached
    BY <2>1 DEF JobsInOrder
  <2>3. type # "message" /\ stops = 0 => NextJob.conn \notin Mapped
    BY <2>1 DEF TurnsAhead
  <2>4. type = "message" => stops = 0
    <3>1. stops \in Nat
      BY DEF TypeOK
    <3>2. stops > 0 => \A i \in DOMAIN jobs : jobs[i].type # "message"
      BY DEF StopsOnce
    <3>3. stops > 0 \/ stops = 0
      BY <3>1
    <3> QED
      BY <2>1, <3>2, <3>3
  <2>5. stops < 2 => conn[NextJob.conn] \in Allocation
    BY <2>1 DEF Allocated
  <2>6. NextJob.conn \in Conns
    BY <1>2, <2>1 DEF JobType
  <2> QED
    BY <2>2, <2>3, <2>4, <2>5, <2>6
<1>9. TurnsAhead'
  BY <1>1, <1>4 DEF TurnsAhead, Mapped
<1>10. StopsOnce'
  BY <1>1, <1>4 DEF StopsOnce
<1>11. \A i \in DOMAIN jobs : jobs[i] = NextJob \/ \E k \in DOMAIN jobs' : jobs'[k] = jobs[i]
  BY <1>3
<1> QED
  BY <1>1, <1>3, <1>4, <1>5, <1>6, <1>7, <1>8, <1>9, <1>10, <1>11

(* A message leaves what is allocated allocated.                           *)
LEMMA ProcessMessageStep ==
    ASSUME IInv, ProcessMessage PROVE IInv'
<1> DEFINE c == NextJob.conn
<1> USE DEF IInv
<1>1. Taken("message") /\ pc' \in {pc, "broken"} /\ UNCHANGED <<running, layers, stops, mappings, selected>>
  BY DEF ProcessMessage, GoesOn
<1>2. /\ c \in Conns /\ jobs' \in Seq(JobType) /\ stops = 0 /\ conn[c] \in Allocation
      /\ TurnsAhead' /\ StopsOnce'
  <2>1. /\ c \in Conns /\ jobs' \in Seq(JobType) /\ stops = 0 /\ TurnsAhead' /\ StopsOnce'
        /\ stops < 2 => conn[c] \in Allocation
    BY <1>1, TakenJob
  <2> QED
    BY <2>1
<1>3. \/ UNCHANGED <<network, attached>> /\ Works
      \/ Answers(c) /\ attached' \in {attached, attached \union {c}}
      \/ CloseConnections({c}) /\ attached' \in {attached, attached \ {c}} /\ Works
  BY DEF ProcessMessage
<1>4. /\ conn' \in [Conns -> {"none", "open", "closed", "freed"}]
      /\ sock' \in [Conns -> {"none", "waiting", "open", "eof", "shut", "closed", "lost"}]
      /\ unread' = unread /\ attached' \subseteq Conns
      /\ \A d \in Conns : conn'[d] \in Allocation <=> conn[d] \in Allocation
      /\ \A d \in Conns : sock'[d] \in {"none", "waiting"} => sock'[d] = sock[d]
      /\ attached' \subseteq attached \union {c}
  <2>1. CASE UNCHANGED <<network, attached>> /\ Works
    BY <2>1 DEF TypeOK, network
  <2>2. CASE Answers(c) /\ attached' \in {attached, attached \union {c}}
    BY <1>2, <2>2 DEF TypeOK, Answers, SendFails, network, Allocation
  <2>3. CASE CloseConnections({c}) /\ attached' \in {attached, attached \ {c}} /\ Works
    BY <1>2, <2>3 DEF TypeOK, CloseConnections, Allocation
  <2> QED
    BY <1>3, <2>1, <2>2, <2>3
<1>5. Works \/ Fails
  BY <1>3 DEF Answers, SendFails
<1>6. faults' \in 0..MaxFaults /\ (faults' = 0 => faults = 0)
  BY <1>5, FaultsAreCounted
<1>7. TypeOK'
  BY <1>1, <1>2, <1>4, <1>6 DEF TypeOK, selected, JobType
<1>8. JobsInOrder'
  BY <1>1, TakenJob DEF JobsInOrder
<1>9. Allocated'
  <2>1. Mapped \subseteq Conns /\ attached \subseteq Conns /\ Mapped' = Mapped
    BY <1>1, MappedAreConns DEF TypeOK, Mapped
  <2>2. \A i \in DOMAIN jobs' : jobs'[i].conn \in Conns /\ conn[jobs'[i].conn] \in Allocation
    BY <1>1, <1>2, TakenJob DEF Allocated
  <2> QED
    BY <1>1, <1>2, <1>4, <2>1, <2>2 DEF Allocated
<1>10. Accounted'
  <2>1. \A d \in Conns : (\E i \in DOMAIN jobs : jobs[i] = Job("free", d)) =>
                            \E i \in DOMAIN jobs' : jobs'[i] = Job("free", d)
    BY <1>1, TakenJob DEF Job
  <2> QED
    BY <1>1, <1>4, <1>6, <2>1 DEF Accounted, Mapped, Taken, Processing
<1> QED
  BY <1>2, <1>7, <1>8, <1>9, <1>10

(* UA_Connection_detachSecureChannel: the "free" that follows finds        *)
(* nothing attached.                                                       *)
LEMMA DetachConnectionStep ==
    ASSUME IInv, DetachConnection PROVE IInv'
<1> DEFINE c == NextJob.conn
<1> USE DEF IInv
<1>1. /\ Taken("detach") /\ pc' \in {pc, "broken"} /\ UNCHANGED <<running, layers, stops, mappings, faults>>
      /\ UNCHANGED <<conn, sock, unread, ready, results, at>> /\ attached' = attached \ {c}
  BY DEF DetachConnection, GoesOn, network, selected
<1>2. c \in Conns /\ jobs' \in Seq(JobType) /\ TurnsAhead' /\ StopsOnce'
  BY <1>1, TakenJob
<1>3. TypeOK'
  BY <1>1, <1>2 DEF TypeOK, JobType
<1>4. JobsInOrder'
  BY <1>1, TakenJob DEF JobsInOrder
<1>5. Allocated'
  <2>1. stops < 2 => \A i \in DOMAIN jobs' : conn[jobs'[i].conn] \in Allocation
    BY <1>1, TakenJob DEF Allocated
  <2> QED
    BY <1>1, <2>1 DEF Allocated, Mapped
<1>6. Accounted'
  <2>1. \A d \in Conns : (\E i \in DOMAIN jobs : jobs[i] = Job("free", d)) =>
                            \E i \in DOMAIN jobs' : jobs'[i] = Job("free", d)
    BY <1>1, TakenJob DEF Job
  <2> QED
    BY <1>1, <2>1 DEF Accounted, Mapped, Taken, Processing
<1> QED
  BY <1>2, <1>3, <1>4, <1>5, <1>6

(* FreeConnectionCallback frees what nothing refers to any more.           *)
LEMMA FreeConnectionStep ==
    ASSUME IInv, FreeConnection PROVE IInv'
<1> DEFINE c == NextJob.conn
<1> USE DEF IInv
<1>1. /\ Taken("free") /\ pc' \in {pc, "broken"} /\ UNCHANGED <<running, layers, stops, mappings, faults>>
      /\ UNCHANGED <<sock, unread, attached, ready, results, at>>
      /\ conn' = [conn EXCEPT ![c] = "freed"]
  BY DEF FreeConnection, GoesOn, selected
<1>2. /\ c \in Conns /\ jobs' \in Seq(JobType) /\ TurnsAhead' /\ StopsOnce'
      /\ c \notin attached /\ (stops = 0 => c \notin Mapped)
      /\ \A i \in DOMAIN jobs' : jobs'[i].conn # c
  BY <1>1, TakenJob
<1>3. \A d \in Conns : conn'[d] = IF d = c THEN "freed" ELSE conn[d]
  BY <1>1 DEF TypeOK
<1>4. TypeOK'
  BY <1>1, <1>2 DEF TypeOK, JobType
<1>5. JobsInOrder'
  BY <1>1, TakenJob DEF JobsInOrder
<1>6. Allocated'
  <2>1. Mapped \subseteq Conns /\ attached \subseteq Conns /\ Mapped' = Mapped
    BY <1>1, MappedAreConns DEF TypeOK, Mapped
  <2>2. stops < 2 => \A i \in DOMAIN jobs' : jobs'[i].conn \in Conns /\ conn[jobs'[i].conn] \in Allocation
    BY <1>1, TakenJob DEF Allocated
  <2> QED
    BY <1>1, <1>2, <1>3, <2>1, <2>2 DEF Allocated
<1>7. Accounted'
  <2>1. \A d \in Conns : d # c /\ (\E i \in DOMAIN jobs : jobs[i] = Job("free", d)) =>
                            \E i \in DOMAIN jobs' : jobs'[i] = Job("free", d)
    BY <1>1, TakenJob DEF Job
  <2>2. \A d \in Conns : conn'[d] \in Allocation => d # c /\ conn[d] \in Allocation
    BY <1>3 DEF Allocation
  <2> QED
    BY <1>1, <2>1, <2>2 DEF Accounted, Mapped, Taken, Processing
<1> QED
  BY <1>2, <1>4, <1>5, <1>6, <1>7

-----------------------------------------------------------------------------
(* The layer is stopped when no jobs are left, in the loop or after it.    *)
StopIsDue ==
    /\ jobs = <<>> /\ pc # "new"
    /\ \/ stops = 0 /\ running = FALSE /\ pc' \in {"jobs", "broken"}
       \/ stops \in {0, 1} /\ pc' \in {"last jobs", "broken"}

(* What is mapped is closed, and each connection gets its pair of jobs, or *)
(* the call fails.                                                         *)
LEMMA StopStep ==
    ASSUME IInv, Stop, StopIsDue PROVE IInv'
<1>0. TypeOK /\ JobsInOrder /\ TurnsAhead /\ StopsOnce /\ Allocated /\ Accounted
  BY DEF IInv
<1>1. /\ pc # "new" /\ jobs = <<>> /\ DOMAIN jobs = {} /\ pc' \in {"jobs", "last jobs", "broken"}
      /\ pc' = "jobs" => stops = 0 /\ running = FALSE
      /\ UNCHANGED <<running, layers, unread, mappings, attached, ready, results, at>> /\ Mapped' = Mapped
  <2>1. jobs = <<>> /\ pc # "new"
    BY DEF StopIsDue
  <2>2. DOMAIN jobs = {}
    BY <2>1
  <2>3. pc' \in {"jobs", "last jobs", "broken"} /\ (pc' = "jobs" => stops = 0 /\ running = FALSE)
    BY DEF StopIsDue
  <2>4. UNCHANGED <<running, layers, unread, mappings, attached, ready, results, at>>
    BY DEF Stop, selected
  <2>5. Mapped' = Mapped
    BY <2>4 DEF Mapped
  <2> QED
    BY <2>1, <2>2, <2>3, <2>4, <2>5
<1>21. /\ stops \in Nat /\ stops' \in Nat /\ stops' # 0 /\ stops' > 0
       /\ stops' < 2 => stops = 0
       /\ pc' = "jobs" => stops' = 1 /\ running = FALSE
  <2>1. stops \in Nat /\ stops' = stops + 1
    BY <1>0 DEF TypeOK, Stop
  <2>2. stops' \in Nat /\ stops' # 0 /\ stops' > 0 /\ (stops' < 2 => stops = 0) /\ (stops = 0 => stops' = 1)
    BY <2>1
  <2> QED
    BY <1>1, <2>1, <2>2
<1>2. Works \/ Fails
  BY DEF Stop
<1>3. faults' \in 0..MaxFaults /\ (Fails => faults' # 0) /\ (faults' = 0 => faults = 0)
  BY <1>0, <1>2, FaultsAreCounted
<1>4. CASE jobs' = <<>> /\ UNCHANGED <<conn, sock>> /\ Fails
  <2>1. TypeOK'
    BY <1>0, <1>1, <1>21, <1>3, <1>4 DEF TypeOK
  <2>2. DOMAIN jobs' = {}
    BY <1>4
  <2>3. JobsInOrder'
    BY <2>2 DEF JobsInOrder
  <2>4. TurnsAhead'
    BY <1>1, <1>21, <2>2 DEF TurnsAhead
  <2>5. StopsOnce'
    BY <1>1, <1>21, <2>2 DEF StopsOnce
  <2>6. Allocated'
    BY <1>0, <1>1, <1>21, <1>4, <2>2 DEF Allocated
  <2>7. Accounted'
    BY <1>0, <1>3, <1>4 DEF Accounted
  <2> QED
    BY <2>1, <2>3, <2>4, <2>5, <2>6, <2>7 DEF IInv
<1>5. CASE /\ jobs' = StopJobs
           /\ conn' = [c \in Conns |-> IF c \in Mapped /\ conn[c] # "freed" THEN "closed" ELSE conn[c]]
           /\ sock' = [c \in Conns |-> IF c \in Mapped THEN "closed" ELSE sock[c]]
  <2>1. /\ jobs' \in Seq(JobType)
        /\ \A j \in DOMAIN mappings : 2 * j \in DOMAIN jobs' /\ jobs'[2 * j] = Job("free", mappings[j])
        /\ \A k \in DOMAIN jobs' : \E j \in DOMAIN mappings :
              \/ k = 2 * j - 1 /\ jobs'[k] = Job("detach", mappings[j])
              \/ k = 2 * j /\ jobs'[k] = Job("free", mappings[j])
        /\ \A j \in DOMAIN mappings : jobs'[2 * j - 1] = Job("detach", mappings[j])
    BY <1>0, <1>5, StopJobsAre
  <2>2. /\ Mapped \subseteq Conns /\ Len(mappings) \in Nat /\ DOMAIN mappings = 1..Len(mappings)
        /\ \A i \in DOMAIN mappings : mappings[i] \in Conns /\ mappings[i] \in Mapped
        /\ \A i, j \in DOMAIN mappings : mappings[i] = mappings[j] => i = j
    BY <1>0, MappedAreConns
  <2>21. \A t, c : Job(t, c).type = t /\ Job(t, c).conn = c
    BY DEF Job
  <2>3. \A k \in DOMAIN jobs' : jobs'[k].conn \in Mapped /\ jobs'[k].type # "message"
    <3> SUFFICES ASSUME NEW k \in DOMAIN jobs'
                 PROVE  jobs'[k].conn \in Mapped /\ jobs'[k].type # "message"
      OBVIOUS
    <3>1. PICK j \in DOMAIN mappings :
              jobs'[k] = Job("detach", mappings[j]) \/ jobs'[k] = Job("free", mappings[j])
      BY <2>1
    <3>2. mappings[j] \in Mapped
      BY <2>2
    <3>3. jobs'[k].conn = mappings[j] /\ (jobs'[k].type = "detach" \/ jobs'[k].type = "free")
      BY <2>21, <3>1
    <3> QED
      BY <3>2, <3>3
  <2>4. \A c \in Conns : /\ conn'[c] = IF c \in Mapped /\ conn[c] # "freed" THEN "closed" ELSE conn[c]
                         /\ sock'[c] = IF c \in Mapped THEN "closed" ELSE sock[c]
    BY <1>5
  <2>5. TypeOK'
    <3>1. /\ conn' \in [Conns -> {"none", "open", "closed", "freed"}]
          /\ sock' \in [Conns -> {"none", "waiting", "open", "eof", "shut", "closed", "lost"}]
      BY <1>0, <1>5 DEF TypeOK
    <3> QED
      BY <1>0, <1>1, <1>21, <1>3, <2>1, <3>1 DEF TypeOK, JobType
  <2>6. JobsInOrder'
    <3>1. ASSUME NEW i \in DOMAIN jobs', jobs'[i].type = "free"
          PROVE  i # 1 /\ jobs'[i - 1] = Job("detach", jobs'[i].conn)
      <4>1. PICK j \in DOMAIN mappings :
                \/ i = 2 * j - 1 /\ jobs'[i] = Job("detach", mappings[j])
                \/ i = 2 * j /\ jobs'[i] = Job("free", mappings[j])
        BY <2>1
      <4>2. i = 2 * j /\ jobs'[i].conn = mappings[j]
        BY <2>21, <3>1, <4>1
      <4>3. j \in Nat /\ i # 1
        BY <2>2, <4>2
      <4> QED
        BY <2>1, <4>2, <4>3
    <3>2. ASSUME NEW i \in DOMAIN jobs', NEW k \in DOMAIN jobs', i < k, jobs'[i].conn = jobs'[k].conn
          PROVE  k = i + 1 /\ jobs'[i].type = "detach"
      <4>1. PICK a \in DOMAIN mappings :
                \/ i = 2 * a - 1 /\ jobs'[i] = Job("detach", mappings[a])
                \/ i = 2 * a /\ jobs'[i] = Job("free", mappings[a])
        BY <2>1
      <4>2. PICK b \in DOMAIN mappings :
                \/ k = 2 * b - 1 /\ jobs'[k] = Job("detach", mappings[b])
                \/ k = 2 * b /\ jobs'[k] = Job("free", mappings[b])
        BY <2>1
      <4>3. mappings[a] = mappings[b]
        BY <2>21, <3>2, <4>1, <4>2
      <4>4. a = b /\ a \in Nat
        BY <2>2, <4>3
      <4>5. i = 2 * a - 1 /\ k = 2 * a
        <5>1. (i = 2 * a - 1 \/ i = 2 * a) /\ (k = 2 * a - 1 \/ k = 2 * a) /\ i < k /\ a \in Nat
          BY <3>2, <4>1, <4>2, <4>4
        <5> QED
          BY <5>1
      <4>6. jobs'[i] = Job("detach", mappings[a])
        BY <2>1, <4>5
      <4> QED
        BY <2>21, <4>4, <4>5, <4>6
    <3> QED
      BY <3>1, <3>2 DEF JobsInOrder
  <2>7. TurnsAhead'
    BY <1>1, <1>21 DEF TurnsAhead
  <2>8. StopsOnce'
    BY <1>1, <1>21, <2>3 DEF StopsOnce
  <2>9. Allocated'
    <3>1. \A c \in Mapped' : sock'[c] \notin {"none", "waiting"}
      BY <1>1, <2>2, <2>4
    <3>2. ASSUME stops' < 2, NEW k \in DOMAIN jobs'
          PROVE  conn'[jobs'[k].conn] \in Allocation
      <4>1. stops = 0
        BY <1>21, <3>2
      <4>2. jobs'[k].conn \in Mapped /\ jobs'[k].conn \in Conns /\ conn[jobs'[k].conn] \in Allocation
        BY <1>0, <2>2, <2>3, <4>1 DEF Allocated
      <4> QED
        BY <2>4, <4>2 DEF Allocation
    <3>3. \A c \in attached' : conn'[c] \in Allocation
      <4>1. attached' = attached /\ attached \subseteq Conns
        BY <1>0, <1>1 DEF TypeOK
      <4> QED
        BY <1>0, <2>4, <4>1 DEF Allocated, Allocation
    <3> QED
      BY <1>21, <3>1, <3>2, <3>3 DEF Allocated
  <2>10. Accounted'
    <3> SUFFICES ASSUME faults' = 0
                 PROVE  /\ layers' = 1
                        /\ \A c \in Conns : conn'[c] \in Allocation =>
                              \E i \in DOMAIN jobs' : jobs'[i] = Job("free", c)
      BY DEF Accounted
    <3>1. faults = 0 /\ layers = 1
      BY <1>0, <1>1, <1>3 DEF Accounted
    <3>2. ASSUME NEW c \in Mapped
          PROVE  \E i \in DOMAIN jobs' : jobs'[i] = Job("free", c)
      <4>1. PICK j \in DOMAIN mappings : mappings[j] = c
        BY <1>0, MappedIs DEF Mapped, TypeOK
      <4> QED
        BY <2>1, <4>1
    <3>3. ASSUME NEW c \in Conns, c \notin Mapped, conn'[c] \in Allocation
          PROVE  FALSE
      <4>1. conn[c] \in Allocation
        BY <2>4, <3>3
      <4> QED
        BY <1>0, <1>1, <3>1, <3>3, <4>1 DEF Accounted
    <3> QED
      BY <1>1, <3>1, <3>2, <3>3
  <2> QED
    BY <2>5, <2>6, <2>7, <2>8, <2>9, <2>10 DEF IInv
<1> QED
  BY <1>4, <1>5 DEF Stop

(* UA_Server_run_mainloop finds that running turned FALSE.                 *)
LEMMA StopInLoopStep ==
    ASSUME IInv, StopInLoop PROVE IInv'
<1>1. Stop /\ jobs = <<>> /\ pc # "new" /\ stops = 0 /\ pc' \in {"jobs", "broken"}
  BY DEF StopInLoop, GoesOn, IInv, TurnsAhead, StopsOnce
<1>2. running = FALSE
  BY DEF StopInLoop, IInv, TypeOK
<1> QED
  BY <1>1, <1>2, StopStep DEF StopIsDue

(* UA_Server_run_shutdown stops the layer if there is one.                 *)
LEMMA RunShutdownStep ==
    ASSUME IInv, RunShutdown PROVE IInv'
<1>1. CASE layers # 0
  <2>1. Stop /\ jobs = <<>> /\ pc # "new" /\ stops \in {0, 1} /\ pc' \in {"last jobs", "broken"}
    BY <1>1 DEF RunShutdown, GoesOn, IInv, TurnsAhead, StopsOnce
  <2> QED
    BY <2>1, StopStep DEF StopIsDue
<1>2. CASE layers = 0
  <2> USE DEF IInv
  <2>1. /\ pc = "shutdown" /\ pc' = "stopped" /\ jobs = <<>>
        /\ UNCHANGED <<running, layers, stops, conn, sock, unread, mappings, attached, jobs, ready, results, at, faults>>
    BY <1>2 DEF RunShutdown, TurnsAhead, network, selected
  <2>2. TypeOK'
    BY <2>1 DEF TypeOK
  <2>3. JobsInOrder' /\ TurnsAhead'
    BY <2>1 DEF JobsInOrder, TurnsAhead, Mapped
  <2>4. StopsOnce'
    BY <1>2, <2>1 DEF StopsOnce
  <2>5. Allocated' /\ Accounted'
    BY <2>1 DEF Allocated, Accounted, Mapped
  <2> QED
    BY <2>2, <2>3, <2>4, <2>5
<1> QED
  BY <1>1, <1>2

-----------------------------------------------------------------------------
(* The invariant holds at first.                                           *)
LEMMA InitIsInOrder == LoopInit => IInv
<1> SUFFICES ASSUME LoopInit PROVE IInv
  OBVIOUS
<1>1. mappings = <<>> /\ jobs = <<>> /\ DOMAIN mappings = {} /\ DOMAIN jobs = {} /\ Mapped = {}
  BY MappedIs DEF LoopInit, Mapped
<1>2. TypeOK
  BY <1>1, BoundAssumption DEF LoopInit, TypeOK
<1>3. JobsInOrder /\ TurnsAhead /\ StopsOnce
  BY <1>1 DEF LoopInit, JobsInOrder, TurnsAhead, StopsOnce
<1>4. Allocated /\ Accounted
  BY <1>1 DEF LoopInit, Allocated, Accounted, Allocation
<1> QED
  BY <1>2, <1>3, <1>4 DEF IInv

(* And every step keeps it.                                                *)
LEMMA StepKeepsOrder == IInv /\ [LoopNext]_loopVars => IInv'
<1> SUFFICES ASSUME IInv, [LoopNext]_loopVars PROVE IInv'
  OBVIOUS
<1>1. CASE ServerStep
  <2>1. CASE AddNetworkLayer \/ RunStartup \/ Run \/ AllocateJobs \/ EndReceive \/ EndJobsLoop \/ WithoutLayer
    BY <2>1, QuietStep DEF Quiet
  <2>2. CASE ProcessRepeatedJobs
    BY <2>2, ProcessRepeatedJobsStep
  <2>3. CASE GetJobs
    BY <2>3, GetJobsStep
  <2>4. CASE Receive
    BY <2>4, ReceiveStep
  <2>5. CASE ProcessMessage
    BY <2>5, ProcessMessageStep
  <2>6. CASE DetachConnection
    BY <2>6, DetachConnectionStep
  <2>7. CASE FreeConnection
    BY <2>7, FreeConnectionStep
  <2>8. CASE StopInLoop
    BY <2>8, StopInLoopStep
  <2>9. CASE RunShutdown
    BY <2>9, RunShutdownStep
  <2>10. CASE Delete
    BY <2>10, DeleteStep
  <2> QED
    BY <1>1, <2>1, <2>2, <2>3, <2>4, <2>5, <2>6, <2>7, <2>8, <2>9, <2>10 DEF ServerStep
<1>2. CASE PeerStep
  BY <1>2, PeerStepStep
<1>3. CASE Interrupt
  BY <1>3, QuietStep DEF Quiet
<1>4. CASE UNCHANGED loopVars
  <2>1. UNCHANGED <<pc, running, layers, stops, conn, sock, unread, mappings, attached, jobs, ready, results, at, faults>>
    BY <1>4 DEF loopVars, network, selected
  <2>2. TypeOK' /\ JobsInOrder'
    BY <2>1 DEF IInv, TypeOK, JobsInOrder
  <2>3. TurnsAhead'
    BY <2>1 DEF IInv, TurnsAhead, Mapped
  <2>4. StopsOnce'
    BY <2>1 DEF IInv, StopsOnce
  <2>5. Allocated' /\ Accounted'
    BY <2>1 DEF IInv, Allocated, Accounted, Mapped
  <2> QED
    BY <2>2, <2>3, <2>4, <2>5 DEF IInv
<1> QED
  BY <1>1, <1>2, <1>3, <1>4 DEF LoopNext

(***************************************************************************)
(* The server builds its namespace and then runs its loop: each of its     *)
(* steps is one of the building or leaves that as it is, and one of the    *)
(* loop or leaves that as it is (UA_Server_new, UA_Server_run).            *)
(***************************************************************************)
LEMMA ServerIsBothParts == Spec => BuildSpec /\ LoopInit /\ [][LoopNext]_loopVars
<1>1. Init => BuildInit /\ LoopInit
  BY DEF Init
<1>2. [Next]_vars => [BuildNext]_space /\ [LoopNext]_loopVars
  <2>1. ASSUME NEW fails \in Shortages \union {{}}, AddNext(fails) /\ UNCHANGED loopVars
        PROVE  BuildNext /\ UNCHANGED loopVars
    BY <2>1 DEF BuildNext
  <2>2. ASSUME LoopNext /\ LeaveNodes PROVE BuildNext /\ LoopNext
    BY <2>2 DEF BuildNext
  <2>3. ASSUME UNCHANGED vars PROVE UNCHANGED space /\ UNCHANGED loopVars
    BY <2>3 DEF vars
  <2> QED
    BY <2>1, <2>2, <2>3 DEF Next
<1> QED
  BY <1>1, <1>2, PTL DEF Spec, BuildSpec

(* So the jobs are in their order for ever.                                *)
LEMMA InvAlways == Spec => []IInv
BY ServerIsBothParts, InitIsInOrder, StepKeepsOrder, PTL

(***************************************************************************)
(* For any number of peers, whatever the order in which they come, send    *)
(* and leave, in which jobs are made and running turns FALSE, and whatever *)
(* fails: nothing is left of a connection that was freed (processJobs,     *)
(* ServerNetworkLayerTCP_getJobs, ServerNetworkLayerTCP_stop).             *)
(***************************************************************************)
THEOREM FreedIsGone == Spec => []FreedConnectionsAreGone
<1>1. IInv => FreedConnectionsAreGone
  BY DEF IInv, Allocated, Allocation, FreedConnectionsAreGone
<1> QED
  BY <1>1, InvAlways, PTL

(***************************************************************************)
(* A server that was stopped has freed every connection and left no        *)
(* channel to any, unless a call of the system failed                      *)
(* (ServerNetworkLayerTCP_stop, UA_Server_run_shutdown).                   *)
(***************************************************************************)
THEOREM StoppedIsEmpty == Spec => []StoppedServerIsEmpty
<1>1. IInv => StoppedServerIsEmpty
  <2> SUFFICES ASSUME IInv, pc \in {"stopped", "deleted"}, faults = 0
               PROVE  (\A c \in Conns : conn[c] \in {"none", "freed"}) /\ attached = {}
    BY DEF StoppedServerIsEmpty
  <2> USE DEF IInv
  <2>1. jobs = <<>> /\ stops \in Nat /\ layers = 1
    BY DEF TurnsAhead, TypeOK, Accounted
  <2>11. stops > 0 \/ layers = 0
    BY DEF StopsOnce
  <2>12. stops # 0
    <3>1. stops > 0
      BY <2>1, <2>11
    <3> QED
      BY <2>1, <3>1
  <2>13. DOMAIN jobs = {}
    BY <2>1
  <2>2. \A c \in Conns : conn[c] \notin Allocation
    BY <2>12, <2>13 DEF Accounted
  <2>3. \A c \in Conns : conn[c] \in {"none", "freed"}
    BY <2>2 DEF TypeOK, Allocation
  <2>4. attached = {}
    BY <2>2 DEF Allocated, TypeOK
  <2> QED
    BY <2>3, <2>4
<1> QED
  BY <1>1, InvAlways, PTL
=============================================================================
