---------------------------- MODULE RepeatedJobs ----------------------------
(***************************************************************************)
(* The repeated jobs of the server's main loop: addRepeatedJob,            *)
(* removeRepeatedJob and processRepeatedJobs of the single-threaded build. *)
(* Jobs with the same interval share an entry; the entries form a list     *)
(* that is sorted by the time of their next execution.  A job is a         *)
(* callback of the application and may add and remove jobs itself.         *)
(*                                                                         *)
(* Times are relative to the clock: Tick makes every entry due earlier.    *)
(* How long the loop sleeps between two rounds is left open.               *)
(***************************************************************************)
EXTENDS Integers, Sequences, FiniteSets, SequencesExt

CONSTANTS
    Jobs,           \* jobs, each with its own guid
    Requests,       \* the intervals asked for, in ms
    MinRequest,     \* 5
    Unit,           \* 10000: ticks of the clock in a ms
    Modulus,        \* 2^32: UA_UInt32
    Entries,        \* memory for struct RepeatedJobs
    OwnEntry,       \* do jobs change the entry they are executed from?
    MaxLag,         \* bound: how late the main loop may be
    NULL

ASSUME RequestAssumption == Requests \subseteq Nat /\ MinRequest \in Nat
ASSUME UnitAssumption == Unit \in Nat \ {0} /\ Modulus \in Nat \ {0} /\ MaxLag \in Nat

EntryType == [due : Int, interval : 0..(Modulus - 1), jobs : Seq(Jobs)]

ASSUME EntryAssumption == NULL \notin Entries \cup EntryType /\ OwnEntry \in BOOLEAN

VARIABLES
    list,       \* server->repeatedJobs
    entry,      \* struct RepeatedJobs: NULL if its memory is free
    accepted,   \* jobs whose addition returned GOOD and that were not removed since
    tw,         \* the entry being processed, NULL between two rounds
    i,          \* the job of tw that is executed
    lag         \* how long ago the round read the clock

vars == <<list, entry, accepted, tw, i, lag>>

Init ==
    /\ list = <<>>
    /\ entry = [e \in Entries |-> NULL]
    /\ accepted = {}
    /\ tw = NULL
    /\ i = 0
    /\ lag = 0

Listed == {list[k] : k \in DOMAIN list}
JobsOf(e) == {entry[e].jobs[k] : k \in DOMAIN entry[e].jobs}
ListedJobs == UNION {JobsOf(e) : e \in {x \in Listed : entry[x] # NULL}}
FreeEntries == {e \in Entries : entry[e] = NULL}

(* The UInt32 product                                                      *)
Interval(ms) == (ms * Unit) % Modulus

(* mutant: the first time is now *)
Immediately(ms) == 0

(* firstTime                                                               *)
FirstTime(ms) == Interval(ms)

-----------------------------------------------------------------------------
(* The entries that are due no later than t come before this position.     *)
Leading(t) ==
    CHOOSE n \in 0..Len(list) :
       /\ \A k \in 1..n : entry[list[k]].due <= t
       /\ n < Len(list) => entry[list[n + 1]].due > t

(* The search for an entry with the interval, which gives up after the     *)
(* first entry that is due later than the job would be.                    *)
Matching(ms) ==
    {list[k] : k \in {n \in 1..(Leading(FirstTime(ms)) + 1) \cap DOMAIN list :
                         entry[list[n]].interval = Interval(ms)}}

(* The calls come from jobs and from the application between two rounds.   *)
MayChange(e) == OwnEntry \/ e # tw

(* A job joins the entry of its interval, which realloc may move.          *)
Join(job, ms) ==
    \E e \in Matching(ms), new \in Entries :
       /\ MayChange(e)
       /\ new = e \/ new \in FreeEntries
       /\ list' = [k \in DOMAIN list |-> IF list[k] = e THEN new ELSE list[k]]
       /\ entry' = [[entry EXCEPT ![e] = NULL] EXCEPT
                       ![new] = [entry[e] EXCEPT !.jobs = Append(@, job)]]
       /\ accepted' = accepted \cup {job}

Inserted(e, n) == InsertAt(list, n + 1, e)

(* The first job with its interval                                         *)
NewEntry(job, ms) ==
    /\ Matching(ms) = {}
    /\ \E e \in FreeEntries :
          /\ list' = Inserted(e, Leading(FirstTime(ms)))
          /\ entry' = [entry EXCEPT ![e] = [due |-> FirstTime(ms), interval |-> Interval(ms), jobs |-> <<job>>]]
    /\ accepted' = accepted \cup {job}

(* No memory: the result of addRepeatedJob is dropped.                     *)
NoMemory(job, ms) ==
    /\ \A e \in Matching(ms) : MayChange(e)
    /\ accepted' = accepted \cup {job}
    /\ UNCHANGED <<list, entry>>

(* UA_Server_addRepeatedJob                                                *)
AddRepeatedJob(job, ms) ==
    /\ job \notin accepted
    /\ ms >= MinRequest
    /\ tw # NULL => entry[tw] # NULL
    /\ Join(job, ms) \/ NewEntry(job, ms) \/ NoMemory(job, ms)
    /\ UNCHANGED <<tw, i, lag>>

(* mutant: the last job is cut off, the removed one stays *)
CutOff(jobs, k) == SubSeq(jobs, 1, Len(jobs) - 1)

(* The last job overwrites the removed one.                                *)
Overwritten(jobs, k) == SubSeq([jobs EXCEPT ![k] = jobs[Len(jobs)]], 1, Len(jobs) - 1)

Position(e) == CHOOSE k \in DOMAIN list : list[k] = e
Without(e) == RemoveAt(list, Position(e))

(* mutant: the entry is unlinked but keeps its memory *)
Unlinked(e) == entry

FreedEntry(e) == [entry EXCEPT ![e] = NULL]

(* UA_Server_removeRepeatedJob: the entry goes with its last job.          *)
RemoveRepeatedJob(job) ==
    /\ tw # NULL => entry[tw] # NULL
    /\ \E e \in Listed :
          /\ MayChange(e)
          /\ \E k \in DOMAIN entry[e].jobs :
                /\ entry[e].jobs[k] = job
                /\ IF Len(entry[e].jobs) = 1
                   THEN list' = Without(e) /\ entry' = FreedEntry(e)
                   ELSE entry' = [entry EXCEPT ![e].jobs = Overwritten(@, k)] /\ UNCHANGED list
    /\ accepted' = accepted \ {job}
    /\ UNCHANGED <<tw, i, lag>>

-----------------------------------------------------------------------------

(* nextTime > current ends the round                                       *)
Due(e) == e.due <= -lag

(* The round goes on with the first entry of l, or ends.                   *)
NextEntry(l, ent, end) ==
    IF l # <<>> /\ Due(ent[l[1]])
    THEN tw' = l[1] /\ i' = 1 /\ lag' = lag
    ELSE tw' = NULL /\ i' = 0 /\ lag' = 0 /\ end

(* processRepeatedJobs is called and finds a job to execute.               *)
StartRound ==
    /\ tw = NULL
    /\ NextEntry(list, entry, FALSE)
    /\ UNCHANGED <<list, entry, accepted>>

NextJob ==
    /\ tw # NULL /\ entry[tw] # NULL
    /\ i < Len(entry[tw].jobs)
    /\ i' = i + 1
    /\ UNCHANGED <<list, entry, accepted, tw, lag>>

(* mutant: the entry stays where it is *)
Kept(ent) == list

(* The entry moves behind the entries that are due no later: the search    *)
(* starts behind the first entry of the list.                              *)
Reinserted(ent) ==
    LET n == CHOOSE n \in 1..Len(list) :
                /\ \A k \in 2..n : ent[list[k]].due <= ent[tw].due
                /\ n < Len(list) => ent[list[n + 1]].due > ent[tw].due
    IN  IF list[n] = tw THEN list
        ELSE InsertAt(Without(tw), IF Position(tw) < n THEN n ELSE n + 1, tw)

(* The last job of tw has returned.                                        *)
FinishEntry ==
    /\ tw # NULL /\ entry[tw] # NULL
    /\ i >= Len(entry[tw].jobs)
    /\ entry' = [entry EXCEPT ![tw].due = @ + entry[tw].interval]
    /\ list' = Reinserted(entry')
    /\ NextEntry(list', entry', TRUE)
    /\ UNCHANGED accepted

(* UA_Server_deleteAllRepeatedJobs, when the server is deleted             *)
DeleteAll ==
    /\ tw = NULL
    /\ list # <<>>
    /\ list' = <<>>
    /\ entry' = [e \in Entries |-> IF e \in Listed THEN NULL ELSE entry[e]]
    /\ accepted' = {}
    /\ UNCHANGED <<tw, i, lag>>

Tick ==
    /\ lag < MaxLag
    /\ \A e \in Entries : entry[e] # NULL => entry[e].due > -MaxLag
    /\ entry' = [e \in Entries |-> IF entry[e] = NULL THEN NULL ELSE [entry[e] EXCEPT !.due = @ - 1]]
    /\ lag' = IF tw = NULL THEN 0 ELSE lag + 1
    /\ UNCHANGED <<list, accepted, tw, i>>

Next ==
    \/ \E job \in Jobs :
          \/ \E ms \in Requests : AddRepeatedJob(job, ms)
          \/ RemoveRepeatedJob(job)
    \/ StartRound
    \/ NextJob
    \/ FinishEntry
    \/ DeleteAll
    \/ Tick

Spec == Init /\ [][Next]_vars

(* The main loop goes round, jobs return, and time passes.                 *)
FairSpec ==
    /\ Spec
    /\ WF_vars(StartRound)
    /\ WF_vars(NextJob)
    /\ WF_vars(FinishEntry)
    /\ WF_vars(Tick)

-----------------------------------------------------------------------------
(* Properties                                                              *)

(* Every variable has its type; i is the position of a job while one runs. *)
TypeOK ==
    /\ list \in Seq(Entries)
    /\ entry \in [Entries -> EntryType \cup {NULL}]
    /\ accepted \subseteq Jobs
    /\ tw \in Entries \cup {NULL}
    /\ i \in Nat /\ lag \in 0..MaxLag
    /\ tw = NULL => i = 0 /\ lag = 0

(* The list is sorted, also while jobs run: this lets a round stop at the  *)
(* first entry that is not due.                                            *)
ListIsSorted ==
    \A m, n \in DOMAIN list : m < n => entry[list[m]].due <= entry[list[n]].due

(* Jobs with the same interval share one entry: the search in              *)
(* addRepeatedJob, which gives up early, never misses it.                  *)
OneEntryPerInterval ==
    \A m, n \in DOMAIN list : entry[list[m]].interval = entry[list[n]].interval => m = n

(* No entry is due later than one interval from now, so the first          *)
(* execution of a job that joins it occurs at now + interval at the latest.*)
NextRunIsInTime == \A e \in Listed : entry[e].due <= entry[e].interval

(* Together: what addRepeatedJob, which stops its search early, and        *)
(* processRepeatedJobs, which stops its round early, rely on.              *)
ListIsInOrder == TypeOK /\ ListIsSorted /\ OneEntryPerInterval /\ NextRunIsInTime

(* Entries are allocated exactly while they are listed, with at least one  *)
(* job each, and no job is listed twice.                                   *)
ListedEntriesAreAllocated ==
    /\ \A e \in Entries : entry[e] # NULL <=> e \in Listed
    /\ \A e \in Listed : entry[e].jobs # <<>>
    /\ \A d, e \in Listed : \A m \in DOMAIN entry[d].jobs, n \in DOMAIN entry[e].jobs :
          entry[d].jobs[m] = entry[e].jobs[n] => d = e /\ m = n

(* The removal of a job takes that job off the list and no other, and no   *)
(* job leaves the list in another way.                                     *)
JobsLeaveWhenRemoved ==
    [][ListedJobs \ ListedJobs' = ListedJobs \cap (accepted \ accepted')]_vars

Running(job) == tw # NULL /\ entry[tw] # NULL /\ i \in DOMAIN entry[tw].jobs /\ entry[tw].jobs[i] = job

(* A job that stays listed is executed again and again, whatever other     *)
(* jobs are added and removed, unless an interval has wrapped to 0.        *)
EveryJobIsRepeated ==
    \A job \in Jobs :
       []<>(Running(job) \/ job \notin ListedJobs \/ \E e \in Listed : entry[e].interval = 0)

=============================================================================
