---------------------------- MODULE ThreadRunner ----------------------------
(***************************************************************************)
(* gears ThreadRunner: a group of threads that runs one job.  The threads  *)
(* of a start wait at a semaphore until all of them exist, so that either  *)
(* every thread runs the job or, when one cannot be created, none does.    *)
(* One owner calls the operations ("Thread unsafe"); the threads run       *)
(* beside it.  Thread i uses jobs_[i - 1] of the source.                   *)
(***************************************************************************)
EXTENDS Integers, FiniteSets

CONSTANTS
  number_of_jobs_, \* one at least
  FirstMayFail, \* pthread_create may fail for the first thread of a group too
  MaxStarts     \* bound on the calls of start()

Jobs == 1 .. number_of_jobs_

VARIABLES
  number_running_,
  start_semaphore_, \* its count
  thread,           \* [Jobs -> where the thread of the job is]
  owner,            \* where the owner is
  to_start,         \* local of start()
  joined,           \* local of wait_for_completion(): threads joined so far
  starts,
  failed,           \* history: the start() that began the group threw
  ran               \* history: threads that ran the job since the group began

vars == <<number_running_, start_semaphore_, thread, owner, to_start, joined,
          starts, failed, ran>>

Init ==
  /\ number_running_ = 0 /\ start_semaphore_ = 0
  /\ thread = [i \in Jobs |-> "none"]
  /\ owner = "idle" /\ to_start = 0 /\ joined = 0
  /\ starts = 0 /\ failed = FALSE /\ ran = {}

-----------------------------------------------------------------------------
(* The owner.                                                              *)

\* 0, or more than there are, stands for all of them.
GroupSizeAsIs(n) == n
GroupSize(n) == IF n = 0 \/ n > number_of_jobs_ THEN number_of_jobs_ ELSE n

\* start(): throws AlreadyStarted unless nothing runs.
Start(n) ==
  /\ owner = "idle" /\ number_running_ = 0
  /\ starts < MaxStarts
  /\ starts' = starts + 1
  /\ to_start' = GroupSize(n)
  /\ owner' = "create"
  /\ failed' = FALSE /\ ran' = {}
  /\ UNCHANGED <<number_running_, start_semaphore_, thread, joined>>

\* start_one(): one more thread, unless all exist.  It looks at nothing else: on
\* a runner at rest it begins a group whose gate nobody opens.
StartOne ==
  /\ owner = "idle" /\ number_running_ # number_of_jobs_
  /\ to_start' = number_running_ + 1
  /\ owner' = "create_one"
  /\ IF number_running_ = 0
     THEN failed' = FALSE /\ ran' = {}
     ELSE UNCHANGED <<failed, ran>>
  /\ UNCHANGED <<number_running_, start_semaphore_, thread, joined, starts>>

\* start_one_thread_(): pthread_create, then number_running_++.
Create ==
  /\ owner \in {"create", "create_one"} /\ number_running_ < to_start
  /\ thread' = [thread EXCEPT ![number_running_ + 1] = "created"]
  /\ owner' = IF owner = "create" THEN "count" ELSE "count_one"
  /\ UNCHANGED <<number_running_, start_semaphore_, to_start, joined, starts,
                 failed, ran>>

CountThread ==
  /\ owner \in {"count", "count_one"}
  /\ number_running_' = number_running_ + 1
  /\ owner' = IF owner = "count" THEN "create" ELSE "idle"
  /\ UNCHANGED <<start_semaphore_, thread, to_start, joined, starts, failed, ran>>

\* The handler of start(): the count turns negative, so that no released thread
\* runs the job, and the threads that exist are waited for.
FailedCountKept == number_running_
FailedCount == -number_running_

CreateFails ==
  /\ owner = "create" /\ number_running_ < to_start
  /\ FirstMayFail \/ number_running_ > 0
  /\ number_running_' = FailedCount
  /\ start_semaphore_' = start_semaphore_ + 1
  /\ failed' = TRUE
  /\ joined' = 0
  /\ owner' = IF number_running_ = 0 THEN "idle" ELSE "join"
  /\ UNCHANGED <<thread, to_start, starts, ran>>

CreateOneFails ==
  /\ owner = "create_one"
  /\ owner' = "idle"
  /\ UNCHANGED <<number_running_, start_semaphore_, thread, to_start, joined,
                 starts, failed, ran>>

\* All exist: the gate opens.
Open ==
  /\ owner = "create" /\ number_running_ = to_start
  /\ start_semaphore_' = start_semaphore_ + 1
  /\ owner' = "idle"
  /\ UNCHANGED <<number_running_, thread, to_start, joined, starts, failed, ran>>

\* wait_for_completion(): returns at once when nothing runs.
Wait ==
  /\ owner = "idle" /\ number_running_ # 0
  /\ owner' = "join" /\ joined' = 0
  /\ UNCHANGED <<number_running_, start_semaphore_, thread, to_start, starts,
                 failed, ran>>

Running == IF number_running_ < 0 THEN -number_running_ ELSE number_running_

Join ==
  /\ owner = "join" /\ joined < Running
  /\ thread[joined + 1] = "done"
  /\ thread' = [thread EXCEPT ![joined + 1] = "none"]
  /\ joined' = joined + 1
  /\ UNCHANGED <<number_running_, start_semaphore_, owner, to_start, starts,
                 failed, ran>>

\* The gate is closed behind the last thread.
GateLeftOpen == start_semaphore_
GateClosed == start_semaphore_ - 1

Finish ==
  /\ owner = "join" /\ joined = Running
  /\ start_semaphore_ > 0
  /\ start_semaphore_' = GateClosed
  /\ number_running_' = 0
  /\ joined' = 0
  /\ owner' = "idle"
  /\ UNCHANGED <<thread, to_start, starts, failed, ran>>

-----------------------------------------------------------------------------
(* A thread: thread_func_.                                                 *)

Acquire(i) ==
  /\ thread[i] = "created" /\ start_semaphore_ > 0
  /\ start_semaphore_' = start_semaphore_ - 1
  /\ thread' = [thread EXCEPT ![i] = "acquired"]
  /\ UNCHANGED <<number_running_, owner, to_start, joined, starts, failed, ran>>

PassedOnNever == start_semaphore_
PassedOn == start_semaphore_ + 1

Release(i) ==
  /\ thread[i] = "acquired"
  /\ start_semaphore_' = PassedOn
  /\ thread' = [thread EXCEPT ![i] = "released"]
  /\ UNCHANGED <<number_running_, owner, to_start, joined, starts, failed, ran>>

\* number_running_ > 0: the group is complete; then job.work().
Work(i) ==
  /\ thread[i] = "released"
  /\ IF number_running_ > 0
     THEN /\ thread' = [thread EXCEPT ![i] = "working"]
          /\ ran' = ran \cup {i}
     ELSE /\ thread' = [thread EXCEPT ![i] = "done"]
          /\ UNCHANGED ran
  /\ UNCHANGED <<number_running_, start_semaphore_, owner, to_start, joined,
                 starts, failed>>

Done(i) ==
  /\ thread[i] = "working"
  /\ thread' = [thread EXCEPT ![i] = "done"]
  /\ UNCHANGED <<number_running_, start_semaphore_, owner, to_start, joined,
                 starts, failed, ran>>

-----------------------------------------------------------------------------
ThreadStep(i) == Acquire(i) \/ Release(i) \/ Work(i) \/ Done(i)

InStart == Create \/ CountThread \/ CreateFails \/ CreateOneFails \/ Open
InWait  == Join \/ Finish

Next ==
  \/ \E n \in 0 .. number_of_jobs_ + 1 : Start(n)
  \/ StartOne \/ InStart \/ Wait \/ InWait
  \/ \E i \in Jobs : ThreadStep(i)

Spec == Init /\ [][Next]_vars

\* The owner's calls and the threads run, and jobs end: the owner waits after it
\* has told them to.  A wait may still last for ever (GateOpen).  Each thread takes
\* the semaphore once and hands it on, so that a weakly fair semaphore is enough.
Fairness ==
  /\ WF_vars(InStart) /\ WF_vars(InWait)
  /\ \A i \in Jobs : WF_vars(ThreadStep(i))

LiveSpec == Spec /\ Fairness

-----------------------------------------------------------------------------
TypeOK ==
  /\ number_running_ \in -number_of_jobs_ .. number_of_jobs_
  /\ start_semaphore_ \in Nat
  /\ thread \in [Jobs -> {"none", "created", "acquired", "released", "working", "done"}]
  /\ owner \in {"idle", "create", "count", "create_one", "count_one", "join"}
  /\ to_start \in 0 .. number_of_jobs_
  /\ joined \in 0 .. number_of_jobs_
  /\ starts \in 0 .. MaxStarts /\ failed \in BOOLEAN /\ ran \subseteq Jobs

\* "If creation of a thread fails, no jobs will run" (start).
FailedStartRunsNothing == failed => ran = {}

\* A start that succeeded runs the job in every thread it created: none passes
\* the gate before the group is complete and skips the job.
StartedThreadsRun ==
  ~failed => \A i \in Jobs : thread[i] = "done" => i \in ran

\* While nothing runs the gate is closed, so that the next group waits for its
\* last thread.
GateClosedAtRest ==
  owner = "idle" /\ number_running_ = 0 => start_semaphore_ = 0

\* The unit of the semaphore that start() gives is there, or in a thread's hands.
GateOpen == start_semaphore_ > 0 \/ \E i \in Jobs : thread[i] = "acquired"

\* wait_for_completion() returns when start() has opened the gate of the group,
\* for the gate passes every thread on.  A group that start_one() began has none
\* to open it: its threads wait, and so does wait_for_completion().
WaitReturns == owner = "join" /\ GateOpen ~> owner = "idle"

\* Threads are begun behind a gate: while nobody has opened it, none of them is
\* beyond it.
NonePassesClosedGate ==
  ~GateOpen => \A i \in Jobs : thread[i] \in {"none", "created"}
=============================================================================
