------------------------------ MODULE MCThreads ------------------------------
(***************************************************************************)
(* What the library builds of threads, on small instances: the semaphore,  *)
(* the groups of threads that start behind it, and the active object that  *)
(* runs such a group, checked in one run.  A behaviour is one of a single  *)
(* part, which is chosen at the start.                                     *)
(***************************************************************************)
EXTENDS Semaphore

CONSTANTS
  number_of_jobs_, FirstMayFail, MaxStarts,
  Callers, threads_number, WaitBesideActivate, MaxActivations

ASSUME ThreadsAssumption ==
  /\ {number_of_jobs_, threads_number} \subseteq Nat \ {0}
  /\ {MaxStarts, MaxActivations} \subseteq Nat
  /\ {FirstMayFail, WaitBesideActivate} \subseteq BOOLEAN

VARIABLES
  part,
  number_running_, start_semaphore_, thread, owner, to_start, joined, starts, failed, ran,
  active_state_, terminating_, work_mutex_, termination_mutex_, working, caller_pc,
  activations

groupVars == <<number_running_, start_semaphore_, thread, owner, to_start, joined, starts,
               failed, ran>>
objectVars == <<active_state_, terminating_, work_mutex_, termination_mutex_, working,
                caller_pc, activations>>
threadsVars == <<part, vars, groupVars, objectVars>>

Group == INSTANCE ThreadRunner

Object == INSTANCE ActiveObject WITH pc <- caller_pc

ThreadsInit ==
  part \in {"semaphore", "runner", "object"} /\ Init /\ Group!Init /\ Object!Init

ThreadsNext ==
  /\ \/ part = "semaphore" /\ Next /\ UNCHANGED <<groupVars, objectVars>>
     \/ part = "runner" /\ Group!Next /\ UNCHANGED <<vars, objectVars>>
     \/ part = "object" /\ Object!Next /\ UNCHANGED <<vars, groupVars>>
  /\ UNCHANGED part

\* The Fairness of each module, for the behaviours of its part.
ThreadsFairness ==
  /\ \A t \in Threads : /\ WF_vars(part = "semaphore" /\ Step(t))
                        /\ SF_vars(part = "semaphore" /\ Lock(t))
  /\ WF_groupVars(part = "runner" /\ Group!InStart)
  /\ WF_groupVars(part = "runner" /\ Group!InWait)
  /\ \A i \in Group!Jobs : WF_groupVars(part = "runner" /\ Group!ThreadStep(i))
  /\ WF_objectVars(part = "object" /\ Object!WorkEnds)
  /\ \A c \in Callers : SF_objectVars(part = "object" /\ Object!Step(c))

ThreadsSpec == ThreadsInit /\ [][ThreadsNext]_threadsVars /\ ThreadsFairness

-----------------------------------------------------------------------------
\* "If creation of a thread fails, no jobs will run".
FailedStartRunsNothing == Group!FailedStartRunsNothing

\* A start that succeeded runs the job in each of its threads, the gate is closed
\* again when they are joined, and no thread is beyond a closed gate, however the
\* group was begun.
StartedThreadsRun ==
  /\ Group!TypeOK /\ Group!StartedThreadsRun
  /\ Group!GateClosedAtRest /\ Group!NonePassesClosedGate

\* An object that is not active has no thread at work, and no wait takes back
\* the order to end before the threads have followed it.
WorksWhileActive == Object!TypeOK /\ Object!OrderToEndKept /\ Object!NotActiveNotWorking

\* The active object is that of ActiveObjectSpec.
ImplementsActiveObject == Object!Implements

\* Whoever waits for a unit, for a group whose gate was opened, or for an active
\* object returns.
WaitsEnd == WaiterServed /\ Group!WaitReturns /\ Object!WaitReturns
=============================================================================
