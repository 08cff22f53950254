---------------------------- MODULE ActiveObject ----------------------------
(***************************************************************************)
(* gears ActiveObjectCommonImpl with the job of a DelegateActiveObject:    *)
(* threads that work until the job is told to terminate.  Callers activate,*)
(* deactivate and wait; waits are serialised by termination_mutex_, the    *)
(* other changes by work_mutex_, but a wait reads active_state_ and clears *)
(* terminating_ under the former alone.  The thread runner appears as what *)
(* ThreadRunner shows of it: a start runs all threads or none, and a wait  *)
(* for completion returns when none is left.                               *)
(***************************************************************************)
EXTENDS Naturals, FiniteSets

CONSTANTS
  Callers,
  threads_number,     \* one at least
  WaitBesideActivate, \* callers may wait while another one activates
  MaxActivations      \* bound on the calls of activate_object()

VARIABLES
  active_state_,
  terminating_,        \* of SINGLE_JOB_
  work_mutex_,         \* the callers that hold it
  termination_mutex_,  \* the same of this one
  working,             \* the threads in work()
  pc,                  \* [Callers -> where in an operation the caller is]
  activations

vars == <<active_state_, terminating_, work_mutex_, termination_mutex_,
          working, pc, activations>>

Init ==
  /\ active_state_ = "not_active" /\ terminating_ = FALSE
  /\ work_mutex_ = {} /\ termination_mutex_ = {}
  /\ working = 0
  /\ pc = [c \in Callers |-> "idle"]
  /\ activations = 0

Goto(c, l) == pc' = [pc EXCEPT ![c] = l]

InActivate == {"activate", "start"}
InWait == {"wait", "look", "complete", "terminated", "leave"}
InDestroy == {"destroy", "destroy_wait", "gone"}

At(labels) == \E c \in Callers : pc[c] \in labels

-----------------------------------------------------------------------------
\* activate_object(): throws AlreadyActive, or becomes active and starts.
CallActivate(c) ==
  /\ pc[c] = "idle" /\ ~At(InDestroy)
  /\ activations < MaxActivations
  /\ WaitBesideActivate \/ ~At(InWait)
  /\ activations' = activations + 1
  /\ Goto(c, "activate")
  /\ UNCHANGED <<active_state_, terminating_, work_mutex_, termination_mutex_,
                 working>>

MayActivateUnlessActive == active_state_ # "active"
MayActivate == active_state_ = "not_active"

Activate(c) ==
  /\ pc[c] = "activate" /\ work_mutex_ = {}
  /\ IF MayActivate
     THEN /\ work_mutex_' = {c}
          /\ active_state_' = "active"
          /\ Goto(c, "start")
     ELSE Goto(c, "idle") /\ UNCHANGED <<work_mutex_, active_state_>>
  /\ UNCHANGED <<terminating_, termination_mutex_, working, activations>>

\* start_threads_ is 0: all of them.
StartedOneMore == threads_number + 1
Started == threads_number

\* thread_runner_.start(); the guard is released at the return or the throw.
Start(c) ==
  /\ pc[c] = "start"
  /\ \/ working' = Started /\ UNCHANGED active_state_
     \/ active_state_' = "not_active" /\ UNCHANGED working
  /\ work_mutex_' = {}
  /\ Goto(c, "idle")
  /\ UNCHANGED <<terminating_, termination_mutex_, activations>>

-----------------------------------------------------------------------------
\* deactivate_object(), and make_terminate() in it.
CallDeactivate(c) ==
  /\ pc[c] = "idle" /\ ~At(InDestroy)
  /\ Goto(c, "deactivate")
  /\ UNCHANGED <<active_state_, terminating_, work_mutex_, termination_mutex_,
                 working, activations>>

Deactivate(c) ==
  /\ pc[c] = "deactivate" /\ work_mutex_ = {}
  /\ IF active_state_ = "active"
     THEN /\ work_mutex_' = {c}
          /\ active_state_' = "deactivating"
          /\ Goto(c, "make_terminate")
     ELSE Goto(c, "idle") /\ UNCHANGED <<work_mutex_, active_state_>>
  /\ UNCHANGED <<terminating_, termination_mutex_, working, activations>>

TerminatingKept == terminating_
Terminating == TRUE

MakeTerminate(c) ==
  /\ pc[c] = "make_terminate"
  /\ terminating_' = Terminating
  /\ work_mutex_' = {}
  /\ Goto(c, "idle")
  /\ UNCHANGED <<active_state_, termination_mutex_, working, activations>>

-----------------------------------------------------------------------------
\* wait_object()
CallWait(c) ==
  /\ pc[c] = "idle" /\ ~At(InDestroy)
  /\ WaitBesideActivate \/ ~At(InActivate)
  /\ Goto(c, "wait")
  /\ UNCHANGED <<active_state_, terminating_, work_mutex_, termination_mutex_,
                 working, activations>>

LockTermination(c) ==
  /\ pc[c] = "wait" /\ termination_mutex_ = {}
  /\ termination_mutex_' = {c}
  /\ Goto(c, "look")
  /\ UNCHANGED <<active_state_, terminating_, work_mutex_, working, activations>>

\* active_state_ is read without the work mutex.
Look(c) ==
  /\ pc[c] = "look"
  /\ Goto(c, IF active_state_ = "not_active" THEN "leave" ELSE "complete")
  /\ UNCHANGED <<active_state_, terminating_, work_mutex_, termination_mutex_,
                 working, activations>>

CompleteAtOnce == TRUE
Complete == working = 0

WaitForCompletion(c) ==
  /\ pc[c] = "complete" /\ Complete
  /\ Goto(c, "terminated")
  /\ UNCHANGED <<active_state_, terminating_, work_mutex_, termination_mutex_,
                 working, activations>>

Terminated(c) ==
  /\ pc[c] = "terminated"
  /\ terminating_' = FALSE
  /\ Goto(c, "leave")
  /\ UNCHANGED <<active_state_, work_mutex_, termination_mutex_, working,
                 activations>>

Leave(c) ==
  /\ pc[c] = "leave" /\ work_mutex_ = {}
  /\ active_state_' = IF active_state_ = "deactivating" THEN "not_active"
                      ELSE active_state_
  /\ termination_mutex_' = {}
  /\ Goto(c, "idle")
  /\ UNCHANGED <<terminating_, work_mutex_, working, activations>>

-----------------------------------------------------------------------------
\* The destructor, when nobody else is inside the object.
Destroy(c) ==
  /\ \A d \in Callers : pc[d] = "idle"
  /\ IF active_state_ = "not_active"
     THEN Goto(c, "gone") /\ UNCHANGED terminating_
     ELSE Goto(c, "destroy_wait") /\ terminating_' = Terminating
  /\ UNCHANGED <<active_state_, work_mutex_, termination_mutex_, working,
                 activations>>

Destroyed(c) ==
  /\ pc[c] = "destroy_wait" /\ Complete
  /\ terminating_' = FALSE
  /\ Goto(c, "gone")
  /\ UNCHANGED <<active_state_, work_mutex_, termination_mutex_, working,
                 activations>>

-----------------------------------------------------------------------------
\* A thread of the job looks at is_terminating() before each delegate_().
WorkEnds ==
  /\ working > 0 /\ terminating_
  /\ working' = working - 1
  /\ UNCHANGED <<active_state_, terminating_, work_mutex_, termination_mutex_,
                 pc, activations>>

Call(c) == CallActivate(c) \/ CallDeactivate(c) \/ CallWait(c) \/ Destroy(c)

Step(c) == \/ Activate(c) \/ Start(c) \/ Deactivate(c) \/ MakeTerminate(c)
           \/ LockTermination(c) \/ Look(c) \/ WaitForCompletion(c)
           \/ Terminated(c) \/ Leave(c) \/ Destroyed(c)

Next == WorkEnds \/ \E c \in Callers : Call(c) \/ Step(c)

Spec == Init /\ [][Next]_vars

\* Threads run, and a mutex that is free again and again is not refused for ever.
Fairness ==
  /\ WF_vars(WorkEnds)
  /\ \A c \in Callers : SF_vars(Step(c))

LiveSpec == Spec /\ Fairness

-----------------------------------------------------------------------------
Labels == {"idle", "deactivate", "make_terminate"} \cup InActivate \cup InWait
          \cup InDestroy

TypeOK ==
  /\ active_state_ \in {"active", "deactivating", "not_active"}
  /\ terminating_ \in BOOLEAN
  /\ work_mutex_ \subseteq Callers /\ termination_mutex_ \subseteq Callers
  /\ working \in 0 .. threads_number
  /\ pc \in [Callers -> Labels]
  /\ activations \in 0 .. MaxActivations

\* Threads that work in an object that is being deactivated have been told to
\* end, or its deactivation is about to tell them: no wait takes the order back.
OrderToEndKept ==
  active_state_ = "deactivating" /\ working > 0 =>
    terminating_ \/ At({"make_terminate"})

\* "Waits for deactivation completion" (wait_object): an object that counts as
\* not active has no thread in its job.
NotActiveNotWorking == active_state_ = "not_active" => working = 0

\* A wait returns once the object is being deactivated, and so does the
\* destructor.
WaitReturns ==
  \A c \in Callers :
    /\ pc[c] = "complete" /\ active_state_ = "deactivating" ~> pc[c] = "idle"
    /\ pc[c] = "destroy_wait" ~> pc[c] = "gone"

\* The object as ActiveObjectSpec has it: active when the threads have started;
\* the destructor deactivates.
AbstractState ==
  IF At({"gone", "start"}) THEN "not_active"
  ELSE IF At({"destroy_wait"}) THEN "deactivating"
  ELSE active_state_

Abstract == INSTANCE ActiveObjectSpec
              WITH state <- AbstractState, running <- working > 0

\* The active object of ActiveObjectSpec.
Implements == Abstract!Spec
=============================================================================
