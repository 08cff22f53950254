---------------------------- MODULE ThreadsProofs ----------------------------
(***************************************************************************)
(* Theorems on the semaphore, the active object and the group of threads   *)
(* that it runs, for any numbers of callers, threads and calls.            *)
(*                                                                         *)
(* The argument for the semaphore (IndInv).  Where a thread is tells       *)
(* whether it holds the mutex and which call it is in.                     *)
(*                                                                         *)
(* The argument for the object (ObjectInv).  Who holds a mutex is seen by  *)
(* where it is (Owns).  While somebody waits nobody activates, so that the *)
(* threads that a wait saw end stay the last: past the wait for completion *)
(* none works, and the wait may take back the order to end and call the    *)
(* object not active.                                                      *)
(*                                                                         *)
(* The argument for the group (GroupInv).  At most one unit of the gate is *)
(* about, with the owner or with a thread; the threads that exist are the  *)
(* first of the group; and while they are created none has the unit.       *)
(***************************************************************************)
EXTENDS MCThreads, Integers, FiniteSetTheorems, TLAPS

-----------------------------------------------------------------------------
(* The semaphore.                                                          *)

\* The mutex is held by the thread that is between lock and unlock.
HolderInside ==
  /\ \A t \in Threads : t \in locked <=> pc[t] \in Inside
  /\ \A t, u \in locked : t = u

\* Where a thread is tells which calls it may be in.
Takers == {"acquire", "try_acquire", "timed_acquire"}

CallOfLabel ==
  \A t \in Threads :
    /\ pc[t] = "idle" <=> call[t] = "none"
    /\ pc[t] \in {"give", "signal", "returning"} => call[t] = "release"
    /\ pc[t] \in {"test", "wait", "relock"} => call[t] \in Takers
    /\ pc[t] \in {"wait", "relock"} => call[t] # "try_acquire"
    /\ pc[t] \in {"late", "relock_late"} => call[t] = "timed_acquire"
    /\ t \in waiting <=> pc[t] = "wait"

IndInv == TypeOK /\ HolderInside /\ CallOfLabel

-----------------------------------------------------------------------------
LEMMA InitInd == Init => IndInv
  BY SemaphoreAssumption DEF Init, IndInv, TypeOK, HolderInside, CallOfLabel,
     Labels, Inside, Calls, Takers

\* One step of any thread preserves the invariant.
LEMMA StepInd == IndInv /\ [Next]_vars => IndInv'
<1> SUFFICES ASSUME IndInv, [Next]_vars PROVE IndInv'
  OBVIOUS
<1> USE DEF IndInv, TypeOK, Labels, Inside, Calls, Takers, Goto, Return, Unlock
<1>1. ASSUME NEW t \in Threads, Begin(t) PROVE IndInv'
  BY <1>1 DEF Begin, FirstStep, HolderInside, CallOfLabel
<1>2. ASSUME NEW t \in Threads, Lock(t) PROVE IndInv'
  <2>1. TypeOK'
    BY <1>2 DEF Lock, CallOfLabel
  <2>2. HolderInside'
    BY <1>2 DEF Lock, Free, HolderInside, CallOfLabel
  <2>3. CallOfLabel'
    BY <1>2 DEF Lock, CallOfLabel
  <2> QED
    BY <2>1, <2>2, <2>3
<1>3. ASSUME NEW t \in Threads, Take(t) PROVE IndInv'
  BY <1>3 DEF Take, Available, HolderInside, CallOfLabel
<1>4. ASSUME NEW t \in Threads, Block(t) PROVE IndInv'
  BY <1>4 DEF Block, HolderInside, CallOfLabel
<1>5. ASSUME NEW t \in Threads, TryFails(t) PROVE IndInv'
  BY <1>5 DEF TryFails, HolderInside, CallOfLabel
<1>6. ASSUME NEW t \in Threads, TimedFails(t) PROVE IndInv'
  BY <1>6 DEF TimedFails, HolderInside, CallOfLabel
<1>7. ASSUME NEW t \in Threads, Give(t) PROVE IndInv'
  BY <1>7 DEF Give, AfterGive, HolderInside, CallOfLabel
<1>8. ASSUME NEW t \in Threads, Signal(t) PROVE IndInv'
  <2>1. CASE waiting = {}
    BY <1>8, <2>1 DEF Signal, HolderInside, CallOfLabel
  <2>2. CASE waiting # {}
    <3>1. PICK u \in waiting :
            /\ waiting' = waiting \ {u}
            /\ pc' = [pc EXCEPT ![t] = "returning", ![u] = "relock"]
      BY <1>8, <2>2 DEF Signal
    <3>2. u \in Threads /\ u # t /\ pc[u] = "wait"
      BY <1>8 DEF Signal, CallOfLabel
    <3> QED
      BY <1>8, <3>1, <3>2 DEF Signal, HolderInside, CallOfLabel
  <2> QED
    BY <2>1, <2>2
<1>9. ASSUME NEW t \in Threads, Released(t) PROVE IndInv'
  BY <1>9 DEF Released, HolderInside, CallOfLabel
<1>10. ASSUME NEW t \in Threads, Spurious(t) PROVE IndInv'
  BY <1>10 DEF Spurious, HolderInside, CallOfLabel
<1>11. ASSUME NEW t \in Threads, Timeout(t) PROVE IndInv'
  BY <1>11 DEF Timeout, HolderInside, CallOfLabel
<1>12. CASE UNCHANGED vars
  BY <1>12 DEF vars, HolderInside, CallOfLabel
<1> QED
  BY <1>1, <1>2, <1>3, <1>4, <1>5, <1>6, <1>7, <1>8, <1>9, <1>10, <1>11, <1>12
     DEF Next, Step

LEMMA Invariance == Spec => []IndInv
  BY InitInd, StepInd, PTL DEF Spec

-----------------------------------------------------------------------------
\* Type correctness; the count is never negative.
THEOREM TypeCorrect == Spec => []TypeOK
<1>1. IndInv => TypeOK
  BY DEF IndInv
<1> QED
  BY <1>1, Invariance, PTL

\* The count is touched by one thread at a time.
THEOREM Guarded == Spec => []MutualExclusion
<1>1. IndInv => MutualExclusion
  BY DEF IndInv, HolderInside, MutualExclusion
<1> QED
  BY <1>1, Invariance, PTL

-----------------------------------------------------------------------------
LEMMA CountsOfThreads ==
  ASSUME NEW A \in SUBSET Threads
  PROVE  IsFiniteSet(A) /\ Cardinality(A) \in Nat
BY SemaphoreAssumption, FS_Subset, FS_CardinalityType

\* What keeps NoLostWakeup when the count does not grow: no thread that was
\* awake falls asleep and no signal is dropped.
LEMMA KeptByMore ==
  ASSUME IndInv, NoLostWakeup, count_' = count_, waiting' \subseteq waiting,
         Awake \subseteq Awake', Signalling' = Signalling, Awake' \subseteq Threads
  PROVE  NoLostWakeup'
<1> DEFINE A == Awake
           B == Awake'
           S == Signalling
<1>1. A \in SUBSET Threads /\ B \in SUBSET Threads /\ S \in SUBSET Threads
  BY DEF Awake, Signalling
<1>2. Cardinality(A) \in Nat /\ Cardinality(B) \in Nat /\ Cardinality(S) \in Nat
  BY <1>1, CountsOfThreads
<1>3. Cardinality(A) <= Cardinality(B)
  BY <1>1, CountsOfThreads, FS_Subset
<1>4. CASE waiting' = {}
  BY <1>4 DEF NoLostWakeup
<1>5. CASE waiting' # {}
  <2>1. count_ <= Cardinality(A) + Cardinality(S)
    BY <1>5 DEF NoLostWakeup
  <2>2. count_' <= Cardinality(B) + Cardinality(S)
    BY <2>1, <1>2, <1>3 DEF IndInv, TypeOK
  <2> QED
    BY <2>2 DEF NoLostWakeup
<1> QED
  BY <1>4, <1>5

\* No step of any thread loses a wakeup.
LEMMA StepKeepsWakeups == IndInv /\ NoLostWakeup /\ [Next]_vars => NoLostWakeup'
<1> SUFFICES ASSUME IndInv, NoLostWakeup, [Next]_vars PROVE NoLostWakeup'
  OBVIOUS
<1>0. Awake' \subseteq Threads
  BY DEF Awake
<1> DEFINE A == Awake
           S == Signalling
<1>a. A \in SUBSET Threads /\ S \in SUBSET Threads
  BY DEF Awake, Signalling
<1>b. /\ IsFiniteSet(A) /\ Cardinality(A) \in Nat
      /\ IsFiniteSet(S) /\ Cardinality(S) \in Nat
  BY <1>a, CountsOfThreads
<1> USE DEF IndInv, TypeOK, Goto, Return, Unlock
<1>1. ASSUME NEW t \in Threads, Begin(t) PROVE NoLostWakeup'
  <2>1. Awake \subseteq Awake' /\ Signalling' = Signalling
    BY <1>1 DEF Begin, FirstStep, Awake, Signalling
  <2> QED
    BY <1>0, <1>1, <2>1, KeptByMore DEF Begin
<1>2. ASSUME NEW t \in Threads, Lock(t) PROVE NoLostWakeup'
  <2>1. Awake \subseteq Awake' /\ Signalling' = Signalling
    BY <1>2 DEF Lock, Awake, Signalling, CallOfLabel, Takers
  <2> QED
    BY <1>0, <1>2, <2>1, KeptByMore DEF Lock
<1>3. ASSUME NEW t \in Threads, Take(t) PROVE NoLostWakeup'
  <2>1. Awake' = A \ {t} /\ Signalling' = S
    BY <1>3 DEF Take, Awake, Signalling
  <2>2. /\ Cardinality(A \ {t}) \in Nat
        /\ Cardinality(A \ {t}) >= Cardinality(A) - 1
    <3>1. Cardinality(A \ {t}) = IF t \in A THEN Cardinality(A) - 1 ELSE Cardinality(A)
      BY <1>b, FS_RemoveElement
    <3>2. A \ {t} \in SUBSET Threads
      BY <1>a
    <3>3. Cardinality(A \ {t}) \in Nat
      BY <3>2, CountsOfThreads
    <3> QED
      BY <1>b, <3>1, <3>3
  <2>3. CASE waiting = {}
    BY <1>3, <2>3 DEF Take, NoLostWakeup
  <2>4. CASE waiting # {}
    <3>1. count_ <= Cardinality(A) + Cardinality(S) /\ count_' = count_ - 1
      BY <1>3, <2>4 DEF Take, NoLostWakeup
    <3>2. count_' <= Cardinality(A \ {t}) + Cardinality(S)
      BY <1>b, <2>2, <3>1
    <3> QED
      BY <2>1, <3>2 DEF NoLostWakeup
  <2> QED
    BY <2>3, <2>4
<1>4. ASSUME NEW t \in Threads, Block(t) PROVE NoLostWakeup'
  <2>1. count_' = 0
    BY <1>4 DEF Block, Available
  <2>2. Signalling' \in SUBSET Threads
    BY DEF Signalling
  <2>3. Cardinality(Awake') \in Nat /\ Cardinality(Signalling') \in Nat
    BY <1>0, <2>2, CountsOfThreads
  <2>4. count_' <= Cardinality(Awake') + Cardinality(Signalling')
    BY <2>1, <2>3
  <2> QED
    BY <2>4 DEF NoLostWakeup
<1>5. ASSUME NEW t \in Threads, TryFails(t) PROVE NoLostWakeup'
  <2>1. Awake \subseteq Awake' /\ Signalling' = Signalling
    BY <1>5 DEF TryFails, Awake, Signalling
  <2> QED
    BY <1>0, <1>5, <2>1, KeptByMore DEF TryFails
<1>6. ASSUME NEW t \in Threads, TimedFails(t) PROVE NoLostWakeup'
  <2>1. Awake \subseteq Awake' /\ Signalling' = Signalling
    BY <1>6 DEF TimedFails, Awake, Signalling
  <2> QED
    BY <1>0, <1>6, <2>1, KeptByMore DEF TimedFails
<1>7. ASSUME NEW t \in Threads, Give(t) PROVE NoLostWakeup'
  <2>1. Awake' = A /\ Signalling' = S \cup {t} /\ t \notin S
    BY <1>7 DEF Give, AfterGive, Awake, Signalling
  <2>2. Cardinality(S \cup {t}) = Cardinality(S) + 1
    BY <1>b, <2>1, FS_AddElement
  <2>3. CASE waiting = {}
    BY <1>7, <2>3 DEF Give, NoLostWakeup
  <2>4. CASE waiting # {}
    <3>1. count_ <= Cardinality(A) + Cardinality(S) /\ count_' = count_ + 1
      BY <1>7, <2>4 DEF Give, NoLostWakeup
    <3>2. count_' <= Cardinality(A) + Cardinality(S \cup {t})
      BY <1>b, <2>2, <3>1
    <3> QED
      BY <2>1, <3>2 DEF NoLostWakeup
  <2> QED
    BY <2>3, <2>4
<1>8. ASSUME NEW t \in Threads, Signal(t) PROVE NoLostWakeup'
  <2>1. CASE waiting = {}
    BY <1>8, <2>1 DEF Signal, NoLostWakeup
  <2>2. CASE waiting # {}
    <3>1. PICK u \in waiting :
            pc' = [pc EXCEPT ![t] = "returning", ![u] = "relock"]
      BY <1>8, <2>2 DEF Signal
    <3>2. u \in Threads /\ u # t /\ pc[u] = "wait" /\ pc[t] = "signal"
      BY <1>8 DEF Signal, CallOfLabel
    <3>3. Awake' = A \cup {u} /\ u \notin A
      BY <1>8, <3>1, <3>2 DEF Signal, Awake
    <3>4. Signalling' = S \ {t} /\ t \in S
      BY <1>8, <3>1, <3>2 DEF Signal, Signalling
    <3>5. Cardinality(A \cup {u}) = Cardinality(A) + 1
      BY <1>b, <3>3, FS_AddElement
    <3>6. Cardinality(S \ {t}) = Cardinality(S) - 1
      BY <1>b, <3>4, FS_RemoveElement
    <3>7. count_ <= Cardinality(A) + Cardinality(S) /\ count_' = count_
      BY <1>8, <2>2 DEF Signal, NoLostWakeup
    <3>8. count_' <= Cardinality(A \cup {u}) + Cardinality(S \ {t})
      BY <1>b, <3>5, <3>6, <3>7
    <3> QED
      BY <3>3, <3>4, <3>8 DEF NoLostWakeup
  <2> QED
    BY <2>1, <2>2
<1>9. ASSUME NEW t \in Threads, Released(t) PROVE NoLostWakeup'
  <2>1. Awake \subseteq Awake' /\ Signalling' = Signalling
    BY <1>9 DEF Released, Awake, Signalling
  <2> QED
    BY <1>0, <1>9, <2>1, KeptByMore DEF Released
<1>10. ASSUME NEW t \in Threads, Spurious(t) PROVE NoLostWakeup'
  <2>1. Awake \subseteq Awake' /\ Signalling' = Signalling
    BY <1>10 DEF Spurious, Awake, Signalling, CallOfLabel
  <2> QED
    BY <1>0, <1>10, <2>1, KeptByMore DEF Spurious
<1>11. ASSUME NEW t \in Threads, Timeout(t) PROVE NoLostWakeup'
  <2>1. Awake \subseteq Awake' /\ Signalling' = Signalling
    BY <1>11 DEF Timeout, Awake, Signalling, CallOfLabel
  <2> QED
    BY <1>0, <1>11, <2>1, KeptByMore DEF Timeout
<1>12. CASE UNCHANGED vars
  BY <1>12 DEF vars, NoLostWakeup, Awake, Signalling
<1> QED
  BY <1>1, <1>2, <1>3, <1>4, <1>5, <1>6, <1>7, <1>8, <1>9, <1>10, <1>11, <1>12
     DEF Next, Step

\* Signals are sent outside of the mutex, and yet nobody sleeps while a unit is
\* free that no thread on its way and no signal to come accounts for.
THEOREM WakeupsAreKept == Spec => []WakeupsKept
<1>1. Init => NoLostWakeup
  BY DEF Init, NoLostWakeup
<1>2. IndInv /\ NoLostWakeup => WakeupsKept
  BY DEF IndInv, WakeupsKept
<1> QED
  BY <1>1, <1>2, InitInd, StepInd, StepKeepsWakeups, PTL DEF Spec

-----------------------------------------------------------------------------
LEMMA RefineInit == Init => Abstract!Init
  BY DEF Init, Abstract!Init, PendingCall

\* A step of the code is the step of the abstract semaphore at which a call
\* begins or takes effect, or changes nothing there.
LEMMA RefineStep ==
  IndInv /\ [Next]_vars => [Abstract!Next]_<<count_, PendingCall>>
<1> SUFFICES ASSUME IndInv, [Next]_vars
             PROVE  [Abstract!Next]_<<count_, PendingCall>>
  OBVIOUS
<1> USE DEF IndInv, TypeOK, Labels, Calls, Takers, Goto, Return
<1> DEFINE Same == UNCHANGED <<count_, PendingCall>>
           NoneAt(t) == PendingCall' = [PendingCall EXCEPT ![t] = "none"]
<1>1. ASSUME NEW t \in Threads, Begin(t) PROVE Abstract!Call(t)
  <2>1. PICK c \in Calls : call' = [call EXCEPT ![t] = c] /\ Goto(t, "lock")
    BY <1>1 DEF Begin, FirstStep
  <2>2. PendingCall[t] = "none" /\ PendingCall' = [PendingCall EXCEPT ![t] = c]
    BY <1>1, <2>1 DEF Begin, PendingCall
  <2> QED
    BY <1>1, <2>2 DEF Begin, Abstract!Call, Abstract!Calls
<1>2. ASSUME NEW t \in Threads, Lock(t) PROVE Same
  BY <1>2 DEF Lock, PendingCall
<1>3. ASSUME NEW t \in Threads, Take(t) PROVE Abstract!Take(t)
  <2>1. NoneAt(t) /\ PendingCall[t] \in Takers
    BY <1>3 DEF Take, PendingCall, CallOfLabel
  <2> QED
    BY <1>3, <2>1 DEF Take, Available, Abstract!Take, Abstract!Takers,
       Abstract!Return
<1>4. ASSUME NEW t \in Threads, Block(t) PROVE Same
  BY <1>4 DEF Block, PendingCall
<1>5. ASSUME NEW t \in Threads, TryFails(t) PROVE Abstract!Fail(t)
  <2>1. count_ = 0
    BY <1>5 DEF TryFails, Available
  <2>2. PendingCall[t] = "try_acquire"
    BY <1>5 DEF TryFails, PendingCall
  <2>3. NoneAt(t)
    BY <1>5 DEF TryFails, PendingCall
  <2> QED
    BY <1>5, <2>1, <2>2, <2>3 DEF TryFails, Abstract!Fail, Abstract!Return
<1>6. ASSUME NEW t \in Threads, TimedFails(t) PROVE Abstract!Fail(t)
  <2>1. NoneAt(t) /\ PendingCall[t] = "timed_acquire"
    BY <1>6 DEF TimedFails, PendingCall, CallOfLabel
  <2> QED
    BY <1>6, <2>1 DEF TimedFails, Abstract!Fail, Abstract!Return
<1>7. ASSUME NEW t \in Threads, Give(t) PROVE Abstract!Give(t)
  <2>1. NoneAt(t) /\ PendingCall[t] = "release"
    BY <1>7 DEF Give, AfterGive, PendingCall, CallOfLabel
  <2> QED
    BY <1>7, <2>1 DEF Give, Abstract!Give, Abstract!Return
<1>8. ASSUME NEW t \in Threads, Signal(t) PROVE Same
  <2>1. CASE waiting = {}
    BY <1>8, <2>1 DEF Signal, PendingCall
  <2>2. CASE waiting # {}
    <3>1. PICK u \in waiting :
            pc' = [pc EXCEPT ![t] = "returning", ![u] = "relock"]
      BY <1>8, <2>2 DEF Signal
    <3>2. u \in Threads /\ u # t /\ pc[u] = "wait"
      BY <1>8 DEF Signal, CallOfLabel
    <3> QED
      BY <1>8, <3>1, <3>2 DEF Signal, PendingCall
  <2> QED
    BY <2>1, <2>2
<1>9. ASSUME NEW t \in Threads, Released(t) PROVE Same
  BY <1>9 DEF Released, PendingCall
<1>10. ASSUME NEW t \in Threads, Spurious(t) PROVE Same
  BY <1>10 DEF Spurious, PendingCall, CallOfLabel
<1>11. ASSUME NEW t \in Threads, Timeout(t) PROVE Same
  BY <1>11 DEF Timeout, PendingCall, CallOfLabel
<1>12. CASE UNCHANGED vars
  BY <1>12 DEF vars, PendingCall
<1> QED
  BY <1>1, <1>2, <1>3, <1>4, <1>5, <1>6, <1>7, <1>8, <1>9, <1>10, <1>11, <1>12
     DEF Next, Step, Abstract!Next

\* The code implements the abstract semaphore: each call takes effect at one
\* instant, though waits, timeouts and signals interleave.
THEOREM Refinement == Spec => Implements
<1>1. Spec => Abstract!Init /\ [][Abstract!Next]_<<count_, PendingCall>>
  BY RefineInit, RefineStep, Invariance, PTL DEF Spec
<1> QED
  BY <1>1 DEF Implements, Abstract!Spec

-----------------------------------------------------------------------------
(* What the active object and the group share.                             *)

LEMMA Counts ==
  /\ number_of_jobs_ \in Nat \ {0} /\ threads_number \in Nat \ {0}
  /\ MaxStarts \in Nat /\ MaxActivations \in Nat
BY ThreadsAssumption

-----------------------------------------------------------------------------
(* The active object.                                                      *)

InWork == {"start", "make_terminate"}
InTermination == {"look", "complete", "terminated", "leave"}

\* A mutex is held by the one caller that is between taking it and giving it back.
Owns(mutex, labels) ==
  /\ \A c \in Callers : c \in mutex <=> caller_pc[c] \in labels
  /\ \A c, d \in mutex : c = d

ObjectInv ==
  /\ Object!TypeOK
  /\ Owns(work_mutex_, InWork) /\ Owns(termination_mutex_, InTermination)
  /\ \A c, d \in Callers : ~(caller_pc[c] \in Object!InActivate /\ caller_pc[d] \in Object!InWait)
  /\ \A c \in Callers :
       /\ caller_pc[c] = "start" => active_state_ = "active" /\ working = 0
       /\ caller_pc[c] = "make_terminate" => active_state_ = "deactivating"
       /\ caller_pc[c] \in {"terminated", "leave"} => working = 0
  /\ Object!OrderToEndKept /\ Object!NotActiveNotWorking

LEMMA ObjectInit == Object!Init => ObjectInv
<1> SUFFICES ASSUME Object!Init PROVE ObjectInv
  OBVIOUS
<1> USE DEF Object!Init
<1>1. Object!TypeOK
  <2>1. caller_pc \in [Callers -> Object!Labels]
    BY DEF Object!Labels
  <2>2. working \in 0 .. threads_number /\ activations \in 0 .. MaxActivations
    BY Counts
  <2> QED
    BY <2>1, <2>2 DEF Object!TypeOK
<1>2. Owns(work_mutex_, InWork) /\ Owns(termination_mutex_, InTermination)
  BY DEF Owns, InWork, InTermination
<1>3. Object!OrderToEndKept /\ Object!NotActiveNotWorking
  BY DEF Object!OrderToEndKept, Object!NotActiveNotWorking
<1> QED
  BY <1>1, <1>2, <1>3 DEF ObjectInv, Object!InActivate, Object!InWait

\* What a step of one caller may touch: it goes from one place to another.
LEMMA ObjectStep ==
  ASSUME ObjectInv, ~WaitBesideActivate,
         NEW c \in Callers, Object!Call(c) \/ Object!Step(c)
  PROVE  ObjectInv'
<1> USE DEF ObjectInv, Object!TypeOK, Object!Labels, Object!InActivate, Object!InWait,
            Object!InDestroy, Owns, InWork, InTermination, Object!OrderToEndKept,
            Object!NotActiveNotWorking, Object!At, Object!Goto
<1>1. CASE Object!Activate(c)
  BY <1>1, Counts DEF Object!Activate, Object!MayActivate
<1>2. CASE Object!Start(c)
  BY <1>2, Counts DEF Object!Start, Object!Started
<1>3. CASE Object!Deactivate(c)
  BY <1>3, Counts DEF Object!Deactivate
<1>4. CASE Object!MakeTerminate(c)
  BY <1>4, Counts DEF Object!MakeTerminate, Object!Terminating
<1>5. CASE Object!LockTermination(c)
  BY <1>5, Counts DEF Object!LockTermination
<1>6. CASE Object!Look(c)
  BY <1>6, Counts DEF Object!Look
<1>7. CASE Object!WaitForCompletion(c)
  BY <1>7, Counts DEF Object!WaitForCompletion, Object!Complete
<1>8. CASE Object!Terminated(c)
  <2>1. working = 0 /\ working' = 0 /\ terminating_' = FALSE
    BY <1>8 DEF Object!Terminated
  <2>2. Object!TypeOK'
    BY <1>8, <2>1 DEF Object!Terminated
  <2>3. Owns(work_mutex_, InWork)' /\ Owns(termination_mutex_, InTermination)'
    BY <1>8 DEF Object!Terminated
  <2>4. Object!OrderToEndKept' /\ Object!NotActiveNotWorking'
    BY <2>1
  <2>5. \A e \in Callers : caller_pc'[e] = IF e = c THEN "leave" ELSE caller_pc[e]
    BY <1>8 DEF Object!Terminated
  <2>6. /\ \A e \in Callers :
             /\ caller_pc'[e] = "start" => active_state_' = "active" /\ working' = 0
             /\ caller_pc'[e] = "make_terminate" => active_state_' = "deactivating"
             /\ caller_pc'[e] \in {"terminated", "leave"} => working' = 0
        /\ \A e, d \in Callers :
             ~(caller_pc'[e] \in Object!InActivate /\ caller_pc'[d] \in Object!InWait)
    BY <1>8, <2>1, <2>5 DEF Object!Terminated
  <2> QED
    BY <2>2, <2>3, <2>4, <2>6
<1>9. CASE Object!Leave(c)
  BY <1>9, Counts DEF Object!Leave
<1>10. CASE Object!Destroyed(c)
  <2>1. working = 0 /\ working' = 0 /\ terminating_' = FALSE
    BY <1>10 DEF Object!Destroyed, Object!Complete
  <2>2. Object!TypeOK'
    BY <1>10, <2>1 DEF Object!Destroyed
  <2>3. Owns(work_mutex_, InWork)' /\ Owns(termination_mutex_, InTermination)'
    BY <1>10 DEF Object!Destroyed
  <2>4. Object!OrderToEndKept' /\ Object!NotActiveNotWorking'
    BY <2>1
  <2>5. \A e \in Callers : caller_pc'[e] = IF e = c THEN "gone" ELSE caller_pc[e]
    BY <1>10 DEF Object!Destroyed
  <2>6. /\ \A e \in Callers :
             /\ caller_pc'[e] = "start" => active_state_' = "active" /\ working' = 0
             /\ caller_pc'[e] = "make_terminate" => active_state_' = "deactivating"
             /\ caller_pc'[e] \in {"terminated", "leave"} => working' = 0
        /\ \A e, d \in Callers :
             ~(caller_pc'[e] \in Object!InActivate /\ caller_pc'[d] \in Object!InWait)
    BY <1>10, <2>1, <2>5 DEF Object!Destroyed
  <2> QED
    BY <2>2, <2>3, <2>4, <2>6
<1>11. CASE Object!CallActivate(c)
  BY <1>11, Counts DEF Object!CallActivate
<1>12. CASE Object!CallDeactivate(c)
  BY <1>12, Counts DEF Object!CallDeactivate
<1>13. CASE Object!CallWait(c)
  BY <1>13, Counts DEF Object!CallWait
<1>14. CASE Object!Destroy(c)
  <2>1. \A d \in Callers : caller_pc[d] = "idle"
    BY <1>14 DEF Object!Destroy
  <2>2. /\ UNCHANGED <<active_state_, work_mutex_, termination_mutex_, working, activations>>
        /\ terminating_' \in BOOLEAN /\ (terminating_ => terminating_')
        /\ \A d \in Callers : caller_pc'[d] \in {"idle", "gone", "destroy_wait"}
        /\ caller_pc' \in [Callers -> Object!Labels]
    BY <1>14 DEF Object!Destroy, Object!Terminating
  <2>3. Object!TypeOK'
    BY <2>2
  <2>4. Owns(work_mutex_, InWork)' /\ Owns(termination_mutex_, InTermination)'
    BY <2>1, <2>2
  <2>5. Object!OrderToEndKept' /\ Object!NotActiveNotWorking'
    BY <2>1, <2>2
  <2> QED
    BY <2>2, <2>3, <2>4, <2>5
<1> QED
  BY <1>1, <1>2, <1>3, <1>4, <1>5, <1>6, <1>7, <1>8, <1>9, <1>10, <1>11, <1>12, <1>13, <1>14 DEF Object!Call, Object!Step

\* The threads that have been told to end leave one by one.
LEMMA ObjectWorkEnds == ASSUME ObjectInv, Object!WorkEnds PROVE ObjectInv'
<1>1. /\ working \in 0 .. threads_number /\ working > 0 /\ working' = working - 1
      /\ terminating_ /\ UNCHANGED <<active_state_, terminating_, work_mutex_,
                                     termination_mutex_, caller_pc, activations>>
  BY DEF Object!WorkEnds, ObjectInv, Object!TypeOK
<1>2. working' \in 0 .. threads_number
  BY <1>1, Counts
<1>3. Object!TypeOK'
  BY <1>1, <1>2 DEF ObjectInv, Object!TypeOK
<1>4. Owns(work_mutex_, InWork)' /\ Owns(termination_mutex_, InTermination)'
  BY <1>1 DEF ObjectInv, Owns
<1>5. Object!OrderToEndKept' /\ Object!NotActiveNotWorking'
  BY <1>1 DEF ObjectInv, Object!OrderToEndKept, Object!NotActiveNotWorking
<1> QED
  BY <1>1, <1>3, <1>4, <1>5 DEF ObjectInv

LEMMA ObjectStays == ASSUME ObjectInv, UNCHANGED objectVars PROVE ObjectInv'
BY DEF ObjectInv, objectVars, Object!TypeOK, Owns, Object!OrderToEndKept,
       Object!NotActiveNotWorking, Object!At

LEMMA ObjectNext ==
  ASSUME ~WaitBesideActivate, ObjectInv, [ThreadsNext]_threadsVars
  PROVE  ObjectInv'
<1>1. CASE Object!Next
  BY <1>1, ObjectStep, ObjectWorkEnds DEF Object!Next
<1>2. CASE UNCHANGED objectVars
  BY <1>2, ObjectStays
<1> QED
  BY <1>1, <1>2 DEF ThreadsNext, threadsVars

\* "Waits for deactivation completion" (wait_object): while nobody waits beside
\* an activation, an object that counts as not active has no thread in its job,
\* and the order to end is taken back only when the threads have followed it.
THEOREM ObjectWorksWhileActive ==
  ASSUME ~WaitBesideActivate
  PROVE  ThreadsSpec => []WorksWhileActive
<1>1. ThreadsInit => ObjectInv
  BY ObjectInit DEF ThreadsInit
<1>2. ObjectInv /\ [ThreadsNext]_threadsVars => ObjectInv'
  BY ObjectNext
<1>3. ObjectInv => WorksWhileActive
  BY DEF ObjectInv, WorksWhileActive
<1> QED
  BY <1>1, <1>2, <1>3, PTL DEF ThreadsSpec

-----------------------------------------------------------------------------
(* The active object is that of ActiveObjectSpec.                          *)

\* Who destroys the object is alone in it, and leaves no thread behind.
DestroyInv ==
  /\ \A c, d \in Callers : caller_pc[c] \in Object!InDestroy /\ d # c => caller_pc[d] = "idle"
  /\ \A c \in Callers : caller_pc[c] = "gone" => working = 0

LEMMA DestroyStep ==
  ASSUME ObjectInv, DestroyInv, NEW c \in Callers, Object!Call(c) \/ Object!Step(c)
  PROVE  DestroyInv'
<1> USE DEF DestroyInv, Object!InDestroy, Object!At, Object!Goto
<1>1. caller_pc \in [Callers -> Object!Labels]
  BY DEF ObjectInv, Object!TypeOK
<1>2. CASE Object!Call(c)
  <2>1. CASE Object!Destroy(c)
    BY <1>1, <2>1 DEF Object!Destroy, ObjectInv, Object!NotActiveNotWorking
  <2>2. CASE Object!CallActivate(c) \/ Object!CallDeactivate(c) \/ Object!CallWait(c)
    BY <1>1, <2>2 DEF Object!CallActivate, Object!CallDeactivate, Object!CallWait
  <2> QED
    BY <1>2, <2>1, <2>2 DEF Object!Call
<1>3. CASE Object!Start(c)
  BY <1>1, <1>3 DEF Object!Start
<1>4. CASE Object!Destroyed(c)
  BY <1>1, <1>4 DEF Object!Destroyed, Object!Complete
<1>5. CASE Object!Activate(c) \/ Object!Deactivate(c) \/ Object!MakeTerminate(c)
  BY <1>1, <1>5 DEF Object!Activate, Object!Deactivate, Object!MakeTerminate
<1>6. CASE Object!LockTermination(c) \/ Object!Look(c) \/ Object!WaitForCompletion(c)
  BY <1>1, <1>6 DEF Object!LockTermination, Object!Look, Object!WaitForCompletion
<1>7. CASE Object!Terminated(c) \/ Object!Leave(c)
  BY <1>1, <1>7 DEF Object!Terminated, Object!Leave
<1> QED
  BY <1>2, <1>3, <1>4, <1>5, <1>6, <1>7 DEF Object!Step

LEMMA AbstractInit == Object!Init => Object!Abstract!Init
BY DEF Object!Init, Object!Abstract!Init, Object!AbstractState, Object!At

\* The step of ActiveObjectSpec, or none.
AbstractStep ==
  \/ Object!Abstract!Next
  \/ Object!AbstractState' = Object!AbstractState /\ (working > 0)' = (working > 0)

LEMMA AbstractCall ==
  ASSUME ObjectInv, DestroyInv, NEW c \in Callers, Object!Call(c)
  PROVE  AbstractStep
<1> USE DEF Object!InDestroy, Object!At, Object!Goto, Object!AbstractState
<1>1. caller_pc \in [Callers -> Object!Labels] /\ working' = working
  BY DEF ObjectInv, Object!TypeOK, Object!Call, Object!CallActivate, Object!CallDeactivate,
         Object!CallWait, Object!Destroy
<1>2. CASE Object!Destroy(c)
  <2>1. active_state_ = "active" \/ active_state_ # "active"
    OBVIOUS
  <2> QED
    BY <1>1, <1>2, <2>1 DEF Object!Destroy, AbstractStep, Object!Abstract!Next,
       Object!Abstract!Deactivate, ObjectInv, Object!TypeOK
<1>3. CASE Object!CallActivate(c) \/ Object!CallDeactivate(c) \/ Object!CallWait(c)
  <2>1. Object!AbstractState' = Object!AbstractState
    BY <1>1, <1>3 DEF Object!CallActivate, Object!CallDeactivate, Object!CallWait
  <2> QED
    BY <1>1, <2>1 DEF AbstractStep
<1> QED
  BY <1>2, <1>3 DEF Object!Call

LEMMA AbstractSteps ==
  ASSUME ObjectInv, DestroyInv, NEW c \in Callers, Object!Step(c)
  PROVE  AbstractStep
<1> USE DEF Object!InDestroy, Object!At, Object!Goto, Object!AbstractState
<1>1. /\ caller_pc \in [Callers -> Object!Labels]
      /\ active_state_ \in {"active", "deactivating", "not_active"}
      /\ working \in 0 .. threads_number
  BY DEF ObjectInv, Object!TypeOK
<1>2. caller_pc[c] # "idle" /\ \A d \in Callers : caller_pc[d] \in Object!InDestroy => d = c
  BY DEF DestroyInv, Object!Step, Object!Activate, Object!Start, Object!Deactivate,
         Object!MakeTerminate, Object!LockTermination, Object!Look, Object!WaitForCompletion,
         Object!Terminated, Object!Leave, Object!Destroyed
<1>3. caller_pc[c] \in InWork \/ work_mutex_ = {} => \A d \in Callers \ {c} : caller_pc[d] \notin InWork
  BY DEF ObjectInv, Owns
<1>4. CASE Object!Activate(c)
  <2>1. Object!AbstractState' = Object!AbstractState /\ working' = working
    BY <1>1, <1>2, <1>3, <1>4 DEF Object!Activate, Object!MayActivate, InWork
  <2> QED
    BY <2>1 DEF AbstractStep
<1>5. CASE Object!Start(c)
  <2>1. Object!AbstractState = "not_active" /\ caller_pc' = [caller_pc EXCEPT ![c] = "idle"]
    BY <1>5 DEF Object!Start
  <2>2. ~\E d \in Callers : caller_pc'[d] \in {"gone", "start", "destroy_wait"}
    BY <1>1, <1>2, <1>3, <1>5, <2>1 DEF Object!Start, InWork
  <2>3. Object!AbstractState' = active_state_'
    BY <2>2
  <2>4. active_state_ = "active"
    BY <1>5 DEF Object!Start, ObjectInv
  <2> QED
    BY <1>5, <2>1, <2>3, <2>4 DEF Object!Start, AbstractStep, Object!Abstract!Next,
       Object!Abstract!Activate
<1>6. CASE Object!Deactivate(c)
  <2>1. ~\E d \in Callers : caller_pc[d] \in {"gone", "start", "destroy_wait"}
    BY <1>2, <1>3, <1>6 DEF Object!Deactivate, InWork
  <2>2. ~\E d \in Callers : caller_pc'[d] \in {"gone", "start", "destroy_wait"}
    BY <1>1, <1>6, <2>1 DEF Object!Deactivate
  <2>3. Object!AbstractState = active_state_ /\ Object!AbstractState' = active_state_'
    BY <2>1, <2>2
  <2> QED
    BY <1>6, <2>3 DEF Object!Deactivate, AbstractStep, Object!Abstract!Next,
       Object!Abstract!Deactivate
<1>7. CASE Object!MakeTerminate(c) \/ Object!LockTermination(c) \/ Object!Look(c)
           \/ Object!WaitForCompletion(c) \/ Object!Terminated(c)
  <2>1. Object!AbstractState' = Object!AbstractState /\ working' = working
    BY <1>1, <1>2, <1>3, <1>7 DEF Object!MakeTerminate, Object!LockTermination, Object!Look,
       Object!WaitForCompletion, Object!Terminated
  <2> QED
    BY <2>1 DEF AbstractStep
<1>8. CASE Object!Leave(c)
  <2>1. ~\E d \in Callers : caller_pc[d] \in {"gone", "start", "destroy_wait"}
    BY <1>2, <1>3, <1>8 DEF Object!Leave, InWork
  <2>2. ~\E d \in Callers : caller_pc'[d] \in {"gone", "start", "destroy_wait"}
    BY <1>1, <1>8, <2>1 DEF Object!Leave
  <2>3. Object!AbstractState = active_state_ /\ Object!AbstractState' = active_state_'
    BY <2>1, <2>2
  <2>4. working = 0 /\ working' = working
    BY <1>8 DEF Object!Leave, ObjectInv
  <2> QED
    BY <1>8, <2>3, <2>4 DEF Object!Leave, AbstractStep, Object!Abstract!Next,
       Object!Abstract!Finish
<1>9. CASE Object!Destroyed(c)
  <2>1. caller_pc[c] = "destroy_wait" /\ working = 0 /\ working' = working
    BY <1>9 DEF Object!Destroyed, Object!Complete
  <2>2. \A d \in Callers \ {c} : caller_pc[d] = "idle"
    BY <2>1 DEF DestroyInv
  <2>3. Object!AbstractState = "deactivating" /\ Object!AbstractState' = "not_active"
    BY <1>1, <1>9, <2>1, <2>2 DEF Object!Destroyed
  <2> QED
    BY <2>1, <2>3 DEF AbstractStep, Object!Abstract!Next, Object!Abstract!Finish
<1> QED
  BY <1>4, <1>5, <1>6, <1>7, <1>8, <1>9 DEF Object!Step

LEMMA AbstractWorkEnds ==
  ASSUME ObjectInv, DestroyInv, Object!WorkEnds
  PROVE  AbstractStep
<1>1. /\ working \in 0 .. threads_number /\ working > 0 /\ working' = working - 1
      /\ UNCHANGED <<active_state_, caller_pc>>
      /\ active_state_ \in {"active", "deactivating", "not_active"}
  BY DEF Object!WorkEnds, ObjectInv, Object!TypeOK
<1>2. ~\E d \in Callers : caller_pc[d] \in {"gone", "start"}
  BY <1>1 DEF DestroyInv, ObjectInv
<1>3. Object!AbstractState \in {"active", "deactivating"}
  BY <1>1, <1>2 DEF Object!AbstractState, Object!At, ObjectInv, Object!NotActiveNotWorking
<1>4. Object!AbstractState' = Object!AbstractState
  BY <1>1 DEF Object!AbstractState, Object!At
<1>5. CASE working' > 0
  BY <1>1, <1>4, <1>5 DEF AbstractStep
<1>6. CASE ~(working' > 0)
  BY <1>1, <1>3, <1>4, <1>6 DEF AbstractStep, Object!Abstract!Next, Object!Abstract!Work,
     Object!Abstract!JobsEnd
<1> QED
  BY <1>5, <1>6

LEMMA AbstractNext ==
  ASSUME ObjectInv, DestroyInv, [ThreadsNext]_threadsVars
  PROVE  AbstractStep /\ DestroyInv'
<1>1. CASE Object!Next
  <2>1. CASE Object!WorkEnds
    BY <2>1, AbstractWorkEnds DEF Object!WorkEnds, DestroyInv, ObjectInv, Object!TypeOK
  <2>2. CASE \E c \in Callers : Object!Call(c) \/ Object!Step(c)
    BY <2>2, AbstractCall, AbstractSteps, DestroyStep
  <2> QED
    BY <1>1, <2>1, <2>2 DEF Object!Next
<1>2. CASE UNCHANGED objectVars
  BY <1>2 DEF objectVars, AbstractStep, DestroyInv, Object!AbstractState, Object!At
<1> QED
  BY <1>1, <1>2 DEF ThreadsNext, threadsVars

\* While nobody waits beside an activation, the active object is the one that
\* ActiveObjectSpec describes: it starts with an activation, ends after a
\* deactivation, and is not active only when nothing of it runs.
THEOREM ObjectImplements ==
  ASSUME ~WaitBesideActivate
  PROVE  ThreadsSpec => ImplementsActiveObject
<1>1. ThreadsInit => ObjectInv /\ DestroyInv /\ Object!Abstract!Init
  <2>1. ThreadsInit => Object!Init
    BY DEF ThreadsInit
  <2>2. Object!Init => DestroyInv
    BY DEF Object!Init, DestroyInv, Object!InDestroy
  <2> QED
    BY <2>1, <2>2, ObjectInit, AbstractInit
<1>2. ObjectInv /\ DestroyInv /\ [ThreadsNext]_threadsVars =>
        ObjectInv' /\ DestroyInv'
          /\ [Object!Abstract!Next]_<<Object!AbstractState, working > 0>>
  BY ObjectNext, AbstractNext DEF AbstractStep
<1> QED
  BY <1>1, <1>2, PTL DEF ThreadsSpec, ImplementsActiveObject, Object!Implements,
     Object!Abstract!Spec

-----------------------------------------------------------------------------
(* The group of threads.                                                   *)

\* The gate is open, or one thread is between taking its unit and handing it on.
GateOpen == start_semaphore_ = 1 \/ \E i \in Group!Jobs : thread[i] = "acquired"

OneUnit ==
  /\ start_semaphore_ \in {0, 1}
  /\ \A i \in Group!Jobs : thread[i] = "acquired" => start_semaphore_ = 0
  /\ \A i, j \in Group!Jobs : thread[i] = "acquired" /\ thread[j] = "acquired" => i = j

\* The threads that exist are the first of the group.
Exist(first, last) == \A i \in Group!Jobs : thread[i] # "none" <=> first <= i /\ i <= last

\* Where the owner is, and what the group looks like to it.
OwnerInv ==
  /\ owner = "idle" =>
       /\ number_running_ >= 0 /\ Exist(1, number_running_)
       /\ GateOpen => number_running_ > 0
       /\ number_running_ > 0 => ~failed
  /\ owner \in {"create", "count"} =>
       /\ 0 <= number_running_ /\ number_running_ <= to_start /\ 1 <= to_start
       /\ owner = "count" => number_running_ < to_start
       /\ Exist(1, IF owner = "count" THEN number_running_ + 1 ELSE number_running_)
       /\ ~GateOpen /\ ~failed /\ ran = {}
  /\ owner \in {"create_one", "count_one"} =>
       /\ 0 <= number_running_ /\ number_running_ < number_of_jobs_
       /\ to_start = number_running_ + 1
       /\ Exist(1, IF owner = "count_one" THEN number_running_ + 1 ELSE number_running_)
       /\ GateOpen => number_running_ > 0
       /\ ~failed
  /\ owner = "join" =>
       /\ joined <= Group!Running /\ Exist(joined + 1, Group!Running)
       /\ GateOpen \/ number_running_ > 0
       /\ number_running_ # 0
       /\ failed <=> number_running_ < 0

\* No thread is beyond a gate that nobody has opened.
PassedOpenGate ==
  ~GateOpen => \A i \in Group!Jobs : thread[i] \in {"none", "created"}

GroupInv ==
  /\ Group!TypeOK /\ OneUnit /\ OwnerInv
  /\ Group!FailedStartRunsNothing /\ PassedOpenGate
  /\ failed => number_running_ <= 0
  /\ ~failed => \A i \in Group!Jobs : thread[i] \in {"working", "done"} => i \in ran


LEMMA GroupInit == Group!Init => GroupInv
<1> SUFFICES ASSUME Group!Init PROVE GroupInv
  OBVIOUS
<1> USE DEF Group!Init
<1>1. Group!TypeOK
  <2>1. /\ 0 \in -number_of_jobs_ .. number_of_jobs_ /\ 0 \in 0 .. number_of_jobs_
        /\ 0 \in 0 .. MaxStarts
    BY Counts
  <2> QED
    BY <2>1 DEF Group!TypeOK
<1>2. ~GateOpen /\ OneUnit /\ \A i \in Group!Jobs : thread[i] = "none"
  BY DEF GateOpen, OneUnit
<1>3. Exist(1, 0)
  BY <1>2 DEF Exist, Group!Jobs
<1> QED
  BY <1>1, <1>2, <1>3 DEF GroupInv, OwnerInv, PassedOpenGate, Group!FailedStartRunsNothing

\* A step of the owner.
LEMMA OwnerStep ==
  ASSUME ~FirstMayFail, GroupInv,
         \/ \E n \in 0 .. number_of_jobs_ + 1 : Group!Start(n)
         \/ Group!StartOne \/ Group!InStart \/ Group!Wait \/ Group!InWait
  PROVE  GroupInv'
<1> USE Counts DEF GroupInv, Group!TypeOK, OneUnit, OwnerInv, GateOpen, PassedOpenGate, Exist, Group!Running,
       Group!Jobs, Group!FailedStartRunsNothing
<1>1. CASE \E n \in 0 .. number_of_jobs_ + 1 : Group!Start(n)
  <2>1. PICK n \in 0 .. number_of_jobs_ + 1 : Group!Start(n)
    BY <1>1
  <2>2. Group!GroupSize(n) \in 1 .. number_of_jobs_
    BY DEF Group!GroupSize
  <2>3. /\ owner = "idle" /\ number_running_ = 0 /\ starts' \in 0 .. MaxStarts
        /\ to_start' \in 1 .. number_of_jobs_
        /\ owner' = "create" /\ failed' = FALSE /\ ran' = {}
        /\ UNCHANGED <<number_running_, start_semaphore_, thread, joined>>
    BY <2>1, <2>2 DEF Group!Start
  <2>4. Group!TypeOK' /\ OneUnit'
    <3>1. to_start' \in 0 .. number_of_jobs_ /\ ran' \subseteq Group!Jobs
      BY <2>3
    <3>2. /\ number_running_' \in -number_of_jobs_ .. number_of_jobs_
          /\ joined' \in 0 .. number_of_jobs_ /\ start_semaphore_' \in Nat
      BY <2>3
    <3>3. OneUnit'
      BY <2>3
    <3> QED
      BY <2>3, <3>1, <3>2, <3>3
  <2>5. \A j \in Group!Jobs : thread[j] = "none"
    BY <2>3
  <2>6. OwnerInv'
    BY <2>3, <2>5
  <2> QED
    BY <2>3, <2>4, <2>5, <2>6
<1>2. CASE Group!StartOne
  <2>1. /\ owner = "idle" /\ owner' = "create_one"
        /\ number_running_ \in 0 .. number_of_jobs_ - 1 /\ to_start' = number_running_ + 1
        /\ UNCHANGED <<number_running_, start_semaphore_, thread, joined, starts>>
        /\ number_running_ = 0 => failed' = FALSE /\ ran' = {}
        /\ number_running_ > 0 => UNCHANGED <<failed, ran>>
    BY <1>2 DEF Group!StartOne
  <2>2. Group!TypeOK' /\ OneUnit' /\ PassedOpenGate'
    <3>1. failed' \in BOOLEAN /\ ran' \subseteq Group!Jobs
      <4>1. CASE number_running_ = 0
        BY <2>1, <4>1
      <4>2. CASE number_running_ > 0
        BY <2>1, <4>2
      <4> QED
        BY <2>1, <4>1, <4>2
    <3>2. /\ number_running_' \in -number_of_jobs_ .. number_of_jobs_
          /\ to_start' \in 0 .. number_of_jobs_ /\ start_semaphore_' \in Nat
      BY <2>1
    <3>3. Group!TypeOK'
      BY <2>1, <3>1, <3>2
    <3>4. OneUnit' /\ PassedOpenGate'
      BY <2>1
    <3> QED
      BY <3>3, <3>4
  <2>3. ~failed' /\ GateOpen' = GateOpen
    BY <2>1
  <2>4. Exist(1, number_running_)'
    BY <2>1
  <2>5. OwnerInv'
    BY <2>1, <2>3, <2>4
  <2>6. ASSUME NEW i \in Group!Jobs, thread'[i] \in {"working", "done"} PROVE i \in ran'
    <3>1. CASE number_running_ = 0
      BY <2>1, <2>6, <3>1
    <3>2. CASE number_running_ > 0
      BY <2>1, <2>6, <3>2
    <3> QED
      BY <2>1, <3>1, <3>2
  <2> QED
    BY <2>2, <2>3, <2>5, <2>6
<1>3. CASE Group!Create
  BY <1>3 DEF Group!Create
<1>4. CASE Group!CountThread
  BY <1>4 DEF Group!CountThread
<1>5. CASE Group!CreateFails
  BY <1>5 DEF Group!CreateFails, Group!FailedCount
<1>6. CASE Group!CreateOneFails
  BY <1>6 DEF Group!CreateOneFails
<1>7. CASE Group!Open
  BY <1>7 DEF Group!Open
<1>8. CASE Group!Wait
  BY <1>8 DEF Group!Wait
<1>9. CASE Group!Join
  BY <1>9 DEF Group!Join
<1>10. CASE Group!Finish
  BY <1>10 DEF Group!Finish, Group!GateClosed
<1> QED
  BY <1>1, <1>2, <1>3, <1>4, <1>5, <1>6, <1>7, <1>8, <1>9, <1>10 DEF Group!InStart, Group!InWait

\* A step of a thread.
LEMMA ThreadStep ==
  ASSUME GroupInv, NEW i \in Group!Jobs, Group!ThreadStep(i)
  PROVE  GroupInv'
<1> USE Counts DEF GroupInv, Group!TypeOK, OneUnit, OwnerInv, GateOpen, PassedOpenGate, Exist, Group!Running,
       Group!Jobs, Group!FailedStartRunsNothing
<1>1. CASE Group!Acquire(i)
  BY <1>1 DEF Group!Acquire
<1>2. CASE Group!Release(i)
  BY <1>2 DEF Group!Release, Group!PassedOn
<1>3. CASE Group!Work(i)
  <2>1. /\ thread[i] = "released" /\ \E l \in {"working", "done"} :
             thread' = [thread EXCEPT ![i] = l]
        /\ UNCHANGED <<number_running_, start_semaphore_, owner, to_start, joined, starts, failed>>
        /\ ran' = IF number_running_ > 0 THEN ran \cup {i} ELSE ran
    BY <1>3 DEF Group!Work
  <2>2. owner \notin {"create", "count"}
    BY <2>1
  <2>3. ~failed => number_running_ > 0
    BY <2>1, <2>2
  <2>4. Group!TypeOK' /\ OneUnit' /\ GateOpen' = GateOpen
    BY <2>1
  <2>5. \A j \in Group!Jobs : thread'[j] # "none" <=> thread[j] # "none"
    BY <2>1
  <2>6. OwnerInv'
    BY <2>1, <2>2, <2>4, <2>5
  <2>7. failed => ran' = {} /\ number_running_ <= 0
    BY <2>1
  <2>8. ~failed => \A j \in Group!Jobs : thread'[j] \in {"working", "done"} => j \in ran'
    BY <2>1, <2>3
  <2> QED
    BY <2>1, <2>4, <2>6, <2>7, <2>8
<1>4. CASE Group!Done(i)
  BY <1>4 DEF Group!Done
<1> QED
  BY <1>1, <1>2, <1>3, <1>4 DEF Group!ThreadStep

LEMMA GroupStays == ASSUME GroupInv, UNCHANGED groupVars PROVE GroupInv'
BY DEF GroupInv, groupVars, Group!TypeOK, OneUnit, OwnerInv, GateOpen, PassedOpenGate, Exist,
       Group!Running, Group!FailedStartRunsNothing

LEMMA GroupNext ==
  ASSUME ~FirstMayFail, GroupInv, [ThreadsNext]_threadsVars
  PROVE  GroupInv'
<1>1. CASE Group!Next
  BY <1>1, OwnerStep, ThreadStep DEF Group!Next
<1>2. CASE UNCHANGED groupVars
  BY <1>2, GroupStays
<1> QED
  BY <1>1, <1>2 DEF ThreadsNext, threadsVars

LEMMA GroupInvariance == ASSUME ~FirstMayFail PROVE ThreadsSpec => []GroupInv
<1>1. ThreadsInit => GroupInv
  BY GroupInit DEF ThreadsInit
<1>2. GroupInv /\ [ThreadsNext]_threadsVars => GroupInv'
  BY GroupNext
<1> QED
  BY <1>1, <1>2, PTL DEF ThreadsSpec

\* "If creation of a thread fails, no jobs will run" (start), as long as it is
\* not the first thread of the group that cannot be created.
THEOREM NothingRunsAfterFailure ==
  ASSUME ~FirstMayFail
  PROVE  ThreadsSpec => []FailedStartRunsNothing
<1>1. GroupInv => FailedStartRunsNothing
  BY DEF GroupInv, FailedStartRunsNothing
<1> QED
  BY <1>1, GroupInvariance, PTL

\* A start that succeeded runs the job in each of its threads, none passes the
\* gate before the group is complete, and when the threads are joined the gate
\* is closed for the next group; with the same proviso.
THEOREM AllRunAfterStart ==
  ASSUME ~FirstMayFail
  PROVE  ThreadsSpec => []StartedThreadsRun
<1>1. ASSUME GroupInv PROVE StartedThreadsRun
  <2>1. Group!TypeOK /\ Group!StartedThreadsRun
    BY <1>1 DEF GroupInv, Group!StartedThreadsRun
  <2>2. Group!GateClosedAtRest
    BY <1>1 DEF GroupInv, OwnerInv, OneUnit, GateOpen, Group!GateClosedAtRest
  <2>3. Group!NonePassesClosedGate
    BY <1>1, Counts DEF GroupInv, Group!TypeOK, PassedOpenGate, GateOpen,
       Group!NonePassesClosedGate, Group!GateOpen
  <2> QED
    BY <2>1, <2>2, <2>3 DEF StartedThreadsRun
<1> QED
  BY <1>1, GroupInvariance, PTL
=============================================================================
