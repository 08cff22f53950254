----------------------------- MODULE Semaphore ------------------------------
(***************************************************************************)
(* gears Semaphore as it is built: a count under the mutex of a Condition, *)
(* and a signal after the mutex is released.  pthread's mutex and condition*)
(* variable are external: a waiter may also wake with no signal, and one   *)
(* that timed out returns without looking at the count again.              *)
(***************************************************************************)
EXTENDS Naturals, FiniteSets

CONSTANTS
  Threads, InitialCount,
  MaxCount   \* bound on the count: no release() begins when it is reached

ASSUME SemaphoreAssumption ==
  IsFiniteSet(Threads) /\ InitialCount \in Nat /\ MaxCount \in Nat

VARIABLES
  count_,
  locked,    \* the threads that hold the mutex of condition_lock_
  waiting,   \* the threads blocked on the condition variable
  call,      \* [Threads -> the operation the thread is in]
  pc         \* [Threads -> where in it]

vars == <<count_, locked, waiting, call, pc>>

Calls == {"acquire", "try_acquire", "timed_acquire", "release"}

Init == /\ count_ = InitialCount
        /\ locked = {} /\ waiting = {}
        /\ call = [t \in Threads |-> "none"]
        /\ pc = [t \in Threads |-> "idle"]

Goto(t, l) == pc' = [pc EXCEPT ![t] = l]

Return(t) == /\ Goto(t, "idle")
             /\ call' = [call EXCEPT ![t] = "none"]

\* Every call begins with a Guard.
FirstStepUnguarded(c) == IF c = "release" THEN "give" ELSE "lock"
FirstStep(c) == "lock"

Begin(t) ==
  /\ pc[t] = "idle"
  /\ \E c \in Calls : /\ c = "release" => count_ < MaxCount
                      /\ call' = [call EXCEPT ![t] = c]
                      /\ Goto(t, FirstStep(c))
  /\ UNCHANGED <<count_, locked, waiting>>

\* The Guard's constructor, or the return of pthread_cond_wait.
Free == locked = {}

Lock(t) ==
  /\ pc[t] \in {"lock", "relock", "relock_late"} /\ Free
  /\ locked' = locked \cup {t}
  /\ Goto(t, CASE pc[t] = "relock_late" -> "late"
               [] call[t] = "release" -> "give"
               [] OTHER -> "test")
  /\ UNCHANGED <<count_, waiting, call>>

Unlock(t) == locked' = locked \ {t}

\* while(count_ <= 0) wait; --count_
AvailableAlways == count_ >= 0
Available == count_ > 0

Take(t) ==
  /\ pc[t] = "test" /\ Available
  /\ count_' = count_ - 1
  /\ Unlock(t) /\ Return(t)
  /\ UNCHANGED waiting

Block(t) ==
  /\ pc[t] = "test" /\ ~Available /\ call[t] # "try_acquire"
  /\ waiting' = waiting \cup {t}
  /\ Unlock(t) /\ Goto(t, "wait")
  /\ UNCHANGED <<count_, call>>

TryFails(t) ==
  /\ pc[t] = "test" /\ ~Available /\ call[t] = "try_acquire"
  /\ Unlock(t) /\ Return(t)
  /\ UNCHANGED <<count_, waiting>>

\* A wakeup without a signal.
Spurious(t) ==
  /\ t \in waiting
  /\ waiting' = waiting \ {t}
  /\ Goto(t, "relock")
  /\ UNCHANGED <<count_, locked, call>>

\* ETIMEDOUT: timed_wait returns false once it has the mutex again.
Timeout(t) ==
  /\ t \in waiting /\ call[t] = "timed_acquire"
  /\ waiting' = waiting \ {t}
  /\ Goto(t, "relock_late")
  /\ UNCHANGED <<count_, locked, call>>

TimedFails(t) ==
  /\ pc[t] = "late"
  /\ Unlock(t) /\ Return(t)
  /\ UNCHANGED <<count_, waiting>>

\* release(): ++count_ under the mutex, the signal outside of it.
AfterGiveNoSignal == "returning"
AfterGive == "signal"

Give(t) ==
  /\ pc[t] = "give"
  /\ count_' = count_ + 1
  /\ Unlock(t) /\ Goto(t, AfterGive)
  /\ UNCHANGED <<waiting, call>>

\* pthread_cond_signal unblocks one waiter, if there is one.
Signal(t) ==
  /\ pc[t] = "signal"
  /\ IF waiting = {}
     THEN Goto(t, "returning") /\ UNCHANGED waiting
     ELSE \E u \in waiting :
            /\ waiting' = waiting \ {u}
            /\ pc' = [pc EXCEPT ![t] = "returning", ![u] = "relock"]
  /\ UNCHANGED <<count_, locked, call>>

Released(t) ==
  /\ pc[t] = "returning"
  /\ Return(t)
  /\ UNCHANGED <<count_, locked, waiting>>

Step(t) == \/ Lock(t) \/ Take(t) \/ Block(t) \/ TryFails(t) \/ TimedFails(t)
           \/ Give(t) \/ Signal(t) \/ Released(t)

Next == \E t \in Threads : Begin(t) \/ Step(t) \/ Spurious(t) \/ Timeout(t)

Spec == Init /\ [][Next]_vars

\* Threads run, and a contended mutex is not refused for ever.
Fairness == \A t \in Threads : WF_vars(Step(t)) /\ SF_vars(Lock(t))

LiveSpec == Spec /\ Fairness

-----------------------------------------------------------------------------
Labels == {"idle", "lock", "relock", "relock_late", "test", "late", "wait",
           "give", "signal", "returning"}

Inside == {"test", "late", "give"}

TypeOK == /\ count_ \in Nat
          /\ locked \subseteq Threads /\ waiting \subseteq Threads
          /\ call \in [Threads -> Calls \cup {"none"}]
          /\ pc \in [Threads -> Labels]

\* The count is touched by one thread at a time.
MutualExclusion ==
  \A t, u \in Threads : pc[t] \in Inside /\ pc[u] \in Inside => t = u

\* No wakeup is lost although the signal is sent outside of the mutex: while
\* somebody is blocked, every unit of the count has a thread that is awake to
\* take it or a signal that is still to be sent.
Awake == {t \in Threads : pc[t] = "relock" \/ (pc[t] = "test" /\ call[t] # "try_acquire")}
Signalling == {t \in Threads : pc[t] = "signal"}

NoLostWakeup ==
  waiting # {} => count_ <= Cardinality(Awake) + Cardinality(Signalling)

\* The counter keeps its bounds, and nobody sleeps while a unit is free and no
\* signal is on its way.
WakeupsKept == TypeOK /\ NoLostWakeup

\* A blocked thread does not sleep on while the count stays above zero.
WaiterServed ==
  \A t \in Threads : t \in waiting /\ count_ > 0 ~> t \notin waiting \/ count_ = 0

\* The semaphore of SemaphoreSpec: a call is pending until its effect.
PendingCall == [t \in Threads |->
                  IF pc[t] \in {"idle", "signal", "returning"} THEN "none" ELSE call[t]]

Abstract == INSTANCE SemaphoreSpec WITH count <- count_, call <- PendingCall

\* Every behaviour is one that the abstract semaphore allows.
Implements == Abstract!Spec
=============================================================================
