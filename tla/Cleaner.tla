------------------------------ MODULE Cleaner -------------------------------
(***************************************************************************)
(* DescriptorHandlerCleaner of the poller: the deferred destruction of the *)
(* holders that the poller's threads may still refer to by raw pointers.   *)
(* A thread gives a holder to push() and every thread calls release() when *)
(* it is done with an event; the thread that finds itself the last of a    *)
(* round resets the round, destroys what was free and makes the candidates *)
(* free.  release() takes no lock around its counters: here every atomic   *)
(* access is a step.                                                       *)
(***************************************************************************)
EXTENDS Integers, FiniteSets

CONSTANTS
  N,        \* threads of the poller, one at least; thread i has index i - 1 in the source
  Objects   \* the holders pushed, each at most once

Threads == 1 .. N

VARIABLES
  release_array_, unreleased_count_,
  free_candidates_, free_,
  pc,         \* where in release() the thread is; idle: outside
  it,         \* the iterator of the reset loop of the thread
  clear_list, \* the local list of the thread
  destroyed,
  called,     \* history: the threads that began a release() after the push
  overlap     \* history: a thread began to mark itself while another reset a round

counters == <<release_array_, unreleased_count_>>
lists == <<free_candidates_, free_, clear_list, destroyed>>
vars == <<counters, lists, pc, it, called, overlap>>

Pushed ==
  free_candidates_ \cup free_ \cup destroyed \cup (UNION {clear_list[t] : t \in Threads})

Init ==
  /\ release_array_ = [t \in Threads |-> 0] /\ unreleased_count_ = N
  /\ free_candidates_ = {} /\ free_ = {} /\ destroyed = {}
  /\ pc = [t \in Threads |-> "idle"]
  /\ it = [t \in Threads |-> 1]
  /\ clear_list = [t \in Threads |-> {}]
  /\ called = [o \in Objects |-> {}]
  /\ overlap = FALSE

Goto(t, l) == pc' = [pc EXCEPT ![t] = l]

Push(t, o) ==
  /\ pc[t] = "idle" /\ o \notin Pushed
  /\ free_candidates_' = free_candidates_ \cup {o}
  /\ UNCHANGED <<counters, free_, clear_list, destroyed, pc, it, called, overlap>>

\* The load, "prevent excess atomic call": it also keeps entries from two.
MayMarkAlways(v) == TRUE
MayMark(v) == v = 0

\* From the last decrement of the counter in a round to its swap.
Resetting == {"reset", "restore", "swap"}
Overlaps == \E u \in Threads : pc[u] \in Resetting

\* The call and the load.
Call(t) ==
  /\ pc[t] = "idle"
  /\ called' = [o \in Objects |->
                  IF o \in Pushed THEN called[o] \cup {t} ELSE called[o]]
  /\ IF MayMark(release_array_[t])
     THEN Goto(t, "mark") /\ overlap' = (overlap \/ Overlaps)
     ELSE UNCHANGED <<pc, overlap>>
  /\ UNCHANGED <<counters, lists, it>>

\* An entry below zero stays below zero for good: only its own thread, which
\* must load zero first, could raise it, and it reverts what it raised.  How far
\* below makes no difference, so entries stop at Floor.
Floor == -2
Decremented(v) == IF v > Floor THEN v - 1 ELSE Floor

\* release_array_[id]++
Mark(t) ==
  /\ pc[t] = "mark"
  /\ release_array_' = [release_array_ EXCEPT ![t] = @ + 1]
  /\ Goto(t, IF release_array_[t] = 0 THEN "count" ELSE "revert")
  /\ overlap' = (overlap \/ Overlaps)
  /\ UNCHANGED <<unreleased_count_, lists, it, called>>

\* unreleased_count_--, and the test that finds the last thread of the round.
LastOfRoundEarly == unreleased_count_ <= 2
LastOfRound == unreleased_count_ = 1

Count(t) ==
  /\ pc[t] = "count"
  /\ unreleased_count_' = unreleased_count_ - 1
  /\ Goto(t, IF LastOfRound THEN "reset" ELSE "idle")
  /\ it' = [it EXCEPT ![t] = 1]
  /\ UNCHANGED <<release_array_, lists, called, overlap>>

\* One turn of the reset loop: (*it)--, then unreleased_count_ += 1 when the
\* entry was one.
CountsBackAlways(v) == TRUE
CountsBackNever(v) == FALSE
CountsBack(v) == v = 1

AfterEntry(t) == IF it[t] < N THEN "reset" ELSE "swap"

ResetEntry(t) ==
  /\ pc[t] = "reset"
  /\ release_array_' = [release_array_ EXCEPT ![it[t]] = Decremented(@)]
  /\ IF CountsBack(release_array_[it[t]])
     THEN Goto(t, "restore") /\ UNCHANGED it
     ELSE Goto(t, AfterEntry(t)) /\ it' = [it EXCEPT ![t] = @ + 1]
  /\ UNCHANGED <<unreleased_count_, lists, called, overlap>>

Restore(t) ==
  /\ pc[t] = "restore"
  /\ unreleased_count_' = unreleased_count_ + 1
  /\ Goto(t, AfterEntry(t))
  /\ it' = [it EXCEPT ![t] = @ + 1]
  /\ UNCHANGED <<release_array_, lists, called, overlap>>

\* The two swaps, under both locks.
SwappedTwice == /\ free_' = free_candidates_
                /\ free_candidates_' = free_candidates_
Swapped == /\ free_' = free_candidates_
           /\ free_candidates_' = {}

Swap(t) ==
  /\ pc[t] = "swap"
  /\ clear_list' = [clear_list EXCEPT ![t] = free_]
  /\ Swapped
  /\ Goto(t, "destroy")
  /\ UNCHANGED <<counters, destroyed, it, called, overlap>>

\* The end of the scope of clear_list.
Destroy(t) ==
  /\ pc[t] = "destroy"
  /\ destroyed' = destroyed \cup clear_list[t]
  /\ clear_list' = [clear_list EXCEPT ![t] = {}]
  /\ it' = [it EXCEPT ![t] = 1]
  /\ Goto(t, "idle")
  /\ UNCHANGED <<counters, free_candidates_, free_, called, overlap>>

\* "revert increase for consistency": reached when another thread's reset loop
\* took the entry below zero after the load; the entry is then never one here.
Revert(t) ==
  /\ pc[t] = "revert"
  /\ release_array_' = [release_array_ EXCEPT ![t] = Decremented(@)]
  /\ unreleased_count_' = IF CountsBack(release_array_[t])
                          THEN unreleased_count_ + 1 ELSE unreleased_count_
  /\ Goto(t, "idle")
  /\ UNCHANGED <<lists, it, called, overlap>>

ReleaseStep(t) ==
  \/ Call(t) \/ Mark(t) \/ Count(t) \/ ResetEntry(t) \/ Restore(t)
  \/ Swap(t) \/ Destroy(t) \/ Revert(t)

Next == \E t \in Threads : ReleaseStep(t) \/ \E o \in Objects : Push(t, o)

Spec == Init /\ [][Next]_vars

\* Every thread of the poller calls release() again and again: after each
\* event, and at the latest when the clean period of epoll_wait is over.
Fairness == \A t \in Threads : WF_vars(ReleaseStep(t))

LiveSpec == Spec /\ Fairness

-----------------------------------------------------------------------------
Labels == {"idle", "mark", "count", "reset", "restore", "swap", "destroy", "revert"}

\* The types; an entry is never above one.
TypeOK ==
  /\ release_array_ \in [Threads -> Floor .. 1] /\ unreleased_count_ \in Int
  /\ free_candidates_ \subseteq Objects /\ free_ \subseteq Objects
  /\ destroyed \subseteq Objects
  /\ pc \in [Threads -> Labels]
  /\ it \in [Threads -> 1 .. N + 1]
  /\ clear_list \in [Threads -> SUBSET Objects]
  /\ called \in [Objects -> SUBSET Threads] /\ overlap \in BOOLEAN

At(l) == {t \in Threads : pc[t] = l}

\* "unreleased_count_ should be consistent with release_array_": between the
\* steps of any number of overlapping release() calls the counter is the number
\* of threads not marked, but for the accesses under way.
CountConsistent ==
  unreleased_count_ = N - Cardinality({t \in Threads : release_array_[t] = 1})
                        + Cardinality(At("count")) - Cardinality(At("restore"))

\* A pushed holder is in one place: waiting for a round, free, in one thread's
\* list, or destroyed; so none is destroyed twice or forgotten by the swaps,
\* also when two threads finish a round at once.
OnePlace ==
  \A o \in Objects :
    Cardinality({<<"list", t>> : t \in {u \in Threads : o \in clear_list[u]}})
      + (IF o \in free_candidates_ THEN 1 ELSE 0)
      + (IF o \in free_ THEN 1 ELSE 0)
      + (IF o \in destroyed THEN 1 ELSE 0) <= 1

\* "handler will be freed only when" every thread has called release(), since
\* the handler was pushed.
FreedAfterAllReleased == \A o \in destroyed : called[o] = Threads

\* The same as long as no thread joins the next round while another one still
\* resets the last: destruction then waits for every thread.
FreedInTime == overlap \/ FreedAfterAllReleased

\* free_ holds the "descriptors that will be freed when current release loop
\* will be finished", and without such an overlap release loops do finish.
FreeIsFreed == \A o \in Objects : o \in free_ ~> o \in destroyed \/ overlap

\* A holder is in one place, the counter agrees with the entries, and while rounds
\* do not overlap all have released what is destroyed.
HoldersAccounted == TypeOK /\ CountConsistent /\ OnePlace /\ FreedInTime
=============================================================================
