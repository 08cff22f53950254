--------------------------- MODULE SemaphoreSpec ----------------------------
(***************************************************************************)
(* What gears Semaphore promises: a count, and calls of threads that take  *)
(* effect at one instant each.  acquire() waits for the count to be above  *)
(* zero, try_acquire() fails when it is not, timed_acquire() may give up,  *)
(* release() never waits.                                                  *)
(***************************************************************************)
EXTENDS Naturals

CONSTANTS Threads, InitialCount

VARIABLES
  count,
  call   \* [Threads -> the call that has not taken effect yet]

Calls == {"acquire", "try_acquire", "timed_acquire", "release"}
Takers == {"acquire", "try_acquire", "timed_acquire"}

Init == /\ count = InitialCount
        /\ call = [t \in Threads |-> "none"]

Return(t) == call' = [call EXCEPT ![t] = "none"]

Call(t) ==
  /\ call[t] = "none"
  /\ \E c \in Calls : call' = [call EXCEPT ![t] = c]
  /\ UNCHANGED count

Take(t) ==
  /\ call[t] \in Takers /\ count > 0
  /\ count' = count - 1
  /\ Return(t)

Fail(t) ==
  /\ call[t] = "timed_acquire" \/ (call[t] = "try_acquire" /\ count = 0)
  /\ Return(t)
  /\ UNCHANGED count

Give(t) ==
  /\ call[t] = "release"
  /\ count' = count + 1
  /\ Return(t)

Next == \E t \in Threads : Call(t) \/ Take(t) \/ Fail(t) \/ Give(t)

Spec == Init /\ [][Next]_<<count, call>>
=============================================================================
