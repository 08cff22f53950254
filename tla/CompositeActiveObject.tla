----------------------- MODULE CompositeActiveObject ------------------------
(***************************************************************************)
(* gears CompositeActiveObject, with the SimpleActiveObject it is built    *)
(* on: children that are activated in order and stopped in reverse order   *)
(* under the lock of cond_, and waited for without it.  A child is an      *)
(* object of ActiveObjectSpec: its operations take effect at once, but its *)
(* wait_object() returns only when its work has ended.                     *)
(***************************************************************************)
EXTENDS Naturals, Sequences, SequencesExt

CONSTANTS
  Callers, Children,
  MayFailToStart,     \* children whose activate_object() may throw
  MayFailToStop,      \* children whose deactivate_object() may throw
  WaitBeside,         \* the operations that may overlap a wait_object()
  MaxActivations      \* bound on the calls of activate_object()

ASSUME CompositeAssumption ==
  /\ MayFailToStart \subseteq Children /\ MayFailToStop \subseteq Children
  /\ WaitBeside \subseteq {"activate", "clear"}
  /\ MaxActivations \in Nat

VARIABLES
  state_,
  locked,         \* the callers that hold the lock of cond_
  child_objects_,
  child,          \* [Children -> ACTIVE_STATE, or "ended" before the wait]
  caller,         \* [Callers -> operation, place in it, children it goes through]
  stop_failed,    \* history: a child has thrown in deactivate_object()
  fixed           \* SYNCHRONOUS_ of the constructor, and the activations so far

vars == <<state_, locked, child_objects_, child, caller, stop_failed, fixed>>

Idle == [op |-> "none", pc |-> "idle", list |-> <<>>, at |-> 0, errors |-> FALSE]

Init ==
  /\ state_ = "not_active" /\ locked = {} /\ child_objects_ = <<>>
  /\ child \in [Children -> {"active", "not_active"}]  \* before they are added
  /\ caller = [c \in Callers |-> Idle]
  /\ stop_failed = FALSE
  /\ fixed \in [synchronous : BOOLEAN, activations : {0}]

Members == ToSet(child_objects_)
Working(k) == child[k] \in {"active", "deactivating"}

Op(c) == caller[c].op
At(c, l) == caller[c].pc = l
Here(c) == caller[c].list[caller[c].at]
Goto(c, l) == caller' = [caller EXCEPT ![c].pc = l]
GoThrough(c, l, s, i) ==
  caller' = [caller EXCEPT ![c].pc = l, ![c].list = s, ![c].at = i]
Advance(c, d) == caller' = [caller EXCEPT ![c].at = @ + d]
Return(c) == caller' = [caller EXCEPT ![c] = Idle]
Doing(o) == \E c \in Callers : Op(c) = o

Enter(c, o) == At(c, "enter") /\ Op(c) = o /\ locked = {}
Lock(c) == locked' = {c}
UnlockForgotten == UNCHANGED locked
Unlock == locked' = {}
SetChild(k, s) == child' = [child EXCEPT ![k] = s]

\* First added - first activated; last added - first stopped (lists are gone
\* through from the end then).
ActivateReversed == Reverse(child_objects_)
ActivateList == child_objects_
StopForward == Reverse(child_objects_)
StopList == child_objects_

-----------------------------------------------------------------------------
Call(c, o) ==
  /\ At(c, "idle")
  /\ o \in {"activate", "clear"} \ WaitBeside => ~Doing("wait")
  /\ o = "wait" => \A a \in {"activate", "clear"} \ WaitBeside : ~Doing(a)
  /\ IF o = "activate"
     THEN /\ fixed.activations < MaxActivations
          /\ fixed' = [fixed EXCEPT !.activations = @ + 1]
     ELSE UNCHANGED fixed
  /\ caller' = [caller EXCEPT ![c].op = o, ![c].pc = "enter"]
  /\ UNCHANGED <<state_, locked, child_objects_, child, stop_failed>>

-----------------------------------------------------------------------------
\* activate_object(): throws unless the object is not active.
AlreadyActive(c) ==
  /\ Enter(c, "activate") /\ state_ # "not_active"
  /\ Return(c)
  /\ UNCHANGED <<state_, locked, child_objects_, child, stop_failed, fixed>>

Activate(c) ==
  /\ Enter(c, "activate") /\ state_ = "not_active"
  /\ Lock(c) /\ GoThrough(c, "activating", ActivateList, 1)
  /\ UNCHANGED <<state_, child_objects_, child, stop_failed, fixed>>

ActivateChild(c) ==
  /\ At(c, "activating") /\ caller[c].at <= Len(caller[c].list)
  /\ child[Here(c)] = "not_active"
  /\ SetChild(Here(c), "active") /\ Advance(c, 1)
  /\ UNCHANGED <<state_, locked, child_objects_, stop_failed, fixed>>

Activated(c) ==
  /\ At(c, "activating") /\ caller[c].at > Len(caller[c].list)
  /\ state_' = "active"
  /\ Unlock /\ Return(c)
  /\ UNCHANGED <<child_objects_, child, stop_failed, fixed>>

\* A child throws: those before it are stopped again, the last one first.
RollbackFromTooFar(c) == caller[c].at - 2
RollbackFromNone(c) == 0
RollbackFrom(c) == caller[c].at - 1

ActivateFails(c) ==
  /\ At(c, "activating") /\ caller[c].at <= Len(caller[c].list)
  /\ child[Here(c)] # "not_active" \/ Here(c) \in MayFailToStart
  /\ state_' = "deactivating"
  /\ GoThrough(c, "stopping", SubSeq(caller[c].list, 1, RollbackFrom(c)), RollbackFrom(c))
  /\ UNCHANGED <<locked, child_objects_, child, stop_failed, fixed>>

-----------------------------------------------------------------------------
\* deactivate_object(): does nothing unless active; wakes the waiting callers.
NotToDeactivate(c) ==
  /\ Enter(c, "deactivate") /\ state_ # "active"
  /\ Return(c)
  /\ UNCHANGED <<state_, locked, child_objects_, child, stop_failed, fixed>>

WakesNobody == caller
Wakes == [d \in Callers |-> IF At(d, "asleep") THEN [caller[d] EXCEPT !.pc = "enter"]
                            ELSE caller[d]]

Deactivate(c) ==
  /\ Enter(c, "deactivate") /\ state_ = "active"
  /\ state_' = "deactivating"
  /\ Lock(c)
  /\ caller' = [Wakes EXCEPT ![c].pc = "stopping", ![c].list = StopList,
                             ![c].at = Len(StopList)]
  /\ UNCHANGED <<child_objects_, child, stop_failed, fixed>>

\* deactivate_object_(rit): one child after the other, in reverse order, each
\* waited for at once when SYNCHRONOUS_.
StopChild(c) ==
  /\ At(c, "stopping") /\ caller[c].at > 0
  /\ IF child[Here(c)] = "active" THEN SetChild(Here(c), "deactivating")
                                  ELSE UNCHANGED child
  /\ IF fixed.synchronous THEN Goto(c, "stop_wait") ELSE Advance(c, -1)
  /\ UNCHANGED <<state_, locked, child_objects_, stop_failed, fixed>>

StopChildFails(c) ==
  /\ At(c, "stopping") /\ caller[c].at > 0
  /\ Here(c) \in MayFailToStop /\ child[Here(c)] = "active"
  /\ stop_failed' = TRUE
  /\ caller' = [caller EXCEPT ![c].errors = TRUE, ![c].at = @ - 1]
  /\ UNCHANGED <<state_, locked, child_objects_, child, fixed>>

\* wait_object() of a child returns.
ChildEndedUnlessActive(k) == child[k] # "active"
ChildEnded(k) == ~Working(k)

StopWait(c) ==
  /\ At(c, "stop_wait") /\ ChildEnded(Here(c))
  /\ SetChild(Here(c), "not_active")
  /\ caller' = [caller EXCEPT ![c].pc = "stopping", ![c].at = @ - 1]
  /\ UNCHANGED <<state_, locked, child_objects_, stop_failed, fixed>>

\* The end of the loop.  An error leaves an object that deactivates active
\* again, and skips the waits of a rollback and of clear_children().
AllStopped(c) == At(c, "stopping") /\ caller[c].at = 0

Stopped(c) ==
  /\ AllStopped(c) /\ (Op(c) = "deactivate" \/ caller[c].errors)
  /\ state_' = CASE Op(c) = "activate" -> "not_active"
                 [] Op(c) = "deactivate" /\ caller[c].errors -> "active"
                 [] OTHER -> state_
  /\ Unlock /\ Return(c)
  /\ UNCHANGED <<child_objects_, child, stop_failed, fixed>>

ToJoin(c) ==
  /\ AllStopped(c) /\ Op(c) # "deactivate" /\ ~caller[c].errors
  /\ GoThrough(c, "joining", caller[c].list, Len(caller[c].list))
  /\ UNCHANGED <<state_, locked, child_objects_, child, stop_failed, fixed>>

\* wait_for_some_objects_: also in reverse order.
Join(c) ==
  /\ At(c, "joining") /\ caller[c].at > 0
  /\ ChildEnded(Here(c))
  /\ SetChild(Here(c), "not_active")
  /\ Advance(c, -1)
  /\ UNCHANGED <<state_, locked, child_objects_, stop_failed, fixed>>

\* The end of a rollback and of clear_children().
Joined(c) ==
  /\ At(c, "joining") /\ caller[c].at = 0 /\ Op(c) \in {"activate", "clear"}
  /\ state_' = "not_active"
  /\ child_objects_' = IF Op(c) = "clear" THEN <<>> ELSE child_objects_
  /\ Unlock /\ Return(c)
  /\ UNCHANGED <<child, stop_failed, fixed>>

-----------------------------------------------------------------------------
\* wait_object(): sleeps while the object is active, then waits for a copy of
\* the list without the lock, then completes the deactivation.
Look(c) ==
  /\ Enter(c, "wait")
  /\ Goto(c, IF state_ = "active" THEN "asleep" ELSE "copy")
  /\ UNCHANGED <<state_, locked, child_objects_, child, stop_failed, fixed>>

Spurious(c) ==
  /\ At(c, "asleep")
  /\ Goto(c, "enter")
  /\ UNCHANGED <<state_, locked, child_objects_, child, stop_failed, fixed>>

Copy(c) ==
  /\ At(c, "copy") /\ locked = {}
  /\ GoThrough(c, "joining", child_objects_, Len(child_objects_))
  /\ UNCHANGED <<state_, locked, child_objects_, child, stop_failed, fixed>>

Leave(c) ==
  /\ At(c, "joining") /\ caller[c].at = 0 /\ Op(c) = "wait" /\ locked = {}
  /\ state_' = IF state_ = "deactivating" THEN "not_active" ELSE state_
  /\ Return(c)
  /\ UNCHANGED <<locked, child_objects_, child, stop_failed, fixed>>

-----------------------------------------------------------------------------
\* add_child_object(): the child joins in the state of the object; when it
\* throws nothing changes.
Insertions(k) == {<<k>> \o child_objects_, Append(child_objects_, k)}

AddedAsItIs(k) == TRUE
AddedStopped(k) == child[k] # "active"

AddChild(c, k) ==
  /\ At(c, "idle") /\ locked = {} /\ k \notin Members
  /\ \/ state_ = "active" /\ child[k] = "active" /\ UNCHANGED child
     \/ state_ = "active" /\ child[k] = "not_active" /\ SetChild(k, "active")
     \/ state_ # "active" /\ AddedStopped(k) /\ UNCHANGED child
  /\ child_objects_' \in Insertions(k)
  /\ UNCHANGED <<state_, locked, caller, stop_failed, fixed>>

\* A child that is active is stopped and waited for first.
StopAdded(c, k) ==
  /\ At(c, "idle") /\ locked = {} /\ k \notin Members
  /\ state_ # "active" /\ child[k] = "active"
  /\ SetChild(k, "deactivating")
  /\ Lock(c)
  /\ caller' = [caller EXCEPT ![c] = [op |-> "add", pc |-> "joining", list |-> <<k>>,
                                      at |-> 1, errors |-> FALSE]]
  /\ UNCHANGED <<state_, child_objects_, stop_failed, fixed>>

Added(c) ==
  /\ At(c, "joining") /\ caller[c].at = 0 /\ Op(c) = "add"
  /\ child_objects_' \in Insertions(caller[c].list[1])
  /\ Unlock /\ Return(c)
  /\ UNCHANGED <<state_, child, stop_failed, fixed>>

\* clear_children(): stops the children unless the object is not active.
Clear(c) ==
  /\ Enter(c, "clear") /\ state_ # "not_active"
  /\ Lock(c) /\ GoThrough(c, "stopping", StopList, Len(StopList))
  /\ UNCHANGED <<state_, child_objects_, child, stop_failed, fixed>>

ClearInactive(c) ==
  /\ Enter(c, "clear") /\ state_ = "not_active"
  /\ child_objects_' = <<>>
  /\ Return(c)
  /\ UNCHANGED <<state_, locked, child, stop_failed, fixed>>

-----------------------------------------------------------------------------
\* The work of a child that was told to stop ends.
WorkEnds(k) ==
  /\ child[k] = "deactivating"
  /\ SetChild(k, "ended")
  /\ UNCHANGED <<state_, locked, child_objects_, caller, stop_failed, fixed>>

Step(c) ==
  \/ AlreadyActive(c) \/ Activate(c) \/ ActivateChild(c) \/ Activated(c)
  \/ NotToDeactivate(c) \/ Deactivate(c) \/ StopChild(c) \/ StopWait(c)
  \/ Stopped(c) \/ ToJoin(c) \/ Join(c) \/ Joined(c)
  \/ Look(c) \/ Copy(c) \/ Leave(c) \/ Added(c) \/ Clear(c) \/ ClearInactive(c)

Next ==
  \/ \E c \in Callers :
       \/ \E o \in {"activate", "deactivate", "wait", "clear"} : Call(c, o)
       \/ Step(c)
       \/ ActivateFails(c) \/ StopChildFails(c) \/ Spurious(c)
       \/ \E k \in Children : AddChild(c, k) \/ StopAdded(c, k)
  \/ \E k \in Children : WorkEnds(k)

Spec == Init /\ [][Next]_vars

\* Callers run, a free lock is not refused for ever, and children that were told
\* to stop stop.
Fairness ==
  /\ \A c \in Callers : SF_vars(Step(c))
  /\ \A k \in Children : WF_vars(WorkEnds(k))

LiveSpec == Spec /\ Fairness

-----------------------------------------------------------------------------
TypeOK ==
  /\ state_ \in {"active", "deactivating", "not_active"}
  /\ locked \subseteq Callers
  /\ child_objects_ \in Seq(Children)
  /\ child \in [Children -> {"active", "deactivating", "ended", "not_active"}]
  /\ caller \in [Callers -> [op : {"none", "activate", "deactivate", "wait", "add", "clear"},
                             pc : {"idle", "enter", "activating", "stopping", "stop_wait",
                                   "joining", "asleep", "copy"},
                             list : Seq(Children), at : Nat, errors : BOOLEAN]]
  /\ stop_failed \in BOOLEAN
  /\ fixed \in [synchronous : BOOLEAN, activations : 0 .. MaxActivations]

\* "any time all object that it own must be active or not active": while nobody
\* is inside an operation on the children they are all in the state of the
\* object, a failed activation included.
AllOrNone ==
  locked = {} =>
    /\ state_ = "active" /\ ~stop_failed => \A k \in Members : child[k] = "active"
    /\ state_ = "not_active" => \A k \in Members : child[k] = "not_active"

\* The same, and the types.
ChildrenFollow == TypeOK /\ AllOrNone

\* "last added, deactivate and join first": a child is told to stop when all
\* behind it were told, and with SYNCHRONOUS_ when they have ended.
ReverseOrder ==
  [][\A i, j \in DOMAIN child_objects_ :
       /\ i < j
       /\ child[child_objects_[i]] = "active" /\ child'[child_objects_[i]] = "deactivating"
       => \/ stop_failed
          \/ /\ child[child_objects_[j]] # "active"
             /\ fixed.synchronous => ~Working(child_objects_[j])]_vars

\* "first added - first activated"
ForwardOrder ==
  [][\A i, j \in DOMAIN child_objects_ :
       /\ i < j
       /\ child[child_objects_[j]] = "not_active" /\ child'[child_objects_[j]] = "active"
       => child[child_objects_[i]] = "active"]_vars

\* Both orders: the children form a stack, however operations overlap.
StackOrder == ReverseOrder /\ ForwardOrder

\* "Waits for deactivation all owned completion": a caller that sleeps on an
\* object that is no longer active is woken.
WaiterReturns ==
  \A c \in Callers : At(c, "asleep") /\ state_ # "active" ~> ~At(c, "asleep")

\* The other calls return: the lock is not held for ever, though children are
\* waited for under it.
CallsReturn ==
  \A c \in Callers : Op(c) \in {"activate", "deactivate", "add", "clear"} ~> Op(c) = "none"

\* Nobody sleeps or waits for ever on the object.
NobodyStuck == WaiterReturns /\ CallsReturn

\* The composite is an active object itself: active from the activation of the
\* first child, deactivating until the last of them has ended.
Owner(o) == \E c \in locked : Op(c) = o

AbstractState ==
  IF Owner("clear") THEN "deactivating"
  ELSE IF ~Owner("activate") THEN state_
  ELSE IF \A k \in Members : child[k] = "not_active" THEN "not_active"
  ELSE IF \E c \in locked : At(c, "activating") THEN "active"
  ELSE "deactivating"

Abstract == INSTANCE ActiveObjectSpec
              WITH state <- AbstractState, running <- \E k \in Members : Working(k)

\* The active object of ActiveObjectSpec.
Implements == Abstract!Spec
=============================================================================
