-------------------------- MODULE CompositeProofs ---------------------------
(***************************************************************************)
(* Theorems on CompositeActiveObject, for any callers, children and        *)
(* activations: the children follow the object's state, they start in      *)
(* order and stop in reverse, and the composite is an active object.       *)
(*                                                                         *)
(* The argument (IInv).  Where a caller is tells whether it has the lock,  *)
(* and the one that has it knows each child that it went past (HolderInv). *)
(* A waiter has no lock: past its first look the object stays inactive,    *)
(* and a child that it has not waited for yet is the only kind that may    *)
(* not be not active (WaiterInv).  Between the operations the children are *)
(* as the state says (AsState), and those that are no members are active   *)
(* or not, but for one that is being added (Newcomers).                    *)
(***************************************************************************)
EXTENDS CompositeActiveObject, Integers, SequenceTheorems, TLAPS

\* A second child may not fail to stop in the rollback that a first one caused:
\* activate_object_() then says not active beside a child that is active.  And
\* nobody activates or clears beside a wait (ActiveObject.hpp:181).
Assumed ==
  /\ WaitBeside = {}
  /\ \A k \in MayFailToStart, m \in MayFailToStop : k = m

Ops == {"none", "activate", "deactivate", "wait", "add", "clear"}
Places == {"idle", "enter", "activating", "stopping", "stop_wait", "joining", "asleep", "copy"}
CallerType == [op : Ops, pc : Places, list : Seq(Children), at : Nat, errors : BOOLEAN]

pc(c) == caller[c].pc
list(c) == caller[c].list
at(c) == caller[c].at
errors(c) == caller[c].errors

Positions == 1 .. Len(child_objects_)
ChildAt(i) == child[child_objects_[i]]

NoTwice == \A i, j \in Positions : child_objects_[i] = child_objects_[j] => i = j

PlaceInv ==
  \A c \in Callers :
    /\ Op(c) = "none" => pc(c) = "idle"
    /\ Op(c) = "activate" =>
         pc(c) \in {"enter", "activating", "stopping", "stop_wait", "joining"} /\ ~errors(c)
    /\ Op(c) = "deactivate" => pc(c) \in {"enter", "stopping", "stop_wait"}
    /\ Op(c) = "clear" => pc(c) \in {"enter", "stopping", "stop_wait", "joining"}
    /\ Op(c) = "wait" => pc(c) \in {"enter", "asleep", "copy", "joining"}
    /\ Op(c) = "add" => pc(c) = "joining"
    /\ pc(c) = "activating" => Op(c) = "activate"
    /\ pc(c) \in {"enter", "asleep", "copy"} => ~errors(c)
    /\ pc(c) = "idle" => Op(c) = "none" /\ ~errors(c)

Holding(c) ==
  pc(c) \in {"activating", "stopping", "stop_wait"} \/ (pc(c) = "joining" /\ Op(c) # "wait")

LockInv ==
  /\ \A c \in Callers : c \in locked <=> Holding(c)
  /\ \A c, d \in locked : c = d

WaitApart == \A c, d \in Callers : Op(c) \in {"activate", "clear"} => Op(d) # "wait"

WaiterInv ==
  \A c \in Callers : Op(c) = "wait" /\ pc(c) \in {"copy", "joining"} =>
    /\ state_ # "active" /\ \A d \in locked : Op(d) = "add"
    /\ pc(c) = "joining" =>
         /\ at(c) <= Len(list(c))
         /\ \A k \in Members : child[k] = "not_active" \/ \E i \in 1 .. at(c) : list(c)[i] = k

Newcomers ==
  \A k \in Children \ Members :
    \/ child[k] \in {"active", "not_active"}
    \/ \E c \in locked : Op(c) = "add" /\ list(c)[1] = k

AsState ==
  (\A c \in locked : Op(c) = "add") =>
    /\ state_ = "active" /\ ~stop_failed => \A k \in Members : child[k] = "active"
    /\ state_ = "deactivating" => \A k \in Members : child[k] # "active"
    /\ state_ = "not_active" => \A k \in Members : child[k] = "not_active"

\* The holder of the lock goes through the children, or the first of them.
InList(c) ==
  Op(c) # "add" =>
    /\ Len(list(c)) <= Len(child_objects_)
    /\ \A i \in 1 .. Len(list(c)) : list(c)[i] = child_objects_[i]
    /\ Op(c) \in {"deactivate", "clear"} => Len(list(c)) = Len(child_objects_)

Activating(c) ==
  pc(c) = "activating" =>
    /\ state_ = "not_active" /\ Len(list(c)) = Len(child_objects_)
    /\ at(c) \in 1 .. Len(child_objects_) + 1
    /\ \A i \in Positions : ChildAt(i) = IF i < at(c) THEN "active" ELSE "not_active"

Stopping(c) ==
  pc(c) \in {"stopping", "stop_wait"} =>
    /\ at(c) <= Len(list(c)) /\ (errors(c) => stop_failed)
    /\ ~errors(c) =>
         \A i \in Positions : i > at(c) =>
           ChildAt(i) # "active" /\ (fixed.synchronous => ChildAt(i) = "not_active")
    /\ pc(c) = "stop_wait" => at(c) > 0 /\ fixed.synchronous /\ ChildAt(at(c)) # "active"

Joining(c) ==
  pc(c) = "joining" /\ Op(c) # "add" =>
    /\ at(c) <= Len(list(c))
    /\ \A i \in Positions : i > at(c) => ChildAt(i) = "not_active"

StateOf(c) ==
  /\ Op(c) = "activate" /\ pc(c) # "activating" =>
       /\ state_ = "deactivating" /\ \A i \in 1 .. Len(list(c)) : list(c)[i] \notin MayFailToStop
       /\ \A i \in Positions : i > Len(list(c)) => ChildAt(i) = "not_active"
  /\ Op(c) = "deactivate" => state_ = "deactivating"
  /\ Op(c) = "clear" =>
       /\ state_ # "not_active"
       /\ state_ = "deactivating" => \A k \in Members : child[k] # "active"
  /\ Op(c) = "add" =>
       /\ state_ # "active" /\ Len(list(c)) = 1 /\ list(c)[1] \notin Members
       /\ at(c) <= 1 /\ (at(c) = 0 => child[list(c)[1]] = "not_active")

HolderInv ==
  \A c \in locked : InList(c) /\ Activating(c) /\ Stopping(c) /\ Joining(c) /\ StateOf(c)

IInv ==
  /\ TypeOK /\ NoTwice /\ PlaceInv /\ LockInv /\ WaitApart
  /\ WaiterInv /\ Newcomers /\ AsState /\ HolderInv

-----------------------------------------------------------------------------
\* What an update of one caller makes of it.
Becomes(c, o, l, s, i, e) ==
  /\ caller' \in [Callers -> CallerType]
  /\ \A d \in Callers : d # c => caller'[d] = caller[d]
  /\ Op(c)' = o /\ pc(c)' = l /\ list(c)' = s /\ at(c)' = i /\ errors(c)' = e

LEMMA CallerFields ==
  ASSUME TypeOK, NEW c \in Callers
  PROVE  /\ Op(c) \in Ops /\ pc(c) \in Places /\ list(c) \in Seq(Children)
         /\ at(c) \in Nat /\ errors(c) \in BOOLEAN
         /\ caller \in [Callers -> CallerType]
BY DEF TypeOK, CallerType, Ops, Places, Op, pc, list, at, errors

LEMMA GotoBecomes ==
  ASSUME TypeOK, NEW c \in Callers, NEW l \in Places, Goto(c, l)
  PROVE  Becomes(c, Op(c), l, list(c), at(c), errors(c))
BY CallerFields DEF Goto, Becomes, Op, pc, list, at, errors, CallerType

LEMMA GoThroughBecomes ==
  ASSUME TypeOK, NEW c \in Callers, NEW l \in Places, NEW s \in Seq(Children), NEW i \in Nat,
         GoThrough(c, l, s, i)
  PROVE  Becomes(c, Op(c), l, s, i, errors(c))
BY CallerFields DEF GoThrough, Becomes, Op, pc, list, at, errors, CallerType

LEMMA AdvanceBecomes ==
  ASSUME TypeOK, NEW c \in Callers, NEW d \in Int, at(c) + d \in Nat, Advance(c, d)
  PROVE  Becomes(c, Op(c), pc(c), list(c), at(c) + d, errors(c))
BY CallerFields DEF Advance, Becomes, Op, pc, list, at, errors, CallerType

LEMMA ReturnBecomes ==
  ASSUME TypeOK, NEW c \in Callers, Return(c)
  PROVE  Becomes(c, "none", "idle", <<>>, 0, FALSE)
BY CallerFields DEF Return, Idle, Becomes, Op, pc, list, at, errors, CallerType, Ops, Places

LEMMA MembersAt ==
  ASSUME TypeOK
  PROVE  /\ DOMAIN child_objects_ = Positions /\ Len(child_objects_) \in Nat
         /\ Members = {child_objects_[i] : i \in Positions} /\ Members \subseteq Children
         /\ \A i \in Positions : child_objects_[i] \in Members
<1>1. child_objects_ \in [Positions -> Children] /\ Len(child_objects_) \in Nat
  BY DEF TypeOK, Positions
<1> QED
  BY <1>1 DEF Members, ToSet


\* Nobody but the holder of the lock is in a place of holders.
LEMMA OneHolder ==
  ASSUME IInv
  PROVE  /\ \A c, d \in locked : c = d
         /\ \A c \in locked : c \in Callers /\ Holding(c)
         /\ \A c \in Callers : Holding(c) => locked = {c}
BY DEF IInv, TypeOK, LockInv

\* Steps of a caller outside of the operations on the children.
LEMMA OutsideKeeps ==
  ASSUME IInv, NEW c \in Callers, NEW o, NEW l, NEW s, NEW i,
         Becomes(c, o, l, s, i, FALSE),
         UNCHANGED <<state_, locked, child_objects_, child, stop_failed>>,
         fixed'.synchronous = fixed.synchronous,
         fixed' \in [synchronous : BOOLEAN, activations : 0 .. MaxActivations],
         ~Holding(c),
         \/ o = "none" /\ l = "idle"
         \/ o \in {"activate", "deactivate", "wait", "clear"} /\ l = "enter"
         \/ o = "wait" /\ l = "asleep"
         \/ o = "wait" /\ l = "copy" /\ locked = {} /\ state_ # "active",
         WaitApart'
  PROVE  IInv'
<1>1. /\ \A d \in Callers : d # c => caller'[d] = caller[d]
      /\ c \notin locked
      /\ \A d \in locked : d # c /\ d \in Callers
  BY DEF Becomes, IInv, LockInv, TypeOK
<1>2. /\ \A d \in Callers : d # c =>
           /\ Op(d)' = Op(d) /\ pc(d)' = pc(d) /\ list(d)' = list(d) /\ at(d)' = at(d)
           /\ errors(d)' = errors(d)
      /\ Op(c)' = o /\ pc(c)' = l /\ errors(c)' = FALSE
  BY <1>1 DEF Becomes, Op, pc, list, at, errors
<1>3. TypeOK'
  BY DEF IInv, TypeOK, Becomes, CallerType, Ops, Places
<1>4. NoTwice' /\ Members' = Members /\ Positions' = Positions
      /\ \A j \in Positions : ChildAt(j)' = ChildAt(j)
  BY DEF IInv, NoTwice, Positions, Members, ChildAt
<1>5. PlaceInv'
  BY <1>2 DEF IInv, PlaceInv
<1>6. LockInv'
  <2>1. ~Holding(c)'
    BY <1>2 DEF Holding
  <2>2. \A d \in Callers : d # c => (Holding(d)' <=> Holding(d))
    BY <1>2 DEF Holding
  <2> QED
    BY <1>1, <2>1, <2>2 DEF IInv, LockInv
<1>7. WaiterInv'
  <2>1. \A d \in locked : Op(d)' = Op(d)
    BY <1>1, <1>2
  <2>2. ASSUME NEW d \in Callers, d # c, Op(d)' = "wait" /\ pc(d)' \in {"copy", "joining"}
        PROVE  /\ state_' # "active" /\ \A e \in locked' : Op(e)' = "add"
               /\ pc(d)' = "joining" =>
                    /\ at(d)' <= Len(list(d)')
                    /\ \A k \in Members' : \/ child'[k] = "not_active"
                                           \/ \E j \in 1 .. at(d)' : list(d)'[j] = k
    BY <1>2, <1>4, <2>1, <2>2 DEF IInv, WaiterInv
  <2>3. Op(c)' = "wait" /\ pc(c)' \in {"copy", "joining"} =>
          pc(c)' = "copy" /\ state_' # "active" /\ locked' = {}
    BY <1>2
  <2> QED
    BY <2>2, <2>3 DEF WaiterInv
<1>8. Newcomers'
  BY <1>1, <1>2, <1>4 DEF IInv, Newcomers
<1>9. AsState'
  BY <1>1, <1>2, <1>4 DEF IInv, AsState
<1>10. HolderInv'
  <2> SUFFICES ASSUME NEW d \in locked
               PROVE  (InList(d) /\ Activating(d) /\ Stopping(d) /\ Joining(d) /\ StateOf(d))'
    BY DEF HolderInv
  <2>1. InList(d) /\ Activating(d) /\ Stopping(d) /\ Joining(d) /\ StateOf(d)
    BY DEF IInv, HolderInv
  <2>2. /\ Op(d)' = Op(d) /\ pc(d)' = pc(d) /\ list(d)' = list(d) /\ at(d)' = at(d)
        /\ errors(d)' = errors(d)
    BY <1>1, <1>2
  <2>3. InList(d)' /\ Joining(d)' /\ Activating(d)'
    BY <1>4, <2>1, <2>2 DEF InList, Joining, Activating
  <2>4. Stopping(d)'
    <3>1. ChildAt(at(d))' = ChildAt(at(d))
      BY <2>2 DEF ChildAt
    <3> QED
      BY <1>4, <2>1, <2>2, <3>1 DEF Stopping
  <2>5. StateOf(d)'
    BY <1>4, <2>1, <2>2 DEF StateOf
  <2> QED
    BY <2>3, <2>4, <2>5
<1> QED
  BY <1>3, <1>4, <1>5, <1>6, <1>7, <1>8, <1>9, <1>10 DEF IInv


LEMMA ApartKept ==
  ASSUME WaitApart, NEW c \in Callers, NEW o, NEW l, NEW s, NEW i, NEW e,
         Becomes(c, o, l, s, i, e), o \in {Op(c), "none", "deactivate", "add"}
  PROVE  WaitApart'
<1>1. \A d \in Callers : Op(d)' \in {Op(d), "none", "deactivate", "add"}
  BY DEF Becomes, Op
<1> QED
  BY <1>1 DEF WaitApart

LEMMA CallKeeps ==
  ASSUME IInv, Assumed, NEW c \in Callers,
         NEW o \in {"activate", "deactivate", "wait", "clear"}, Call(c, o)
  PROVE  IInv'
<1>1. TypeOK /\ PlaceInv /\ pc(c) = "idle" /\ o \in Ops /\ "enter" \in Places
  BY DEF Call, At, pc, IInv, Ops, Places
<1>2. ~errors(c) /\ ~Holding(c) /\ Op(c) = "none"
  BY <1>1 DEF PlaceInv, Holding
<1>3. Becomes(c, o, "enter", list(c), at(c), FALSE)
  <2>1. caller' = [caller EXCEPT ![c].op = o, ![c].pc = "enter"]
    BY DEF Call
  <2> QED
    BY <1>1, <1>2, <2>1, CallerFields DEF Becomes, Op, pc, list, at, errors, CallerType
<1>4. /\ fixed'.synchronous = fixed.synchronous
      /\ fixed' \in [synchronous : BOOLEAN, activations : 0 .. MaxActivations]
  <2>1. fixed' = fixed \/ (fixed.activations < MaxActivations
                            /\ fixed' = [fixed EXCEPT !.activations = @ + 1])
    BY DEF Call
  <2> QED
    BY <1>1, <2>1, CompositeAssumption DEF TypeOK
<1>5. WaitApart'
  <2>1. /\ \A d \in Callers : d # c => Op(d)' = Op(d)
        /\ Op(c)' = o
    BY <1>3 DEF Becomes, Op
  <2>2. /\ o \in {"activate", "clear"} => \A d \in Callers : Op(d) # "wait"
        /\ o = "wait" => \A d \in Callers : Op(d) \notin {"activate", "clear"}
    BY DEF Call, Assumed, Doing
  <2> QED
    BY <2>1, <2>2 DEF IInv, WaitApart
<1>6. UNCHANGED <<state_, locked, child_objects_, child, stop_failed>>
  BY DEF Call
<1> QED
  BY <1>2, <1>3, <1>4, <1>5, <1>6, OutsideKeeps

LEMMA LookKeeps ==
  ASSUME IInv, NEW c \in Callers,
         AlreadyActive(c) \/ NotToDeactivate(c) \/ Look(c) \/ Spurious(c)
  PROVE  IInv'
<1>1. /\ TypeOK /\ PlaceInv /\ WaitApart /\ pc(c) \in {"enter", "asleep"}
      /\ {"enter", "asleep", "copy"} \subseteq Places
      /\ UNCHANGED <<state_, locked, child_objects_, child, stop_failed, fixed>>
  BY DEF AlreadyActive, NotToDeactivate, Look, Spurious, At, Enter, pc, IInv, Places
<1>2. ~Holding(c)
  BY <1>1 DEF Holding
<1>3. /\ fixed'.synchronous = fixed.synchronous
      /\ fixed' \in [synchronous : BOOLEAN, activations : 0 .. MaxActivations]
  BY <1>1 DEF TypeOK
<1>4. CASE AlreadyActive(c) \/ NotToDeactivate(c)
  <2>1. Becomes(c, "none", "idle", <<>>, 0, FALSE)
    BY <1>1, <1>4, ReturnBecomes DEF AlreadyActive, NotToDeactivate
  <2> QED
    BY <1>1, <1>2, <1>3, <2>1, ApartKept, OutsideKeeps
<1>5. CASE Look(c)
  <2>1. Op(c) = "wait" /\ locked = {} /\ ~errors(c)
    BY <1>1, <1>5 DEF Look, Enter, At, PlaceInv, pc
  <2>2. PICK l \in {"asleep", "copy"} :
          Goto(c, l) /\ (l = "copy" => state_ # "active")
    BY <1>5 DEF Look
  <2>3. Becomes(c, "wait", l, list(c), at(c), FALSE)
    <3>1. Becomes(c, Op(c), l, list(c), at(c), errors(c))
      BY <1>1, <2>2, GotoBecomes
    <3> QED
      BY <1>1, <2>1, <3>1, CallerFields
  <2> QED
    BY <1>1, <1>2, <1>3, <2>1, <2>2, <2>3, ApartKept, OutsideKeeps
<1>6. CASE Spurious(c)
  <2>1. Goto(c, "enter") /\ pc(c) = "asleep"
    BY <1>6 DEF Spurious, At, pc
  <2>2. Op(c) = "wait" /\ ~errors(c) /\ errors(c) \in BOOLEAN
    BY <1>1, <2>1, CallerFields DEF PlaceInv, Ops
  <2>3. Becomes(c, "wait", "enter", list(c), at(c), FALSE)
    <3>1. Becomes(c, Op(c), "enter", list(c), at(c), errors(c))
      BY <1>1, <2>1, GotoBecomes
    <3>2. errors(c) = FALSE
      BY <2>2
    <3> QED
      BY <2>2, <3>1, <3>2
  <2> QED
    BY <1>1, <1>2, <1>3, <2>2, <2>3, ApartKept, OutsideKeeps
<1> QED
  BY <1>4, <1>5, <1>6


ChildStates == {"active", "deactivating", "ended", "not_active"}
AsHolder(c) == InList(c) /\ Activating(c) /\ Stopping(c) /\ Joining(c) /\ StateOf(c)

\* A step of an operation on the children: nobody waits meanwhile.
LEMMA HolderKeeps ==
  ASSUME IInv, NEW c \in locked, Op(c) # "add", NEW l, NEW s, NEW i, NEW e,
         Becomes(c, Op(c), l, s, i, e),
         UNCHANGED <<locked, child_objects_, fixed>>,
         state_' \in {"active", "deactivating", "not_active"}, stop_failed' \in BOOLEAN,
         child' \in [Children -> ChildStates],
         \A k \in Children \ Members : child'[k] = child[k],
         l \in {"activating", "stopping", "stop_wait", "joining"},
         l = "activating" => Op(c) = "activate",
         l = "joining" => Op(c) \in {"activate", "clear"},
         Op(c) = "activate" => ~e,
         AsHolder(c)'
  PROVE  IInv'
<1>1. /\ c \in Callers /\ locked = {c} /\ Op(c) \in {"activate", "deactivate", "clear"}
      /\ TypeOK
  BY OneHolder, CallerFields DEF IInv, Holding, PlaceInv, Ops
<1>2. /\ \A d \in Callers : d # c =>
           /\ Op(d)' = Op(d) /\ pc(d)' = pc(d) /\ list(d)' = list(d) /\ at(d)' = at(d)
           /\ errors(d)' = errors(d)
      /\ Op(c)' = Op(c) /\ pc(c)' = l /\ errors(c)' = e
  BY DEF Becomes, Op, pc, list, at, errors
<1>3. TypeOK'
  BY <1>1 DEF TypeOK, Becomes, CallerType, Ops, Places, ChildStates
<1>4. NoTwice' /\ Members' = Members
  BY DEF IInv, NoTwice, Positions, Members
<1>5. PlaceInv'
  BY <1>1, <1>2 DEF IInv, PlaceInv
<1>6. LockInv'
  <2>1. Holding(c)' /\ \A d \in Callers : d # c => (Holding(d)' <=> Holding(d))
    BY <1>1, <1>2 DEF Holding
  <2> QED
    BY <1>1, <2>1 DEF IInv, LockInv
<1>7. WaitApart'
  BY <1>1, ApartKept DEF IInv
<1>8. WaiterInv'
  <2>1. \A d \in Callers : ~(Op(d)' = "wait" /\ pc(d)' \in {"copy", "joining"})
    BY <1>1, <1>2 DEF IInv, WaiterInv
  <2> QED
    BY <2>1 DEF WaiterInv
<1>9. Newcomers'
  BY <1>1, <1>4 DEF IInv, Newcomers
<1>10. AsState'
  BY <1>1, <1>2 DEF AsState
<1>11. HolderInv'
  BY <1>1 DEF HolderInv, AsHolder
<1> QED
  BY <1>3, <1>4, <1>5, <1>6, <1>7, <1>8, <1>9, <1>10, <1>11 DEF IInv

\* The end of one: the children are as the state says.
LEMMA ReleaseKeeps ==
  ASSUME IInv, NEW c \in locked, Op(c) # "add", Return(c), Unlock, UNCHANGED fixed,
         state_' \in {"active", "deactivating", "not_active"}, stop_failed' \in BOOLEAN,
         child_objects_' \in Seq(Children), child' \in [Children -> ChildStates],
         NoTwice', \A k \in (Children \ Members)' : child'[k] \in {"active", "not_active"},
         AsState'
  PROVE  IInv'
<1>1. /\ c \in Callers /\ locked = {c} /\ Op(c) \in {"activate", "deactivate", "clear"}
      /\ TypeOK
  BY OneHolder, CallerFields DEF IInv, Holding, PlaceInv, Ops
<1>2. Becomes(c, "none", "idle", <<>>, 0, FALSE)
  BY <1>1, ReturnBecomes
<1>3. /\ \A d \in Callers : d # c =>
           /\ Op(d)' = Op(d) /\ pc(d)' = pc(d) /\ list(d)' = list(d) /\ at(d)' = at(d)
           /\ errors(d)' = errors(d)
      /\ Op(c)' = "none" /\ pc(c)' = "idle" /\ errors(c)' = FALSE
      /\ locked' = {}
  BY <1>2 DEF Becomes, Op, pc, list, at, errors, Unlock
<1>4. TypeOK'
  BY <1>1, <1>2, <1>3 DEF TypeOK, Becomes, CallerType, Ops, Places, ChildStates
<1>5. PlaceInv'
  BY <1>1, <1>3 DEF IInv, PlaceInv
<1>6. LockInv'
  <2>1. ~Holding(c)' /\ \A d \in Callers : d # c => (Holding(d)' <=> Holding(d))
    BY <1>1, <1>3 DEF Holding
  <2> QED
    BY <1>1, <1>3, <2>1 DEF IInv, LockInv
<1>7. WaitApart'
  BY <1>1, <1>2, ApartKept DEF IInv
<1>8. WaiterInv'
  <2>1. \A d \in Callers : ~(Op(d)' = "wait" /\ pc(d)' \in {"copy", "joining"})
    BY <1>1, <1>3 DEF IInv, WaiterInv
  <2> QED
    BY <2>1 DEF WaiterInv
<1>9. Newcomers' /\ HolderInv'
  BY <1>3 DEF Newcomers, HolderInv
<1> QED
  BY <1>4, <1>5, <1>6, <1>7, <1>8, <1>9 DEF IInv

\* The begin of one: who sleeps may be woken, and nobody is past its first look.
LEMMA TakeKeeps ==
  ASSUME IInv, NEW c \in Callers, locked = {}, Lock(c), pc(c) = "enter",
         Op(c) \in {"activate", "deactivate", "clear"},
         caller' \in [Callers -> CallerType],
         \A d \in Callers : d # c =>
           /\ Op(d)' = Op(d) /\ errors(d)' = errors(d)
           /\ pc(d)' = pc(d) \/ (pc(d) = "asleep" /\ pc(d)' = "enter"),
         Op(c)' = Op(c), ~errors(c)',
         pc(c)' = IF Op(c) = "activate" THEN "activating" ELSE "stopping",
         Op(c) = "deactivate" => state_ = "active",
         UNCHANGED <<child_objects_, child, stop_failed, fixed>>,
         state_' \in {"active", "deactivating", "not_active"},
         AsHolder(c)'
  PROVE  IInv'
<1>1. TypeOK /\ locked' = {c} /\ TypeOK'
  BY DEF IInv, TypeOK, CallerType, Ops, Places, Lock
<1>2. NoTwice' /\ Members' = Members
  BY DEF IInv, NoTwice, Positions, Members
<1>3. PlaceInv'
  <2>1. \A d \in Callers : d # c /\ pc(d) = "asleep" => Op(d) = "wait" /\ ~errors(d)
    BY <1>1, CallerFields DEF IInv, PlaceInv, Ops
  <2> QED
    BY <2>1 DEF IInv, PlaceInv
<1>4. LockInv'
  <2>1. Holding(c)'
    BY DEF Holding
  <2>2. \A d \in Callers : d # c => ~Holding(d)
    BY DEF IInv, LockInv
  <2>3. \A d \in Callers : d # c => ~Holding(d)'
    BY <2>2 DEF Holding
  <2> QED
    BY <1>1, <2>1, <2>3 DEF LockInv
<1>5. WaitApart'
  BY DEF IInv, WaitApart
<1>6. WaiterInv'
  <2>1. \A d \in Callers : ~(Op(d) = "wait" /\ pc(d) \in {"copy", "joining"})
    BY DEF IInv, WaiterInv, WaitApart
  <2>2. \A d \in Callers : ~(Op(d)' = "wait" /\ pc(d)' \in {"copy", "joining"})
    BY <2>1
  <2> QED
    BY <2>2 DEF WaiterInv
<1>7. Newcomers' /\ AsState' /\ HolderInv'
  BY <1>1, <1>2 DEF IInv, Newcomers, AsState, HolderInv, AsHolder
<1> QED
  BY <1>1, <1>2, <1>3, <1>4, <1>5, <1>6, <1>7 DEF IInv


LEMMA ActivateKeeps == ASSUME IInv, NEW c \in Callers, Activate(c) PROVE IInv'
<1>1. /\ TypeOK /\ PlaceInv /\ locked = {} /\ Lock(c) /\ pc(c) = "enter" /\ Op(c) = "activate"
      /\ state_ = "not_active" /\ GoThrough(c, "activating", child_objects_, 1)
      /\ UNCHANGED <<state_, child_objects_, child, stop_failed, fixed>>
  BY DEF Activate, Enter, At, pc, IInv, ActivateList
<1>2. ~errors(c) /\ child_objects_ \in Seq(Children) /\ Len(child_objects_) \in Nat
  BY <1>1 DEF PlaceInv, TypeOK
<1>3. Becomes(c, "activate", "activating", child_objects_, 1, errors(c))
  <2>1. Becomes(c, Op(c), "activating", child_objects_, 1, errors(c))
    BY <1>1, <1>2, GoThroughBecomes DEF Places
  <2> QED
    BY <1>1, <2>1
<1>4. /\ caller' \in [Callers -> CallerType]
      /\ \A d \in Callers : d # c =>
           Op(d)' = Op(d) /\ errors(d)' = errors(d) /\ pc(d)' = pc(d)
      /\ Op(c)' = "activate" /\ pc(c)' = "activating" /\ ~errors(c)'
      /\ list(c)' = child_objects_ /\ at(c)' = 1
  BY <1>2, <1>3 DEF Becomes, Op, pc, errors
<1>5. \A i \in Positions : ChildAt(i)' = "not_active"
  <2>1. \A i \in Positions : child_objects_[i] \in Members
    BY <1>1, MembersAt
  <2> QED
    BY <1>1, <2>1 DEF IInv, AsState, ChildAt
<1>6. AsHolder(c)'
  <2>1. InList(c)'
    BY <1>1, <1>2, <1>4 DEF InList
  <2>2. Activating(c)'
    BY <1>1, <1>2, <1>4, <1>5 DEF Activating, Positions
  <2>3. Stopping(c)' /\ Joining(c)' /\ StateOf(c)'
    BY <1>4 DEF Stopping, Joining, StateOf
  <2> QED
    BY <2>1, <2>2, <2>3 DEF AsHolder
<1> QED
  BY <1>1, <1>4, <1>6, TakeKeeps

LEMMA ClearKeeps == ASSUME IInv, NEW c \in Callers, Clear(c) PROVE IInv'
<1>1. /\ TypeOK /\ PlaceInv /\ locked = {} /\ Lock(c) /\ pc(c) = "enter" /\ Op(c) = "clear"
      /\ state_ # "not_active"
      /\ GoThrough(c, "stopping", child_objects_, Len(child_objects_))
      /\ UNCHANGED <<state_, child_objects_, child, stop_failed, fixed>>
  BY DEF Clear, Enter, At, pc, IInv, StopList
<1>2. ~errors(c) /\ child_objects_ \in Seq(Children) /\ Len(child_objects_) \in Nat
  BY <1>1 DEF PlaceInv, TypeOK
<1>3. Becomes(c, "clear", "stopping", child_objects_, Len(child_objects_), errors(c))
  <2>1. Becomes(c, Op(c), "stopping", child_objects_, Len(child_objects_), errors(c))
    BY <1>1, <1>2, GoThroughBecomes DEF Places
  <2> QED
    BY <1>1, <2>1
<1>4. /\ caller' \in [Callers -> CallerType]
      /\ \A d \in Callers : d # c =>
           Op(d)' = Op(d) /\ errors(d)' = errors(d) /\ pc(d)' = pc(d)
      /\ Op(c)' = "clear" /\ pc(c)' = "stopping" /\ ~errors(c)'
      /\ list(c)' = child_objects_ /\ at(c)' = Len(child_objects_)
  BY <1>2, <1>3 DEF Becomes, Op, pc, errors
<1>5. /\ state_' # "not_active" /\ Members' = Members
      /\ state_' = "deactivating" => \A k \in Members : child'[k] # "active"
  BY <1>1 DEF IInv, AsState, Members
<1>6. AsHolder(c)'
  <2>1. InList(c)'
    BY <1>1, <1>2, <1>4 DEF InList
  <2>2. Stopping(c)'
    BY <1>1, <1>2, <1>4 DEF Stopping, Positions
  <2>3. Activating(c)' /\ Joining(c)' /\ StateOf(c)'
    BY <1>4, <1>5 DEF Activating, Joining, StateOf
  <2> QED
    BY <2>1, <2>2, <2>3 DEF AsHolder
<1>7. Op(c)' = Op(c) /\ state_' \in {"active", "deactivating", "not_active"}
  BY <1>1, <1>4 DEF TypeOK
<1> QED
  BY <1>1, <1>4, <1>6, <1>7, TakeKeeps

LEMMA DeactivateKeeps == ASSUME IInv, NEW c \in Callers, Deactivate(c) PROVE IInv'
<1>1. /\ TypeOK /\ PlaceInv /\ locked = {} /\ Lock(c) /\ pc(c) = "enter" /\ Op(c) = "deactivate"
      /\ state_ = "active" /\ state_' = "deactivating"
      /\ UNCHANGED <<child_objects_, child, stop_failed, fixed>>
  BY DEF Deactivate, Enter, At, pc, IInv
<1>2. ~errors(c) /\ child_objects_ \in Seq(Children) /\ Len(child_objects_) \in Nat
  BY <1>1 DEF PlaceInv, TypeOK
<1>3. /\ Wakes \in [Callers -> CallerType]
      /\ \A d \in Callers :
           /\ Wakes[d].op = Op(d) /\ Wakes[d].errors = errors(d)
           /\ Wakes[d].pc = IF pc(d) = "asleep" THEN "enter" ELSE pc(d)
  <2>1. \A d \in Callers : caller[d] \in CallerType /\ [caller[d] EXCEPT !.pc = "enter"] \in CallerType
    BY <1>1, CallerFields DEF CallerType, Places
  <2> QED
    BY <2>1 DEF Wakes, At, Op, pc, errors, CallerType
<1>4. /\ caller' \in [Callers -> CallerType]
      /\ \A d \in Callers : d # c => caller'[d] = Wakes[d]
      /\ caller'[c].op = Wakes[c].op /\ caller'[c].errors = Wakes[c].errors
      /\ caller'[c].pc = "stopping" /\ caller'[c].list = child_objects_
      /\ caller'[c].at = Len(child_objects_)
  <2>1. caller' = [Wakes EXCEPT ![c].pc = "stopping", ![c].list = child_objects_,
                                ![c].at = Len(child_objects_)]
    BY DEF Deactivate, StopList
  <2> HIDE DEF Wakes
  <2> QED
    BY <1>2, <1>3, <2>1 DEF CallerType, Places
<1>5. /\ \A d \in Callers : d # c =>
           /\ Op(d)' = Op(d) /\ errors(d)' = errors(d)
           /\ pc(d)' = pc(d) \/ (pc(d) = "asleep" /\ pc(d)' = "enter")
      /\ Op(c)' = "deactivate" /\ pc(c)' = "stopping" /\ ~errors(c)'
      /\ list(c)' = child_objects_ /\ at(c)' = Len(child_objects_)
  BY <1>1, <1>2, <1>3, <1>4 DEF Op, pc, list, at, errors
<1>6. AsHolder(c)'
  <2>1. InList(c)'
    BY <1>1, <1>2, <1>5 DEF InList
  <2>2. Stopping(c)'
    BY <1>1, <1>2, <1>5 DEF Stopping, Positions
  <2>3. Activating(c)' /\ Joining(c)' /\ StateOf(c)'
    BY <1>1, <1>5 DEF Activating, Joining, StateOf
  <2> QED
    BY <2>1, <2>2, <2>3 DEF AsHolder
<1> QED
  BY <1>1, <1>4, <1>5, <1>6, TakeKeeps


LEMMA HolderFacts ==
  ASSUME IInv, NEW c \in Callers, Holding(c)
  PROVE  /\ TypeOK /\ c \in locked /\ locked = {c} /\ AsHolder(c)
         /\ Op(c) \in {"activate", "deactivate", "clear", "add"}
         /\ Op(c) = "activate" => ~errors(c)
         /\ at(c) \in Nat /\ Len(child_objects_) \in Nat /\ list(c) \in Seq(Children)
         /\ Len(list(c)) \in Nat /\ errors(c) \in BOOLEAN
<1>1. TypeOK /\ c \in locked /\ locked = {c} /\ AsHolder(c)
  BY OneHolder DEF IInv, LockInv, HolderInv, AsHolder
<1>2. /\ Op(c) \in {"activate", "deactivate", "clear", "add"}
      /\ Op(c) = "activate" => ~errors(c)
  BY <1>1, CallerFields DEF IInv, PlaceInv, Holding, Ops
<1> QED
  BY <1>1, <1>2, CallerFields, MembersAt

LEMMA HereFacts ==
  ASSUME IInv, NEW c \in Callers, Holding(c), Op(c) # "add", at(c) > 0, at(c) <= Len(list(c))
  PROVE  /\ at(c) \in Positions /\ Here(c) = child_objects_[at(c)] /\ Here(c) = list(c)[at(c)]
         /\ Here(c) \in Members /\ Here(c) \in Children /\ ChildAt(at(c)) = child[Here(c)]
         /\ \A i \in Positions : child_objects_[i] \in Children
                                   /\ (child_objects_[i] = Here(c) <=> i = at(c))
<1>1. at(c) \in Positions /\ at(c) \in 1 .. Len(list(c))
  BY HolderFacts DEF AsHolder, InList, Positions
<1>2. Here(c) = child_objects_[at(c)] /\ Here(c) = list(c)[at(c)]
  BY <1>1, HolderFacts DEF AsHolder, InList, Here, list, at
<1>3. \A i \in Positions : child_objects_[i] \in Members /\ child_objects_[i] \in Children
  BY MembersAt, HolderFacts
<1> QED
  BY <1>1, <1>2, <1>3 DEF IInv, NoTwice, ChildAt

LEMMA ChildSet ==
  ASSUME IInv, NEW c \in Callers, Holding(c), Op(c) # "add", at(c) > 0, at(c) <= Len(list(c)),
         NEW s \in ChildStates, SetChild(Here(c), s), UNCHANGED child_objects_
  PROVE  /\ child' \in [Children -> ChildStates] /\ Members' = Members /\ Positions' = Positions
         /\ \A k \in Children \ Members : child'[k] = child[k]
         /\ \A k \in Members : child'[k] \in {child[k], s}
         /\ \A i \in Positions : ChildAt(i)' = IF i = at(c) THEN s ELSE ChildAt(i)
<1>1. /\ child \in [Children -> ChildStates] /\ child' = [child EXCEPT ![Here(c)] = s]
      /\ Members \subseteq Children
  BY HolderFacts, MembersAt DEF TypeOK, ChildStates, SetChild
<1>2. \A i \in Positions : ChildAt(i)' = IF i = at(c) THEN s ELSE ChildAt(i)
  BY <1>1, HereFacts DEF ChildAt
<1>3. Members' = Members /\ Positions' = Positions
  BY DEF Members, Positions
<1> QED
  BY <1>1, <1>2, <1>3, HereFacts

LEMMA ActivateChildKeeps == ASSUME IInv, NEW c \in Callers, ActivateChild(c) PROVE IInv'
<1>1. /\ pc(c) = "activating" /\ at(c) <= Len(list(c))
      /\ SetChild(Here(c), "active") /\ Advance(c, 1)
      /\ UNCHANGED <<state_, locked, child_objects_, stop_failed, fixed>>
  BY DEF ActivateChild, At, pc, at, list
<1>2. Holding(c) /\ Op(c) = "activate"
  BY <1>1 DEF Holding, IInv, PlaceInv
<1>3. /\ TypeOK /\ c \in locked /\ AsHolder(c) /\ at(c) \in Nat /\ Len(child_objects_) \in Nat
      /\ list(c) \in Seq(Children) /\ ~errors(c) /\ errors(c) \in BOOLEAN
  BY <1>2, HolderFacts
<1>4. /\ Len(list(c)) = Len(child_objects_) /\ at(c) \in 1 .. Len(child_objects_)
      /\ state_ = "not_active"
      /\ \A i \in Positions : ChildAt(i) = IF i < at(c) THEN "active" ELSE "not_active"
  BY <1>1, <1>3 DEF AsHolder, Activating
<1>5. /\ child' \in [Children -> ChildStates] /\ Members' = Members /\ Positions' = Positions
      /\ \A k \in Children \ Members : child'[k] = child[k]
      /\ \A i \in Positions : ChildAt(i)' = IF i = at(c) THEN "active" ELSE ChildAt(i)
  <2>1. at(c) > 0 /\ "active" \in ChildStates
    BY <1>4 DEF ChildStates
  <2> QED
    BY <1>1, <1>2, <2>1, ChildSet
<1>6. Becomes(c, Op(c), "activating", list(c), at(c) + 1, errors(c))
  <2>1. Becomes(c, Op(c), pc(c), list(c), at(c) + 1, errors(c))
    BY <1>1, <1>3, AdvanceBecomes
  <2> QED
    BY <1>1, <2>1
<1>7. AsHolder(c)'
  <2>1. /\ Op(c)' = "activate" /\ pc(c)' = "activating" /\ list(c)' = list(c)
        /\ at(c)' = at(c) + 1
    BY <1>2, <1>6 DEF Becomes
  <2>2. InList(c)'
    BY <1>1, <1>2, <1>3, <2>1 DEF AsHolder, InList
  <2>3. Activating(c)'
    <3>1. \A i \in Positions : ChildAt(i)' = IF i < at(c) + 1 THEN "active" ELSE "not_active"
      BY <1>3, <1>4, <1>5 DEF Positions
    <3> QED
      BY <1>1, <1>3, <1>4, <1>5, <2>1, <3>1 DEF Activating
  <2>4. Stopping(c)' /\ Joining(c)' /\ StateOf(c)'
    BY <2>1 DEF Stopping, Joining, StateOf
  <2> QED
    BY <2>2, <2>3, <2>4 DEF AsHolder
<1> QED
  BY <1>1, <1>2, <1>3, <1>4, <1>5, <1>6, <1>7, HolderKeeps DEF TypeOK

\* The child that fails is the only one that may: those before it will stop.
LEMMA ActivateFailsKeeps ==
  ASSUME IInv, Assumed, NEW c \in Callers, ActivateFails(c)
  PROVE  IInv'
<1> DEFINE before == SubSeq(list(c), 1, at(c) - 1)
<1>1. /\ pc(c) = "activating" /\ at(c) <= Len(list(c)) /\ state_' = "deactivating"
      /\ child[Here(c)] # "not_active" \/ Here(c) \in MayFailToStart
      /\ GoThrough(c, "stopping", before, at(c) - 1)
      /\ UNCHANGED <<locked, child_objects_, child, stop_failed, fixed>>
  BY DEF ActivateFails, At, pc, at, list, RollbackFrom
<1>2. Holding(c) /\ Op(c) = "activate"
  BY <1>1 DEF Holding, IInv, PlaceInv
<1>3. /\ TypeOK /\ c \in locked /\ AsHolder(c) /\ at(c) \in Nat /\ Len(child_objects_) \in Nat
      /\ list(c) \in Seq(Children) /\ ~errors(c) /\ errors(c) \in BOOLEAN
  BY <1>2, HolderFacts
<1>4. /\ Len(list(c)) = Len(child_objects_) /\ at(c) \in 1 .. Len(child_objects_)
      /\ \A i \in Positions : ChildAt(i) = IF i < at(c) THEN "active" ELSE "not_active"
      /\ \A i \in 1 .. Len(list(c)) : list(c)[i] = child_objects_[i]
  BY <1>1, <1>2, <1>3 DEF AsHolder, Activating, InList
<1>5. /\ before \in Seq(Children) /\ Len(before) = at(c) - 1 /\ at(c) - 1 \in Nat
      /\ \A i \in 1 .. at(c) - 1 : before[i] = child_objects_[i]
  <2>1. at(c) - 1 \in 0 .. Len(list(c))
    BY <1>3, <1>4
  <2>2. /\ before \in Seq(Children) /\ Len(before) = at(c) - 1
        /\ \A i \in 1 .. at(c) - 1 : before[i] = list(c)[i]
    BY <1>3, <2>1, SubSeqProperties
  <2> QED
    BY <1>3, <1>4, <2>1, <2>2
<1> HIDE DEF before
<1>6. Becomes(c, Op(c), "stopping", before, at(c) - 1, errors(c))
  BY <1>1, <1>3, <1>5, GoThroughBecomes DEF Places
<1>7. AsHolder(c)'
  <2>1. /\ Op(c)' = "activate" /\ pc(c)' = "stopping" /\ list(c)' = before
        /\ at(c)' = at(c) - 1 /\ errors(c)' = errors(c)
    BY <1>2, <1>6 DEF Becomes
  <2>2. /\ Positions' = Positions /\ \A i \in Positions : ChildAt(i)' = ChildAt(i)
    BY <1>1 DEF Positions, ChildAt
  <2>3. InList(c)'
    BY <1>1, <1>3, <1>4, <1>5, <2>1 DEF InList
  <2>4. \A i \in Positions : i > at(c) - 1 => ChildAt(i)' = "not_active"
    BY <1>3, <1>4, <2>2 DEF Positions
  <2>5. Stopping(c)' /\ Activating(c)' /\ Joining(c)'
    BY <1>1, <1>3, <1>5, <2>1, <2>2, <2>4 DEF Stopping, Activating, Joining
  <2>6. \A i \in 1 .. at(c) - 1 : before[i] \notin MayFailToStop
    <3>1. ChildAt(at(c)) = "not_active" /\ ChildAt(at(c)) = child[Here(c)]
      BY <1>1, <1>2, <1>4, HereFacts DEF Positions
    <3>2. Here(c) \in MayFailToStart
      BY <1>1, <3>1
    <3>3. \A i \in 1 .. at(c) - 1 : i \in Positions /\ i # at(c)
      BY <1>3, <1>4 DEF Positions
    <3>4. \A i \in 1 .. at(c) - 1 : child_objects_[i] # Here(c)
      BY <1>1, <1>2, <1>4, <3>3, HereFacts
    <3> QED
      BY <1>5, <3>2, <3>4 DEF Assumed
  <2>7. StateOf(c)'
    BY <1>1, <1>5, <2>1, <2>2, <2>4, <2>6 DEF StateOf
  <2> QED
    BY <2>3, <2>5, <2>7 DEF AsHolder
<1> QED
  BY <1>1, <1>2, <1>3, <1>6, <1>7, HolderKeeps DEF TypeOK, ChildStates


\* What the stopping of the children has in common.
LEMMA StopFacts ==
  ASSUME IInv, NEW c \in Callers, pc(c) \in {"stopping", "stop_wait"}
  PROVE  /\ Holding(c) /\ Op(c) \in {"activate", "deactivate", "clear"} /\ Op(c) # "add"
         /\ at(c) <= Len(list(c)) /\ InList(c) /\ Stopping(c) /\ StateOf(c)
         /\ TypeOK /\ c \in locked /\ at(c) \in Nat /\ Len(child_objects_) \in Nat
         /\ list(c) \in Seq(Children) /\ errors(c) \in BOOLEAN /\ Len(list(c)) \in Nat
         /\ Op(c) = "activate" => ~errors(c)
<1>1. Holding(c) /\ Op(c) # "add"
  BY DEF Holding, IInv, PlaceInv
<1> QED
  BY <1>1, HolderFacts DEF AsHolder, Stopping

\* The holder's facts survive when no child begins to work and its state stays.
LEMMA StateOfKept ==
  ASSUME NEW c, StateOf(c), Op(c) # "add", Op(c)' = Op(c), pc(c) # "activating",
         list(c)' = list(c), UNCHANGED state_, Members' = Members, Positions' = Positions,
         \A k \in Members : child[k] # "active" => child'[k] # "active",
         \A i \in Positions : ChildAt(i) = "not_active" => ChildAt(i)' = "not_active"
  PROVE  StateOf(c)'
BY DEF StateOf

LEMMA StopChildKeeps == ASSUME IInv, NEW c \in Callers, StopChild(c) PROVE IInv'
<1>1. /\ pc(c) = "stopping" /\ at(c) > 0
      /\ IF child[Here(c)] = "active" THEN SetChild(Here(c), "deactivating") ELSE UNCHANGED child
      /\ IF fixed.synchronous THEN Goto(c, "stop_wait") ELSE Advance(c, -1)
      /\ UNCHANGED <<state_, locked, child_objects_, stop_failed, fixed>>
  BY DEF StopChild, At, pc, at
<1>2. /\ Holding(c) /\ Op(c) \in {"activate", "deactivate", "clear"} /\ Op(c) # "add"
      /\ at(c) <= Len(list(c)) /\ InList(c) /\ Stopping(c) /\ StateOf(c)
      /\ TypeOK /\ c \in locked /\ at(c) \in Nat /\ Len(child_objects_) \in Nat
      /\ list(c) \in Seq(Children) /\ errors(c) \in BOOLEAN /\ Len(list(c)) \in Nat
      /\ Op(c) = "activate" => ~errors(c)
  BY <1>1, StopFacts
<1> PICK n \in Positions : n = at(c)
  BY <1>1, <1>2, HereFacts
<1>3. ChildAt(n) = child[Here(c)] /\ child_objects_[n] = Here(c)
  BY <1>1, <1>2, HereFacts
<1>4. /\ child' \in [Children -> ChildStates] /\ Members' = Members /\ Positions' = Positions
      /\ \A k \in Children \ Members : child'[k] = child[k]
      /\ \A k \in Members : child[k] # "active" => child'[k] = child[k]
      /\ \A i \in Positions : i # n => ChildAt(i)' = ChildAt(i)
      /\ ChildAt(n)' # "active" /\ (ChildAt(n) # "active" => ChildAt(n)' = ChildAt(n))
  <2>1. CASE child[Here(c)] = "active"
    <3>1. SetChild(Here(c), "deactivating") /\ "deactivating" \in ChildStates
      BY <1>1, <2>1 DEF ChildStates
    <3>2. /\ child' \in [Children -> ChildStates] /\ Members' = Members /\ Positions' = Positions
          /\ \A k \in Children \ Members : child'[k] = child[k]
          /\ \A i \in Positions : ChildAt(i)' = IF i = n THEN "deactivating" ELSE ChildAt(i)
      BY <1>1, <1>2, <3>1, ChildSet
    <3>3. \A k \in Members : child[k] # "active" => child'[k] = child[k]
      BY <1>2, <2>1, <3>1, MembersAt DEF SetChild, TypeOK
    <3> QED
      BY <1>3, <2>1, <3>2, <3>3
  <2>2. CASE child[Here(c)] # "active"
    <3>1. /\ UNCHANGED child /\ child \in [Children -> ChildStates]
          /\ Members' = Members /\ Positions' = Positions
          /\ \A i \in Positions : ChildAt(i)' = ChildAt(i)
      BY <1>1, <1>2, <2>2 DEF TypeOK, ChildStates, Members, Positions, ChildAt
    <3> QED
      BY <1>3, <2>2, <3>1
  <2> QED
    BY <2>1, <2>2
<1>5. \/ fixed.synchronous /\ Becomes(c, Op(c), "stop_wait", list(c), at(c), errors(c))
      \/ ~fixed.synchronous /\ Becomes(c, Op(c), "stopping", list(c), at(c) - 1, errors(c))
  <2>1. CASE fixed.synchronous
    BY <1>1, <1>2, <2>1, GotoBecomes DEF Places
  <2>2. CASE ~fixed.synchronous
    <3>1. Advance(c, -1) /\ at(c) + (-1) \in Nat /\ at(c) + (-1) = at(c) - 1
      BY <1>1, <1>2, <2>2
    <3>2. Becomes(c, Op(c), pc(c), list(c), at(c) + (-1), errors(c))
      BY <1>2, <3>1, AdvanceBecomes
    <3> QED
      BY <1>1, <2>2, <3>1, <3>2
  <2> QED
    BY <2>1, <2>2
<1>6. AsHolder(c)'
  <2>1. /\ Op(c)' = Op(c) /\ list(c)' = list(c) /\ errors(c)' = errors(c)
        /\ \/ fixed.synchronous /\ pc(c)' = "stop_wait" /\ at(c)' = n
           \/ ~fixed.synchronous /\ pc(c)' = "stopping" /\ at(c)' = n - 1
    BY <1>5 DEF Becomes
  <2>2. InList(c)'
    BY <1>1, <1>2, <2>1 DEF InList
  <2>3. StateOf(c)'
    BY <1>1, <1>2, <1>4, <2>1, StateOfKept
  <2>4. ~errors(c) => \A i \in Positions : i > at(c)' =>
           ChildAt(i)' # "active" /\ (fixed.synchronous => ChildAt(i)' = "not_active")
    BY <1>1, <1>2, <1>4, <2>1 DEF Stopping, Positions
  <2>5. fixed.synchronous => child'[child_objects_'[at(c)']] # "active"
    BY <1>4, <2>1 DEF ChildAt
  <2>6. at(c)' <= Len(list(c)') /\ (errors(c)' => stop_failed')
    BY <1>1, <1>2, <2>1 DEF Stopping, Positions
  <2>7. Stopping(c)'
    BY <1>1, <1>4, <2>1, <2>4, <2>5, <2>6 DEF Stopping, ChildAt
  <2>8. Activating(c)' /\ Joining(c)'
    BY <2>1 DEF Activating, Joining
  <2> QED
    BY <2>2, <2>3, <2>7, <2>8 DEF AsHolder
<1> QED
  BY <1>1, <1>2, <1>4, <1>5, <1>6, HolderKeeps DEF TypeOK

LEMMA StopChildFailsKeeps == ASSUME IInv, NEW c \in Callers, StopChildFails(c) PROVE IInv'
<1>1. /\ pc(c) = "stopping" /\ at(c) > 0 /\ Here(c) \in MayFailToStop
      /\ child[Here(c)] = "active" /\ stop_failed' = TRUE
      /\ caller' = [caller EXCEPT ![c].errors = TRUE, ![c].at = at(c) - 1]
      /\ UNCHANGED <<state_, locked, child_objects_, child, fixed>>
  BY DEF StopChildFails, At, pc, at
<1>2. /\ Holding(c) /\ Op(c) \in {"activate", "deactivate", "clear"} /\ Op(c) # "add"
      /\ at(c) <= Len(list(c)) /\ InList(c) /\ Stopping(c) /\ StateOf(c)
      /\ TypeOK /\ c \in locked /\ at(c) \in Nat /\ Len(child_objects_) \in Nat
      /\ list(c) \in Seq(Children) /\ errors(c) \in BOOLEAN /\ Len(list(c)) \in Nat
  BY <1>1, StopFacts
\* A rollback never comes to a child that may fail to stop.
<1>3. Op(c) # "activate"
  BY <1>1, <1>2, HereFacts DEF StateOf
<1>4. Becomes(c, Op(c), "stopping", list(c), at(c) - 1, TRUE)
  <2>1. at(c) - 1 \in Nat
    BY <1>1, <1>2
  <2> QED
    BY <1>1, <1>2, <2>1, CallerFields DEF Becomes, Op, pc, list, at, errors, CallerType
<1>5. Members' = Members /\ Positions' = Positions /\ \A i \in Positions : ChildAt(i)' = ChildAt(i)
  BY <1>1 DEF Members, Positions, ChildAt
<1>6. AsHolder(c)'
  <2>1. /\ Op(c)' = Op(c) /\ list(c)' = list(c) /\ errors(c)' = TRUE /\ pc(c)' = "stopping"
        /\ at(c)' = at(c) - 1
    BY <1>4 DEF Becomes
  <2>2. InList(c)'
    BY <1>1, <1>2, <2>1 DEF InList
  <2>3. StateOf(c)'
    BY <1>1, <1>2, <1>5, <2>1, StateOfKept
  <2>4. at(c)' <= Len(list(c)')
    BY <1>1, <1>2, <2>1
  <2>5. Stopping(c)' /\ Activating(c)' /\ Joining(c)'
    BY <1>1, <2>1, <2>4 DEF Stopping, Activating, Joining
  <2> QED
    BY <2>2, <2>3, <2>5 DEF AsHolder
<1> QED
  BY <1>1, <1>2, <1>3, <1>4, <1>5, <1>6, HolderKeeps DEF TypeOK, ChildStates

LEMMA StopWaitKeeps == ASSUME IInv, NEW c \in Callers, StopWait(c) PROVE IInv'
<1>1. /\ pc(c) = "stop_wait" /\ SetChild(Here(c), "not_active")
      /\ caller' = [caller EXCEPT ![c].pc = "stopping", ![c].at = at(c) - 1]
      /\ UNCHANGED <<state_, locked, child_objects_, stop_failed, fixed>>
  BY DEF StopWait, At, pc, at
<1>2. /\ Holding(c) /\ Op(c) \in {"activate", "deactivate", "clear"} /\ Op(c) # "add"
      /\ at(c) <= Len(list(c)) /\ InList(c) /\ Stopping(c) /\ StateOf(c)
      /\ TypeOK /\ c \in locked /\ at(c) \in Nat /\ Len(child_objects_) \in Nat
      /\ list(c) \in Seq(Children) /\ errors(c) \in BOOLEAN /\ Len(list(c)) \in Nat
      /\ Op(c) = "activate" => ~errors(c)
  BY <1>1, StopFacts
<1>3. at(c) > 0 /\ "not_active" \in ChildStates
  BY <1>1, <1>2 DEF Stopping, ChildStates
<1> PICK n \in Positions : n = at(c)
  BY <1>2, <1>3, HereFacts
<1>4. /\ child' \in [Children -> ChildStates] /\ Members' = Members /\ Positions' = Positions
      /\ \A k \in Children \ Members : child'[k] = child[k]
      /\ \A k \in Members : child'[k] \in {child[k], "not_active"}
      /\ \A i \in Positions : ChildAt(i)' = IF i = n THEN "not_active" ELSE ChildAt(i)
  BY <1>1, <1>2, <1>3, ChildSet
<1>5. Becomes(c, Op(c), "stopping", list(c), at(c) - 1, errors(c))
  <2>1. at(c) - 1 \in Nat
    BY <1>2, <1>3
  <2> QED
    BY <1>1, <1>2, <2>1, CallerFields DEF Becomes, Op, pc, list, at, errors, CallerType, Places
<1>6. AsHolder(c)'
  <2>1. /\ Op(c)' = Op(c) /\ list(c)' = list(c) /\ errors(c)' = errors(c)
        /\ pc(c)' = "stopping" /\ at(c)' = n - 1
    BY <1>5 DEF Becomes
  <2>2. InList(c)'
    BY <1>1, <1>2, <2>1 DEF InList
  <2>3. StateOf(c)'
    <3>1. \A k \in Members : child[k] # "active" => child'[k] # "active"
      BY <1>4
    <3>2. \A i \in Positions : ChildAt(i) = "not_active" => ChildAt(i)' = "not_active"
      BY <1>4
    <3> QED
      BY <1>1, <1>2, <1>4, <2>1, <3>1, <3>2, StateOfKept
  <2>4. ~errors(c) => \A i \in Positions : i > n - 1 =>
           ChildAt(i)' # "active" /\ (fixed.synchronous => ChildAt(i)' = "not_active")
    BY <1>1, <1>2, <1>4 DEF Stopping, Positions
  <2>5. at(c)' <= Len(list(c)') /\ (errors(c)' => stop_failed')
    BY <1>1, <1>2, <2>1 DEF Stopping, Positions
  <2>6. Stopping(c)' /\ Activating(c)' /\ Joining(c)'
    BY <1>1, <1>4, <2>1, <2>4, <2>5 DEF Stopping, Activating, Joining
  <2> QED
    BY <2>2, <2>3, <2>6 DEF AsHolder
<1> QED
  BY <1>1, <1>2, <1>4, <1>5, <1>6, HolderKeeps DEF TypeOK


LEMMA ToJoinKeeps == ASSUME IInv, NEW c \in Callers, ToJoin(c) PROVE IInv'
<1>1. /\ pc(c) = "stopping" /\ at(c) = 0 /\ Op(c) # "deactivate" /\ ~errors(c)
      /\ GoThrough(c, "joining", list(c), Len(list(c)))
      /\ UNCHANGED <<state_, locked, child_objects_, child, stop_failed, fixed>>
  BY DEF ToJoin, AllStopped, At, pc, at, list, errors
<1>2. /\ Holding(c) /\ Op(c) \in {"activate", "deactivate", "clear"} /\ Op(c) # "add"
      /\ at(c) <= Len(list(c)) /\ InList(c) /\ Stopping(c) /\ StateOf(c)
      /\ TypeOK /\ c \in locked /\ at(c) \in Nat /\ Len(child_objects_) \in Nat
      /\ list(c) \in Seq(Children) /\ errors(c) \in BOOLEAN /\ Len(list(c)) \in Nat
  BY <1>1, StopFacts
<1>3. Becomes(c, Op(c), "joining", list(c), Len(list(c)), errors(c))
  BY <1>1, <1>2, GoThroughBecomes DEF Places
<1>4. Members' = Members /\ Positions' = Positions /\ \A i \in Positions : ChildAt(i)' = ChildAt(i)
  BY <1>1 DEF Members, Positions, ChildAt
<1>5. AsHolder(c)'
  <2>1. /\ Op(c)' = Op(c) /\ list(c)' = list(c) /\ errors(c)' = errors(c) /\ pc(c)' = "joining"
        /\ at(c)' = Len(list(c))
    BY <1>3 DEF Becomes
  <2>2. InList(c)'
    BY <1>1, <1>2, <2>1 DEF InList
  <2>3. StateOf(c)'
    BY <1>1, <1>2, <1>4, <2>1, StateOfKept
  <2>4. \A i \in Positions : i > Len(list(c)) => ChildAt(i) = "not_active"
    <3>1. CASE Op(c) = "activate"
      BY <1>1, <1>2, <3>1 DEF StateOf
    <3>2. CASE Op(c) = "clear"
      BY <1>2, <3>2 DEF InList, Positions
    <3> QED
      BY <1>1, <1>2, <3>1, <3>2
  <2>5. Joining(c)' /\ Activating(c)' /\ Stopping(c)'
    BY <1>2, <1>4, <2>1, <2>4 DEF Joining, Activating, Stopping
  <2> QED
    BY <2>2, <2>3, <2>5 DEF AsHolder
<1>6. /\ state_' \in {"active", "deactivating", "not_active"} /\ stop_failed' \in BOOLEAN
      /\ child' \in [Children -> ChildStates]
  BY <1>1, <1>2 DEF TypeOK, ChildStates
<1> QED
  BY <1>1, <1>2, <1>3, <1>4, <1>5, <1>6, HolderKeeps

LEMMA HolderJoinKeeps ==
  ASSUME IInv, NEW c \in Callers, Join(c), Op(c) \in {"activate", "clear"}
  PROVE  IInv'
<1>1. /\ pc(c) = "joining" /\ at(c) > 0 /\ SetChild(Here(c), "not_active") /\ Advance(c, -1)
      /\ UNCHANGED <<state_, locked, child_objects_, stop_failed, fixed>>
  BY DEF Join, At, pc, at
<1>2. Holding(c) /\ Op(c) # "add" /\ Op(c) # "deactivate"
  BY <1>1 DEF Holding
<1>3. /\ TypeOK /\ c \in locked /\ AsHolder(c) /\ at(c) \in Nat /\ Len(child_objects_) \in Nat
      /\ list(c) \in Seq(Children) /\ errors(c) \in BOOLEAN /\ Len(list(c)) \in Nat
      /\ Op(c) = "activate" => ~errors(c)
  BY <1>2, HolderFacts
<1>4. InList(c) /\ Joining(c) /\ StateOf(c) /\ at(c) <= Len(list(c)) /\ "not_active" \in ChildStates
  BY <1>1, <1>2, <1>3 DEF AsHolder, Joining, ChildStates
<1> PICK n \in Positions : n = at(c)
  BY <1>1, <1>2, <1>4, HereFacts
<1>5. /\ child' \in [Children -> ChildStates] /\ Members' = Members /\ Positions' = Positions
      /\ \A k \in Children \ Members : child'[k] = child[k]
      /\ \A k \in Members : child'[k] \in {child[k], "not_active"}
      /\ \A i \in Positions : ChildAt(i)' = IF i = n THEN "not_active" ELSE ChildAt(i)
  BY <1>1, <1>2, <1>4, ChildSet
<1>6. Becomes(c, Op(c), "joining", list(c), at(c) - 1, errors(c))
  <2>1. at(c) + (-1) \in Nat /\ at(c) + (-1) = at(c) - 1
    BY <1>1, <1>3
  <2>2. Becomes(c, Op(c), pc(c), list(c), at(c) + (-1), errors(c))
    BY <1>1, <1>3, <2>1, AdvanceBecomes
  <2> QED
    BY <1>1, <2>1, <2>2
<1>7. AsHolder(c)'
  <2>1. /\ Op(c)' = Op(c) /\ list(c)' = list(c) /\ errors(c)' = errors(c) /\ pc(c)' = "joining"
        /\ at(c)' = n - 1
    BY <1>6 DEF Becomes
  <2>2. InList(c)'
    BY <1>1, <1>4, <2>1 DEF InList
  <2>3. StateOf(c)'
    <3>1. \A k \in Members : child[k] # "active" => child'[k] # "active"
      BY <1>5
    <3>2. \A i \in Positions : ChildAt(i) = "not_active" => ChildAt(i)' = "not_active"
      BY <1>5
    <3> QED
      BY <1>1, <1>2, <1>4, <1>5, <2>1, <3>1, <3>2, StateOfKept
  <2>4. \A i \in Positions : i > n - 1 => ChildAt(i)' = "not_active"
    BY <1>1, <1>2, <1>4, <1>5 DEF Joining, Positions
  <2>5. n - 1 <= Len(list(c))
    BY <1>3, <1>4
  <2>6. Joining(c)' /\ Activating(c)' /\ Stopping(c)'
    BY <1>5, <2>1, <2>4, <2>5 DEF Joining, Activating, Stopping
  <2> QED
    BY <2>2, <2>3, <2>6 DEF AsHolder
<1> QED
  BY <1>1, <1>2, <1>3, <1>5, <1>6, <1>7, HolderKeeps DEF TypeOK

\* Steps in which work ends or a child that ended is waited for, by callers that are
\* not in an operation on the members.
Progress(d) ==
  \/ at(d)' = at(d)
  \/ /\ Op(d) \in {"wait", "add"} /\ pc(d) = "joining" /\ at(d) > 0 /\ at(d)' = at(d) - 1
     /\ child'[list(d)[at(d)]] = "not_active"

LEMMA EndingKeeps ==
  ASSUME IInv, UNCHANGED <<state_, locked, child_objects_, stop_failed, fixed>>,
         child' \in [Children -> ChildStates],
         \A k \in Children :
           \/ child'[k] = child[k]
           \/ child[k] \in {"deactivating", "ended"} /\ child'[k] \in {"ended", "not_active"},
         caller' \in [Callers -> CallerType],
         \A d \in Callers :
           /\ Op(d)' = Op(d) /\ pc(d)' = pc(d) /\ list(d)' = list(d) /\ errors(d)' = errors(d)
           /\ Progress(d)
  PROVE  IInv'
<1>1. /\ TypeOK /\ locked \subseteq Callers /\ Members \subseteq Children
      /\ \A i \in Positions : child_objects_[i] \in Members
  BY MembersAt DEF IInv, TypeOK
<1>2. TypeOK'
  BY <1>1 DEF TypeOK, CallerType, Ops, Places, ChildStates
<1>3. NoTwice' /\ Members' = Members /\ Positions' = Positions
  BY DEF IInv, NoTwice, Positions, Members
<1>4. \A k \in Children :
        /\ child[k] \in {"active", "not_active"} => child'[k] = child[k]
        /\ child[k] # "active" => child'[k] # "active"
  OBVIOUS
<1>5. \A i \in Positions :
        /\ ChildAt(i) \in {"active", "not_active"} => ChildAt(i)' = ChildAt(i)
        /\ ChildAt(i) # "active" => ChildAt(i)' # "active"
  BY <1>1, <1>4 DEF ChildAt
<1>6. PlaceInv' /\ LockInv' /\ WaitApart'
  BY DEF IInv, PlaceInv, LockInv, WaitApart, Holding
<1>7. WaiterInv'
  <2> SUFFICES ASSUME NEW d \in Callers, Op(d) = "wait", pc(d) \in {"copy", "joining"}
               PROVE  /\ state_' # "active" /\ \A e \in locked' : Op(e)' = "add"
                      /\ pc(d)' = "joining" =>
                           /\ at(d)' <= Len(list(d)')
                           /\ \A k \in Members' : \/ child'[k] = "not_active"
                                                  \/ \E i \in 1 .. at(d)' : list(d)'[i] = k
    BY DEF WaiterInv
  <2>1. /\ state_ # "active" /\ \A e \in locked : Op(e) = "add"
        /\ pc(d) = "joining" =>
             /\ at(d) <= Len(list(d))
             /\ \A k \in Members : \/ child[k] = "not_active"
                                   \/ \E i \in 1 .. at(d) : list(d)[i] = k
    BY DEF IInv, WaiterInv
  <2>2. state_' # "active" /\ \A e \in locked' : Op(e)' = "add"
    BY <1>1, <2>1
  <2>3. ASSUME pc(d) = "joining"
        PROVE  /\ at(d)' <= Len(list(d)')
               /\ \A k \in Members' : \/ child'[k] = "not_active"
                                      \/ \E i \in 1 .. at(d)' : list(d)'[i] = k
    <3>1. at(d) \in Nat /\ list(d) \in Seq(Children) /\ Len(list(d)) \in Nat /\ Progress(d)
      BY <1>1, CallerFields
    <3>2. at(d)' <= Len(list(d))
      BY <2>1, <2>3, <3>1 DEF Progress
    <3>3. ASSUME NEW k \in Members
          PROVE  \/ child'[k] = "not_active"
                 \/ \E i \in 1 .. at(d)' : list(d)[i] = k
      <4>1. CASE child[k] = "not_active"
        BY <1>1, <1>4, <4>1
      <4>2. ASSUME NEW i \in 1 .. at(d), list(d)[i] = k
            PROVE  child'[k] = "not_active" \/ \E j \in 1 .. at(d)' : list(d)[j] = k
        <5>1. at(d)' = at(d) \/ (at(d)' = at(d) - 1 /\ child'[list(d)[at(d)]] = "not_active")
          BY <3>1 DEF Progress
        <5> QED
          BY <3>1, <4>2, <5>1
      <4> QED
        BY <2>1, <2>3, <4>1, <4>2
    <3> QED
      BY <1>3, <3>2, <3>3
  <2> QED
    BY <2>2, <2>3
<1>8. Newcomers'
  BY <1>1, <1>3, <1>4 DEF IInv, Newcomers
<1>9. AsState'
  BY <1>1, <1>3, <1>4 DEF IInv, AsState
<1>10. HolderInv'
  <2> SUFFICES ASSUME NEW d \in locked
               PROVE  (InList(d) /\ Activating(d) /\ Stopping(d) /\ Joining(d) /\ StateOf(d))'
    BY DEF HolderInv
  <2>1. /\ InList(d) /\ Activating(d) /\ Stopping(d) /\ Joining(d) /\ StateOf(d)
        /\ d \in Callers /\ TypeOK /\ Progress(d) /\ Holding(d)
    BY <1>1, OneHolder DEF IInv, HolderInv
  <2>2. /\ Op(d)' = Op(d) /\ pc(d)' = pc(d) /\ list(d)' = list(d) /\ errors(d)' = errors(d)
        /\ Op(d) # "add" => at(d)' = at(d)
    BY <2>1 DEF Progress, Holding
  <2>3. InList(d)' /\ Joining(d)' /\ Activating(d)'
    BY <1>3, <1>5, <2>1, <2>2 DEF InList, Joining, Activating, IInv, PlaceInv
  <2>4. Stopping(d)'
    <3>1. SUFFICES ASSUME pc(d) \in {"stopping", "stop_wait"}
                   PROVE  Stopping(d)'
      BY <2>2 DEF Stopping
    <3>2. at(d)' = at(d) /\ Op(d) # "add" /\ InList(d) /\ at(d) \in Nat
      BY <2>1, <2>2, <3>1, StopFacts
    <3>3. pc(d) = "stop_wait" => at(d) \in Positions
      BY <2>1, <3>2, HereFacts DEF Stopping
    <3>4. pc(d) = "stop_wait" => child'[child_objects_'[at(d)']] # "active"
      BY <1>1, <1>4, <2>1, <3>2, <3>3 DEF Stopping, ChildAt
    <3> QED
      BY <1>3, <1>5, <2>1, <2>2, <3>2, <3>4 DEF Stopping, ChildAt
  <2>5. StateOf(d)'
    <3>1. CASE Op(d) = "add"
      <4>1. /\ state_' # "active" /\ Len(list(d)') = 1 /\ list(d)'[1] \notin Members'
            /\ at(d) <= 1 /\ (at(d) = 0 => child[list(d)[1]] = "not_active")
        BY <1>3, <2>1, <2>2, <3>1 DEF StateOf
      <4>2. at(d) \in Nat /\ list(d)[1] \in Children
        <5>1. at(d) \in Nat /\ list(d) \in Seq(Children)
          BY <1>1, <2>1, CallerFields
        <5>2. Len(list(d)) = 1
          BY <2>1, <3>1 DEF StateOf
        <5>3. 1 \in 1 .. Len(list(d))
          BY <5>2
        <5> QED
          BY <5>1, <5>3, ElementOfSeq
      <4>3. at(d)' <= 1 /\ (at(d)' = 0 => child'[list(d)[1]] = "not_active")
        BY <1>4, <2>1, <4>1, <4>2 DEF Progress
      <4> QED
        BY <2>2, <3>1, <4>1, <4>3 DEF StateOf
    <3>2. CASE Op(d) # "add"
      BY <1>1, <1>3, <1>4, <1>5, <2>1, <2>2, <3>2 DEF StateOf
    <3> QED
      BY <3>1, <3>2
  <2> QED
    BY <2>3, <2>4, <2>5
<1> QED
  BY <1>2, <1>3, <1>6, <1>7, <1>8, <1>9, <1>10 DEF IInv


LEMMA WorkEndsKeeps == ASSUME IInv, NEW k \in Children, WorkEnds(k) PROVE IInv'
<1>1. /\ TypeOK /\ child[k] = "deactivating" /\ child' = [child EXCEPT ![k] = "ended"]
      /\ UNCHANGED <<state_, locked, child_objects_, caller, stop_failed, fixed>>
  BY DEF WorkEnds, SetChild, IInv
<1>2. /\ child' \in [Children -> ChildStates]
      /\ \A j \in Children :
           \/ child'[j] = child[j]
           \/ child[j] \in {"deactivating", "ended"} /\ child'[j] \in {"ended", "not_active"}
  BY <1>1 DEF TypeOK, ChildStates
<1>3. /\ caller' \in [Callers -> CallerType]
      /\ \A d \in Callers :
           /\ Op(d)' = Op(d) /\ pc(d)' = pc(d) /\ list(d)' = list(d) /\ errors(d)' = errors(d)
           /\ Progress(d)
  BY <1>1, CallerFields DEF Progress, Op, pc, list, at, errors, TypeOK, CallerType, Ops, Places
<1> QED
  BY <1>1, <1>2, <1>3, EndingKeeps

LEMMA JoinKeeps == ASSUME IInv, NEW c \in Callers, Join(c) PROVE IInv'
<1>1. /\ TypeOK /\ pc(c) = "joining" /\ at(c) > 0 /\ ChildEnded(Here(c))
      /\ child' = [child EXCEPT ![Here(c)] = "not_active"] /\ Advance(c, -1)
      /\ UNCHANGED <<state_, locked, child_objects_, stop_failed, fixed>>
  BY DEF Join, At, pc, at, IInv, SetChild
<1>2. Op(c) \in {"activate", "clear", "wait", "add"}
  BY <1>1, CallerFields DEF IInv, PlaceInv, Ops
<1>3. CASE Op(c) \in {"activate", "clear"}
  BY <1>3, HolderJoinKeeps
<1>4. CASE Op(c) \in {"wait", "add"}
  <2>1. at(c) \in Nat /\ list(c) \in Seq(Children) /\ Len(list(c)) \in Nat /\ Here(c) = list(c)[at(c)]
    BY <1>1, CallerFields DEF Here, list, at
  <2>2. at(c) <= Len(list(c))
    <3>1. CASE Op(c) = "wait"
      BY <1>1, <3>1 DEF IInv, WaiterInv
    <3>2. CASE Op(c) = "add"
      <4>1. Holding(c)
        BY <1>1, <3>2 DEF Holding
      <4> QED
        BY <3>2, <4>1, HolderFacts DEF AsHolder, StateOf
    <3> QED
      BY <1>4, <3>1, <3>2
  <2>3. Here(c) \in Children
    BY <1>1, <2>1, <2>2
  <2>4. /\ child' \in [Children -> ChildStates] /\ child'[Here(c)] = "not_active"
        /\ \A j \in Children :
             \/ child'[j] = child[j]
             \/ child[j] \in {"deactivating", "ended"} /\ child'[j] \in {"ended", "not_active"}
    BY <1>1, <2>3 DEF TypeOK, ChildStates, ChildEnded, Working
  <2>5. Becomes(c, Op(c), pc(c), list(c), at(c) + (-1), errors(c))
    BY <1>1, <2>1, AdvanceBecomes
  <2>6. /\ caller' \in [Callers -> CallerType]
        /\ \A d \in Callers :
             /\ Op(d)' = Op(d) /\ pc(d)' = pc(d) /\ list(d)' = list(d) /\ errors(d)' = errors(d)
             /\ d # c => at(d)' = at(d)
        /\ at(c)' = at(c) - 1
    BY <2>1, <2>5 DEF Becomes, Op, pc, list, at, errors
  <2>7. \A d \in Callers : Progress(d)
    BY <1>1, <1>4, <2>1, <2>4, <2>6 DEF Progress
  <2>8. UNCHANGED <<state_, locked, child_objects_, stop_failed, fixed>>
    BY <1>1, <2>3
  <2> QED
    BY <2>4, <2>6, <2>7, <2>8, EndingKeeps
<1> QED
  BY <1>2, <1>3, <1>4

-----------------------------------------------------------------------------
\* Who ends an operation on the members knows every one of them, and who is none.
LEMMA ReleaseFacts ==
  ASSUME IInv, NEW c \in Callers, Holding(c), Op(c) # "add"
  PROVE  /\ c \in locked /\ locked = {c} /\ AsHolder(c) /\ TypeOK
         /\ at(c) \in Nat /\ Len(child_objects_) \in Nat /\ Len(list(c)) \in Nat
         /\ \A k \in Members : \E i \in Positions : child[k] = ChildAt(i) /\ i > 0
         /\ \A k \in Children \ Members : child[k] \in {"active", "not_active"}
<1>1. c \in locked /\ locked = {c} /\ AsHolder(c) /\ TypeOK
  BY HolderFacts
<1>2. \A k \in Members : \E i \in Positions : child[k] = ChildAt(i) /\ i > 0
  BY <1>1, MembersAt DEF ChildAt, Positions
<1>3. \A k \in Children \ Members : child[k] \in {"active", "not_active"}
  BY <1>1 DEF IInv, Newcomers
<1> QED
  BY <1>1, <1>2, <1>3, HolderFacts

LEMMA ActivatedKeeps == ASSUME IInv, NEW c \in Callers, Activated(c) PROVE IInv'
<1>1. /\ pc(c) = "activating" /\ at(c) > Len(list(c)) /\ state_' = "active" /\ Unlock /\ Return(c)
      /\ UNCHANGED <<child_objects_, child, stop_failed, fixed>>
  BY DEF Activated, At, pc, at, list
<1>2. Holding(c) /\ Op(c) = "activate"
  BY <1>1 DEF Holding, IInv, PlaceInv
<1>3. /\ c \in locked /\ AsHolder(c) /\ TypeOK
      /\ at(c) \in Nat /\ Len(child_objects_) \in Nat
      /\ \A k \in Members : \E i \in Positions : child[k] = ChildAt(i) /\ i > 0
      /\ \A k \in Children \ Members : child[k] \in {"active", "not_active"}
  BY <1>2, ReleaseFacts
<1>4. \A i \in Positions : ChildAt(i) = "active"
  BY <1>1, <1>3 DEF AsHolder, Activating, Positions
<1>5. Members' = Members /\ NoTwice'
  BY <1>1 DEF Members, IInv, NoTwice, Positions
<1>6. AsState'
  BY <1>1, <1>3, <1>4, <1>5 DEF AsState
<1>7. /\ \A k \in (Children \ Members)' : child'[k] \in {"active", "not_active"}
      /\ stop_failed' \in BOOLEAN /\ child_objects_' \in Seq(Children)
      /\ child' \in [Children -> ChildStates]
  BY <1>1, <1>3, <1>5 DEF TypeOK, ChildStates
<1> QED
  BY <1>1, <1>2, <1>3, <1>5, <1>6, <1>7, ReleaseKeeps

LEMMA StoppedKeeps == ASSUME IInv, NEW c \in Callers, Stopped(c) PROVE IInv'
<1>1. /\ pc(c) = "stopping" /\ at(c) = 0 /\ (Op(c) = "deactivate" \/ errors(c))
      /\ Unlock /\ Return(c) /\ UNCHANGED <<child_objects_, child, stop_failed, fixed>>
  BY DEF Stopped, AllStopped, At, pc, at, errors
<1>2. /\ Holding(c) /\ Op(c) \in {"deactivate", "clear"} /\ Op(c) # "add"
      /\ errors(c) \in BOOLEAN /\ Stopping(c) /\ StateOf(c)
  BY <1>1, StopFacts DEF IInv, PlaceInv
<1>3. /\ c \in locked /\ AsHolder(c) /\ TypeOK
      /\ at(c) \in Nat /\ Len(child_objects_) \in Nat
      /\ \A k \in Members : \E i \in Positions : child[k] = ChildAt(i) /\ i > 0
      /\ \A k \in Children \ Members : child[k] \in {"active", "not_active"}
  BY <1>2, ReleaseFacts
<1>4. state_' = IF Op(c) = "deactivate" /\ errors(c) THEN "active" ELSE state_
  BY <1>2 DEF Stopped, errors
<1>5. Members' = Members /\ NoTwice'
  BY <1>1 DEF Members, IInv, NoTwice, Positions
<1>6. errors(c) => stop_failed
  BY <1>1, <1>2 DEF Stopping
<1>7. ~errors(c) => \A k \in Members : child[k] # "active"
  BY <1>1, <1>2, <1>3 DEF Stopping
<1>8. AsState'
  <2>1. CASE Op(c) = "deactivate"
    BY <1>1, <1>2, <1>4, <1>5, <1>6, <1>7, <2>1 DEF AsState, StateOf
  <2>2. CASE Op(c) = "clear"
    BY <1>1, <1>2, <1>4, <1>5, <1>6, <2>2 DEF AsState, StateOf
  <2> QED
    BY <1>2, <2>1, <2>2
<1>9. /\ \A k \in (Children \ Members)' : child'[k] \in {"active", "not_active"}
      /\ stop_failed' \in BOOLEAN /\ child_objects_' \in Seq(Children)
      /\ child' \in [Children -> ChildStates]
      /\ state_' \in {"active", "deactivating", "not_active"}
  BY <1>1, <1>3, <1>4, <1>5 DEF TypeOK, ChildStates
<1> QED
  BY <1>1, <1>2, <1>3, <1>5, <1>8, <1>9, ReleaseKeeps

LEMMA JoinedKeeps == ASSUME IInv, NEW c \in Callers, Joined(c) PROVE IInv'
<1>1. /\ pc(c) = "joining" /\ at(c) = 0 /\ Op(c) \in {"activate", "clear"}
      /\ state_' = "not_active" /\ Unlock /\ Return(c)
      /\ child_objects_' = IF Op(c) = "clear" THEN <<>> ELSE child_objects_
      /\ UNCHANGED <<child, stop_failed, fixed>>
  BY DEF Joined, At, pc, at
<1>2. Holding(c) /\ Op(c) # "add"
  BY <1>1 DEF Holding
<1>3. /\ c \in locked /\ AsHolder(c) /\ TypeOK
      /\ at(c) \in Nat /\ Len(child_objects_) \in Nat
      /\ \A k \in Members : \E i \in Positions : child[k] = ChildAt(i) /\ i > 0
      /\ \A k \in Children \ Members : child[k] \in {"active", "not_active"}
  BY <1>2, ReleaseFacts
<1>4. \A k \in Members : child[k] = "not_active"
  BY <1>1, <1>2, <1>3 DEF AsHolder, Joining
<1>5. (Members' = Members \/ Members' = {}) /\ NoTwice' /\ child_objects_' \in Seq(Children)
  <2>1. CASE Op(c) = "clear"
    <3>1. child_objects_' = <<>>
      BY <1>1, <2>1
    <3> QED
      BY <3>1 DEF Members, ToSet, NoTwice, Positions
  <2>2. CASE Op(c) # "clear"
    <3>1. child_objects_' = child_objects_
      BY <1>1, <2>2
    <3> QED
      BY <1>3, <3>1 DEF Members, IInv, NoTwice, Positions, TypeOK
  <2> QED
    BY <2>1, <2>2
<1>6. AsState'
  BY <1>1, <1>4, <1>5 DEF AsState
<1>7. /\ \A k \in (Children \ Members)' : child'[k] \in {"active", "not_active"}
      /\ stop_failed' \in BOOLEAN /\ child' \in [Children -> ChildStates]
  BY <1>1, <1>3, <1>4, <1>5 DEF TypeOK, ChildStates
<1> QED
  BY <1>1, <1>2, <1>3, <1>5, <1>6, <1>7, ReleaseKeeps

-----------------------------------------------------------------------------
\* A step after which the lock is free, of whoever had it or of somebody while it was.
LEMMA FreeKeeps ==
  ASSUME IInv, NEW c \in Callers, locked \subseteq {c}, locked' = {},
         NEW o, NEW l, NEW s, NEW i, Becomes(c, o, l, s, i, FALSE),
         \/ o = "none" /\ l = "idle"
         \/ o = "wait" /\ l = "joining" /\ Op(c) = "wait",
         UNCHANGED <<stop_failed, fixed>>,
         state_' \in {"active", "deactivating", "not_active"},
         child_objects_' \in Seq(Children), child' \in [Children -> ChildStates],
         NoTwice', WaiterInv', Newcomers', AsState'
  PROVE  IInv'
<1>1. /\ \A d \in Callers : d # c =>
           /\ Op(d)' = Op(d) /\ pc(d)' = pc(d) /\ list(d)' = list(d) /\ at(d)' = at(d)
           /\ errors(d)' = errors(d)
      /\ Op(c)' = o /\ pc(c)' = l /\ errors(c)' = FALSE
  BY DEF Becomes, Op, pc, list, at, errors
<1>2. TypeOK'
  BY DEF IInv, TypeOK, Becomes, CallerType, Ops, Places, ChildStates
<1>3. PlaceInv'
  BY <1>1 DEF IInv, PlaceInv
<1>4. LockInv'
  <2>1. ~Holding(c)'
    BY <1>1 DEF Holding
  <2>2. \A d \in Callers : d # c => ~Holding(d)
    BY DEF IInv, LockInv
  <2>3. \A d \in Callers : d # c => ~Holding(d)'
    BY <1>1, <2>2 DEF Holding
  <2> QED
    BY <2>1, <2>3 DEF LockInv
<1>5. WaitApart'
  BY ApartKept DEF IInv
<1>6. HolderInv'
  BY DEF HolderInv
<1> QED
  BY <1>2, <1>3, <1>4, <1>5, <1>6 DEF IInv

LEMMA CopyKeeps == ASSUME IInv, NEW c \in Callers, Copy(c) PROVE IInv'
<1>1. /\ TypeOK /\ pc(c) = "copy" /\ locked = {} /\ locked' = {}
      /\ GoThrough(c, "joining", child_objects_, Len(child_objects_))
      /\ UNCHANGED <<state_, locked, child_objects_, child, stop_failed, fixed>>
  BY DEF Copy, At, pc, IInv
<1>2. Op(c) = "wait" /\ errors(c) = FALSE
  BY <1>1, CallerFields DEF IInv, PlaceInv, Ops
<1>3. child_objects_ \in Seq(Children) /\ Len(child_objects_) \in Nat /\ "joining" \in Places
  BY <1>1 DEF TypeOK, Places
<1>4. Becomes(c, "wait", "joining", child_objects_, Len(child_objects_), FALSE)
  <2>1. Becomes(c, Op(c), "joining", child_objects_, Len(child_objects_), errors(c))
    BY <1>1, <1>3, GoThroughBecomes
  <2> QED
    BY <1>2, <2>1
<1>5. NoTwice' /\ Members' = Members
  BY <1>1 DEF IInv, NoTwice, Positions, Members
<1>6. WaiterInv'
  <2>1. /\ \A d \in Callers : d # c =>
             /\ Op(d)' = Op(d) /\ pc(d)' = pc(d) /\ list(d)' = list(d) /\ at(d)' = at(d)
        /\ list(c)' = child_objects_ /\ at(c)' = Len(child_objects_)
    BY <1>4 DEF Becomes, Op, pc, list, at
  <2>2. state_' # "active"
    BY <1>1, <1>2 DEF IInv, WaiterInv
  <2>3. \A k \in Members' : \E i \in 1 .. at(c)' : list(c)'[i] = k
    BY <1>1, <1>5, <2>1, MembersAt DEF Positions
  <2>4. \A d \in Callers : d # c /\ Op(d)' = "wait" /\ pc(d)' = "joining" =>
          /\ at(d)' <= Len(list(d)')
          /\ \A k \in Members' : child'[k] = "not_active" \/ \E i \in 1 .. at(d)' : list(d)'[i] = k
    BY <1>1, <1>5, <2>1 DEF IInv, WaiterInv
  <2> QED
    BY <1>1, <1>3, <2>1, <2>2, <2>3, <2>4 DEF WaiterInv
<1>7. Newcomers' /\ AsState'
  BY <1>1, <1>5 DEF IInv, Newcomers, AsState
<1> QED
  BY <1>1, <1>2, <1>3, <1>4, <1>5, <1>6, <1>7, FreeKeeps DEF TypeOK, ChildStates

LEMMA LeaveKeeps == ASSUME IInv, NEW c \in Callers, Leave(c) PROVE IInv'
<1>1. /\ TypeOK /\ pc(c) = "joining" /\ at(c) = 0 /\ Op(c) = "wait" /\ locked = {} /\ locked' = {}
      /\ state_' = IF state_ = "deactivating" THEN "not_active" ELSE state_
      /\ Return(c) /\ UNCHANGED <<child_objects_, child, stop_failed, fixed>>
  BY DEF Leave, At, pc, at, IInv
<1>2. Becomes(c, "none", "idle", <<>>, 0, FALSE)
  BY <1>1, ReturnBecomes
<1>3. state_ # "active" /\ \A k \in Members : child[k] = "not_active"
  <2>1. \A k \in Members : child[k] = "not_active" \/ \E i \in 1 .. at(c) : list(c)[i] = k
    BY <1>1 DEF IInv, WaiterInv
  <2> QED
    BY <1>1, <2>1 DEF IInv, WaiterInv
<1>4. NoTwice' /\ Members' = Members /\ state_' \in {"deactivating", "not_active"}
  BY <1>1, <1>3 DEF IInv, NoTwice, Positions, Members, TypeOK
<1>5. WaiterInv'
  <2>1. /\ \A d \in Callers : d # c =>
             /\ Op(d)' = Op(d) /\ pc(d)' = pc(d) /\ list(d)' = list(d) /\ at(d)' = at(d)
        /\ Op(c)' = "none"
    BY <1>2 DEF Becomes, Op, pc, list, at
  <2>2. \A d \in Callers : d # c /\ Op(d)' = "wait" /\ pc(d)' = "joining" =>
          /\ at(d)' <= Len(list(d)')
          /\ \A k \in Members' : child'[k] = "not_active" \/ \E i \in 1 .. at(d)' : list(d)'[i] = k
    BY <1>1, <1>4, <2>1 DEF IInv, WaiterInv
  <2> QED
    BY <1>1, <1>4, <2>1, <2>2 DEF WaiterInv
<1>6. Newcomers' /\ AsState'
  BY <1>1, <1>3, <1>4 DEF IInv, Newcomers, AsState
<1> QED
  BY <1>1, <1>2, <1>4, <1>5, <1>6, FreeKeeps DEF TypeOK, ChildStates

LEMMA ClearInactiveKeeps == ASSUME IInv, NEW c \in Callers, ClearInactive(c) PROVE IInv'
<1>1. /\ TypeOK /\ pc(c) = "enter" /\ Op(c) = "clear" /\ locked = {} /\ locked' = {}
      /\ state_ = "not_active" /\ child_objects_' = <<>>
      /\ Return(c) /\ UNCHANGED <<state_, child, stop_failed, fixed>>
  BY DEF ClearInactive, Enter, At, pc, IInv
<1>2. Becomes(c, "none", "idle", <<>>, 0, FALSE)
  BY <1>1, ReturnBecomes
<1>3. Members' = {} /\ NoTwice' /\ child_objects_' \in Seq(Children)
  BY <1>1 DEF Members, ToSet, NoTwice, Positions
<1>4. \A k \in Children : child[k] \in {"active", "not_active"}
  BY <1>1 DEF IInv, AsState, Newcomers
<1>5. WaiterInv'
  <2>1. \A d \in Callers : d # c => Op(d)' = Op(d)
    BY <1>2 DEF Becomes, Op
  <2>2. \A d \in Callers : Op(d)' # "wait"
    BY <1>1, <1>2, <2>1 DEF IInv, WaitApart, Becomes
  <2> QED
    BY <2>2 DEF WaiterInv
<1>6. Newcomers' /\ AsState'
  BY <1>1, <1>3, <1>4 DEF Newcomers, AsState
<1> QED
  BY <1>1, <1>2, <1>3, <1>5, <1>6, FreeKeeps DEF TypeOK, ChildStates

\* add_child_object() puts the child before or behind the others.
LEMMA Inserted ==
  ASSUME TypeOK, NoTwice, NEW k \in Children \ Members, NEW s \in Insertions(k)
  PROVE  /\ s \in Seq(Children) /\ ToSet(s) = Members \cup {k}
         /\ \A i, j \in 1 .. Len(s) : s[i] = s[j] => i = j
<1> DEFINE n == Len(child_objects_)
<1>1. /\ child_objects_ \in Seq(Children) /\ n \in Nat /\ Positions = 1 .. n
      /\ Members = {child_objects_[i] : i \in 1 .. n}
      /\ \A i \in 1 .. n : child_objects_[i] # k
      /\ \A i, j \in 1 .. n : child_objects_[i] = child_objects_[j] => i = j
  BY MembersAt DEF TypeOK, Positions, NoTwice
<1> HIDE DEF n
<1>2. CASE s = <<k>> \o child_objects_
  <2>1. /\ s \in Seq(Children) /\ Len(s) = n + 1 /\ s[1] = k
        /\ \A i \in 2 .. n + 1 : s[i] = child_objects_[i - 1]
    BY <1>1, <1>2 DEF n
  <2>2. \A i \in 1 .. n : s[i + 1] = child_objects_[i]
    BY <1>1, <2>1
  <2>3. ToSet(s) = Members \cup {k}
    <3>1. ToSet(s) = {s[i] : i \in 1 .. n + 1}
      BY <2>1, LenProperties DEF ToSet
    <3>2. \A i \in 1 .. n + 1 : s[i] \in Members \cup {k}
      <4>1. \A i \in 2 .. n + 1 : i - 1 \in 1 .. n
        BY <1>1
      <4> QED
        BY <1>1, <2>1, <4>1
    <3>3. k \in ToSet(s) /\ \A i \in 1 .. n : child_objects_[i] \in ToSet(s)
      <4>1. 1 \in 1 .. n + 1 /\ \A i \in 1 .. n : i + 1 \in 1 .. n + 1
        BY <1>1
      <4> QED
        BY <2>1, <2>2, <3>1, <4>1
    <3> QED
      BY <1>1, <3>1, <3>2, <3>3
  <2>4. ASSUME NEW i \in 1 .. n + 1, NEW j \in 1 .. n + 1, s[i] = s[j]
        PROVE  i = j
    <3>1. CASE i = 1 \/ j = 1
      BY <1>1, <2>1, <2>4, <3>1
    <3>2. CASE i # 1 /\ j # 1
      <4>1. i - 1 \in 1 .. n /\ j - 1 \in 1 .. n
        BY <1>1, <3>2
      <4> QED
        BY <1>1, <2>1, <2>4, <3>2, <4>1
    <3> QED
      BY <3>1, <3>2
  <2> QED
    BY <2>1, <2>3, <2>4
<1>3. CASE s = Append(child_objects_, k)
  <2>1. /\ s \in Seq(Children) /\ Len(s) = n + 1 /\ s[n + 1] = k
        /\ \A i \in 1 .. n : s[i] = child_objects_[i]
    BY <1>1, <1>3 DEF n
  <2>2. ToSet(s) = Members \cup {k}
    <3>1. ToSet(s) = {s[i] : i \in 1 .. n + 1}
      BY <2>1, LenProperties DEF ToSet
    <3>2. 1 .. n + 1 = (1 .. n) \cup {n + 1}
      BY <1>1
    <3> QED
      BY <1>1, <2>1, <3>1, <3>2
  <2>3. \A i, j \in 1 .. n + 1 : s[i] = s[j] => i = j
    BY <1>1, <2>1
  <2> QED
    BY <2>1, <2>2, <2>3
<1> QED
  BY <1>2, <1>3 DEF Insertions

\* A child that joins an object that is not active is not active, and waiters are
\* not concerned by it.
LEMMA AddedFacts ==
  ASSUME IInv, NEW k \in Children \ Members, child_objects_' \in Insertions(k),
         \A j \in Members : child'[j] = child[j],
         UNCHANGED <<state_, stop_failed>>, locked' = {}, \A c \in locked : Op(c) = "add",
         IF state_ = "active" THEN child'[k] = "active" ELSE child'[k] = "not_active",
         \A d \in Callers : Op(d)' = "wait" =>
           Op(d) = "wait" /\ pc(d)' = pc(d) /\ list(d)' = list(d) /\ at(d)' = at(d)
  PROVE  /\ child_objects_' \in Seq(Children) /\ Members' = Members \cup {k}
         /\ NoTwice' /\ WaiterInv' /\ AsState'
<1>1. /\ child_objects_' \in Seq(Children) /\ Members' = Members \cup {k} /\ NoTwice'
  <2>1. /\ child_objects_' \in Seq(Children) /\ ToSet(child_objects_') = Members \cup {k}
        /\ \A i, j \in 1 .. Len(child_objects_') : child_objects_'[i] = child_objects_'[j] => i = j
    BY Inserted DEF IInv
  <2> QED
    BY <2>1 DEF Members, NoTwice, Positions
<1>2. WaiterInv'
  <2> SUFFICES ASSUME NEW d \in Callers, Op(d)' = "wait", pc(d)' \in {"copy", "joining"}
               PROVE  /\ state_' # "active"
                      /\ pc(d)' = "joining" =>
                           /\ at(d)' <= Len(list(d)')
                           /\ \A j \in Members' : \/ child'[j] = "not_active"
                                                  \/ \E i \in 1 .. at(d)' : list(d)'[i] = j
    BY DEF WaiterInv
  <2>1. Op(d) = "wait" /\ pc(d)' = pc(d) /\ list(d)' = list(d) /\ at(d)' = at(d)
    OBVIOUS
  <2>2. state_ # "active"
    BY <2>1 DEF IInv, WaiterInv
  <2>3. pc(d) = "joining" =>
          /\ at(d) <= Len(list(d))
          /\ \A j \in Members : child[j] = "not_active" \/ \E i \in 1 .. at(d) : list(d)[i] = j
    BY <2>1 DEF IInv, WaiterInv
  <2> QED
    BY <1>1, <2>1, <2>2, <2>3
<1>3. AsState'
  BY <1>1 DEF IInv, AsState
<1> QED
  BY <1>1, <1>2, <1>3

LEMMA AddChildKeeps ==
  ASSUME IInv, NEW c \in Callers, NEW k \in Children, AddChild(c, k)
  PROVE  IInv'
<1>1. /\ TypeOK /\ pc(c) = "idle" /\ locked = {} /\ locked' = {} /\ k \in Children \ Members
      /\ child_objects_' \in Insertions(k)
      /\ UNCHANGED <<state_, locked, caller, stop_failed, fixed>>
      /\ \/ state_ = "active" /\ child[k] = "active" /\ UNCHANGED child
         \/ state_ = "active" /\ child[k] = "not_active" /\ SetChild(k, "active")
         \/ state_ # "active" /\ child[k] # "active" /\ UNCHANGED child
  BY DEF AddChild, At, pc, IInv, AddedStopped
<1>2. child[k] \in {"active", "not_active"}
  BY <1>1 DEF IInv, Newcomers
<1>3. /\ child' \in [Children -> ChildStates]
      /\ \A j \in Children : j # k => child'[j] = child[j]
      /\ child'[k] = IF state_ = "active" THEN "active" ELSE "not_active"
  BY <1>1, <1>2 DEF TypeOK, ChildStates, SetChild
<1>4. Becomes(c, "none", "idle", list(c), at(c), FALSE)
  <2>1. Op(c) = "none" /\ errors(c) = FALSE
    BY <1>1, CallerFields DEF IInv, PlaceInv
  <2>2. caller' \in [Callers -> CallerType]
    BY <1>1, CallerFields
  <2> QED
    BY <1>1, <2>1, <2>2 DEF Becomes, Op, pc, list, at, errors
<1>5. \A d \in Callers : Op(d)' = Op(d) /\ pc(d)' = pc(d) /\ list(d)' = list(d) /\ at(d)' = at(d)
  BY <1>1 DEF Op, pc, list, at
<1>6. /\ child_objects_' \in Seq(Children) /\ Members' = Members \cup {k}
      /\ NoTwice' /\ WaiterInv' /\ AsState'
  <2>1. \A j \in Members : child'[j] = child[j]
    BY <1>1, <1>3, MembersAt
  <2> QED
    BY <1>1, <1>3, <1>5, <2>1, AddedFacts
<1>7. Newcomers'
  BY <1>1, <1>3, <1>6 DEF IInv, Newcomers
<1> QED
  BY <1>1, <1>3, <1>4, <1>6, <1>7, FreeKeeps DEF TypeOK

LEMMA AddedKeeps == ASSUME IInv, NEW c \in Callers, Added(c) PROVE IInv'
<1>1. /\ TypeOK /\ pc(c) = "joining" /\ at(c) = 0 /\ Op(c) = "add"
      /\ child_objects_' \in Insertions(list(c)[1]) /\ locked' = {} /\ Return(c)
      /\ UNCHANGED <<state_, child, stop_failed, fixed>>
  BY DEF Added, At, pc, at, list, IInv, Unlock
<1>2. Holding(c)
  BY <1>1 DEF Holding
<1>3. /\ locked = {c} /\ c \in locked /\ StateOf(c) /\ list(c) \in Seq(Children)
  BY <1>2, HolderFacts DEF AsHolder
<1> PICK k \in Children : k = list(c)[1]
  <2>1. 1 \in 1 .. Len(list(c))
    <3>1. Len(list(c)) = 1
      BY <1>1, <1>3 DEF StateOf
    <3> QED
      BY <3>1
  <2> QED
    BY <1>3, <2>1, ElementOfSeq
<1>4. k \notin Members /\ child[k] = "not_active" /\ state_ # "active"
  BY <1>1, <1>3 DEF StateOf
<1>5. Becomes(c, "none", "idle", <<>>, 0, FALSE)
  BY <1>1, ReturnBecomes
<1>6. \A d \in Callers : Op(d)' = "wait" =>
        Op(d) = "wait" /\ pc(d)' = pc(d) /\ list(d)' = list(d) /\ at(d)' = at(d)
  BY <1>5 DEF Becomes, Op, pc, list, at
<1>7. /\ child_objects_' \in Seq(Children) /\ Members' = Members \cup {k}
      /\ NoTwice' /\ WaiterInv' /\ AsState'
  BY <1>1, <1>3, <1>4, <1>6, AddedFacts
<1>8. Newcomers'
  BY <1>1, <1>3, <1>4, <1>7 DEF IInv, Newcomers
<1>9. /\ state_' \in {"active", "deactivating", "not_active"}
      /\ child' \in [Children -> ChildStates]
  BY <1>1 DEF TypeOK, ChildStates
<1> QED
  BY <1>1, <1>3, <1>5, <1>7, <1>8, <1>9, FreeKeeps

LEMMA StopAddedKeeps ==
  ASSUME IInv, NEW c \in Callers, NEW k \in Children, StopAdded(c, k)
  PROVE  IInv'
<1>1. /\ TypeOK /\ pc(c) = "idle" /\ locked = {} /\ locked' = {c} /\ k \notin Members
      /\ state_ # "active" /\ child[k] = "active" /\ child' = [child EXCEPT ![k] = "deactivating"]
      /\ caller' = [caller EXCEPT ![c] = [op |-> "add", pc |-> "joining", list |-> <<k>>,
                                          at |-> 1, errors |-> FALSE]]
      /\ UNCHANGED <<state_, child_objects_, stop_failed, fixed>>
  BY DEF StopAdded, At, pc, IInv, Lock, SetChild
<1>2. Becomes(c, "add", "joining", <<k>>, 1, FALSE)
  <2>1. <<k>> \in Seq(Children)
    OBVIOUS
  <2> QED
    BY <1>1, <2>1, CallerFields DEF Becomes, Op, pc, list, at, errors, CallerType, Ops, Places
<1>3. /\ \A d \in Callers : d # c =>
           /\ Op(d)' = Op(d) /\ pc(d)' = pc(d) /\ list(d)' = list(d) /\ at(d)' = at(d)
           /\ errors(d)' = errors(d)
      /\ Op(c)' = "add" /\ pc(c)' = "joining" /\ list(c)' = <<k>> /\ at(c)' = 1
      /\ errors(c)' = FALSE
  BY <1>2 DEF Becomes, Op, pc, list, at, errors
<1>4. /\ child' \in [Children -> ChildStates] /\ Members' = Members /\ NoTwice'
      /\ \A j \in Children : j # k => child'[j] = child[j]
      /\ \A j \in Members : child'[j] = child[j]
  BY <1>1, MembersAt DEF TypeOK, ChildStates, Members, IInv, NoTwice, Positions
<1>5. TypeOK'
  BY <1>1, <1>2, <1>4 DEF TypeOK, Becomes, CallerType, Ops, Places, ChildStates
<1>6. PlaceInv'
  BY <1>3 DEF IInv, PlaceInv
<1>7. LockInv'
  <2>1. Holding(c)' /\ \A d \in Callers : d # c => ~Holding(d)'
    BY <1>1, <1>3 DEF Holding, IInv, LockInv
  <2> QED
    BY <1>1, <2>1 DEF LockInv
<1>8. WaitApart'
  BY <1>2, ApartKept DEF IInv
<1>9. WaiterInv'
  <2>1. \A d \in Callers : d # c /\ Op(d)' = "wait" /\ pc(d)' \in {"copy", "joining"} =>
          /\ state_' # "active"
          /\ pc(d)' = "joining" =>
               /\ at(d)' <= Len(list(d)')
               /\ \A j \in Members' : \/ child'[j] = "not_active"
                                      \/ \E i \in 1 .. at(d)' : list(d)'[i] = j
    BY <1>1, <1>3, <1>4 DEF IInv, WaiterInv
  <2> QED
    BY <1>1, <1>3, <2>1 DEF WaiterInv
<1>10. Newcomers'
  <2>1. \A j \in Children \ Members : j # k => child'[j] \in {"active", "not_active"}
    BY <1>1, <1>4 DEF IInv, Newcomers
  <2>2. list(c)'[1] = k
    BY <1>3
  <2> QED
    BY <1>1, <1>3, <1>4, <2>1, <2>2 DEF Newcomers
<1>11. AsState'
  BY <1>1, <1>4 DEF IInv, AsState
<1>12. HolderInv'
  <2>1. Len(list(c)') = 1 /\ list(c)'[1] = k
    BY <1>3
  <2>2. InList(c)' /\ Activating(c)' /\ Stopping(c)' /\ Joining(c)'
    BY <1>3 DEF InList, Activating, Stopping, Joining
  <2>3. StateOf(c)'
    BY <1>1, <1>3, <1>4, <2>1 DEF StateOf
  <2> QED
    BY <1>1, <2>2, <2>3 DEF HolderInv
<1> QED
  BY <1>4, <1>5, <1>6, <1>7, <1>8, <1>9, <1>10, <1>11, <1>12 DEF IInv

-----------------------------------------------------------------------------
LEMMA IInvStarts == Init => IInv
<1> SUFFICES ASSUME Init PROVE IInv
  OBVIOUS
<1>1. /\ state_ = "not_active" /\ locked = {} /\ child_objects_ = <<>> /\ stop_failed = FALSE
      /\ child \in [Children -> {"active", "not_active"}]
      /\ fixed \in [synchronous : BOOLEAN, activations : {0}]
      /\ caller = [c \in Callers |-> Idle]
  BY DEF Init
<1>2. caller \in [Callers -> CallerType]
      /\ \A c \in Callers : Op(c) = "none" /\ pc(c) = "idle" /\ errors(c) = FALSE
  BY <1>1 DEF Idle, CallerType, Ops, Places, Op, pc, errors
<1>3. Members = {} /\ NoTwice /\ child_objects_ \in Seq(Children)
  BY <1>1 DEF Members, ToSet, NoTwice, Positions
<1>4. TypeOK
  <2>1. fixed \in [synchronous : BOOLEAN, activations : 0 .. MaxActivations]
    <3>1. 0 \in 0 .. MaxActivations
      BY CompositeAssumption
    <3> QED
      BY <1>1, <3>1
  <2>2. child \in [Children -> {"active", "deactivating", "ended", "not_active"}]
    BY <1>1
  <2> QED
    BY <1>1, <1>2, <1>3, <2>1, <2>2 DEF TypeOK, CallerType, Ops, Places
<1>5. PlaceInv /\ LockInv /\ WaitApart /\ WaiterInv
  BY <1>1, <1>2 DEF PlaceInv, LockInv, WaitApart, WaiterInv, Holding
<1>6. Newcomers /\ AsState /\ HolderInv
  BY <1>1, <1>3 DEF Newcomers, AsState, HolderInv
<1> QED
  BY <1>3, <1>4, <1>5, <1>6 DEF IInv

LEMMA StutterKeeps == ASSUME IInv, UNCHANGED vars PROVE IInv'
BY DEF IInv, vars, TypeOK, NoTwice, PlaceInv, LockInv, WaitApart, WaiterInv, Newcomers, AsState,
       HolderInv, Positions, ChildAt, Members, Holding, InList, Activating, Stopping, Joining,
       StateOf, Op, pc, list, at, errors

\* One step for each action of Next.
LEMMA IInvKept == ASSUME IInv, Assumed, [Next]_vars PROVE IInv'
<1>1. CASE UNCHANGED vars
  BY <1>1, StutterKeeps
<1>2. ASSUME NEW c \in Callers, NEW o \in {"activate", "deactivate", "wait", "clear"}, Call(c, o)
      PROVE  IInv'
  BY <1>2, CallKeeps
<1>3. ASSUME NEW c \in Callers, Step(c)
      PROVE  IInv'
  BY <1>3, LookKeeps, ActivateKeeps, ActivateChildKeeps, ActivatedKeeps, DeactivateKeeps,
     StopChildKeeps, StopWaitKeeps, StoppedKeeps, ToJoinKeeps, JoinKeeps, JoinedKeeps, CopyKeeps,
     LeaveKeeps, AddedKeeps, ClearKeeps, ClearInactiveKeeps DEF Step
<1>4. ASSUME NEW c \in Callers, ActivateFails(c) \/ StopChildFails(c) \/ Spurious(c)
      PROVE  IInv'
  BY <1>4, ActivateFailsKeeps, StopChildFailsKeeps, LookKeeps
<1>5. ASSUME NEW c \in Callers, NEW k \in Children, AddChild(c, k) \/ StopAdded(c, k)
      PROVE  IInv'
  BY <1>5, AddChildKeeps, StopAddedKeeps
<1>6. ASSUME NEW k \in Children, WorkEnds(k)
      PROVE  IInv'
  BY <1>6, WorkEndsKeeps
<1> QED
  BY <1>1, <1>2, <1>3, <1>4, <1>5, <1>6 DEF Next

LEMMA IInvHolds == ASSUME Assumed PROVE Spec => []IInv
<1>1. Init => IInv
  BY IInvStarts
<1>2. IInv /\ [Next]_vars => IInv'
  BY IInvKept
<1> QED
  BY <1>1, <1>2, PTL DEF Spec

\* "any time all object that it own must be active or not active" (CompositeActiveObject.hpp):
\* between the operations the children are as the state says, whatever failed.
THEOREM ChildrenFollowState ==
  ASSUME Assumed
  PROVE  Spec => []ChildrenFollow
<1>1. IInv => ChildrenFollow
  BY DEF IInv, AsState, ChildrenFollow, AllOrNone
<1> QED
  BY <1>1, IInvHolds, PTL

-----------------------------------------------------------------------------
\* Which steps change a member; the others end its work or wait for it.
LEMMA MemberMoves ==
  ASSUME IInv, [Next]_vars, NEW k \in Members
  PROVE  \/ child'[k] = child[k]
         \/ \E c \in Callers : ActivateChild(c) /\ Here(c) = k
         \/ \E c \in Callers : StopChild(c) /\ Here(c) = k
         \/ child'[k] \in {"ended", "not_active"}
<1>1. child \in [Children -> ChildStates] /\ k \in Children
  BY MembersAt DEF IInv, TypeOK, ChildStates
<1>2. CASE UNCHANGED child
  BY <1>2
<1>3. ASSUME NEW c \in Callers, ActivateChild(c) \/ StopChild(c) \/ StopWait(c) \/ Join(c)
      PROVE  \/ child'[k] = child[k] \/ child'[k] = "not_active"
             \/ (ActivateChild(c) \/ StopChild(c)) /\ Here(c) = k
  BY <1>1, <1>3 DEF ActivateChild, StopChild, StopWait, Join, SetChild
<1>4. ASSUME NEW c \in Callers, NEW j \in Children, AddChild(c, j) \/ StopAdded(c, j)
      PROVE  child'[k] = child[k]
  BY <1>1, <1>4 DEF AddChild, StopAdded, SetChild
<1>5. ASSUME NEW j \in Children, WorkEnds(j)
      PROVE  child'[k] = child[k] \/ child'[k] = "ended"
  BY <1>1, <1>5 DEF WorkEnds, SetChild
<1>6. ASSUME NEW c \in Callers, Step(c)
      PROVE  UNCHANGED child \/ ActivateChild(c) \/ StopChild(c) \/ StopWait(c) \/ Join(c)
  BY <1>6 DEF Step, AlreadyActive, Activate, Activated, NotToDeactivate, Deactivate, Stopped, ToJoin,
     Joined, Look, Copy, Leave, Added, Clear, ClearInactive
<1>7. ASSUME NEW c \in Callers,
             \/ \E o \in {"activate", "deactivate", "wait", "clear"} : Call(c, o)
             \/ ActivateFails(c) \/ StopChildFails(c) \/ Spurious(c)
      PROVE  UNCHANGED child
  BY <1>7 DEF Call, ActivateFails, StopChildFails, Spurious
<1>8. CASE UNCHANGED vars
  BY <1>8 DEF vars
<1> QED
  BY <1>2, <1>3, <1>4, <1>5, <1>6, <1>7, <1>8 DEF Next

\* The children form a stack.
LEMMA StopsTheLast ==
  ASSUME IInv, [Next]_vars, NEW i \in Positions, NEW j \in Positions, i < j,
         ChildAt(i) = "active", child'[child_objects_[i]] = "deactivating"
  PROVE  \/ stop_failed
         \/ ChildAt(j) # "active" /\ (fixed.synchronous => ChildAt(j) = "not_active")
<1>1. child_objects_[i] \in Members /\ TypeOK
  BY MembersAt DEF IInv
<1>2. PICK c \in Callers : StopChild(c) /\ Here(c) = child_objects_[i]
  <2>1. \A c \in Callers : ActivateChild(c) => child[Here(c)] = "not_active"
    BY DEF ActivateChild
  <2> QED
    BY <1>1, <2>1, MemberMoves DEF ChildAt
<1>3. pc(c) = "stopping" /\ at(c) > 0
  BY <1>2 DEF StopChild, At, pc, at
<1>4. /\ Holding(c) /\ Op(c) # "add" /\ at(c) <= Len(list(c)) /\ Stopping(c) /\ at(c) \in Nat
      /\ errors(c) \in BOOLEAN
  BY <1>3, StopFacts
<1>5. i = at(c)
  BY <1>2, <1>3, <1>4, HereFacts
<1>6. errors(c) => stop_failed
  BY <1>3, <1>4 DEF Stopping
<1>7. ~errors(c) => ChildAt(j) # "active" /\ (fixed.synchronous => ChildAt(j) = "not_active")
  BY <1>3, <1>4, <1>5 DEF Stopping
<1> QED
  BY <1>6, <1>7

LEMMA StartsTheFirst ==
  ASSUME IInv, [Next]_vars, NEW i \in Positions, NEW j \in Positions, i < j,
         ChildAt(j) = "not_active", child'[child_objects_[j]] = "active"
  PROVE  ChildAt(i) = "active"
<1>1. child_objects_[j] \in Members /\ child_objects_[j] \in Children /\ TypeOK
  BY MembersAt DEF IInv
<1>2. PICK c \in Callers : ActivateChild(c) /\ Here(c) = child_objects_[j]
  <2>1. \A c \in Callers : StopChild(c) /\ child[Here(c)] = "not_active" => UNCHANGED child
    BY DEF StopChild
  <2> QED
    BY <1>1, <2>1, MemberMoves DEF ChildAt
<1>3. pc(c) = "activating" /\ at(c) <= Len(list(c))
  BY <1>2 DEF ActivateChild, At, pc, at, list
<1>4. Holding(c) /\ Op(c) = "activate"
  BY <1>3 DEF Holding, IInv, PlaceInv
<1>5. AsHolder(c) /\ at(c) \in Nat /\ Len(child_objects_) \in Nat
  BY <1>4, HolderFacts
<1>6. at(c) > 0 /\ \A n \in Positions : ChildAt(n) = IF n < at(c) THEN "active" ELSE "not_active"
  BY <1>3, <1>5 DEF AsHolder, Activating
<1>7. j = at(c)
  BY <1>2, <1>3, <1>4, <1>6, HereFacts
<1> QED
  BY <1>5, <1>6, <1>7 DEF Positions

\* "last added, deactivate and join first" and "first added - first activated"
\* (CompositeActiveObject.hpp), however the operations of several callers overlap.
THEOREM ChildrenAreAStack ==
  ASSUME Assumed
  PROVE  Spec => StackOrder
<1>1. IInv /\ [Next]_vars =>
        [\A i, j \in DOMAIN child_objects_ :
           /\ i < j
           /\ child[child_objects_[i]] = "active" /\ child'[child_objects_[i]] = "deactivating"
           => \/ stop_failed
              \/ /\ child[child_objects_[j]] # "active"
                 /\ fixed.synchronous => ~Working(child_objects_[j])]_vars
  <2> SUFFICES ASSUME IInv, [Next]_vars, NEW i \in DOMAIN child_objects_,
                      NEW j \in DOMAIN child_objects_, i < j,
                      child[child_objects_[i]] = "active", child'[child_objects_[i]] = "deactivating"
               PROVE  \/ stop_failed
                      \/ /\ child[child_objects_[j]] # "active"
                         /\ fixed.synchronous => ~Working(child_objects_[j])
    OBVIOUS
  <2>1. i \in Positions /\ j \in Positions
    BY MembersAt DEF IInv
  <2> QED
    BY <2>1, StopsTheLast DEF ChildAt, Working
<1>2. IInv /\ [Next]_vars =>
        [\A i, j \in DOMAIN child_objects_ :
           /\ i < j
           /\ child[child_objects_[j]] = "not_active" /\ child'[child_objects_[j]] = "active"
           => child[child_objects_[i]] = "active"]_vars
  <2> SUFFICES ASSUME IInv, [Next]_vars, NEW i \in DOMAIN child_objects_,
                      NEW j \in DOMAIN child_objects_, i < j,
                      child[child_objects_[j]] = "not_active", child'[child_objects_[j]] = "active"
               PROVE  child[child_objects_[i]] = "active"
    OBVIOUS
  <2>1. i \in Positions /\ j \in Positions
    BY MembersAt DEF IInv
  <2> QED
    BY <2>1, StartsTheFirst DEF ChildAt
<1>3. Spec => ReverseOrder
  BY <1>1, IInvHolds, PTL DEF Spec, ReverseOrder
<1>4. Spec => ForwardOrder
  BY <1>2, IInvHolds, PTL DEF Spec, ForwardOrder
<1> QED
  BY <1>3, <1>4 DEF StackOrder

-----------------------------------------------------------------------------
(* The composite is an active object.                                      *)

Running == \E k \in Members : Working(k)
NoneActive == \A k \in Members : child[k] = "not_active"

\* The steps of an active object, as what they do to what is seen of the composite.
Follows ==
  \/ AbstractState' = AbstractState /\ (Running' <=> Running)
  \/ AbstractState \in {"not_active", "active"} /\ AbstractState' = "active"
  \/ AbstractState = "active" /\ AbstractState' = "deactivating" /\ (Running' <=> Running)
  \/ AbstractState = "deactivating" /\ AbstractState' = "active" /\ (Running' <=> Running)
  \/ AbstractState = "deactivating" /\ AbstractState' = "deactivating" /\ Running /\ ~Running'
  \/ AbstractState = "deactivating" /\ AbstractState' = "not_active" /\ ~Running /\ ~Running'

LEMMA FollowsIsAStep ==
  ASSUME Follows
  PROVE  [Abstract!Next]_<<AbstractState, \E k \in Members : Working(k)>>
<1> DEFINE r == \E k \in Members : Working(k)
<1>1. (Running <=> r) /\ (Running' <=> r') /\ r \in BOOLEAN /\ r' \in BOOLEAN
  BY DEF Running
<1>2. (Running' <=> Running) => r' = r
  BY <1>1
<1>3. (Running => r = TRUE) /\ (~Running => r = FALSE) /\ (~Running' => r' = FALSE)
  BY <1>1
<1>4. /\ Abstract!Next <=>
           Abstract!Activate \/ Abstract!Work \/ Abstract!Deactivate \/ Abstract!Resume
           \/ Abstract!JobsEnd \/ Abstract!Finish
      /\ Abstract!Activate <=> AbstractState = "not_active" /\ AbstractState' = "active" /\ r' \in BOOLEAN
      /\ Abstract!Work <=> AbstractState = "active" /\ r' \in BOOLEAN /\ UNCHANGED AbstractState
      /\ Abstract!Deactivate <=>
           AbstractState = "active" /\ AbstractState' = "deactivating" /\ UNCHANGED r
      /\ Abstract!Resume <=>
           AbstractState = "deactivating" /\ AbstractState' = "active" /\ UNCHANGED r
      /\ Abstract!JobsEnd <=>
           AbstractState = "deactivating" /\ r /\ r' = FALSE /\ UNCHANGED AbstractState
      /\ Abstract!Finish <=>
           AbstractState = "deactivating" /\ ~r /\ AbstractState' = "not_active" /\ UNCHANGED r
  BY DEF Abstract!Next, Abstract!Activate, Abstract!Work, Abstract!Deactivate, Abstract!Resume,
         Abstract!JobsEnd, Abstract!Finish
<1> HIDE DEF r
<1>5. Abstract!Next \/ UNCHANGED <<AbstractState, r>>
  BY <1>1, <1>2, <1>3, <1>4 DEF Follows
<1> QED
  BY <1>5 DEF r

\* What is seen while nobody has the lock, and while one has it.
SeenOf(c) ==
  IF Op(c) = "clear" THEN "deactivating"
  ELSE IF Op(c) # "activate" THEN state_
  ELSE IF NoneActive THEN "not_active"
  ELSE IF pc(c) = "activating" THEN "active"
  ELSE "deactivating"

LEMMA Seen ==
  /\ locked = {} => AbstractState = state_
  /\ locked' = {} => AbstractState' = state_'
  /\ \A c : locked = {c} => AbstractState = SeenOf(c)
  /\ \A c : locked' = {c} => AbstractState' = SeenOf(c)'
BY DEF AbstractState, Owner, SeenOf, NoneActive, At, pc

LEMMA SeenInState ==
  ASSUME IInv
  PROVE  /\ (\A c \in locked : Op(c) = "add") => AbstractState = state_
         /\ NoneActive => ~Running
         /\ AbstractState = "not_active" => NoneActive
         /\ AbstractState \in {"active", "deactivating", "not_active"}
<1>1. NoneActive => ~Running
  BY DEF NoneActive, Running, Working
<1>2. ASSUME \A c \in locked : Op(c) = "add"
      PROVE  AbstractState = state_ /\ (AbstractState = "not_active" => NoneActive)
  <2>1. AbstractState = state_
    BY <1>2 DEF AbstractState, Owner
  <2> QED
    BY <1>2, <2>1 DEF IInv, AsState, NoneActive
<1>3. ASSUME NEW c \in locked, Op(c) # "add"
      PROVE  AbstractState = "not_active" => NoneActive
  <2>1. locked = {c} /\ StateOf(c) /\ Holding(c) /\ c \in Callers
    BY <1>3, OneHolder DEF IInv, HolderInv
  <2>2. AbstractState = SeenOf(c)
    BY <2>1, Seen
  <2>3. Op(c) \in {"activate", "deactivate", "clear"}
    BY <1>3, <2>1, HolderFacts
  <2> QED
    BY <2>1, <2>2, <2>3 DEF SeenOf, StateOf
<1>4. AbstractState \in {"active", "deactivating", "not_active"}
  BY DEF AbstractState, IInv, TypeOK
<1> QED
  BY <1>1, <1>2, <1>3, <1>4

\* Steps that change nothing that is seen.
LEMMA Unseen ==
  ASSUME UNCHANGED <<state_, locked, child_objects_>>,
         \A c \in locked : Op(c)' = Op(c) /\ (pc(c)' = "activating" <=> pc(c) = "activating"),
         \A k \in Members : /\ child'[k] = "not_active" <=> child[k] = "not_active"
                            /\ child'[k] \in {"active", "deactivating"}
                                 <=> child[k] \in {"active", "deactivating"}
  PROVE  Follows
<1>1. Members' = Members
  BY DEF Members
<1>2. Running' <=> Running
  BY <1>1 DEF Running, Working
<1>3. AbstractState' = AbstractState
  BY <1>1 DEF AbstractState, Owner, At, pc
<1> QED
  BY <1>2, <1>3 DEF Follows

\* Callers outside of the operations on the children.
LEMMA OutsideSeen ==
  ASSUME IInv, NEW c \in Callers,
         \/ \E o \in {"activate", "deactivate", "wait", "clear"} : Call(c, o)
         \/ AlreadyActive(c) \/ NotToDeactivate(c) \/ Look(c) \/ Spurious(c) \/ Copy(c)
  PROVE  Follows
<1>1. UNCHANGED <<state_, locked, child_objects_, child>> /\ pc(c) \in {"idle", "enter", "asleep", "copy"}
  BY DEF Call, AlreadyActive, NotToDeactivate, Look, Spurious, Copy, Enter, At, pc
<1>2. c \notin locked
  BY <1>1 DEF IInv, LockInv, Holding
<1>3. \A d \in Callers : d # c => caller'[d] = caller[d]
  BY DEF IInv, TypeOK, Call, AlreadyActive, NotToDeactivate, Look, Spurious, Copy, Return, Goto,
         GoThrough
<1>4. \A d \in locked : caller'[d] = caller[d]
  BY <1>2, <1>3 DEF IInv, TypeOK
<1> QED
  BY <1>1, <1>4, Unseen DEF Op, pc

\* Steps of an operation in which no child gets to or from not active.
LEMMA StoppingSeen ==
  ASSUME IInv, NEW c \in Callers, StopChild(c) \/ StopChildFails(c) \/ ToJoin(c)
  PROVE  Follows
<1>1. /\ pc(c) = "stopping" /\ UNCHANGED <<state_, locked, child_objects_>>
      /\ \/ UNCHANGED child
         \/ child[Here(c)] = "active" /\ child' = [child EXCEPT ![Here(c)] = "deactivating"]
  BY DEF StopChild, StopChildFails, ToJoin, AllStopped, At, pc, SetChild
<1>2. Holding(c) /\ c \in Callers
  BY <1>1 DEF Holding
<1>3. locked = {c} /\ caller \in [Callers -> CallerType]
  BY <1>2, HolderFacts, CallerFields
<1>4. Op(c)' = Op(c) /\ pc(c)' \in {"stopping", "stop_wait", "joining"}
  BY <1>1, <1>3 DEF StopChild, StopChildFails, ToJoin, Goto, Advance, GoThrough, Op, pc, CallerType
<1>5. \A k \in Members : \/ child'[k] = child[k]
                         \/ child[k] = "active" /\ child'[k] = "deactivating"
  BY <1>1, MembersAt DEF IInv, TypeOK
<1> QED
  BY <1>1, <1>3, <1>4, <1>5, Unseen

\* The work of a child ends.
LEMMA WorkEndsSeen == ASSUME IInv, NEW k \in Children, WorkEnds(k) PROVE Follows
<1>1. /\ child[k] = "deactivating" /\ child' = [child EXCEPT ![k] = "ended"]
      /\ UNCHANGED <<state_, locked, child_objects_, caller>>
      /\ child \in [Children -> ChildStates] /\ Members \subseteq Children
  BY MembersAt DEF WorkEnds, SetChild, IInv, TypeOK, ChildStates
<1>2. Members' = Members /\ \A c : Op(c)' = Op(c) /\ pc(c)' = pc(c)
  BY <1>1 DEF Members, Op, pc
<1>3. CASE k \notin Members
  <2>1. \A j \in Members : child'[j] = child[j]
    BY <1>1, <1>3
  <2> QED
    BY <1>1, <1>2, <2>1, Unseen
<1>4. CASE k \in Members
  <2>1. NoneActive' <=> NoneActive
    BY <1>1, <1>2, <1>4 DEF NoneActive
  <2>2. AbstractState' = AbstractState
    BY <1>1, <1>2, <2>1 DEF AbstractState, Owner, At, pc, NoneActive
  <2>3. Running /\ AbstractState \in {"active", "deactivating"}
    <3>1. ~NoneActive /\ Running
      BY <1>1, <1>4 DEF NoneActive, Running, Working
    <3> QED
      BY <3>1, SeenInState
  <2> QED
    BY <2>2, <2>3 DEF Follows
<1> QED
  BY <1>3, <1>4

\* Somebody has waited for a child: the last one ends a rollback.
LEMMA WaitedSeen == ASSUME IInv, NEW c \in Callers, StopWait(c) \/ Join(c) PROVE Follows
<1>1. /\ pc(c) \in {"stop_wait", "joining"} /\ UNCHANGED <<state_, locked, child_objects_>>
      /\ ~Working(Here(c)) /\ child' = [child EXCEPT ![Here(c)] = "not_active"]
      /\ child \in [Children -> ChildStates] /\ Members \subseteq Children
  BY MembersAt DEF StopWait, Join, ChildEnded, At, pc, SetChild, IInv, TypeOK, ChildStates
<1>2. /\ Members' = Members /\ Op(c)' = Op(c) /\ pc(c)' # "activating"
      /\ \A d \in Callers : d # c => Op(d)' = Op(d) /\ pc(d)' = pc(d)
  BY <1>1 DEF Members, StopWait, Join, Advance, Op, pc, IInv, TypeOK
<1>3. /\ \A k \in Members : \/ child'[k] = child[k]
                            \/ child'[k] = "not_active" /\ child[k] \in {"ended", "not_active"}
  BY <1>1 DEF Working, ChildStates
<1>4. Running' <=> Running
  BY <1>2, <1>3 DEF Running, Working
<1>5. CASE \E d \in locked : Op(d) = "activate"
  <2>1. PICK d \in locked : Op(d) = "activate"
    BY <1>5
  <2>2. d \in Callers /\ locked = {d}
    BY <2>1, OneHolder
  <2>3. d = c
    <3>1. Op(c) # "wait"
      BY <1>1, <2>1 DEF IInv, WaiterInv, PlaceInv
    <3>2. Holding(c)
      BY <1>1, <3>1 DEF Holding
    <3> QED
      BY <2>2, <3>2 DEF IInv, LockInv
  <2>4. AbstractState = IF NoneActive THEN "not_active" ELSE "deactivating"
    BY <1>1, <2>1, <2>2, <2>3, Seen DEF SeenOf
  <2>5. AbstractState' = IF NoneActive' THEN "not_active" ELSE "deactivating"
    BY <1>1, <1>2, <2>1, <2>2, <2>3, Seen DEF SeenOf
  <2>6. (NoneActive => NoneActive' /\ ~Running) /\ (NoneActive' => ~Running')
    BY <1>2, <1>3 DEF NoneActive, Running, Working
  <2> QED
    BY <1>4, <2>4, <2>5, <2>6 DEF Follows
<1>6. CASE \A d \in locked : Op(d) # "activate"
  <2>1. \A d \in locked : Op(d)' = Op(d)
    BY <1>2 DEF IInv, TypeOK
  <2>2. AbstractState = (IF \E d \in locked : Op(d) = "clear" THEN "deactivating" ELSE state_)
    BY <1>6 DEF AbstractState, Owner
  <2>3. AbstractState' = (IF \E d \in locked : Op(d) = "clear" THEN "deactivating" ELSE state_)
    BY <1>1, <1>6, <2>1 DEF AbstractState, Owner
  <2> QED
    BY <1>4, <2>2, <2>3 DEF Follows
<1> QED
  BY <1>5, <1>6

LEMMA ActivateSeen == ASSUME IInv, NEW c \in Callers, Activate(c) PROVE Follows
<1>1. /\ locked = {} /\ locked' = {c} /\ state_ = "not_active" /\ Op(c) = "activate"
      /\ UNCHANGED <<child_objects_, child>>
      /\ caller' = [caller EXCEPT ![c].pc = "activating", ![c].list = ActivateList, ![c].at = 1]
  BY DEF Activate, Enter, Lock, GoThrough
<1>2. Op(c)' = "activate"
  BY <1>1 DEF IInv, TypeOK, Op
<1>3. NoneActive /\ NoneActive' /\ (Running' <=> Running)
  BY <1>1 DEF IInv, AsState, NoneActive, Members, Running, Working
<1>4. AbstractState = "not_active" /\ AbstractState' = "not_active"
  BY <1>1, <1>2, <1>3, Seen DEF SeenOf
<1> QED
  BY <1>3, <1>4 DEF Follows

LEMMA ActivateChildSeen == ASSUME IInv, NEW c \in Callers, ActivateChild(c) PROVE Follows
<1>1. /\ pc(c) = "activating" /\ at(c) <= Len(list(c)) /\ SetChild(Here(c), "active")
      /\ Advance(c, 1) /\ UNCHANGED <<state_, locked, child_objects_>>
  BY DEF ActivateChild, At, pc, at, list
<1>2. Holding(c) /\ Op(c) = "activate"
  BY <1>1 DEF Holding, IInv, PlaceInv
<1>3. locked = {c} /\ AsHolder(c) /\ at(c) > 0
  BY <1>1, <1>2, HolderFacts DEF AsHolder, Activating
<1>4. Here(c) \in Members /\ child'[Here(c)] = "active" /\ Members' = Members
  BY <1>1, <1>2, <1>3, HereFacts DEF IInv, TypeOK, SetChild, Members
<1>5. Op(c)' = "activate" /\ pc(c)' = "activating"
  BY <1>1, <1>2 DEF IInv, TypeOK, Advance, Op, pc
<1>6. ~NoneActive'
  BY <1>4 DEF NoneActive
<1>7. AbstractState' = "active"
  BY <1>1, <1>3, <1>5, <1>6, Seen DEF SeenOf
<1>8. AbstractState \in {"not_active", "active"}
  BY <1>1, <1>2, <1>3, Seen DEF SeenOf
<1> QED
  BY <1>7, <1>8 DEF Follows

LEMMA ActivatedSeen == ASSUME IInv, NEW c \in Callers, Activated(c) PROVE Follows
<1>1. pc(c) = "activating" /\ state_' = "active" /\ locked' = {}
  BY DEF Activated, At, pc, Unlock
<1>2. Holding(c) /\ Op(c) = "activate"
  BY <1>1 DEF Holding, IInv, PlaceInv
<1>3. locked = {c}
  BY <1>2, HolderFacts
<1>4. AbstractState' = "active"
  BY <1>1, Seen
<1>5. AbstractState \in {"not_active", "active"}
  BY <1>1, <1>2, <1>3, Seen DEF SeenOf
<1> QED
  BY <1>4, <1>5 DEF Follows

LEMMA ActivateFailsSeen == ASSUME IInv, NEW c \in Callers, ActivateFails(c) PROVE Follows
<1>1. pc(c) = "activating" /\ UNCHANGED <<locked, child_objects_, child>>
  BY DEF ActivateFails, At, pc
<1>2. Holding(c) /\ Op(c) = "activate"
  BY <1>1 DEF Holding, IInv, PlaceInv
<1>3. locked = {c}
  BY <1>2, HolderFacts
<1>4. Op(c)' = "activate" /\ pc(c)' = "stopping"
  BY <1>2 DEF ActivateFails, GoThrough, IInv, TypeOK, Op, pc
<1>5. (NoneActive' <=> NoneActive) /\ (Running' <=> Running)
  BY <1>1 DEF NoneActive, Running, Working, Members
<1>6. AbstractState = IF NoneActive THEN "not_active" ELSE "active"
  BY <1>1, <1>2, <1>3, Seen DEF SeenOf
<1>7. AbstractState' = IF NoneActive THEN "not_active" ELSE "deactivating"
  BY <1>1, <1>3, <1>4, <1>5, Seen DEF SeenOf
<1> QED
  BY <1>5, <1>6, <1>7 DEF Follows

LEMMA DeactivateSeen == ASSUME IInv, NEW c \in Callers, Deactivate(c) PROVE Follows
<1>1. /\ locked = {} /\ locked' = {c} /\ state_ = "active" /\ state_' = "deactivating"
      /\ Op(c) = "deactivate" /\ UNCHANGED <<child_objects_, child>>
  BY DEF Deactivate, Enter, Lock
<1>2. Op(c)' = "deactivate"
  <2>1. /\ Wakes[c].op = Op(c) /\ DOMAIN Wakes = Callers /\ DOMAIN Wakes[c] = DOMAIN caller[c]
        /\ caller[c] \in CallerType
    BY CallerFields DEF Wakes, At, Op, IInv, CallerType
  <2>2. "op" \in DOMAIN Wakes[c]
    BY <2>1 DEF CallerType
  <2> QED
    BY <1>1, <2>1, <2>2 DEF Deactivate, Op
<1>3. Running' <=> Running
  BY <1>1 DEF Running, Working, Members
<1>4. AbstractState = "active" /\ AbstractState' = "deactivating"
  BY <1>1, <1>2, Seen DEF SeenOf
<1> QED
  BY <1>3, <1>4 DEF Follows

LEMMA ClearSeen ==
  ASSUME IInv, NEW c \in Callers, Clear(c) \/ ClearInactive(c)
  PROVE  Follows
<1>1. CASE Clear(c)
  <2>1. /\ locked = {} /\ locked' = {c} /\ state_ \in {"active", "deactivating"} /\ Op(c) = "clear"
        /\ UNCHANGED <<child_objects_, child>>
    BY <1>1 DEF Clear, Enter, Lock, IInv, TypeOK
  <2>2. Op(c)' = "clear"
    BY <1>1, <2>1 DEF Clear, GoThrough, IInv, TypeOK, Op
  <2>3. Running' <=> Running
    BY <2>1 DEF Running, Working, Members
  <2>4. AbstractState \in {"active", "deactivating"} /\ AbstractState' = "deactivating"
    BY <2>1, <2>2, Seen DEF SeenOf
  <2> QED
    BY <2>3, <2>4 DEF Follows
<1>2. CASE ClearInactive(c)
  <2>1. /\ locked = {} /\ locked' = {} /\ state_ = "not_active" /\ state_' = "not_active"
        /\ child_objects_' = <<>>
    BY <1>2 DEF ClearInactive, Enter
  <2>2. Members' = {}
    BY <2>1 DEF Members, ToSet
  <2>3. ~Running /\ ~Running'
    BY <2>1, <2>2 DEF Running, Working, IInv, AsState
  <2>4. AbstractState = "not_active" /\ AbstractState' = "not_active"
    BY <2>1, Seen
  <2> QED
    BY <2>3, <2>4 DEF Follows
<1> QED
  BY <1>1, <1>2

\* The end of a deactivation, a failed one included.
LEMMA StoppedSeen == ASSUME IInv, NEW c \in Callers, Stopped(c) PROVE Follows
<1>1. /\ pc(c) = "stopping" /\ locked' = {} /\ UNCHANGED <<child_objects_, child>>
      /\ Op(c) = "deactivate" \/ errors(c)
  BY DEF Stopped, AllStopped, At, pc, errors, Unlock
<1>2. /\ Holding(c) /\ Op(c) \in {"deactivate", "clear"} /\ StateOf(c) /\ locked = {c}
      /\ state_ \in {"active", "deactivating", "not_active"}
  <2>1. /\ Holding(c) /\ Op(c) \in {"activate", "deactivate", "clear"} /\ StateOf(c) /\ TypeOK
        /\ Op(c) = "activate" => ~errors(c)
    BY <1>1, StopFacts
  <2> QED
    BY <1>1, <2>1, HolderFacts DEF TypeOK
<1>3. state_' = "active" \/ state_' = state_
  BY <1>2 DEF Stopped
<1>4. Running' <=> Running
  BY <1>1 DEF Running, Working, Members
<1>5. AbstractState = "deactivating" /\ AbstractState' = state_'
  BY <1>1, <1>2, Seen DEF SeenOf, StateOf
<1>6. state_' \in {"active", "deactivating"}
  BY <1>2, <1>3 DEF StateOf
<1> QED
  BY <1>4, <1>5, <1>6 DEF Follows

LEMMA JoinedSeen == ASSUME IInv, NEW c \in Callers, Joined(c) PROVE Follows
<1>1. /\ pc(c) = "joining" /\ at(c) = 0 /\ Op(c) \in {"activate", "clear"} /\ locked' = {}
      /\ state_' = "not_active" /\ UNCHANGED child
      /\ child_objects_' = IF Op(c) = "clear" THEN <<>> ELSE child_objects_
  BY DEF Joined, At, pc, at, Unlock
<1>2. Holding(c) /\ Op(c) # "add"
  BY <1>1 DEF Holding
<1>3. /\ locked = {c} /\ AsHolder(c)
      /\ \A k \in Members : \E i \in Positions : child[k] = ChildAt(i) /\ i > 0
  BY <1>2, ReleaseFacts
<1>4. NoneActive
  BY <1>1, <1>2, <1>3 DEF AsHolder, Joining, NoneActive
<1>5. Members' = Members \/ Members' = {}
  <2>1. child_objects_' = <<>> \/ child_objects_' = child_objects_
    BY <1>1
  <2> QED
    BY <2>1 DEF Members, ToSet
<1>6. ~Running /\ ~Running'
  BY <1>1, <1>4, <1>5 DEF NoneActive, Running, Working
<1>7. AbstractState \in {"not_active", "deactivating"} /\ AbstractState' = "not_active"
  BY <1>1, <1>3, <1>4, Seen DEF SeenOf
<1> QED
  BY <1>6, <1>7 DEF Follows

LEMMA LeaveSeen == ASSUME IInv, NEW c \in Callers, Leave(c) PROVE Follows
<1>1. /\ pc(c) = "joining" /\ at(c) = 0 /\ Op(c) = "wait" /\ locked = {} /\ locked' = {}
      /\ state_' = IF state_ = "deactivating" THEN "not_active" ELSE state_
      /\ UNCHANGED <<child_objects_, child>>
  BY DEF Leave, At, pc, at
<1>2. state_ \in {"deactivating", "not_active"} /\ NoneActive
  <2>1. /\ state_ # "active"
        /\ \A k \in Members : child[k] = "not_active" \/ \E i \in 1 .. at(c) : list(c)[i] = k
    BY <1>1 DEF IInv, WaiterInv
  <2> QED
    BY <1>1, <2>1 DEF IInv, TypeOK, NoneActive
<1>3. ~Running /\ ~Running'
  BY <1>1, <1>2 DEF NoneActive, Running, Working, Members
<1>4. AbstractState = state_ /\ AbstractState' = state_'
  BY <1>1, Seen
<1> QED
  BY <1>1, <1>2, <1>3, <1>4 DEF Follows

\* A child joins.
LEMMA JoinsSeen ==
  ASSUME IInv, NEW k \in Children \ Members, child_objects_' \in Insertions(k),
         \A j \in Members : child'[j] = child[j],
         state_ = "active" \/ child'[k] = "not_active",
         UNCHANGED state_, locked' = {}, \A c \in locked : Op(c) = "add"
  PROVE  Follows
<1>1. Members' = Members \cup {k}
  <2>1. ToSet(child_objects_') = Members \cup {k}
    BY Inserted DEF IInv
  <2> QED
    BY <2>1 DEF Members
<1>2. AbstractState = state_ /\ AbstractState' = state_
  BY SeenInState, Seen
<1>3. state_ # "active" => (Running' <=> Running)
  BY <1>1 DEF Running, Working
<1> QED
  BY <1>2, <1>3 DEF Follows

LEMMA AddSeen ==
  ASSUME IInv, NEW c \in Callers, NEW k \in Children, AddChild(c, k) \/ StopAdded(c, k)
  PROVE  Follows
<1>1. /\ locked = {} /\ k \in Children \ Members /\ UNCHANGED state_
      /\ child \in [Children -> ChildStates] /\ Members \subseteq Children
  BY MembersAt DEF AddChild, StopAdded, IInv, TypeOK, ChildStates
<1>2. \A j \in Members : child'[j] = child[j]
  BY <1>1 DEF AddChild, StopAdded, SetChild
<1>3. CASE AddChild(c, k)
  <2>1. child_objects_' \in Insertions(k) /\ locked' = {}
    BY <1>3 DEF AddChild
  <2>2. state_ = "active" \/ child'[k] = "not_active"
    <3>1. child[k] \in {"active", "not_active"}
      BY <1>1 DEF IInv, Newcomers
    <3> QED
      BY <1>3, <3>1 DEF AddChild, AddedStopped
  <2> QED
    BY <1>1, <1>2, <2>1, <2>2, JoinsSeen
<1>4. CASE StopAdded(c, k)
  <2>1. /\ locked' = {c} /\ UNCHANGED child_objects_
        /\ caller' = [caller EXCEPT ![c] = [op |-> "add", pc |-> "joining", list |-> <<k>>,
                                            at |-> 1, errors |-> FALSE]]
    BY <1>4 DEF StopAdded, Lock
  <2>2. Op(c)' = "add"
    BY <2>1 DEF Op, IInv, TypeOK
  <2>3. Running' <=> Running
    BY <1>2, <2>1 DEF Running, Working, Members
  <2>4. AbstractState = state_ /\ AbstractState' = state_
    BY <1>1, <2>1, <2>2, Seen DEF SeenOf
  <2> QED
    BY <2>3, <2>4 DEF Follows
<1> QED
  BY <1>3, <1>4

LEMMA AddedSeen == ASSUME IInv, NEW c \in Callers, Added(c) PROVE Follows
<1>1. /\ pc(c) = "joining" /\ at(c) = 0 /\ Op(c) = "add" /\ locked' = {}
      /\ child_objects_' \in Insertions(list(c)[1]) /\ UNCHANGED <<state_, child>>
  BY DEF Added, At, pc, at, list, Unlock
<1>2. locked = {c} /\ StateOf(c) /\ list(c) \in Seq(Children)
  <2>1. Holding(c)
    BY <1>1 DEF Holding
  <2> QED
    BY <2>1, HolderFacts DEF AsHolder
<1> PICK k \in Children : k = list(c)[1]
  <2>1. Len(list(c)) = 1
    BY <1>1, <1>2 DEF StateOf
  <2>2. 1 \in 1 .. Len(list(c))
    BY <2>1
  <2> QED
    BY <1>2, <2>2, ElementOfSeq
<1>3. k \notin Members /\ child[k] = "not_active"
  BY <1>1, <1>2 DEF StateOf
<1> QED
  BY <1>1, <1>2, <1>3, JoinsSeen

LEMMA StepFollows == ASSUME IInv, [Next]_vars PROVE Follows
<1>1. CASE UNCHANGED vars
  BY <1>1, Unseen DEF vars, Op, pc
<1>2. ASSUME NEW c \in Callers, NEW o \in {"activate", "deactivate", "wait", "clear"}, Call(c, o)
      PROVE  Follows
  BY <1>2, OutsideSeen
<1>3. ASSUME NEW c \in Callers, Step(c)
      PROVE  Follows
  BY <1>3, OutsideSeen, ActivateSeen, ActivateChildSeen, ActivatedSeen, DeactivateSeen, StoppingSeen,
     WaitedSeen, StoppedSeen, JoinedSeen, LeaveSeen, AddedSeen, ClearSeen DEF Step
<1>4. ASSUME NEW c \in Callers, ActivateFails(c) \/ StopChildFails(c) \/ Spurious(c)
      PROVE  Follows
  BY <1>4, ActivateFailsSeen, StoppingSeen, OutsideSeen
<1>5. ASSUME NEW c \in Callers, NEW k \in Children, AddChild(c, k) \/ StopAdded(c, k)
      PROVE  Follows
  BY <1>5, AddSeen
<1>6. ASSUME NEW k \in Children, WorkEnds(k)
      PROVE  Follows
  BY <1>6, WorkEndsSeen
<1> QED
  BY <1>1, <1>2, <1>3, <1>4, <1>5, <1>6 DEF Next

\* The composite is an active object itself (CompositeActiveObject derives from it): its
\* work starts with an activation, and it is not active only when no child works.
THEOREM CompositeIsActiveObject ==
  ASSUME Assumed
  PROVE  Spec => Implements
<1>1. Init => Abstract!Init
  <2> SUFFICES ASSUME Init PROVE Abstract!Init
    OBVIOUS
  <2>1. locked = {} /\ state_ = "not_active" /\ Members = {}
    BY DEF Init, Members, ToSet
  <2>2. AbstractState = "not_active"
    BY <2>1, Seen
  <2>3. (\E k \in Members : Working(k)) = FALSE
    BY <2>1
  <2> QED
    BY <2>2, <2>3 DEF Abstract!Init
<1>2. IInv /\ [Next]_vars => [Abstract!Next]_<<AbstractState, \E k \in Members : Working(k)>>
  BY StepFollows, FollowsIsAStep
<1> QED
  BY <1>1, <1>2, IInvHolds, PTL DEF Spec, Implements, Abstract!Spec
=============================================================================
