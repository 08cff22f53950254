---------------------------- MODULE PollerProofs ----------------------------
(***************************************************************************)
(* Theorems about Poller, for every set of threads and of handlers, every  *)
(* result that read() and write() may return, and any number of wakeups    *)
(* and exceptions.                                                         *)
(*                                                                         *)
(* The argument.  The counter handle_in_progress is at least one while a   *)
(* thread is in the handling loop and stays so once the handler is         *)
(* finished (LoopCounted, FinishedCounted), so that a thread that reads    *)
(* zero meets neither.  Conversely a counter above zero has a thread that  *)
(* answers for it (CounterOwned): the delegated event is in good hands.    *)
(*                                                                         *)
(* Without wakeups there is more (TokenInv): a registered descriptor is    *)
(* armed, or the one event of it is in one thread's hands, or a read()     *)
(* that threw lost it; who holds that token is alone with the holder.      *)
(***************************************************************************)
EXTENDS Poller, TLAPS

LoopCounted ==
  \A t \in Threads : pc[t] \in InLoop => handle_in_progress[cur[t]] >= 1

FinishedCounted ==
  \A h \in Handlers : handling_finished(h) => handle_in_progress[h] >= 1

CounterOwned ==
  \A h \in Handlers :
    handle_in_progress[h] >= 1 =>
      handling_finished(h) \/ h \in lost \/ \E t \in Threads : Looping(t, h)

\* What a thread's program counter says of the holder in its hands.
PhaseOfStep ==
  /\ \A t \in Threads :
       /\ pc[t] \in {"read", "write", "delete", "dec"} => phase[cur[t]] = "registered"
       /\ pc[t] = "reset" => phase[cur[t]] = "deleted"
       /\ pc[t] = "retire" => phase[cur[t]] = "reset"
       /\ \A h \in batch[t] : phase[h] \in {"registered", "deleted", "reset"}
  /\ phase[StopPipe] # "new"

\* A delegated event still has a pass to come.
PassToCome ==
  \A h \in unseen :
    \/ handling_finished(h) \/ h \in lost
    \/ \E t \in Threads : /\ Looping(t, h)
                          /\ pc[t] = "read" \/ handle_in_progress[h] >= 2

IndInv == /\ TypeOK
          /\ HandlerExclusion
          /\ LoopCounted
          /\ FinishedCounted
          /\ CounterOwned
          /\ PhaseOfStep
          /\ PassToCome
-----------------------------------------------------------------------------
\* apply_state_modify_ yields flags.
LEMMA ApplyType ==
  ASSUME NEW f \in HolderFlags, NEW res \in SUBSET StateChange
  PROVE  ApplyStateModify(f, res) \in HolderFlags
BY DEF ApplyStateModify, HolderFlags

\* The mask of EPOLL_CTL_MOD is a set of conditions.
LEMMA ArmedType ==
  ASSUME NEW r \in BOOLEAN, NEW w \in BOOLEAN
  PROVE  Armed(r, w) \in SUBSET Conditions
BY DEF Armed, Conditions

\* The initial state satisfies the invariant.
LEMMA InitInd == Init => IndInv
<1> SUFFICES ASSUME Init PROVE IndInv
  OBVIOUS
<1> USE ConstantsAssumption DEF Init
<1>1. TypeOK
  BY ArmedType DEF TypeOK, Phases, HolderFlags, NewFlags, Labels
<1>2. HandlerExclusion /\ LoopCounted /\ CounterOwned /\ PassToCome
  BY DEF HandlerExclusion, LoopCounted, CounterOwned, PassToCome, Looping, InLoop
<1>3. FinishedCounted /\ PhaseOfStep
  BY DEF FinishedCounted, PhaseOfStep, handling_finished
<1> QED
  BY <1>1, <1>2, <1>3 DEF IndInv
\* So is the mask of a re-arm.
LEMMA ArmedMaskType ==
  ASSUME TypeOK, NEW h \in Handlers
  PROVE  RearmMask(h) \in SUBSET Conditions
BY ArmedType DEF TypeOK, RearmMask, ArmedFor, HolderFlags

-----------------------------------------------------------------------------
\* Every action keeps the types; the decrement needs LoopCounted.
LEMMA TypeStep == IndInv /\ Next => TypeOK'
<1> SUFFICES ASSUME IndInv, Next PROVE TypeOK'
  OBVIOUS
<1> USE DEF IndInv, TypeOK, kernelVars, holderVars, threadVars, cleanerVars,
            stopVars, boundVars, historyVars
<1>0. Armed(TRUE, TRUE) \in SUBSET Conditions /\ Armed(FALSE, TRUE) \in SUBSET Conditions
  BY ArmedType
<1>1. ASSUME NEW h \in Handlers, AddInsert(h) PROVE TypeOK'
  BY <1>1 DEF AddInsert, Phases, Labels, InHandle, InLoop
<1>2. ASSUME NEW h \in Handlers, AddEpoll(h) PROVE TypeOK'
  BY <1>2, <1>0 DEF AddEpoll, Phases, Labels, InHandle, InLoop
<1>3. ASSUME NEW h \in Handlers, Wakeup(h) PROVE TypeOK'
  <2>1. mask' \in [Handlers -> SUBSET Conditions]
    BY <1>3, <1>0 DEF Wakeup
  <2>2. fault' \in {"none", "use_after_free", "null_handler", "terminate"}
    BY <1>3 DEF Wakeup
  <2>3. wakeups' \in Nat
    BY <1>3 DEF Wakeup
  <2> QED
    BY <1>3, <2>1, <2>2, <2>3 DEF Wakeup
<1>4. ASSUME NEW h \in Handlers, Arrive(h) PROVE TypeOK'
  <2>1. ready' \in [Handlers -> SUBSET Conditions]
    <3>1. PICK c \in Arrives[h] : ready' = [ready EXCEPT ![h] = @ \cup {c}]
      BY <1>4 DEF Arrive
    <3>2. c \in Conditions
      BY ConstantsAssumption
    <3> QED
      BY <3>1, <3>2
  <2>2. arrivals' \in Nat
    BY <1>4 DEF Arrive
  <2> QED
    BY <1>4, <2>1, <2>2 DEF Arrive
<1>5. ASSUME Stop PROVE TypeOK'
  BY <1>5, ConstantsAssumption DEF Stop, Phases, Labels, InHandle, InLoop,
      Conditions
<1>6. ASSUME NEW t \in Threads, Terminate(t) PROVE TypeOK'
  BY <1>6 DEF Terminate, Phases, Labels, InHandle, InLoop
<1>7. ASSUME NEW t \in Threads, EpollWait(t) PROVE TypeOK'
  BY <1>7 DEF EpollWait, AfterDelivery, Deliverable, Goto, Phases, Labels,
      InHandle, InLoop
<1>8. ASSUME NEW t \in Threads, EpollTimeout(t) PROVE TypeOK'
  BY <1>8 DEF EpollTimeout, CleanerRelease, Phases, Labels, InHandle, InLoop
<1>9. ASSUME NEW t \in Threads, NextEvent(t) PROVE TypeOK'
  BY <1>9 DEF NextEvent, Enter, UseAfterFree, Goto, Phases, Labels, InHandle,
      InLoop
<1>10. ASSUME NEW t \in Threads, EndBatch(t) PROVE TypeOK'
  BY <1>10 DEF EndBatch, Goto, CleanerRelease, Phases, Labels, InHandle,
      InLoop
<1>11. ASSUME NEW t \in Threads, Return(t) PROVE TypeOK'
  BY <1>11 DEF Return, Goto, Phases, Labels, InHandle, InLoop
<1>12. ASSUME NEW t \in Threads, Read(t) PROVE TypeOK'
  <2> DEFINE h == cur[t]
  <2>1. h \in Handlers /\ flags[h] \in HolderFlags
    BY <1>12
  <2>2. ReadResults(h) \subseteq SUBSET StateChange
    BY <2>1, ConstantsAssumption DEF ReadResults, StateChange
  <2>3. \A res \in ReadResults(h) : ApplyStateModify(flags[h], res) \in HolderFlags
    BY <2>1, <2>2, ApplyType
  <2>4. flags' \in [Handlers -> HolderFlags]
    BY <1>12, <2>1, <2>3 DEF Read
  <2>5. ready' \in [Handlers -> SUBSET Conditions]
    <3>1. \A res : AfterRead(h) \in SUBSET Conditions
      BY <2>1 DEF AfterRead
    <3> QED
      BY <1>12, <2>1, <3>1 DEF Read
  <2>7. stop' \in [Threads -> BOOLEAN]
    <3>1. CASE UNCHANGED stop
      BY <3>1
    <3>2. CASE \E res \in ReadResults(h) :
                 stop' = [stop EXCEPT ![t] = @ \/ "STOP_PROCESSING" \in res]
      BY <3>2
    <3> QED
      BY <1>12, <3>1, <3>2 DEF Read
  <2>6. pc' \in [Threads -> Labels] /\ rearm_fd' \in [Threads -> BOOLEAN]
    BY <1>12 DEF Read, Goto, Labels, InHandle, InLoop
  <2> QED
    BY <1>12, <2>4, <2>5, <2>6, <2>7 DEF Read
<1>13. ASSUME NEW t \in Threads, HandlerThrows(t) PROVE TypeOK'
  BY <1>13, ConstantsAssumption DEF HandlerThrows, Unwind, Goto, LocalsEnd,
      Phases, Labels, InHandle, InLoop
<1>14. ASSUME NEW t \in Threads, Write(t) PROVE TypeOK'
  <2> DEFINE h == cur[t]
  <2>1. h \in Handlers /\ flags[h] \in HolderFlags
    BY <1>14
  <2>2. WriteResults(h) \subseteq SUBSET StateChange
    BY <2>1, ConstantsAssumption DEF WriteResults, StateChange
  <2>3. \A res \in WriteResults(h) : ApplyStateModify(flags[h], res) \in HolderFlags
    BY <2>1, <2>2, ApplyType
  <2>4. flags' \in [Handlers -> HolderFlags]
    BY <1>14, <2>1, <2>3 DEF Write
  <2>5. ready' \in [Handlers -> SUBSET Conditions]
    <3>1. \A res : AfterWrite(h, res) \in SUBSET Conditions
      BY <2>1 DEF AfterWrite
    <3> QED
      BY <1>14, <2>1, <3>1 DEF Write
  <2>7. stop' \in [Threads -> BOOLEAN]
    <3>1. CASE UNCHANGED stop
      BY <3>1
    <3>2. CASE \E res \in WriteResults(h) :
                 stop' = [stop EXCEPT ![t] = @ \/ "STOP_PROCESSING" \in res]
      BY <3>2
    <3> QED
      BY <1>14, <3>1, <3>2 DEF Write
  <2>6. pc' \in [Threads -> Labels] /\ rearm_fd' \in [Threads -> BOOLEAN]
    BY <1>14 DEF Write, Goto, Labels, InHandle, InLoop
  <2> QED
    BY <1>14, <2>4, <2>5, <2>6, <2>7 DEF Write
<1>15. ASSUME NEW t \in Threads, Delete(t) PROVE TypeOK'
  BY <1>15 DEF Delete, Goto, Phases, Labels, InHandle, InLoop
<1>16. ASSUME NEW t \in Threads, Reset(t) PROVE TypeOK'
  BY <1>16 DEF Reset, Goto, Phases, Labels, InHandle, InLoop
<1>17. ASSUME NEW t \in Threads, Retire(t) PROVE TypeOK'
  BY <1>17 DEF Retire, Goto, AfterLoop, Phases, Labels, InHandle, InLoop
<1>18. ASSUME NEW t \in Threads, Decrement(t) PROVE TypeOK'
  BY <1>18 DEF Decrement, Goto, AfterLoop, LoopCounted, InLoop, Phases,
      Labels, InHandle, InLoop
<1>19. ASSUME NEW t \in Threads, Rearm(t) PROVE TypeOK'
  <2>1. RearmMask(cur[t]) \in SUBSET Conditions
    BY ArmedMaskType
  <2>2. mask' \in [Handlers -> SUBSET Conditions]
    BY <1>19, <2>1 DEF Rearm
  <2>3. /\ pc' \in [Threads -> Labels]
        /\ batch' \in [Threads -> SUBSET Handlers]
        /\ lost' \subseteq Handlers
    BY <1>19 DEF Rearm, Unwind, Goto, Labels, InHandle, InLoop
  <2>4. \/ UNCHANGED <<cur, rearm_fd>>
        \/ LocalsEnd(t)
    BY <1>19 DEF Rearm, Unwind
  <2>5. cur' \in [Threads -> Handlers] /\ rearm_fd' \in [Threads -> BOOLEAN]
    BY <2>4, ConstantsAssumption DEF LocalsEnd
  <2>6. fault' \in {"none", "use_after_free", "null_handler", "terminate"}
    BY <1>19 DEF Rearm
  <2> QED
    BY <1>19, <2>2, <2>3, <2>5, <2>6 DEF Rearm
<1>20. ASSUME NEW t \in Threads, Release(t) PROVE TypeOK'
  BY <1>20, ConstantsAssumption DEF Release, Goto, LocalsEnd, CleanerRelease,
      Phases, Labels, InHandle, InLoop
<1> QED
  BY <1>1, <1>2, <1>3, <1>4, <1>5, <1>6, <1>7, <1>8, <1>9, <1>10, <1>11,
      <1>12, <1>13, <1>14, <1>15, <1>16, <1>17, <1>18, <1>19, <1>20 DEF Next,
      ThreadStep, InHandleStep

-----------------------------------------------------------------------------
\* The conjuncts that the handling of events is about.
HandlingInv == /\ HandlerExclusion
               /\ LoopCounted
               /\ FinishedCounted
               /\ CounterOwned
               /\ PhaseOfStep
               /\ PassToCome

\* A step that leaves the threads, the counters and the lives of the holders
\* alone keeps them.
LEMMA QuietStep ==
  ASSUME HandlingInv,
         UNCHANGED <<phase, handle_in_progress, pc, cur, batch, unseen, lost>>
  PROVE  HandlingInv'
BY DEF HandlingInv, HandlerExclusion, LoopCounted, FinishedCounted, CounterOwned,
       PhaseOfStep, PassToCome, Looping, handling_finished

\* A holder that is created or registered is in no thread's hands yet.
LEMMA AddStep ==
  ASSUME IndInv, NEW h \in Handlers, AddInsert(h) \/ AddEpoll(h)
  PROVE  HandlingInv'
<1> USE DEF IndInv, TypeOK
<1>1. /\ UNCHANGED <<handle_in_progress, pc, cur, batch, unseen, lost>>
      /\ phase[h] \in {"new", "created"}
      /\ phase' \in [Handlers -> Phases]
      /\ phase'[h] \in {"created", "registered"}
      /\ \A g \in Handlers \ {h} : phase'[g] = phase[g]
  BY DEF AddInsert, AddEpoll, threadVars, historyVars, Phases
<1>2. \A g \in Handlers : handling_finished(g) <=> handling_finished(g)'
  BY <1>1 DEF handling_finished
<1>3. HandlerExclusion' /\ LoopCounted'
  BY <1>1 DEF HandlerExclusion, LoopCounted, Looping
<1>4. FinishedCounted' /\ CounterOwned' /\ PassToCome'
  BY <1>1, <1>2 DEF FinishedCounted, CounterOwned, PassToCome, Looping
<1>5. PhaseOfStep'
  BY <1>1, ConstantsAssumption DEF PhaseOfStep
<1> QED
  BY <1>3, <1>4, <1>5 DEF HandlingInv

\* Outside the handling loop a thread moves without touching the counters, and
\* takes registered holders only.
LEMMA OutsideStep ==
  ASSUME IndInv, NEW t \in Threads,
         EpollWait(t) \/ EndBatch(t) \/ Return(t) \/ Release(t) \/ Rearm(t)
  PROVE  HandlingInv'
<1> USE DEF IndInv, TypeOK
<1>1. /\ UNCHANGED <<phase, handle_in_progress, unseen>>
      /\ lost \subseteq lost'
      /\ pc[t] \notin InLoop /\ pc'[t] \notin InLoop
      /\ \A u \in Threads \ {t} : pc'[u] = pc[u] /\ cur'[u] = cur[u] /\ batch'[u] = batch[u]
      /\ \A h \in batch'[t] : phase[h] \in {"registered", "deleted", "reset"}
  <2>1. CASE EpollWait(t)
    BY <2>1 DEF EpollWait, Goto, Deliverable, holderVars, historyVars, InLoop
  <2>2. CASE EndBatch(t)
    BY <2>2 DEF EndBatch, Goto, holderVars, historyVars, InLoop, PhaseOfStep
  <2>3. CASE Return(t)
    BY <2>3 DEF Return, Goto, holderVars, historyVars, InLoop, PhaseOfStep
  <2>4. CASE Release(t)
    BY <2>4 DEF Release, Goto, LocalsEnd, holderVars, historyVars, InLoop, PhaseOfStep
  <2>5. CASE Rearm(t)
    BY <2>5 DEF Rearm, Goto, Unwind, LocalsEnd, holderVars, InLoop, PhaseOfStep
  <2> QED
    BY <2>1, <2>2, <2>3, <2>4, <2>5
<1>2. \A u \in Threads, h \in Handlers :
         (Looping(u, h) <=> Looping(u, h)') /\ (pc[u] \in InLoop <=> pc'[u] \in InLoop)
  BY <1>1 DEF Looping
<1>3. HandlerExclusion' /\ LoopCounted'
  BY <1>1, <1>2 DEF HandlerExclusion, LoopCounted, Looping
<1>4. FinishedCounted' /\ CounterOwned'
  BY <1>1, <1>2 DEF FinishedCounted, CounterOwned, handling_finished
<1>5. PhaseOfStep'
  BY <1>1 DEF PhaseOfStep, InLoop
<1>6. PassToCome'
  BY <1>1, <1>2 DEF PassToCome, handling_finished, Looping, InLoop
<1> QED
  BY <1>3, <1>4, <1>5, <1>6 DEF HandlingInv

\* The entry: with the counter at zero nobody is in the loop and the handler is
\* not finished; above zero, the owner of the counter has the event to come.
LEMMA NextEventStep ==
  ASSUME IndInv, NEW t \in Threads, NextEvent(t)
  PROVE  HandlingInv'
<1> USE DEF IndInv, TypeOK
<1>1. PICK h \in batch[t] : Enter(t, h) \/ UseAfterFree(t, h)
  BY DEF NextEvent
<1>2. CASE UseAfterFree(t, h)
  BY <1>2, QuietStep DEF UseAfterFree, HandlingInv, holderVars, threadVars
<1>3. CASE Enter(t, h)
  <2> USE <1>3 DEF Enter, Goto
  <2>1. pc[t] = "next" /\ h \in Handlers /\ "next" \notin InLoop /\ "release" \notin InLoop
    BY <1>1 DEF NextEvent, InLoop
  <2>2. handle_in_progress'[h] = handle_in_progress[h] + 1
    BY <2>1
  <2>3. \A u \in Threads \ {t} : pc'[u] = pc[u] /\ cur'[u] = cur[u]
    OBVIOUS
  <2>4. CASE Captures(h)
    <3>1. pc'[t] = "read" /\ cur'[t] = h
      BY <2>4
    <3>2. \A u \in Threads : ~Looping(u, h)
      BY <2>1, <2>4 DEF Captures, LoopCounted, Looping
    <3>3. HandlerExclusion'
      BY <2>1, <2>3, <3>1, <3>2 DEF HandlerExclusion, Looping
    <3>4. LoopCounted' /\ FinishedCounted'
      BY <2>1, <2>3, <3>1 DEF LoopCounted, FinishedCounted, handling_finished
    <3>5. CounterOwned' /\ PassToCome'
      BY <2>1, <2>3, <2>4, <3>1
      DEF CounterOwned, PassToCome, Looping, InLoop, handling_finished
    <3>6. PhaseOfStep'
      BY <1>1, <2>1, <2>4 DEF PhaseOfStep, Captures, handling_finished
    <3> QED
      BY <3>3, <3>4, <3>5, <3>6 DEF HandlingInv
  <2>5. CASE ~Captures(h)
    <3>1. pc'[t] = "release"
      BY <2>5
    <3>2. handling_finished(h) \/ handle_in_progress[h] >= 1
      BY <2>1, <2>5 DEF Captures
    <3>3. handling_finished(h) \/ h \in lost \/ \E u \in Threads : Looping(u, h)
      BY <2>1, <3>2 DEF CounterOwned
    <3>4. HandlerExclusion' /\ LoopCounted' /\ FinishedCounted'
      BY <2>1, <2>3, <3>1
      DEF HandlerExclusion, LoopCounted, FinishedCounted, Looping, handling_finished
    <3>5. CounterOwned'
      BY <2>1, <2>3, <3>1, <3>3 DEF CounterOwned, Looping, handling_finished
    <3>6. PassToCome'
      BY <2>1, <2>2, <2>3, <2>5, <3>1, <3>3
      DEF PassToCome, LoopCounted, Looping, handling_finished
    <3>7. PhaseOfStep'
      BY <2>1, <3>1 DEF PhaseOfStep
    <3> QED
      BY <3>4, <3>5, <3>6, <3>7 DEF HandlingInv
  <2> QED
    BY <2>4, <2>5
<1> QED
  BY <1>1, <1>2, <1>3

\* The pass is what the delegated events waited for.
LEMMA ReadStep ==
  ASSUME IndInv, NEW t \in Threads, Read(t)
  PROVE  HandlingInv'
<1> USE DEF IndInv, TypeOK, Read, Goto, holderVars, cleanerVars, boundVars, stopVars, Looping, InLoop
<1>1. HandlerExclusion'
  BY DEF HandlerExclusion
<1>2. LoopCounted'
  BY DEF LoopCounted, HandlerExclusion
<1>3. FinishedCounted'
  BY DEF FinishedCounted, LoopCounted, PhaseOfStep, handling_finished
<1>4. CounterOwned'
  BY DEF CounterOwned, PhaseOfStep, handling_finished
<1>5. PhaseOfStep'
  BY DEF PhaseOfStep, HandlerExclusion
<1>6. PassToCome'
  BY DEF PassToCome, PhaseOfStep, HandlerExclusion, handling_finished
<1> QED
  BY <1>1, <1>2, <1>3, <1>4, <1>5, <1>6 DEF HandlingInv

\* The thread that leaves by an exception leaves its handler lost.
LEMMA HandlerThrowsStep ==
  ASSUME IndInv, NEW t \in Threads, HandlerThrows(t)
  PROVE  HandlingInv'
<1> USE DEF IndInv, TypeOK, HandlerThrows, Unwind, Goto, LocalsEnd, holderVars, Looping, InLoop
<1>1. HandlerExclusion'
  BY DEF HandlerExclusion
<1>2. LoopCounted'
  BY DEF LoopCounted, HandlerExclusion
<1>3. FinishedCounted'
  BY DEF FinishedCounted, LoopCounted, PhaseOfStep, handling_finished
<1>4. CounterOwned'
  BY DEF CounterOwned, PhaseOfStep, handling_finished
<1>5. PhaseOfStep'
  BY DEF PhaseOfStep, HandlerExclusion
<1>6. PassToCome'
  BY DEF PassToCome, PhaseOfStep, HandlerExclusion, handling_finished
<1> QED
  BY <1>1, <1>2, <1>3, <1>4, <1>5, <1>6 DEF HandlingInv

\* Flags change, or the removal begins.
LEMMA WriteStep ==
  ASSUME IndInv, NEW t \in Threads, Write(t)
  PROVE  HandlingInv'
<1> USE DEF IndInv, TypeOK, Write, Goto, historyVars, Looping, InLoop
<1>1. HandlerExclusion'
  BY DEF HandlerExclusion
<1>2. LoopCounted'
  BY DEF LoopCounted, HandlerExclusion
<1>3. FinishedCounted'
  BY DEF FinishedCounted, LoopCounted, PhaseOfStep, handling_finished
<1>4. CounterOwned'
  BY DEF CounterOwned, PhaseOfStep, handling_finished
<1>5. PhaseOfStep'
  BY DEF PhaseOfStep, HandlerExclusion
<1>6. PassToCome'
  BY DEF PassToCome, PhaseOfStep, HandlerExclusion, handling_finished
<1> QED
  BY <1>1, <1>2, <1>3, <1>4, <1>5, <1>6 DEF HandlingInv

\* The loop counts its own thread, so the finished handler is counted.
LEMMA DeleteStep ==
  ASSUME IndInv, NEW t \in Threads, Delete(t)
  PROVE  HandlingInv'
<1> USE DEF IndInv, TypeOK, Delete, Goto, historyVars, Looping, InLoop
<1>1. HandlerExclusion'
  BY DEF HandlerExclusion
<1>2. LoopCounted'
  BY DEF LoopCounted, HandlerExclusion
<1>3. FinishedCounted'
  BY DEF FinishedCounted, LoopCounted, PhaseOfStep, handling_finished
<1>4. CounterOwned'
  BY DEF CounterOwned, PhaseOfStep, handling_finished
<1>5. PhaseOfStep'
  BY DEF PhaseOfStep, HandlerExclusion
<1>6. PassToCome'
  BY DEF PassToCome, PhaseOfStep, HandlerExclusion, handling_finished
<1> QED
  BY <1>1, <1>2, <1>3, <1>4, <1>5, <1>6 DEF HandlingInv

\* Only one thread removes the handler.
LEMMA ResetStep ==
  ASSUME IndInv, NEW t \in Threads, Reset(t)
  PROVE  HandlingInv'
<1> USE DEF IndInv, TypeOK, Reset, Goto, historyVars, Looping, InLoop
<1>1. HandlerExclusion'
  BY DEF HandlerExclusion
<1>2. LoopCounted'
  BY DEF LoopCounted, HandlerExclusion
<1>3. FinishedCounted'
  BY DEF FinishedCounted, LoopCounted, PhaseOfStep, handling_finished
<1>4. CounterOwned'
  BY DEF CounterOwned, PhaseOfStep, handling_finished
<1>5. PhaseOfStep'
  BY DEF PhaseOfStep, HandlerExclusion
<1>6. PassToCome'
  BY DEF PassToCome, PhaseOfStep, HandlerExclusion, handling_finished
<1> QED
  BY <1>1, <1>2, <1>3, <1>4, <1>5, <1>6 DEF HandlingInv

\* The loop is left without the decrement: a finished handler stays counted.
LEMMA RetireStep ==
  ASSUME IndInv, NEW t \in Threads, Retire(t)
  PROVE  HandlingInv'
<1> USE DEF IndInv, TypeOK, Retire, Goto, AfterLoop, historyVars, Looping, InLoop
<1>1. HandlerExclusion'
  BY DEF HandlerExclusion
<1>2. LoopCounted'
  BY DEF LoopCounted, HandlerExclusion
<1>3. FinishedCounted'
  BY DEF FinishedCounted, LoopCounted, PhaseOfStep, handling_finished
<1>4. CounterOwned'
  BY DEF CounterOwned, PhaseOfStep, handling_finished
<1>5. PhaseOfStep'
  BY DEF PhaseOfStep, HandlerExclusion
<1>6. PassToCome'
  BY DEF PassToCome, PhaseOfStep, HandlerExclusion, handling_finished
<1> QED
  BY <1>1, <1>2, <1>3, <1>4, <1>5, <1>6 DEF HandlingInv

\* The loop ends only when no event is left: the counter returns to zero.
LEMMA DecrementStep ==
  ASSUME IndInv, NEW t \in Threads, Decrement(t)
  PROVE  HandlingInv'
<1> USE DEF IndInv, TypeOK, Decrement, Goto, AnotherPass, AfterLoop, historyVars, Looping, InLoop
<1>1. HandlerExclusion'
  BY DEF HandlerExclusion
<1>2. LoopCounted'
  BY DEF LoopCounted, HandlerExclusion
<1>3. FinishedCounted'
  BY DEF FinishedCounted, LoopCounted, PhaseOfStep, handling_finished
<1>4. CounterOwned'
  BY DEF CounterOwned, PhaseOfStep, handling_finished
<1>5. PhaseOfStep'
  BY DEF PhaseOfStep, HandlerExclusion
<1>6. PassToCome'
  BY DEF PassToCome, PhaseOfStep, HandlerExclusion, handling_finished
<1> QED
  BY <1>1, <1>2, <1>3, <1>4, <1>5, <1>6 DEF HandlingInv

-----------------------------------------------------------------------------
\* Every step keeps the invariant.
LEMMA StepInd == IndInv /\ [Next]_vars => IndInv'
<1> SUFFICES ASSUME IndInv, [Next]_vars PROVE IndInv'
  OBVIOUS
<1>a. IndInv <=> TypeOK /\ HandlingInv
  BY DEF IndInv, HandlingInv
<1>b. IndInv' <=> TypeOK' /\ HandlingInv'
  BY DEF IndInv, HandlingInv
<1>1. CASE Next
  <2>1. TypeOK'
    BY <1>1, TypeStep
  <2>2. ASSUME NEW t \in Threads, ThreadStep(t) PROVE HandlingInv'
    <3>1. CASE EpollTimeout(t)
      BY <3>1, <1>a, QuietStep DEF EpollTimeout, holderVars, threadVars, historyVars
    <3>2. CASE InHandleStep(t)
      BY <3>2, ReadStep, HandlerThrowsStep, WriteStep, DeleteStep, ResetStep,
         RetireStep, DecrementStep, OutsideStep DEF InHandleStep
    <3> QED
      BY <2>2, <3>1, <3>2, OutsideStep, NextEventStep DEF ThreadStep
  <2>3. ASSUME NEW h \in Handlers, AddInsert(h) \/ AddEpoll(h) PROVE HandlingInv'
    BY <2>3, AddStep
  <2>4. ASSUME NEW h \in Handlers, Wakeup(h) \/ Arrive(h) PROVE HandlingInv'
    BY <2>4, <1>a, QuietStep DEF Wakeup, Arrive, holderVars, threadVars, historyVars
  <2>5. ASSUME Stop \/ \E t \in Threads : Terminate(t) PROVE HandlingInv'
    BY <2>5, <1>a, QuietStep DEF Stop, Terminate, holderVars, threadVars, historyVars
  <2> QED
    BY <1>1, <1>b, <2>1, <2>2, <2>3, <2>4, <2>5 DEF Next
<1>2. CASE UNCHANGED vars
  <2>1. TypeOK'
    BY <1>2, <1>a DEF TypeOK, vars, kernelVars, holderVars, threadVars,
                      cleanerVars, stopVars, boundVars, historyVars
  <2>2. HandlingInv'
    BY <1>2, <1>a, QuietStep DEF vars, holderVars, threadVars, historyVars
  <2> QED
    BY <1>b, <2>1, <2>2
<1> QED
  BY <1>1, <1>2

-----------------------------------------------------------------------------
\* The invariant of every behaviour.
THEOREM Invariance == Spec => []IndInv
BY InitInd, StepInd, PTL DEF Spec

\* The types; above all handle_in_progress is never negative, as the
\* assertions of handle_ say.
THEOREM TypeCorrect == Spec => []TypeOK
<1>1. IndInv => TypeOK
  BY DEF IndInv
<1> QED
  BY <1>1, Invariance, PTL

\* No two threads are ever in the handling loop of one handler: "only one
\* thread can call handlers".
THEOREM Exclusion == Spec => []HandlerExclusion
<1>1. IndInv => HandlerExclusion
  BY DEF IndInv
<1> QED
  BY <1>1, Invariance, PTL

\* An event delegated to the thread in the loop is always followed by a pass.
THEOREM DelegationKept == Spec => []NoEventSwallowed
<1>1. IndInv => NoEventSwallowed
  BY DEF IndInv, PassToCome, NoEventSwallowed
<1> QED
  BY <1>1, Invariance, PTL

\* read() and write() are called on registered handlers only.
THEOREM CallsRegistered == Spec => []NoCallAfterStopped
<1>1. IndInv => NoCallAfterStopped
  BY DEF IndInv, PhaseOfStep, NoCallAfterStopped
<1> QED
  BY <1>1, Invariance, PTL

\* stopped() is called at most once for a handler.
THEOREM StopsOnce == Spec => StoppedOnce
<1>1. IndInv => \A t \in Threads : Delete(t) => ~handling_finished(cur[t])
  BY DEF IndInv, PhaseOfStep, Delete, handling_finished
<1>2. IndInv /\ [Next]_vars =>
        [\A t \in Threads : Delete(t) => ~handling_finished(cur[t])]_vars
  BY <1>1
<1> QED
  BY <1>2, Invariance, PTL DEF Spec, StoppedOnce

\* One thread at a time calls a handler, while it is registered, and stopped()
\* comes once.
THEOREM CallsAreGuarded == Spec => CallsGuarded
BY TypeCorrect, Exclusion, CallsRegistered, StopsOnce, PTL DEF CallsGuarded

-----------------------------------------------------------------------------
(* Without wakeups.                                                        *)

\* A holder is as its constructor left it until it is registered, and the map
\* has it until it is reset.
AsCreated ==
  \A h \in Handlers :
    /\ phase[h] \in {"new", "created"} => flags[h] = NewFlags
    /\ phase[h] \in {"created", "registered"} => h \in handlers_

\* Nobody delegates: the counter tells only whether a thread is in the loop.
NoneDelegated == \A h \in Handlers : handle_in_progress[h] <= 1

\* The token of a handler: armed in the kernel or in one thread's hands.
HeldByOne ==
  \A h \in Handlers : \A t, u \in Threads : Holds(t, h) /\ Holds(u, h) => t = u

HeldApart ==
  \A h \in Handlers : \A t \in Threads :
    Holds(t, h) =>
      /\ mask[h] = {} /\ h \notin lost
      /\ phase[h] = "registered" \/ (cur[t] = h /\ pc[t] \in {"reset", "retire"})

NeverNowhere ==
  \A h \in Handlers :
    phase[h] = "registered" /\ h \notin lost /\ mask[h] = {} =>
      \E t \in Threads : Holds(t, h)

LostDisarmed == \A h \in lost : phase[h] = "registered" /\ mask[h] = {}

ArmedRegistered ==
  \A h \in Handlers :
    mask[h] # {} => phase[h] = "registered" /\ mask[h] = ArmedFor(flags[h])

\* The locals of handle_: rearm_fd is set by a last pass only, and what the
\* thread handles is no longer among its events.
LocalsOfStep ==
  \A t \in Threads :
    /\ pc[t] \in {"wait", "return", "exited"} => batch[t] = {}
    /\ pc[t] \in {"dec", "rearm"} => rearm_fd[t]
    /\ rearm_fd[t] => pc[t] \in {"dec", "rearm", "release"}
    /\ pc[t] \in InLoop \cup {"rearm"} => cur[t] \notin batch[t]

TokenInv == /\ NoFault
            /\ AsCreated
            /\ NoneDelegated
            /\ HeldByOne
            /\ HeldApart
            /\ NeverNowhere
            /\ LostDisarmed
            /\ ArmedRegistered
            /\ LocalsOfStep

LEMMA TokenInit == Init => TokenInv
<1> SUFFICES ASSUME Init PROVE TokenInv
  OBVIOUS
<1> USE ConstantsAssumption DEF Init
<1>1. \A t \in Threads, h \in Handlers : ~Holds(t, h)
  BY DEF Holds, Looping, InLoop
<1>2. HeldByOne /\ HeldApart
  BY <1>1 DEF HeldByOne, HeldApart
<1>3. NeverNowhere /\ ArmedRegistered
  BY DEF NeverNowhere, ArmedRegistered, Armed, ArmedFor, NewFlags
<1>4. AsCreated /\ NoneDelegated /\ NoFault /\ LostDisarmed
  BY DEF AsCreated, NoneDelegated, NoFault, LostDisarmed
<1>5. LocalsOfStep
  BY DEF LocalsOfStep, InLoop
<1> QED
  BY <1>2, <1>3, <1>4, <1>5 DEF TokenInv

\* A step that leaves every token where it is, and writes the flags of a
\* disarmed handler only.
LEMMA TokenStays ==
  ASSUME TokenInv,
         UNCHANGED <<mask, phase, lost, handlers_, fault>>,
         \A h \in Handlers :
           flags'[h] # flags[h] => mask[h] = {} /\ phase[h] = "registered",
         \A t \in Threads, h \in Handlers : Holds(t, h)' <=> Holds(t, h),
         \A t \in Threads :
           pc[t] \in {"reset", "retire"} => pc'[t] = pc[t] /\ cur'[t] = cur[t],
         NoneDelegated', LocalsOfStep'
  PROVE  TokenInv'
<1> USE DEF TokenInv
<1>1. NoFault' /\ LostDisarmed'
  BY DEF NoFault, LostDisarmed
<1>2. AsCreated'
  BY DEF AsCreated
<1>3. HeldByOne'
  BY DEF HeldByOne
<1>4. HeldApart'
  BY DEF HeldApart
<1>5. NeverNowhere'
  BY DEF NeverNowhere
<1>6. ArmedRegistered'
  BY DEF ArmedRegistered, ArmedFor
<1> QED
  BY <1>1, <1>2, <1>3, <1>4, <1>5, <1>6

\* Steps of a thread outside the loop that moves no token.
LEMMA TokenOutside ==
  ASSUME IndInv, TokenInv, NEW t \in Threads,
         EpollTimeout(t) \/ EndBatch(t) \/ Return(t) \/ Release(t)
  PROVE  TokenInv'
<1> USE DEF IndInv, TypeOK
<1>1. /\ UNCHANGED <<mask, phase, lost, handlers_, fault, flags, handle_in_progress, batch>>
      /\ pc[t] \notin InLoop \cup {"rearm"} /\ pc'[t] \notin InLoop \cup {"rearm"}
      /\ \A u \in Threads \ {t} : pc'[u] = pc[u] /\ cur'[u] = cur[u] /\ rearm_fd'[u] = rearm_fd[u]
      /\ pc'[t] \in {"wait", "return", "exited"} => batch[t] = {}
      /\ ~rearm_fd'[t]
  <2>1. CASE EpollTimeout(t)
    BY <2>1 DEF EpollTimeout, kernelVars, holderVars, threadVars, historyVars, InLoop,
                TokenInv, LocalsOfStep
  <2>2. CASE EndBatch(t)
    BY <2>2 DEF EndBatch, Goto, kernelVars, holderVars, historyVars, InLoop, TokenInv,
                LocalsOfStep
  <2>3. CASE Return(t)
    BY <2>3 DEF Return, Goto, kernelVars, holderVars, historyVars, InLoop, TokenInv,
                LocalsOfStep
  <2>4. CASE Release(t)
    BY <2>4 DEF Release, Goto, LocalsEnd, kernelVars, holderVars, historyVars, InLoop
  <2> QED
    BY <2>1, <2>2, <2>3, <2>4
<1>2. \A u \in Threads, h \in Handlers : Holds(u, h)' <=> Holds(u, h)
  BY <1>1 DEF Holds, Looping
<1>3. NoneDelegated' /\ LocalsOfStep'
  BY <1>1 DEF TokenInv, NoneDelegated, LocalsOfStep, InLoop
<1>4. \A u \in Threads :
        pc[u] \in {"reset", "retire"} => pc'[u] = pc[u] /\ cur'[u] = cur[u]
  BY <1>1 DEF InLoop
<1> QED
  BY <1>1, <1>2, <1>3, <1>4, TokenStays

\* The peers and the deactivation touch no thread and no holder.
LEMMA TokenOthers ==
  ASSUME TokenInv,
         UNCHANGED <<mask, phase, lost, handlers_, fault, flags, handle_in_progress,
                     batch, pc, cur, rearm_fd>>
  PROVE  TokenInv'
<1>1. \A u \in Threads, h \in Handlers : Holds(u, h)' <=> Holds(u, h)
  BY DEF Holds, Looping
<1>2. NoneDelegated' /\ LocalsOfStep'
  BY DEF TokenInv, NoneDelegated, LocalsOfStep
<1> QED
  BY <1>1, <1>2, TokenStays

\* add(): nobody has the new handler before it is registered and armed.
LEMMA TokenAdd ==
  ASSUME IndInv, TokenInv, NEW h \in Handlers, AddInsert(h) \/ AddEpoll(h)
  PROVE  TokenInv'
<1> USE DEF IndInv, TypeOK
<1>1. /\ UNCHANGED <<lost, fault, flags, handle_in_progress, batch, pc, cur, rearm_fd>>
      /\ phase[h] \in {"new", "created"} /\ h \in handlers_'
      /\ phase' \in [Handlers -> Phases]
      /\ \A g \in Handlers \ {h} : phase'[g] = phase[g] /\ mask'[g] = mask[g]
      /\ handlers_ \subseteq handlers_'
      /\ \/ phase'[h] = "created" /\ mask'[h] = mask[h]
         \/ phase'[h] = "registered" /\ mask'[h] = ArmedFor(flags[h]) /\ mask'[h] # {}
  <2>1. CASE AddInsert(h)
    BY <2>1 DEF AddInsert, threadVars, historyVars, kernelVars, Phases
  <2>2. CASE AddEpoll(h)
    <3>1. flags[h] = NewFlags /\ h \in handlers_
      BY <2>2 DEF AddEpoll, TokenInv, AsCreated
    <3>2. ArmedFor(flags[h]) = Armed(TRUE, TRUE) /\ Armed(TRUE, TRUE) # {}
      BY <3>1 DEF ArmedFor, Armed, NewFlags
    <3> QED
      BY <2>2, <3>1, <3>2 DEF AddEpoll, threadVars, historyVars, Phases
  <2> QED
    BY <2>1, <2>2
<1>2. \A u \in Threads, g \in Handlers : Holds(u, g)' <=> Holds(u, g)
  BY <1>1 DEF Holds, Looping
<1>3. \A u \in Threads : ~Holds(u, h)
  BY <1>1 DEF TokenInv, HeldApart, PhaseOfStep
<1>4. h \notin lost
  BY <1>1 DEF TokenInv, LostDisarmed
<1> USE DEF TokenInv
<1>5. NoFault' /\ NoneDelegated' /\ LocalsOfStep'
  BY <1>1 DEF NoFault, NoneDelegated, LocalsOfStep
<1>6. AsCreated'
  BY <1>1 DEF AsCreated
<1>7. HeldByOne' 
  BY <1>2 DEF HeldByOne
<1>8. HeldApart'
  BY <1>1, <1>2, <1>3 DEF HeldApart
<1>9. NeverNowhere'
  BY <1>1, <1>2 DEF NeverNowhere
<1>10. LostDisarmed'
  BY <1>1, <1>4 DEF LostDisarmed
<1>11. ArmedRegistered'
  BY <1>1 DEF ArmedRegistered, ArmedFor
<1> QED
  BY <1>5, <1>6, <1>7, <1>8, <1>9, <1>10, <1>11

\* Delivery: the kernel's token passes to the thread.
LEMMA TokenEpollWait ==
  ASSUME IndInv, TokenInv, NEW t \in Threads, EpollWait(t)
  PROVE  TokenInv'
<1> USE DEF IndInv, TypeOK
<1> DEFINE D == Deliverable
<1>1. /\ UNCHANGED <<phase, lost, handlers_, fault, flags, handle_in_progress, cur, rearm_fd>>
      /\ pc[t] = "wait" /\ pc'[t] = "next"
      /\ batch'[t] = D /\ batch[t] = {} /\ ~rearm_fd[t]
      /\ \A u \in Threads \ {t} : pc'[u] = pc[u] /\ batch'[u] = batch[u]
      /\ mask' = [h \in Handlers |-> IF h \in D THEN {} ELSE mask[h]]
  BY DEF EpollWait, Goto, AfterDelivery, holderVars, historyVars, TokenInv, LocalsOfStep
<1>2. \A h \in D : h \in Handlers /\ phase[h] = "registered" /\ mask[h] # {}
  BY DEF Deliverable
<1>3. \A u \in Threads \ {t}, h \in Handlers : Holds(u, h)' <=> Holds(u, h)
  BY <1>1 DEF Holds, Looping
<1>4. \A h \in Handlers : ~Holds(t, h) /\ (Holds(t, h)' <=> h \in D)
  BY <1>1 DEF Holds, Looping, InLoop
<1>5. \A h \in D : h \notin lost /\ \A u \in Threads : ~Holds(u, h)
  BY <1>2 DEF TokenInv, HeldApart, LostDisarmed
<1> HIDE DEF D
<1> USE DEF TokenInv
<1>6. NoFault' /\ NoneDelegated' /\ AsCreated'
  BY <1>1 DEF NoFault, NoneDelegated, AsCreated
<1>7. LocalsOfStep'
  BY <1>1 DEF LocalsOfStep, InLoop
<1>8. HeldByOne'
  <2> SUFFICES ASSUME NEW h \in Handlers, NEW u \in Threads, NEW v \in Threads,
                      Holds(u, h)', Holds(v, h)'
               PROVE  u = v
    BY DEF HeldByOne
  <2>1. CASE h \in D
    BY <1>3, <1>5, <2>1
  <2>2. CASE h \notin D
    BY <1>3, <1>4, <2>2 DEF HeldByOne
  <2> QED
    BY <2>1, <2>2
<1>9. HeldApart'
  <2> SUFFICES ASSUME NEW h \in Handlers, NEW u \in Threads, Holds(u, h)'
               PROVE  /\ mask'[h] = {} /\ h \notin lost'
                      /\ phase'[h] = "registered" \/ (cur'[u] = h /\ pc'[u] \in {"reset", "retire"})
    BY DEF HeldApart
  <2>1. CASE u = t
    BY <1>1, <1>2, <1>4, <1>5, <2>1
  <2>2. CASE u # t
    BY <1>1, <1>3, <2>2 DEF HeldApart
  <2> QED
    BY <2>1, <2>2
<1>10. NeverNowhere'
  <2> SUFFICES ASSUME NEW h \in Handlers, phase[h] = "registered", h \notin lost, mask'[h] = {}
               PROVE  \E u \in Threads : Holds(u, h)'
    BY <1>1 DEF NeverNowhere
  <2>1. CASE h \in D
    BY <1>4, <2>1
  <2>2. CASE h \notin D
    BY <1>1, <1>3, <1>4, <2>2 DEF NeverNowhere
  <2> QED
    BY <2>1, <2>2
<1>11. LostDisarmed'
  BY <1>1 DEF LostDisarmed
<1>12. ArmedRegistered'
  BY <1>1 DEF ArmedRegistered, ArmedFor
<1> QED
  BY <1>6, <1>7, <1>8, <1>9, <1>10, <1>11, <1>12

\* The events in a thread's hands are alive, their handlers are registered, and
\* nobody is in them: the thread enters each of them.
LEMMA TokenNextEvent ==
  ASSUME IndInv, TokenInv, NEW t \in Threads, NextEvent(t)
  PROVE  TokenInv'
<1> USE DEF IndInv, TypeOK
<1>1. PICK h \in batch[t] : Enter(t, h) \/ UseAfterFree(t, h)
  BY DEF NextEvent
<1>2. pc[t] = "next" /\ h \in Handlers /\ Holds(t, h)
  BY <1>1 DEF NextEvent, Holds
<1>3. phase[h] = "registered" /\ h \notin lost
  BY <1>2 DEF TokenInv, HeldApart
<1>4. Alive(h)
  BY <1>2, <1>3 DEF TokenInv, AsCreated, Alive
<1>5. Enter(t, h)
  BY <1>1, <1>4 DEF UseAfterFree
<1>6. \A u \in Threads : ~Looping(u, h)
  BY <1>2 DEF TokenInv, HeldByOne, Holds, Looping, InLoop
<1>7. handle_in_progress[h] = 0 /\ Captures(h)
  BY <1>2, <1>3, <1>6 DEF CounterOwned, handling_finished, Captures
<1>8. /\ UNCHANGED <<mask, phase, lost, handlers_, fault, flags, rearm_fd>>
      /\ pc'[t] = "read" /\ cur'[t] = h /\ batch'[t] = batch[t] \ {h}
      /\ handle_in_progress' = [handle_in_progress EXCEPT ![h] = 1]
      /\ \A u \in Threads \ {t} : pc'[u] = pc[u] /\ cur'[u] = cur[u] /\ batch'[u] = batch[u]
  BY <1>2, <1>5, <1>7 DEF Enter, Goto, kernelVars
<1>9. \A u \in Threads, g \in Handlers : Holds(u, g)' <=> Holds(u, g)
  BY <1>1, <1>2, <1>8 DEF Holds, Looping, InLoop
<1>10. NoneDelegated'
  BY <1>8 DEF TokenInv, NoneDelegated
<1>11. LocalsOfStep'
  BY <1>2, <1>8 DEF TokenInv, LocalsOfStep, InLoop
<1>12. \A u \in Threads :
         pc[u] \in {"reset", "retire"} => pc'[u] = pc[u] /\ cur'[u] = cur[u]
  BY <1>2, <1>8
<1> QED
  BY <1>8, <1>9, <1>10, <1>11, <1>12, TokenStays

\* A pass writes the flags of the handler that the thread holds.
LEMMA TokenPass ==
  ASSUME IndInv, TokenInv, NEW t \in Threads, Read(t) \/ Write(t)
  PROVE  TokenInv'
<1> USE DEF IndInv, TypeOK
<1>1. /\ UNCHANGED <<mask, phase, lost, handlers_, fault, handle_in_progress, cur, batch>>
      /\ pc[t] \in {"read", "write"}
      /\ \/ pc'[t] \in {"write", "delete"} /\ rearm_fd' = rearm_fd
         \/ pc'[t] = "dec" /\ rearm_fd' = [rearm_fd EXCEPT ![t] = TRUE]
      /\ \A u \in Threads \ {t} : pc'[u] = pc[u]
      /\ \A g \in Handlers \ {cur[t]} : flags'[g] = flags[g]
  <2>1. CASE Read(t)
    BY <2>1 DEF Read, Goto
  <2>2. CASE Write(t)
    BY <2>2 DEF Write, Goto, historyVars
  <2> QED
    BY <2>1, <2>2
<1>2. Holds(t, cur[t])
  BY <1>1 DEF Holds, Looping, InLoop
<1>3. mask[cur[t]] = {} /\ phase[cur[t]] = "registered"
  BY <1>1, <1>2 DEF TokenInv, HeldApart
<1>4. \A u \in Threads, g \in Handlers : Holds(u, g)' <=> Holds(u, g)
  BY <1>1 DEF Holds, Looping, InLoop
<1>5. NoneDelegated'
  BY <1>1 DEF TokenInv, NoneDelegated
<1>6. LocalsOfStep'
  <2>1. ~rearm_fd[t] /\ cur[t] \notin batch[t]
    BY <1>1 DEF TokenInv, LocalsOfStep, InLoop
  <2> QED
    BY <1>1, <2>1 DEF TokenInv, LocalsOfStep, InLoop
<1>7. \A u \in Threads :
        pc[u] \in {"reset", "retire"} => pc'[u] = pc[u] /\ cur'[u] = cur[u]
  BY <1>1
<1> QED
  BY <1>1, <1>3, <1>4, <1>5, <1>6, <1>7, TokenStays

\* Without a delegated event the first pass is the last, and the loop ends with
\* the re-arm to come.
LEMMA TokenDecrement ==
  ASSUME IndInv, TokenInv, NEW t \in Threads, Decrement(t)
  PROVE  TokenInv'
<1> USE DEF IndInv, TypeOK
<1> DEFINE h == cur[t]
<1>1. h \in Handlers /\ handle_in_progress[h] = 1 /\ ~AnotherPass(h)
  BY DEF Decrement, TokenInv, NoneDelegated, LoopCounted, InLoop, AnotherPass
<1>2. rearm_fd[t]
  BY DEF Decrement, TokenInv, LocalsOfStep
<1>3. /\ UNCHANGED <<mask, phase, lost, handlers_, fault, flags, cur, batch, rearm_fd>>
      /\ pc[t] = "dec" /\ pc'[t] = "rearm"
      /\ handle_in_progress' = [handle_in_progress EXCEPT ![h] = @ - 1]
      /\ \A u \in Threads \ {t} : pc'[u] = pc[u]
  BY <1>1, <1>2 DEF Decrement, Goto, AfterLoop, kernelVars, historyVars
<1>4. \A u \in Threads, g \in Handlers : Holds(u, g)' <=> Holds(u, g)
  BY <1>3 DEF Holds, Looping, InLoop
<1>5. NoneDelegated'
  BY <1>1, <1>3 DEF TokenInv, NoneDelegated
<1>6. LocalsOfStep'
  BY <1>3 DEF TokenInv, LocalsOfStep, InLoop
<1>7. \A u \in Threads :
        pc[u] \in {"reset", "retire"} => pc'[u] = pc[u] /\ cur'[u] = cur[u]
  BY <1>3
<1> QED
  BY <1>3, <1>4, <1>5, <1>6, <1>7, TokenStays

\* The removal: the holder stays in the hands of the thread that removes it.
LEMMA TokenRemoval ==
  ASSUME IndInv, TokenInv, NEW t \in Threads, Delete(t) \/ Reset(t)
  PROVE  TokenInv'
<1> USE DEF IndInv, TypeOK
<1> DEFINE h == cur[t]
<1>1. /\ UNCHANGED <<lost, handlers_, fault, flags, handle_in_progress, cur, batch, rearm_fd>>
      /\ pc[t] \in {"delete", "reset"} /\ pc'[t] \in {"reset", "retire"}
      /\ phase'[h] \in {"deleted", "reset"}
      /\ \A u \in Threads \ {t} : pc'[u] = pc[u]
      /\ \A g \in Handlers \ {h} : phase'[g] = phase[g] /\ mask'[g] = mask[g]
      /\ mask'[h] = {} \/ mask'[h] = mask[h]
  <2>1. CASE Delete(t)
    BY <2>1 DEF Delete, Goto, historyVars
  <2>2. CASE Reset(t)
    BY <2>2 DEF Reset, Goto, kernelVars, historyVars
  <2> QED
    BY <2>1, <2>2
<1>2. h \in Handlers /\ Holds(t, h)
  BY <1>1 DEF Holds, Looping, InLoop
<1>3. mask[h] = {} /\ mask'[h] = {} /\ h \notin lost /\ \A u \in Threads \ {t} : ~Holds(u, h)
  BY <1>1, <1>2 DEF TokenInv, HeldApart, HeldByOne
<1>4. \A u \in Threads, g \in Handlers : Holds(u, g)' <=> Holds(u, g)
  BY <1>1 DEF Holds, Looping, InLoop
<1>5. h \notin batch[t] /\ ~rearm_fd[t]
  BY <1>1 DEF TokenInv, LocalsOfStep, InLoop
<1> USE DEF TokenInv
<1>6. NoFault' /\ NoneDelegated'
  BY <1>1 DEF NoFault, NoneDelegated
<1>7. AsCreated'
  BY <1>1, <1>2 DEF AsCreated
<1>8. HeldByOne'
  BY <1>4 DEF HeldByOne
<1>9. HeldApart'
  <2> SUFFICES ASSUME NEW g \in Handlers, NEW u \in Threads, Holds(u, g)
               PROVE  /\ mask'[g] = {} /\ g \notin lost'
                      /\ phase'[g] = "registered" \/ (cur'[u] = g /\ pc'[u] \in {"reset", "retire"})
    BY <1>4 DEF HeldApart
  <2>1. CASE g = h
    <3>1. u = t
      BY <1>3, <2>1
    <3> QED
      BY <1>1, <1>3, <2>1, <3>1
  <2>2. CASE g # h
    <3>1. mask[g] = {} /\ g \notin lost
          /\ (phase[g] = "registered" \/ (cur[u] = g /\ pc[u] \in {"reset", "retire"}))
      BY DEF HeldApart
    <3> QED
      BY <1>1, <2>2, <3>1
  <2> QED
    BY <2>1, <2>2
<1>10. NeverNowhere'
  BY <1>1, <1>2, <1>4 DEF NeverNowhere
<1>11. LostDisarmed'
  BY <1>1, <1>3 DEF LostDisarmed
<1>12. ArmedRegistered'
  BY <1>1, <1>3 DEF ArmedRegistered, ArmedFor
<1>13. LocalsOfStep'
  BY <1>1, <1>5 DEF LocalsOfStep, InLoop
<1> QED
  BY <1>6, <1>7, <1>8, <1>9, <1>10, <1>11, <1>12, <1>13

\* The removed handler leaves the thread's hands for good.
LEMMA TokenRetire ==
  ASSUME IndInv, TokenInv, NEW t \in Threads, Retire(t)
  PROVE  TokenInv'
<1> USE DEF IndInv, TypeOK
<1> DEFINE h == cur[t]
<1>1. ~rearm_fd[t] /\ h \notin batch[t]
  BY DEF Retire, TokenInv, LocalsOfStep, InLoop
<1>2. /\ UNCHANGED <<mask, phase, lost, fault, flags, handle_in_progress, cur, batch, rearm_fd>>
      /\ pc[t] = "retire" /\ pc'[t] = "release" /\ handlers_' = handlers_ \ {h}
      /\ \A u \in Threads \ {t} : pc'[u] = pc[u]
      /\ phase[h] = "reset" /\ h \in Handlers
  BY <1>1 DEF Retire, Goto, AfterLoop, kernelVars, historyVars, PhaseOfStep
<1>3. Holds(t, h)
  BY <1>2 DEF Holds, Looping, InLoop
<1>4. \A u \in Threads \ {t} : ~Holds(u, h)
  BY <1>3, <1>2 DEF TokenInv, HeldByOne
<1>5. \A u \in Threads, g \in Handlers : Holds(u, g)' <=> Holds(u, g) /\ g # h
  <2>1. \A u \in Threads \ {t}, g \in Handlers : Holds(u, g)' <=> Holds(u, g) /\ g # h
    BY <1>2, <1>4 DEF Holds, Looping, InLoop
  <2>2. \A g \in Handlers : Holds(t, g)' <=> Holds(t, g) /\ g # h
    BY <1>1, <1>2 DEF Holds, Looping, InLoop
  <2> QED
    BY <2>1, <2>2
<1> USE DEF TokenInv
<1>6. NoFault' /\ NoneDelegated' /\ LostDisarmed' /\ ArmedRegistered'
  BY <1>2 DEF NoFault, NoneDelegated, LostDisarmed, ArmedRegistered, ArmedFor
<1>7. AsCreated'
  BY <1>2 DEF AsCreated
<1>8. HeldByOne'
  BY <1>5 DEF HeldByOne
<1>9. HeldApart'
  BY <1>2, <1>5 DEF HeldApart
<1>10. NeverNowhere'
  BY <1>2, <1>5 DEF NeverNowhere
<1>11. LocalsOfStep'
  BY <1>1, <1>2 DEF LocalsOfStep, InLoop
<1> QED
  BY <1>6, <1>7, <1>8, <1>9, <1>10, <1>11

\* The re-arm gives the token back to the kernel; the handler is registered.
LEMMA TokenRearm ==
  ASSUME IndInv, TokenInv, NEW t \in Threads, Rearm(t)
  PROVE  TokenInv'
<1> USE DEF IndInv, TypeOK
<1> DEFINE h == cur[t]
<1>1. pc[t] = "rearm" /\ h \in Handlers /\ Holds(t, h)
  BY DEF Rearm, Holds
<1>2. phase[h] = "registered" /\ h \notin lost
  BY <1>1 DEF TokenInv, HeldApart
<1>3. RearmMask(h) = ArmedFor(flags[h]) /\ RearmMask(h) # {}
  BY DEF RearmMask, ArmedFor, Armed
<1>4. /\ UNCHANGED <<phase, handlers_, lost, fault, flags, handle_in_progress, cur, batch, rearm_fd>>
      /\ pc'[t] = "release"
      /\ \A u \in Threads \ {t} : pc'[u] = pc[u]
      /\ mask' = [mask EXCEPT ![h] = ArmedFor(flags[h])]
  BY <1>2, <1>3 DEF Rearm, Goto, holderVars
<1>5. h \notin batch[t]
  BY <1>1 DEF TokenInv, LocalsOfStep
<1>6. \A u \in Threads \ {t} : ~Holds(u, h)
  BY <1>1 DEF TokenInv, HeldByOne
<1>7. \A u \in Threads, g \in Handlers : Holds(u, g)' <=> Holds(u, g) /\ g # h
  <2>1. \A u \in Threads \ {t}, g \in Handlers : Holds(u, g)' <=> Holds(u, g) /\ g # h
    BY <1>4, <1>6 DEF Holds, Looping, InLoop
  <2>2. \A g \in Handlers : Holds(t, g)' <=> Holds(t, g) /\ g # h
    BY <1>1, <1>4, <1>5 DEF Holds, Looping, InLoop
  <2> QED
    BY <2>1, <2>2
<1> USE DEF TokenInv
<1>8. NoFault' /\ NoneDelegated' /\ AsCreated'
  BY <1>4 DEF NoFault, NoneDelegated, AsCreated
<1>9. HeldByOne'
  BY <1>7 DEF HeldByOne
<1>10. HeldApart'
  <2> SUFFICES ASSUME NEW g \in Handlers, NEW u \in Threads, Holds(u, g), g # h
               PROVE  /\ mask'[g] = {} /\ g \notin lost'
                      /\ phase'[g] = "registered" \/ (cur'[u] = g /\ pc'[u] \in {"reset", "retire"})
    BY <1>7 DEF HeldApart
  <2>1. mask[g] = {} /\ g \notin lost
        /\ (phase[g] = "registered" \/ (cur[u] = g /\ pc[u] \in {"reset", "retire"}))
    BY DEF HeldApart
  <2> QED
    BY <1>1, <1>4, <2>1
<1>11. NeverNowhere'
  <2> SUFFICES ASSUME NEW g \in Handlers, phase[g] = "registered", g \notin lost, mask'[g] = {}
               PROVE  \E u \in Threads : Holds(u, g)'
    BY <1>4 DEF NeverNowhere
  <2>1. g # h /\ mask[g] = {}
    BY <1>3, <1>4
  <2> QED
    BY <1>7, <2>1 DEF NeverNowhere
<1>12. LostDisarmed'
  BY <1>2, <1>4 DEF LostDisarmed
<1>13. ArmedRegistered'
  BY <1>2, <1>4 DEF ArmedRegistered, ArmedFor
<1>14. LocalsOfStep'
  BY <1>1, <1>4 DEF LocalsOfStep, InLoop
<1> QED
  BY <1>8, <1>9, <1>10, <1>11, <1>12, <1>13, <1>14

\* An exception drops the tokens in the thread's hands: they are lost.
LEMMA TokenThrows ==
  ASSUME IndInv, TokenInv, NEW t \in Threads, HandlerThrows(t)
  PROVE  TokenInv'
<1> USE DEF IndInv, TypeOK
<1> DEFINE h == cur[t]
<1>1. /\ UNCHANGED <<mask, phase, handlers_, fault, flags, handle_in_progress>>
      /\ pc[t] \in {"read", "write"} /\ pc'[t] = "return" /\ ~rearm_fd'[t] /\ batch'[t] = {}
      /\ lost' = lost \cup {h} \cup batch[t]
      /\ \A u \in Threads \ {t} : /\ pc'[u] = pc[u] /\ cur'[u] = cur[u]
                                  /\ rearm_fd'[u] = rearm_fd[u] /\ batch'[u] = batch[u]
      /\ h \in Handlers
  BY DEF HandlerThrows, Unwind, Goto, LocalsEnd, kernelVars, holderVars
<1>2. \A g \in Handlers : Holds(t, g) <=> g \in {h} \cup batch[t]
  BY <1>1 DEF Holds, Looping, InLoop
<1>3. \A g \in Handlers : ~Holds(t, g)'
  BY <1>1 DEF Holds, Looping, InLoop
<1>4. \A u \in Threads \ {t}, g \in Handlers : Holds(u, g)' <=> Holds(u, g)
  BY <1>1 DEF Holds, Looping
<1>5. \A g \in Handlers : Holds(t, g) => phase[g] = "registered" /\ mask[g] = {}
  BY <1>1 DEF TokenInv, HeldApart
<1> USE DEF TokenInv
<1>6. NoFault' /\ NoneDelegated' /\ AsCreated' /\ ArmedRegistered'
  BY <1>1 DEF NoFault, NoneDelegated, AsCreated, ArmedRegistered, ArmedFor
<1>7. HeldByOne'
  BY <1>3, <1>4 DEF HeldByOne
<1>8. HeldApart'
  <2> SUFFICES ASSUME NEW g \in Handlers, NEW u \in Threads, u # t, Holds(u, g)
               PROVE  /\ mask'[g] = {} /\ g \notin lost'
                      /\ phase'[g] = "registered" \/ (cur'[u] = g /\ pc'[u] \in {"reset", "retire"})
    BY <1>3, <1>4 DEF HeldApart
  <2>1. mask[g] = {} /\ g \notin lost
        /\ (phase[g] = "registered" \/ (cur[u] = g /\ pc[u] \in {"reset", "retire"}))
    BY DEF HeldApart
  <2>2. ~Holds(t, g)
    BY DEF HeldByOne
  <2> QED
    BY <1>1, <1>2, <2>1, <2>2
<1>9. NeverNowhere'
  <2> SUFFICES ASSUME NEW g \in Handlers, phase[g] = "registered", g \notin lost', mask[g] = {}
               PROVE  \E u \in Threads : Holds(u, g)'
    BY <1>1 DEF NeverNowhere
  <2>1. g \notin lost /\ ~Holds(t, g)
    BY <1>1, <1>2
  <2>2. PICK u \in Threads : Holds(u, g)
    BY <2>1 DEF NeverNowhere
  <2> QED
    BY <1>4, <2>1, <2>2
<1>10. LostDisarmed'
  <2> SUFFICES ASSUME NEW g \in lost' PROVE phase[g] = "registered" /\ mask[g] = {}
    BY <1>1 DEF LostDisarmed
  <2>1. CASE g \in lost
    BY <2>1 DEF LostDisarmed
  <2>2. CASE g \in {h} \cup batch[t]
    BY <1>1, <1>2, <1>5, <2>2
  <2> QED
    BY <1>1, <2>1, <2>2
<1>11. LocalsOfStep'
  BY <1>1 DEF LocalsOfStep, InLoop
<1> QED
  BY <1>6, <1>7, <1>8, <1>9, <1>10, <1>11

-----------------------------------------------------------------------------
\* Every step without a wakeup keeps the tokens.
LEMMA TokenStep ==
  ASSUME MaxWakeups = 0
  PROVE  IndInv /\ TokenInv /\ [Next]_vars => TokenInv'
<1> SUFFICES ASSUME IndInv, TokenInv, [Next]_vars PROVE TokenInv'
  OBVIOUS
<1> USE DEF kernelVars, holderVars, threadVars, historyVars
<1>1. ASSUME NEW t \in Threads, ThreadStep(t) PROVE TokenInv'
  BY <1>1, TokenOutside, TokenEpollWait, TokenNextEvent, TokenPass, TokenDecrement,
     TokenRemoval, TokenRetire, TokenRearm, TokenThrows DEF ThreadStep, InHandleStep
<1>2. ASSUME NEW h \in Handlers, AddInsert(h) \/ AddEpoll(h) PROVE TokenInv'
  BY <1>2, TokenAdd
<1>3. ASSUME NEW h \in Handlers PROVE ~Wakeup(h)
  <2>1. wakeups \in Nat
    BY DEF IndInv, TypeOK
  <2>2. ~(wakeups < MaxWakeups)
    BY <2>1
  <2> QED
    BY <2>2 DEF Wakeup
<1>4. ASSUME NEW h \in Handlers, Arrive(h) PROVE TokenInv'
  BY <1>4, TokenOthers DEF Arrive
<1>5. ASSUME Stop \/ \E t \in Threads : Terminate(t) PROVE TokenInv'
  BY <1>5, TokenOthers DEF Stop, Terminate
<1>6. CASE UNCHANGED vars
  BY <1>6, TokenOthers DEF vars
<1> QED
  BY <1>1, <1>2, <1>3, <1>4, <1>5, <1>6 DEF Next

\* Without wakeups every registered handler has one token, which no step drops
\* but an exception.
LEMMA TokenInvariance == ASSUME MaxWakeups = 0 PROVE Spec => []TokenInv
BY TokenInit, TokenStep, InitInd, StepInd, PTL DEF Spec

\* The one-shot registration is a token: a registered handler is armed, or in
\* exactly one thread's events or hands, never nowhere and never twice.
THEOREM TokenHasOneOwner == ASSUME MaxWakeups = 0 PROVE Spec => []OneOwner
<1>1. TokenInv => OneOwner
  <2> SUFFICES ASSUME TokenInv, NEW h \in Handlers, phase[h] = "registered", h \notin lost
               PROVE  IF mask[h] # {} THEN \A t \in Threads : ~Holds(t, h)
                      ELSE \E t \in Threads : \A u \in Threads : Holds(u, h) <=> u = t
    BY DEF OneOwner
  <2>1. CASE mask[h] # {}
    BY <2>1 DEF TokenInv, HeldApart
  <2>2. CASE mask[h] = {}
    <3>1. PICK t \in Threads : Holds(t, h)
      BY <2>2 DEF TokenInv, NeverNowhere
    <3>2. \A u \in Threads : Holds(u, h) <=> u = t
      BY <3>1 DEF TokenInv, HeldByOne
    <3> QED
      BY <2>2, <3>2
  <2> QED
    BY <2>1, <2>2
<1> QED
  BY <1>1, TokenInvariance, PTL

\* An armed handler is armed for what its flags ask, not for what an earlier
\* pass left: "for exclude rearm by previous holder state".
THEOREM ArmsAsWanted == ASSUME MaxWakeups = 0 PROVE Spec => []ArmedAsWanted
<1>1. TokenInv => ArmedAsWanted
  BY DEF TokenInv, ArmedRegistered, ArmedAsWanted
<1> QED
  BY <1>1, TokenInvariance, PTL

\* No thread meets a destroyed holder, nor re-arms one that was reset.
THEOREM NeverFails == ASSUME MaxWakeups = 0 PROVE Spec => []NoFault
<1>1. TokenInv => NoFault
  BY DEF TokenInv
<1> QED
  BY <1>1, TokenInvariance, PTL

\* What an exception of read() drops is disarmed and in nobody's hands for ever.
THEOREM LostStaysLost == ASSUME MaxWakeups = 0 PROVE Spec => []LostForGood
<1>1. IndInv /\ TokenInv => LostForGood
  BY DEF IndInv, TypeOK, TokenInv, LostDisarmed, HeldApart, LostForGood
<1> QED
  BY <1>1, TokenInvariance, InitInd, StepInd, PTL DEF Spec
=============================================================================
