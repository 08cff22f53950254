------------------------------- MODULE Poller -------------------------------
(***************************************************************************)
(* DescriptorHandlerPoller: a pool of threads that share one epoll         *)
(* descriptor.  Every descriptor is registered edge-triggered and one-shot,*)
(* so the kernel disarms it when it hands it to a thread, and the thread   *)
(* that handled it arms it again.  A descriptor that reaches a second      *)
(* thread while a first one handles it is delegated to the first through   *)
(* the counter handle_in_progress.                                         *)
(*                                                                         *)
(* One handler is added to a poller once and is known by its holder: a     *)
(* member of Handlers stands for both.  The kernel is modelled from how    *)
(* the code uses it: an armed descriptor is delivered as soon as a         *)
(* readiness condition of its mask holds, and is then disarmed.            *)
(***************************************************************************)
EXTENDS Naturals, FiniteSets

CONSTANTS
  Threads,      \* worker threads of the poller
  Handlers,     \* descriptor handlers, StopPipe included
  StopPipe,     \* the poller's own StopPipeDescriptorHandler
  Reads,        \* [Handlers -> what read() may return]
  Writes,       \* [Handlers -> what write() may return]
  Acceptors,    \* listeners: read() and write() accept both, and may throw
  ReadyAtStart, \* [Handlers -> conditions that hold when the handler is added]
  Arrives,      \* [Handlers -> conditions the peer may raise later]
  MaxArrivals,  \* bound on what the peers raise
  MaxWakeups    \* bound on calls of DescriptorHandler::rearm; 0: the server

Conditions == {"in", "out", "rdhup"}

\* DescriptorHandler::StateChange: a result is the set of its bits.
StateChange == {"STOP_READ", "START_READ", "CLOSE_READ", "STOP_WRITE",
                "START_WRITE", "CLOSE_WRITE", "STOP_PROCESSING"}

ASSUME ConstantsAssumption ==
  /\ StopPipe \in Handlers
  /\ Reads \in [Handlers -> SUBSET (SUBSET StateChange)]
  /\ Writes \in [Handlers -> SUBSET (SUBSET StateChange)]
  /\ Acceptors \subseteq Handlers \ {StopPipe}
  /\ ReadyAtStart \in [Handlers -> SUBSET Conditions]
  /\ Arrives \in [Handlers -> SUBSET Conditions]
  /\ MaxArrivals \in Nat
  /\ MaxWakeups \in Nat

VARIABLES
  mask,         \* [Handlers -> conditions armed]; {} is disarmed
  ready,        \* [Handlers -> readiness conditions that hold]
  phase,        \* [Handlers -> where the holder is in its life]
  flags,        \* [Handlers -> handle_read, handle_write, *_closed]
  handle_in_progress,
  handlers_,    \* the poller's map, which owns the holders
  pc, batch, cur, rearm_fd, stop,             \* the threads
  released, free_candidates, free,            \* the cleaner
  stopped_, terminating,                      \* deactivation
  arrivals, wakeups,                          \* the bounds
  unseen,       \* history: events delegated and not followed by a pass yet
  lost,         \* history: handlers whose event an exception dropped
  fault         \* "none" until the process dies

kernelVars  == <<mask, ready>>
holderVars  == <<phase, flags, handle_in_progress, handlers_>>
threadVars  == <<pc, batch, cur, rearm_fd, stop>>
cleanerVars == <<released, free_candidates, free>>
stopVars    == <<stopped_, terminating>>
boundVars   == <<arrivals, wakeups>>
historyVars == <<unseen, lost, fault>>
vars == <<kernelVars, holderVars, threadVars, cleanerVars, stopVars,
          boundVars, historyVars>>

-----------------------------------------------------------------------------
(* The holder.                                                             *)

HolderFlags == [handle_read : BOOLEAN, handle_write : BOOLEAN,
                read_closed : BOOLEAN, write_closed : BOOLEAN]

NewFlags == [handle_read |-> TRUE, handle_write |-> TRUE,
             read_closed |-> FALSE, write_closed |-> FALSE]

\* new: not created; created: linked to its handler and in the map;
\* registered: in the epoll set; deleted: taken out of it, stopped() called;
\* reset: unlinked, descriptor_handler_ null.
Phases == {"new", "created", "registered", "deleted", "reset"}

handling_finished(h) == phase[h] \in {"deleted", "reset"}

Linked(h) == phase[h] \in {"created", "registered", "deleted"}

\* apply_state_modify_.  CLOSE_WRITE clears handle_read: handle_write keeps
\* its value, as the source has it.
ApplyStateModify(f, res) ==
  [handle_read  |-> /\ "CLOSE_WRITE" \notin res
                    /\ "CLOSE_READ" \notin res
                    /\ \/ "START_READ" \in res
                       \/ f.handle_read /\ "STOP_READ" \notin res,
   handle_write |-> IF "CLOSE_WRITE" \in res
                    THEN f.handle_write
                    ELSE \/ "START_WRITE" \in res
                         \/ f.handle_write /\ "STOP_WRITE" \notin res,
   read_closed  |-> f.read_closed \/ "CLOSE_READ" \in res,
   write_closed |-> f.write_closed \/ "CLOSE_WRITE" \in res]

\* The mask of EPOLL_CTL_MOD: EPOLL_FLAGS always has EPOLLRDHUP (errors and
\* hang-ups, which the kernel always reports, are folded into it).
Armed(read, write) == {"rdhup"} \cup (IF read THEN {"in"} ELSE {})
                                \cup (IF write THEN {"out"} ELSE {})

ArmedFor(f) == Armed(f.handle_read, f.handle_write)

-----------------------------------------------------------------------------
(* Program counters and ownership.                                         *)

\* wait: in epoll_wait; next: the loop over the events; read .. dec: in the
\* handling loop of handle_; rearm, release: after it; return: process_ has
\* returned to DelegateJob::work; exited: work has returned.
InLoop == {"read", "write", "delete", "reset", "retire", "dec"}
InHandle == InLoop \cup {"rearm", "release"}
Labels == InHandle \cup {"wait", "next", "return", "exited"}

Handling(t, h) == cur[t] = h /\ pc[t] \in InHandle
Looping(t, h)  == cur[t] = h /\ pc[t] \in InLoop

\* A holder lives while the map, a list of the cleaner or the shared_ptr that
\* process_ passes to handle_ refers to it.
Alive(h) == \/ h \in handlers_ \cup free_candidates \cup free
            \/ \E t \in Threads : Handling(t, h)

Deliverable == {h \in Handlers : phase[h] = "registered" /\ mask[h] \cap ready[h] # {}}

Goto(t, l) == pc' = [pc EXCEPT ![t] = l]

\* Outside handle_ its locals have their first values.
LocalsEnd(t) == /\ cur' = [cur EXCEPT ![t] = StopPipe]
                /\ rearm_fd' = [rearm_fd EXCEPT ![t] = FALSE]

-----------------------------------------------------------------------------
(* Init: the constructor has run, the stop pipe is registered and the      *)
(* threads are active.                                                     *)

Init ==
  /\ mask = [h \in Handlers |-> IF h = StopPipe THEN Armed(TRUE, TRUE) ELSE {}]
  /\ ready = [h \in Handlers |-> IF h = StopPipe THEN {} ELSE ReadyAtStart[h]]
  /\ phase = [h \in Handlers |-> IF h = StopPipe THEN "registered" ELSE "new"]
  /\ flags = [h \in Handlers |-> NewFlags]
  /\ handle_in_progress = [h \in Handlers |-> 0]
  /\ handlers_ = {StopPipe}
  /\ pc = [t \in Threads |-> "wait"]
  /\ batch = [t \in Threads |-> {}]
  /\ cur = [t \in Threads |-> StopPipe]
  /\ rearm_fd = [t \in Threads |-> FALSE]
  /\ stop = [t \in Threads |-> FALSE]
  /\ released = {} /\ free_candidates = {} /\ free = {}
  /\ stopped_ = FALSE /\ terminating = {}
  /\ arrivals = 0 /\ wakeups = 0
  /\ unseen = {} /\ lost = {} /\ fault = "none"

-----------------------------------------------------------------------------
(* add(): the holder is created, linked and inserted, then registered.     *)

AddInsert(h) ==
  /\ phase[h] = "new"
  /\ phase' = [phase EXCEPT ![h] = "created"]
  /\ handlers_' = handlers_ \cup {h}
  /\ UNCHANGED <<kernelVars, flags, handle_in_progress, threadVars,
                 cleanerVars, stopVars, boundVars, historyVars>>

AddEpoll(h) ==
  /\ phase[h] = "created"
  /\ phase' = [phase EXCEPT ![h] = "registered"]
  /\ mask' = [mask EXCEPT ![h] = Armed(TRUE, TRUE)]
  /\ UNCHANGED <<ready, flags, handle_in_progress, handlers_, threadVars,
                 cleanerVars, stopVars, boundVars, historyVars>>

-----------------------------------------------------------------------------
(* process_: epoll_wait, the loop over its events, and the cleaner.        *)

\* EPOLLONESHOT, one of EPOLL_FLAGS: what is delivered is disarmed.
StillArmed(hs) == mask
AfterDelivery(hs) == [h \in Handlers |-> IF h \in hs THEN {} ELSE mask[h]]

\* The kernel hands over every deliverable descriptor.
EpollWait(t) ==
  /\ pc[t] = "wait" /\ Deliverable # {}
  /\ batch' = [batch EXCEPT ![t] = Deliverable]
  /\ mask' = AfterDelivery(Deliverable)
  /\ Goto(t, "next")
  /\ UNCHANGED <<ready, holderVars, cur, rearm_fd, stop, cleanerVars, stopVars,
                 boundVars, historyVars>>

\* DescriptorHandlerCleaner::release as one step: when every thread has
\* released, what was free is destroyed and the candidates become free.
\* Cleaner.tla models the steps of release itself.
CleanerRelease(t) ==
  IF released \cup {t} = Threads
  THEN /\ released' = {}
       /\ free' = free_candidates
       /\ free_candidates' = {}
  ELSE /\ released' = released \cup {t}
       /\ UNCHANGED <<free, free_candidates>>

\* epoll_wait returns no event: the clean period is over, or EINTR.
EpollTimeout(t) ==
  /\ pc[t] = "wait" /\ Deliverable = {}
  /\ CleanerRelease(t)
  /\ UNCHANGED <<kernelVars, holderVars, threadVars, stopVars, boundVars,
                 historyVars>>

EndBatch(t) ==
  /\ pc[t] = "next" /\ batch[t] = {}
  /\ IF stop[t]
     THEN Goto(t, "return") /\ UNCHANGED cleanerVars
     ELSE Goto(t, "wait") /\ CleanerRelease(t)
  /\ UNCHANGED <<kernelVars, holderVars, batch, cur, rearm_fd, stop, stopVars,
                 boundVars, historyVars>>

\* DelegateJob::work calls process_ again until it is terminating.
Return(t) ==
  /\ pc[t] = "return"
  /\ Goto(t, IF t \in terminating THEN "exited" ELSE "wait")
  /\ stop' = [stop EXCEPT ![t] = FALSE]
  /\ UNCHANGED <<kernelVars, holderVars, batch, cur, rearm_fd, cleanerVars,
                 stopVars, boundVars, historyVars>>

\* get_ptr() of a destroyed holder: the raw pointer of the event dangles.
UseAfterFree(t, h) ==
  /\ ~Alive(h)
  /\ fault' = "use_after_free"
  /\ UNCHANGED <<kernelVars, holderVars, threadVars, cleanerVars, stopVars,
                 boundVars, unseen, lost>>

CapturesUnfinished(h) == ~handling_finished(h)

\* The handler is entered by the thread that finds nobody in it.
Captures(h) == ~handling_finished(h) /\ handle_in_progress[h] = 0

\* Entry of handle_: the thread counts itself in and captures the handler, or
\* leaves the event to the thread that is in it.
Enter(t, h) ==
  /\ Alive(h)
  /\ handle_in_progress' = [handle_in_progress EXCEPT ![h] = @ + 1]
  /\ batch' = [batch EXCEPT ![t] = @ \ {h}]
  /\ cur' = [cur EXCEPT ![t] = h]
  /\ Goto(t, IF Captures(h) THEN "read" ELSE "release")
  /\ unseen' = IF Captures(h) THEN unseen ELSE unseen \cup {h}
  /\ UNCHANGED <<kernelVars, phase, flags, handlers_, rearm_fd, stop,
                 cleanerVars, stopVars, boundVars, lost, fault>>

NextEvent(t) ==
  /\ pc[t] = "next"
  /\ \E h \in batch[t] : Enter(t, h) \/ UseAfterFree(t, h)

-----------------------------------------------------------------------------
(* handle_: a pass calls read() and write() as the flags say and applies   *)
(* what they return.                                                       *)

\* read() of the stop pipe, reached only when stop() has set stopped_, leaves
\* the pipe readable; any other handler reads until EAGAIN.
ReadResults(h) == IF h = StopPipe THEN {{"STOP_PROCESSING"}} ELSE Reads[h]
WriteResults(h) == IF h = StopPipe THEN {{"STOP_WRITE"}} ELSE Writes[h]

AfterRead(h) == IF h = StopPipe THEN ready[h] ELSE ready[h] \ {"in"}

\* write() returns STOP_WRITE when it has sent all it had; without it, or with
\* a close, it was stopped by EAGAIN.  That of a listener accepts, as read() does.
AfterWrite(h, res) ==
  IF h \in Acceptors THEN ready[h] \ {"in"}
  ELSE IF "STOP_WRITE" \in res THEN ready[h] ELSE ready[h] \ {"out"}

Read(t) ==
  LET h == cur[t] IN
  /\ pc[t] = "read"
  /\ Goto(t, "write")
  /\ unseen' = unseen \ {h}
  /\ IF flags[h].handle_read
     THEN \E res \in ReadResults(h) :
            /\ flags' = [flags EXCEPT ![h] = ApplyStateModify(@, res)]
            /\ ready' = [ready EXCEPT ![h] = AfterRead(h)]
            /\ stop' = [stop EXCEPT ![t] = @ \/ "STOP_PROCESSING" \in res]
     ELSE UNCHANGED <<flags, ready, stop>>
  /\ UNCHANGED <<mask, phase, handle_in_progress, handlers_, batch, cur,
                 rearm_fd, cleanerVars, stopVars, boundVars, lost, fault>>

\* After write() both closed bits decide between the removal of the handler
\* and another turn.
Write(t) ==
  LET h == cur[t] IN
  /\ pc[t] = "write"
  /\ IF flags[h].handle_write
     THEN \E res \in WriteResults(h) :
            /\ flags' = [flags EXCEPT ![h] = ApplyStateModify(@, res)]
            /\ ready' = [ready EXCEPT ![h] = AfterWrite(h, res)]
            /\ stop' = [stop EXCEPT ![t] = @ \/ "STOP_PROCESSING" \in res]
     ELSE UNCHANGED <<flags, ready, stop>>
  /\ IF flags'[h].read_closed /\ flags'[h].write_closed
     THEN Goto(t, "delete") /\ UNCHANGED rearm_fd
     ELSE Goto(t, "dec") /\ rearm_fd' = [rearm_fd EXCEPT ![t] = TRUE]
  /\ UNCHANGED <<mask, phase, handle_in_progress, handlers_, batch, cur,
                 cleanerVars, stopVars, boundVars, historyVars>>

UnwindHandle(t) ==
  /\ Goto(t, "next")
  /\ LocalsEnd(t)
  /\ UNCHANGED batch

\* An exception of read() or write() leaves handle_ and the loop over the events:
\* process_ reports it and returns, and the rest of the batch is lost.
Unwind(t) ==
  /\ Goto(t, "return")
  /\ LocalsEnd(t)
  /\ batch' = [batch EXCEPT ![t] = {}]

HandlerThrows(t) ==
  LET h == cur[t] IN
  /\ h \in Acceptors
  /\ \/ pc[t] = "read" /\ flags[h].handle_read
     \/ pc[t] = "write" /\ flags[h].handle_write
  /\ Unwind(t)
  /\ lost' = lost \cup {h} \cup batch[t]
  /\ unseen' = unseen \ {h}
  /\ UNCHANGED <<kernelVars, holderVars, stop, cleanerVars, stopVars, boundVars,
                 fault>>

\* handling_finished = 1, epoll_del_fd_, stopped().
Delete(t) ==
  LET h == cur[t] IN
  /\ pc[t] = "delete"
  /\ phase' = [phase EXCEPT ![h] = "deleted"]
  /\ mask' = [mask EXCEPT ![h] = {}]
  /\ Goto(t, "reset")
  /\ UNCHANGED <<ready, flags, handle_in_progress, handlers_, batch, cur,
                 rearm_fd, stop, cleanerVars, stopVars, boundVars, historyVars>>

\* reset_descriptor_handler: unlinked, and the handler is dropped.
Reset(t) ==
  /\ pc[t] = "reset"
  /\ phase' = [phase EXCEPT ![cur[t]] = "reset"]
  /\ Goto(t, "retire")
  /\ UNCHANGED <<kernelVars, flags, handle_in_progress, handlers_, batch, cur,
                 rearm_fd, stop, cleanerVars, stopVars, boundVars, historyVars>>

\* The holder goes to the cleaner and leaves the map; the loop is left without
\* the decrement, so that no thread captures the handler again.
AfterLoopAlways(t) == "release"
AfterLoop(t) == IF rearm_fd[t] THEN "rearm" ELSE "release"

Retire(t) ==
  LET h == cur[t] IN
  /\ pc[t] = "retire"
  /\ free_candidates' = free_candidates \cup {h}
  /\ handlers_' = handlers_ \ {h}
  /\ Goto(t, AfterLoop(t))
  /\ UNCHANGED <<kernelVars, phase, flags, handle_in_progress, batch, cur,
                 rearm_fd, stop, released, free, stopVars, boundVars, historyVars>>

\* The loop condition: another pass when a thread has delegated meanwhile.
AnotherPassLate(h) == handle_in_progress[h] > 2
AnotherPass(h) == handle_in_progress[h] > 1

Decrement(t) ==
  LET h == cur[t] IN
  /\ pc[t] = "dec"
  /\ handle_in_progress' = [handle_in_progress EXCEPT ![h] = @ - 1]
  /\ Goto(t, IF AnotherPass(h) THEN "read" ELSE AfterLoop(t))
  /\ UNCHANGED <<kernelVars, phase, flags, handlers_, batch, cur, rearm_fd,
                 stop, cleanerVars, stopVars, boundVars, historyVars>>

RearmMaskReadOnly(h) == Armed(flags[h].handle_read, FALSE)
RearmMask(h) == ArmedFor(flags[h])

\* epoll_rearm_handler_, outside the handling loop: EPOLL_CTL_MOD throws when
\* the descriptor has left the epoll set, and a reset holder has no handler.
Rearm(t) ==
  LET h == cur[t] IN
  /\ pc[t] = "rearm"
  /\ \/ /\ phase[h] = "registered"
        /\ mask' = [mask EXCEPT ![h] = RearmMask(h)]
        /\ Goto(t, "release")
        /\ UNCHANGED <<batch, cur, rearm_fd, lost, fault>>
     \/ /\ phase[h] = "deleted"
        /\ Unwind(t)
        /\ lost' = lost \cup batch[t]
        /\ UNCHANGED <<mask, fault>>
     \/ /\ phase[h] = "reset"
        /\ fault' = "null_handler"
        /\ UNCHANGED <<mask, pc, batch, cur, rearm_fd, lost>>
  /\ UNCHANGED <<ready, holderVars, stop, cleanerVars, stopVars, boundVars,
                 unseen>>

\* The release at the end of handle_, in the middle of the batch.
Release(t) ==
  /\ pc[t] = "release"
  /\ CleanerRelease(t)
  /\ Goto(t, "next")
  /\ LocalsEnd(t)
  /\ UNCHANGED <<kernelVars, holderVars, batch, stop, stopVars, boundVars,
                 historyVars>>

-----------------------------------------------------------------------------
(* The other actors.                                                       *)

\* DescriptorHandler::rearm(false, true), the wakeup of a sender: one
\* EPOLL_CTL_MOD for the linked holder.  It may not throw: ENOENT terminates.
Wakeup(h) ==
  /\ Linked(h) /\ h # StopPipe
  /\ wakeups < MaxWakeups
  /\ wakeups' = wakeups + 1
  /\ IF phase[h] = "registered"
     THEN mask' = [mask EXCEPT ![h] = Armed(FALSE, TRUE)] /\ UNCHANGED fault
     ELSE fault' = "terminate" /\ UNCHANGED mask
  /\ UNCHANGED <<ready, holderVars, threadVars, cleanerVars, stopVars, arrivals,
                 unseen, lost>>

\* A peer sends, makes room or closes.
Arrive(h) ==
  /\ phase[h] = "registered" /\ h # StopPipe
  /\ arrivals < MaxArrivals
  /\ arrivals' = arrivals + 1
  /\ \E c \in Arrives[h] \ ready[h] : ready' = [ready EXCEPT ![h] = @ \cup {c}]
  /\ UNCHANGED <<mask, holderVars, threadVars, cleanerVars, stopVars, wakeups,
                 historyVars>>

\* deactivate_object: stop() writes to the pipe, then every worker is told to
\* terminate, one after the other.
Stop ==
  /\ ~stopped_
  /\ stopped_' = TRUE
  /\ ready' = [ready EXCEPT ![StopPipe] = @ \cup {"in"}]
  /\ UNCHANGED <<mask, holderVars, threadVars, cleanerVars, terminating,
                 boundVars, historyVars>>

Terminate(t) ==
  /\ stopped_ /\ t \notin terminating
  /\ terminating' = terminating \cup {t}
  /\ UNCHANGED <<kernelVars, holderVars, threadVars, cleanerVars, stopped_,
                 boundVars, historyVars>>

-----------------------------------------------------------------------------
InHandleStep(t) ==
  \/ Read(t) \/ HandlerThrows(t) \/ Write(t) \/ Delete(t) \/ Reset(t) \/ Retire(t)
  \/ Decrement(t) \/ Rearm(t) \/ Release(t)

ThreadStep(t) ==
  \/ EpollWait(t) \/ EpollTimeout(t) \/ NextEvent(t) \/ EndBatch(t) \/ Return(t)
  \/ InHandleStep(t)

Next ==
  /\ fault = "none"
  /\ \/ \E t \in Threads : ThreadStep(t) \/ Terminate(t)
     \/ \E h \in Handlers : AddInsert(h) \/ AddEpoll(h) \/ Wakeup(h) \/ Arrive(h)
     \/ Stop

Spec == Init /\ [][Next]_vars

\* A worker thread is a thread of the operating system, which runs; add() and
\* deactivate_object, once begun, run to their end.
Fairness ==
  /\ \A t \in Threads : WF_vars(fault = "none" /\ ThreadStep(t))
  /\ \A t \in Threads : WF_vars(fault = "none" /\ Terminate(t))

LiveSpec == Spec /\ Fairness
-----------------------------------------------------------------------------
(* Properties.                                                             *)

\* Every variable has its type; the counter handle_in_progress is at least
\* zero, as the assertions of handle_ say.
TypeOK ==
  /\ mask \in [Handlers -> SUBSET Conditions]
  /\ ready \in [Handlers -> SUBSET Conditions]
  /\ phase \in [Handlers -> Phases]
  /\ flags \in [Handlers -> HolderFlags]
  /\ handle_in_progress \in [Handlers -> Nat]
  /\ handlers_ \subseteq Handlers
  /\ pc \in [Threads -> Labels]
  /\ batch \in [Threads -> SUBSET Handlers]
  /\ cur \in [Threads -> Handlers]
  /\ rearm_fd \in [Threads -> BOOLEAN]
  /\ stop \in [Threads -> BOOLEAN]
  /\ released \subseteq Threads
  /\ free_candidates \subseteq Handlers /\ free \subseteq Handlers
  /\ stopped_ \in BOOLEAN /\ terminating \subseteq Threads
  /\ arrivals \in Nat /\ wakeups \in Nat
  /\ unseen \subseteq Handlers /\ lost \subseteq Handlers
  /\ fault \in {"none", "use_after_free", "null_handler", "terminate"}

\* "only one thread can call handlers" (handle_): two threads are never in the
\* handling loop of one handler, whatever wakeups re-arm it meanwhile.
HandlerExclusion ==
  \A t, u \in Threads : Looping(t, cur[t]) /\ Looping(u, cur[t]) => t = u

\* "process handles appeared in other threads" (handle_): an event that a
\* thread delegated is followed by a pass of the thread it was delegated to,
\* unless the handler is removed or throws: none is left behind when the
\* handling loop ends.
NoEventSwallowed ==
  \A h \in unseen :
    \/ handling_finished(h) \/ h \in lost
    \/ \E t \in Threads : Looping(t, h)

\* read() and write() are called on a registered handler only, never on one
\* whose stopped() has been called.
NoCallAfterStopped ==
  \A t \in Threads : pc[t] \in {"read", "write"} => phase[cur[t]] = "registered"

\* stopped() is called at most once for a handler.
StoppedOnce ==
  [][\A t \in Threads : Delete(t) => ~handling_finished(cur[t])]_vars

\* What handle_in_progress is for: whatever wakes a handler, and whenever, one
\* thread at a time calls it, while it is registered, and stopped() comes once.
CallsGuarded ==
  [](TypeOK /\ HandlerExclusion /\ NoCallAfterStopped) /\ StoppedOnce

\* Without wakeups the one-shot registration is a token: a registered handler
\* is armed in the kernel, or in exactly one thread's events or hands, never
\* nowhere (its events would be lost) and never twice.
Holds(t, h) == \/ h \in batch[t]
               \/ Looping(t, h)
               \/ cur[t] = h /\ pc[t] = "rearm"

OneOwner ==
  \A h \in Handlers :
    phase[h] = "registered" /\ h \notin lost =>
      IF mask[h] # {} THEN \A t \in Threads : ~Holds(t, h)
      ELSE \E t \in Threads : \A u \in Threads : Holds(u, h) <=> u = t

\* Without wakeups an armed handler is armed for what its flags ask, "for
\* exclude rearm by previous holder state" (handle_).
ArmedAsWanted ==
  \A h \in Handlers : mask[h] # {} => mask[h] = ArmedFor(flags[h])

\* Without wakeups no thread meets a destroyed holder or a reset one.
NoFault == fault = "none"

\* "cleaner garantee that object live" (handle_): the holders of the events
\* that a thread has still to handle are alive.
BatchAlive == \A t \in Threads : \A h \in batch[t] : Alive(h)

\* After an exception of read() or write() the poller never hands out again the handlers
\* whose events it dropped: they are disarmed, nobody has them, and without a
\* wakeup nobody arms them.
LostForGood ==
  \A h \in lost : /\ phase[h] = "registered" /\ mask[h] = {}
                  /\ \A t \in Threads : ~Holds(t, h)

\* Without exceptions and wakeups, a handler with something to read or to
\* write, and the flag for it, is served, or the poller is stopped.
HasWork(h) == /\ phase[h] = "registered"
              /\ ArmedFor(flags[h]) \cap ready[h] \cap {"in", "out"} # {}

Served ==
  \A h \in Handlers \ {StopPipe} : HasWork(h) ~> (~HasWork(h) \/ stopped_)

\* Deactivation ends every thread: each one gets the stop event in its turn.
ShutdownCompletes == stopped_ ~> \A t \in Threads : pc[t] = "exited"
=============================================================================
