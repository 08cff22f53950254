--------------------------- MODULE ClientConnection ---------------------------
(***************************************************************************)
(* The pool of descriptors of LiteMQ::Connection (litemq/Connection.hpp,   *)
(* Connection.cpp): send() wakes a waiting handler, or opens one more when *)
(* the eldest message has waited too long.  A handler is its number in the *)
(* order they were opened; of the queue only its length is here, and what  *)
(* write() finds in its messages and gets from sendmsg is left open, so    *)
(* that it ends in each of its ways (MessageQueue: which of them it can).  *)
(***************************************************************************)
EXTENDS Integers, Sequences, FiniteSets

CONSTANTS
  Senders,             \* threads that call send()
  max_out_sockets_,
  SendBound,           \* bound of the model: messages in the queue
  FailureBound         \* bound of the model: sockets that cannot be opened

ASSUME ConnectionAssumption ==
  /\ IsFiniteSet(Senders)
  /\ max_out_sockets_ \in Nat \ {0} /\ SendBound \in Nat /\ FailureBound \in Nat

VARIABLES
  queued, waiting_handlers_, opened_connections_,
  opened, failures,  \* handlers that were opened, and that could not be
  writing, closed,   \* handlers the poller tells of a writable socket, and has closed
  line, woken        \* where each sender is, and the handler it has

connectionVars == <<queued, waiting_handlers_, opened_connections_, opened, failures, writing,
                    closed, line, woken>>

NoHandler == 0

ConnectionInit ==
  /\ queued = 0 /\ waiting_handlers_ = <<>> /\ opened_connections_ = 0
  /\ opened = 0 /\ failures = 0 /\ writing = {} /\ closed = {}
  /\ line = [s \in Senders |-> "idle"] /\ woken = [s \in Senders |-> NoHandler]

At(s, from, to) == line[s] = from /\ line' = [line EXCEPT ![s] = to]

Sending(s, from, to) ==
  /\ At(s, from, to)
  /\ UNCHANGED <<opened_connections_, opened, failures, closed>>

-----------------------------------------------------------------------------
\* send(): what add() answers is not looked at.
send(s) ==
  /\ Sending(s, "idle", "wake")
  /\ queued' \in {queued, queued + 1} \cap 0 .. SendBound
  /\ UNCHANGED <<waiting_handlers_, writing, woken>>

WakeFirst(s) == UNCHANGED waiting_handlers_
PopFirst(s) == waiting_handlers_' = Tail(waiting_handlers_)

\* wakeup_waiting_connection_: the first that waits leaves the list ...
Wake(s) ==
  /\ waiting_handlers_ # <<>>
  /\ Sending(s, "wake", "rearm")
  /\ woken' = [woken EXCEPT ![s] = Head(waiting_handlers_)]
  /\ PopFirst(s)
  /\ UNCHANGED <<queued, writing>>

\* ... and is woken after the lock is given up.  One that was closed meanwhile is
\* in no poller, and rearm() does nothing.
Rearm(s) ==
  /\ Sending(s, "rearm", "idle")
  /\ writing' = writing \cup ({woken[s]} \ closed)
  /\ woken' = [woken EXCEPT ![s] = NoHandler]
  /\ UNCHANGED <<queued, waiting_handlers_>>

NoneWaits(s) ==
  /\ waiting_handlers_ = <<>>
  /\ Sending(s, "wake", "available")
  /\ UNCHANGED <<queued, waiting_handlers_, writing, woken>>

\* extend_connections_available_, with <= where the extension compares with <.
ExtendAvailable(s) ==
  /\ Sending(s, "available", IF opened_connections_ <= max_out_sockets_ THEN "look" ELSE "idle")
  /\ UNCHANGED <<queued, waiting_handlers_, writing, woken>>

\* How long the eldest message waited is left open.
LookAtEldest(s) ==
  /\ \E to \in {"idle"} \cup (IF queued > 0 THEN {"extend"} ELSE {}) : Sending(s, "look", to)
  /\ UNCHANGED <<queued, waiting_handlers_, writing, woken>>

CountLate(s) ==
  /\ opened_connections_' = opened_connections_ + 1
  /\ At(s, "extend", IF opened_connections_ < max_out_sockets_ THEN "open" ELSE "undo")

\* try_extend_connections_: count, then compare what the count was then.
CountConnection(s) ==
  /\ opened_connections_' = opened_connections_ + 1
  /\ At(s, "extend", IF opened_connections_ + 1 < max_out_sockets_ THEN "open" ELSE "undo")

TryExtend(s) ==
  /\ CountConnection(s)
  /\ UNCHANGED <<queued, waiting_handlers_, opened, failures, writing, closed, woken>>

UndoForgotten(s) == opened_connections_' = opened_connections_
UndoCount(s) == opened_connections_' = opened_connections_ - 1

Undo(s) ==
  /\ At(s, "undo", "idle")
  /\ UndoCount(s)
  /\ UNCHANGED <<queued, waiting_handlers_, opened, failures, writing, closed, woken>>

\* The constructor of the handler throws: the count keeps the one it was to be.
OpenFails(s) ==
  /\ failures < FailureBound
  /\ At(s, "open", "idle")
  /\ failures' = failures + 1
  /\ UNCHANGED <<queued, waiting_handlers_, opened_connections_, opened, writing, closed,
                 woken>>

\* The poller has the handler before the list of those that wait.
Open(s) ==
  /\ At(s, "open", "append")
  /\ opened' = opened + 1
  /\ writing' = writing \cup {opened + 1}
  /\ woken' = [woken EXCEPT ![s] = opened + 1]
  /\ UNCHANGED <<queued, waiting_handlers_, opened_connections_, failures, closed>>

AppendHandler(s) ==
  /\ Sending(s, "append", "idle")
  /\ waiting_handlers_' = Append(waiting_handlers_, woken[s])
  /\ woken' = [woken EXCEPT ![s] = NoHandler]
  /\ UNCHANGED <<queued, writing>>

-----------------------------------------------------------------------------
\* write(): messages leave the queue, and a handler that finds none of them
\* stops, but does not go back to those that wait.
Write(h) ==
  /\ h \in writing
  /\ \/ /\ queued > 0
        /\ queued' \in 0 .. queued - 1
        /\ UNCHANGED writing
     \/ /\ queued = 0
        /\ writing' = writing \ {h}
        /\ UNCHANGED queued
  /\ UNCHANGED <<waiting_handlers_, opened_connections_, opened, failures, closed, line, woken>>

\* write() fails and answers error_(): the poller closes the handler, which is
\* still counted, and stays on the list if it waits.
WriteFails(h) ==
  /\ h \in writing /\ queued > 0
  /\ queued' \in 0 .. queued - 1
  /\ writing' = writing \ {h} /\ closed' = closed \cup {h}
  /\ UNCHANGED <<waiting_handlers_, opened_connections_, opened, failures, line, woken>>

ConnectionNext ==
  \/ \E s \in Senders :
       \/ send(s) \/ Wake(s) \/ Rearm(s) \/ NoneWaits(s)
       \/ ExtendAvailable(s) \/ LookAtEldest(s) \/ TryExtend(s) \/ Undo(s)
       \/ OpenFails(s) \/ Open(s) \/ AppendHandler(s)
  \/ \E h \in 1 .. opened : Write(h) \/ WriteFails(h)

ConnectionSpec == ConnectionInit /\ [][ConnectionNext]_connectionVars

-----------------------------------------------------------------------------
SendersAt(lines) == {s \in Senders : line[s] \in lines}

\* All that were ever opened stay below the limit, though senders look at the count
\* (extend_connections_available_) long before they raise it, and with <=.
PoolBounded == opened + Cardinality(SendersAt({"open"})) < max_out_sockets_

\* The count is of what was ever opened or could not be (it forgets neither what
\* was closed nor what failed) and what senders are about to open or take back.
OpenedCounted ==
  opened_connections_ = opened + failures + Cardinality(SendersAt({"open", "undo"}))

\* A handler waits once, or is with the one sender that took it off the list.
TakenOnce ==
  /\ \A i, j \in DOMAIN waiting_handlers_ :
       waiting_handlers_[i] = waiting_handlers_[j] => i = j
  /\ \A s \in SendersAt({"rearm", "append"}) :
       /\ \A i \in DOMAIN waiting_handlers_ : waiting_handlers_[i] # woken[s]
       /\ \A r \in Senders \ {s} : woken[r] # woken[s]

\* The pool of a connection keeps its limit and its count, and a waiting handler
\* is woken by one sender.
PoolRight == PoolBounded /\ OpenedCounted /\ TakenOnce
=============================================================================
