----------------------------- MODULE MessageQueue -----------------------------
(***************************************************************************)
(* LiteMQ::MessageQueue (litemq/MessageQueue.hpp): the messages to send,   *)
(* an index of those with a timeout, and a count of messages outside the   *)
(* lock.  Adders call add, a timer calls clear_timeouted, and one popper   *)
(* has two ways to go on after pop: that of Connection's write()           *)
(* (litemq/Connection.cpp), which looks for what is to be sent, and that   *)
(* of a user who sends some and gives the rest back with push_front, as    *)
(* write() would if it ever came so far.                                   *)
(* A message is its number in the order of the pushes; what is in it is    *)
(* left out.  Each access to the count or to expired_ is a step of its own.*)
(***************************************************************************)
EXTENDS Integers, Sequences, FiniteSets, SequencesExt

CONSTANTS
  Adders, Popper, Timer,  \* threads
  max_size_,              \* the size given to the constructor
  Portion,                \* messages that together reach send_size in pop
  MessageBound,           \* bound of the model: messages that are pushed
  CountBound              \* bound of the model: the count, which only grows

ASSUME QueueAssumption ==
  /\ IsFiniteSet(Adders) /\ Popper \notin Adders /\ Timer \notin Adders /\ Popper # Timer
  /\ max_size_ \in Nat \ {0} /\ Portion \in Nat \ {0} /\ MessageBound \in Nat
  /\ CountBound \in Nat

VARIABLES
  messages_, timed_messages_,
  message_count_,
  expired_,       \* calls of expire(), by message
  called,         \* calls of the timeout callback, by message
  pushed,         \* how many messages were pushed
  step, hands,    \* where each thread is, and the messages it has
  sent,           \* messages that a user of the queue has sent
  let_go          \* messages that write() left out and forgot

queueVars == <<messages_, timed_messages_, message_count_, expired_, called, pushed, step,
               hands, sent, let_go>>

QueueThreads == Adders \cup {Popper, Timer}
Messages == 1 .. MessageBound

QueueInit ==
  /\ messages_ = <<>> /\ timed_messages_ = {} /\ message_count_ = 0
  /\ expired_ = [m \in Messages |-> 0] /\ called = [m \in Messages |-> 0]
  /\ pushed = 0 /\ sent = {} /\ let_go = {}
  /\ step = [c \in QueueThreads |-> "idle"] /\ hands = [c \in QueueThreads |-> <<>>]

Move(c, s) == step' = [step EXCEPT ![c] = s]
Hold(c, ms) == hands' = [hands EXCEPT ![c] = ms]

-----------------------------------------------------------------------------
CountLoosely(a) ==
  /\ step[a] = "idle" /\ pushed < MessageBound
  /\ message_count_' = message_count_ + 1
  /\ Move(a, IF message_count_ + 1 <= max_size_ THEN "push" ELSE "refuse")
  /\ UNCHANGED <<messages_, timed_messages_, expired_, called, pushed, hands, sent,
                 let_go>>

\* add: the message is counted first, and not pushed if there are too many.
CountMessage(a) ==
  /\ step[a] = "idle" /\ pushed < MessageBound
  /\ message_count_' = message_count_ + 1
  /\ Move(a, IF message_count_ + 1 < max_size_ THEN "push" ELSE "refuse")
  /\ UNCHANGED <<messages_, timed_messages_, expired_, called, pushed, hands, sent,
                 let_go>>

Push(a) ==
  /\ step[a] = "push" /\ pushed < MessageBound
  /\ pushed' = pushed + 1
  /\ messages_' = Append(messages_, pushed + 1)
  /\ timed_messages_' \in {timed_messages_, timed_messages_ \cup {pushed + 1}}
  /\ Move(a, "idle")
  /\ UNCHANGED <<message_count_, expired_, called, hands, sent, let_go>>

Refuse(a) ==
  /\ step[a] = "refuse"
  /\ message_count_' = message_count_ - 1
  /\ Move(a, "idle")
  /\ UNCHANGED <<messages_, timed_messages_, expired_, called, pushed, hands, sent,
                 let_go>>

-----------------------------------------------------------------------------
\* pop, when the queue holds as much as is asked for; with less, the iterator
\* it erases up to is beyond the end, which is undefined.
Pop ==
  /\ step[Popper] = "idle" /\ Len(messages_) >= Portion
  /\ Hold(Popper, SubSeq(messages_, 1, Portion))
  /\ messages_' = SubSeq(messages_, Portion + 1, Len(messages_))
  /\ Move(Popper, "send")
  /\ UNCHANGED <<timed_messages_, message_count_, expired_, called, pushed, sent, let_go>>

\* A user of the queue sends some of what it has, and gives the rest back.
SendSome ==
  /\ step[Popper] = "send"
  /\ \E n \in 0 .. Len(hands[Popper]) :
       /\ sent' = sent \cup {hands[Popper][i] : i \in 1 .. n}
       /\ Hold(Popper, SubSeq(hands[Popper], n + 1, Len(hands[Popper])))
  /\ Move(Popper, "count")
  /\ UNCHANGED <<messages_, timed_messages_, message_count_, expired_, called, pushed, let_go>>

\* write() asks need_to_send() of one message after the other, which is true of
\* what expired.  The rest is left out: with nothing to send, write() pops again
\* and forgets what it had.
LeaveOut ==
  /\ step[Popper] \in {"send", "fill"} /\ hands[Popper] # <<>>
  /\ expired_[Head(hands[Popper])] = 0
  /\ let_go' = let_go \cup {Head(hands[Popper])}
  /\ Hold(Popper, Tail(hands[Popper]))
  /\ Move(Popper, IF Tail(hands[Popper]) = <<>> THEN "idle" ELSE "fill")
  /\ UNCHANGED <<messages_, timed_messages_, message_count_, expired_, called, pushed, sent>>

\* The size of one that expired is read through partly_sent_message_, which is
\* null until something was sent: the process ends.
ReadNull ==
  /\ step[Popper] \in {"send", "fill"} /\ hands[Popper] # <<>>
  /\ expired_[Head(hands[Popper])] > 0
  /\ step' = [c \in QueueThreads |-> "dead"]
  /\ UNCHANGED <<messages_, timed_messages_, message_count_, expired_, called, pushed, hands, sent,
                 let_go>>

CountBack ==
  /\ step[Popper] = "count" /\ message_count_ + Len(hands[Popper]) <= CountBound
  /\ message_count_' = message_count_ + Len(hands[Popper])
  /\ Move(Popper, "insert")
  /\ UNCHANGED <<messages_, timed_messages_, expired_, called, pushed, hands, sent,
                 let_go>>

InsertedAtEnd(ms) == messages_ \o ms
Inserted(ms) == ms \o messages_

EraseMessagesButOne(all) == SubSeq(all, max_size_ + 2, Len(all))

\* What is beyond the size is taken off the end, to be expired.
EraseMessages(all) == SubSeq(all, max_size_ + 1, Len(all))

PushFront ==
  /\ step[Popper] = "insert"
  /\ LET all == Inserted(hands[Popper])
     IN /\ messages_' = SubSeq(all, 1, Min({max_size_, Len(all)}))
        /\ Hold(Popper, EraseMessages(all))
  /\ Move(Popper, "expire")
  /\ UNCHANGED <<timed_messages_, message_count_, expired_, called, pushed, sent, let_go>>

-----------------------------------------------------------------------------
Uncall(m) == called' = [called EXCEPT ![m] = @ + 1]

\* expire: ++expired_ == 1 and then the callback.
Callback(m) == called' = [called EXCEPT ![m] = @ + (IF expired_[m] = 0 THEN 1 ELSE 0)]

Expire(c) ==
  /\ step[c] = "expire" /\ hands[c] # <<>>
  /\ LET m == Head(hands[c])
     IN /\ expired_' = [expired_ EXCEPT ![m] = @ + 1]
        /\ Callback(m)
        /\ Move(c, IF c = Timer /\ expired_[m] = 0 THEN "uncount" ELSE "expire")
  /\ Hold(c, Tail(hands[c]))
  /\ UNCHANGED <<messages_, timed_messages_, message_count_, pushed, sent, let_go>>

Expired(c) ==
  /\ step[c] = "expire" /\ hands[c] = <<>>
  /\ Move(c, "idle")
  /\ UNCHANGED <<messages_, timed_messages_, message_count_, expired_, called, pushed, hands, sent,
                 let_go>>

\* clear_timeouted: those whose time has come leave the index, in the order of
\* their timeouts, which need not be that of the pushes, and not the queue.
ClearTimeouted ==
  /\ step[Timer] = "idle"
  /\ \E due \in SUBSET timed_messages_ \ {{}} :
       /\ timed_messages_' = timed_messages_ \ due
       /\ \E ms \in SetToSeqs(due) : Hold(Timer, ms)
  /\ Move(Timer, "expire")
  /\ UNCHANGED <<messages_, message_count_, expired_, called, pushed, sent, let_go>>

UncountExpired ==
  /\ step[Timer] = "uncount"
  /\ message_count_' = message_count_ - 1
  /\ Move(Timer, "expire")
  /\ UNCHANGED <<messages_, timed_messages_, expired_, called, pushed, hands, sent,
                 let_go>>

Add(a) == CountMessage(a) \/ Push(a) \/ Refuse(a)

Pops ==
  \/ Pop \/ LeaveOut \/ ReadNull
  \/ SendSome \/ CountBack \/ PushFront \/ Expire(Popper) \/ Expired(Popper)

Clear == ClearTimeouted \/ Expire(Timer) \/ Expired(Timer) \/ UncountExpired

QueueNext == (\E a \in Adders : Add(a)) \/ Pops \/ Clear

QueueSpec == QueueInit /\ [][QueueNext]_queueVars

-----------------------------------------------------------------------------
In(s) == {s[i] : i \in DOMAIN s}

\* The callback of a message is called once, though the timer and the popper
\* that drops it may both expire it.
CallbackOnce == \A m \in Messages : called[m] <= 1

\* "queue in push order" (MessageQueue.hpp:127): what comes back after a send
\* is in front of what was pushed meanwhile.
InPushOrder == \A i, j \in DOMAIN messages_ : i < j => messages_[i] < messages_[j]

\* The queue loses no message: one that is not in it was sent, is in the hands of
\* the popper, or its callback was called, except for what write() let go.
NoneForgotten ==
  \A m \in 1 .. pushed :
    \/ m \in In(messages_) \/ m \in In(hands[Popper])
    \/ m \in sent \/ m \in let_go \/ called[m] > 0

\* The queue takes messages only as its size allows: those pushed and not
\* timed out are fewer, although the count is taken back outside of the lock.
PushedBounded ==
  Cardinality({m \in 1 .. pushed : expired_[m] = 0})
    + Cardinality({a \in Adders : step[a] = "push"}) < max_size_

\* A message is called back once, the queue is in the order of the pushes, loses
\* nothing that write() does not let go, and keeps its size.
MessagesAccounted == CallbackOnce /\ InPushOrder /\ NoneForgotten /\ PushedBounded
=============================================================================
