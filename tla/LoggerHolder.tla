----------------------------- MODULE LoggerHolder -----------------------------
(***************************************************************************)
(* LoggerHolder over stream loggers: the holder keeps a copy of the level  *)
(* of its logger, which is read without a lock; it passes a new level to   *)
(* the logger outside of its lock.  A logger formats a record into a       *)
(* buffer that its threads share, under its own lock, and writes it to a   *)
(* stream.  A record is the thread that logs it and its severity.          *)
(***************************************************************************)
EXTENDS Naturals, FiniteSets

CONSTANTS LogThreads, Loggers, Levels, NoLogger

VARIABLES
  logger_, log_level_,  \* of the holder
  level,                \* [Loggers -> the level the logger has itself]
  lock_,                \* [Loggers -> the threads that hold its lock]
  BUFFER_,              \* [Loggers -> whose record is in the buffer]
  spot, mine, value,    \* where each thread is, its logger, its level or severity
  torn,                 \* history: a thread wrote what another one formatted
  overlapping           \* history: two changes of logger or level overlapped

loggerVars == <<logger_, log_level_, level, lock_, BUFFER_, spot, mine, value, torn,
                overlapping>>

LoggerInit ==
  /\ level \in [Loggers -> Levels]
  /\ logger_ \in Loggers \cup {NoLogger}
  /\ log_level_ = IF logger_ = NoLogger THEN 0 ELSE level[logger_]
  /\ lock_ = [l \in Loggers |-> {}] /\ BUFFER_ = [l \in Loggers |-> {}]
  /\ spot = [t \in LogThreads |-> "idle"] /\ mine = [t \in LogThreads |-> NoLogger]
  /\ value = [t \in LogThreads |-> 0]
  /\ torn = FALSE /\ overlapping = FALSE

Moves(t, from, to) == spot[t] = from /\ spot' = [spot EXCEPT ![t] = to]

Takes(t, l, v) == mine' = [mine EXCEPT ![t] = l] /\ value' = [value EXCEPT ![t] = v]

Changing == {t \in LogThreads : spot[t] = "pass"}

-----------------------------------------------------------------------------
\* logger(): the swap, and the level of the new one.
SetLogger(t) ==
  /\ spot[t] = "idle"
  /\ \E l \in Loggers \cup {NoLogger} :
       /\ logger_' = l
       /\ log_level_' = IF l = NoLogger THEN 0 ELSE level[l]
  /\ overlapping' = (overlapping \/ Changing # {})
  /\ UNCHANGED <<level, lock_, BUFFER_, spot, mine, value, torn>>

KeptLevel(v) == log_level_
NewLevel(v) == v

\* log_level(value): the holder's under the lock ...
SetLevel(t) ==
  /\ logger_ # NoLogger
  /\ Moves(t, "idle", "pass")
  /\ \E v \in Levels : Takes(t, logger_, v) /\ log_level_' = NewLevel(v)
  /\ overlapping' = (overlapping \/ Changing # {})
  /\ UNCHANGED <<logger_, level, lock_, BUFFER_, torn>>

\* ... and the logger's when it is given up.
PassLevel(t) ==
  /\ Moves(t, "pass", "idle") /\ Takes(t, NoLogger, 0)
  /\ level' = [level EXCEPT ![mine[t]] = value[t]]
  /\ UNCHANGED <<logger_, log_level_, lock_, BUFFER_, torn, overlapping>>

-----------------------------------------------------------------------------
\* LoggerHolder::log, for a severity up to the level, which is read without the
\* lock; above it nothing changes ...
Log(t) ==
  /\ Moves(t, "idle", "take")
  /\ \E severity \in Levels : severity <= log_level_ /\ Takes(t, NoLogger, severity)
  /\ UNCHANGED <<logger_, log_level_, level, lock_, BUFFER_, torn, overlapping>>

\* ... and the logger, under it.
TakeLogger(t) ==
  /\ \/ logger_ = NoLogger /\ Moves(t, "take", "idle") /\ Takes(t, NoLogger, 0)
     \/ logger_ # NoLogger /\ Moves(t, "take", "log") /\ Takes(t, logger_, value[t])
  /\ UNCHANGED <<logger_, log_level_, level, lock_, BUFFER_, torn, overlapping>>

\* Simple::Logger::log: the logger has a level of its own, and a lock.
LogRecord(t) ==
  /\ \/ Moves(t, "log", "idle") /\ value[t] > level[mine[t]] /\ Takes(t, NoLogger, 0)
     \/ Moves(t, "log", "lock") /\ value[t] <= level[mine[t]] /\ UNCHANGED <<mine, value>>
  /\ UNCHANGED <<logger_, log_level_, level, lock_, BUFFER_, torn, overlapping>>

Unguarded(l) == TRUE
Guarded(l) == lock_[l] = {}

LockLogger(t) ==
  /\ Moves(t, "lock", "format") /\ Guarded(mine[t])
  /\ lock_' = [lock_ EXCEPT ![mine[t]] = @ \cup {t}]
  /\ UNCHANGED <<logger_, log_level_, level, BUFFER_, mine, value, torn, overlapping>>

\* FormatWrapper::format, into the preallocated buffer.
Format(t) ==
  /\ Moves(t, "format", "write")
  /\ BUFFER_' = [BUFFER_ EXCEPT ![mine[t]] = {t}]
  /\ UNCHANGED <<logger_, log_level_, level, lock_, mine, value, torn, overlapping>>

\* Handler::publish, whether the stream takes the line or log() answers false;
\* what is left in the buffer is not read again.
Publish(t) ==
  /\ Moves(t, "write", "idle") /\ Takes(t, NoLogger, 0)
  /\ torn' = (torn \/ BUFFER_[mine[t]] # {t})
  /\ BUFFER_' = [BUFFER_ EXCEPT ![mine[t]] = {}]
  /\ lock_' = [lock_ EXCEPT ![mine[t]] = @ \ {t}]
  /\ UNCHANGED <<logger_, log_level_, level, overlapping>>

LoggerStep(t) ==
  \/ SetLogger(t) \/ SetLevel(t) \/ PassLevel(t) \/ Log(t) \/ TakeLogger(t) \/ LogRecord(t)
  \/ LockLogger(t) \/ Format(t) \/ Publish(t)

LoggerNext == \E t \in LogThreads : LoggerStep(t)

LoggerSpec == LoggerInit /\ [][LoggerNext]_loggerVars

-----------------------------------------------------------------------------
\* The copy of the level is the level of the logger, once a change is over and
\* as long as no two changes overlapped.
LevelsAgree ==
  logger_ # NoLogger /\ Changing = {} /\ ~overlapping => log_level_ = level[logger_]

\* Lines are whole: threads that log at once do not share the buffer.
LinesWhole == ~torn

\* Both: what log lines and levels promise whichever calls overlap.
LogRight == LevelsAgree /\ LinesWhole
=============================================================================
