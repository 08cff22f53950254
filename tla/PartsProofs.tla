----------------------------- MODULE PartsProofs -----------------------------
(***************************************************************************)
(* Theorems on components that stand alone in MCParts, for any threads,    *)
(* loggers, buffers, holders, addresses and pollers.                       *)
(*                                                                         *)
(* The arguments.  Loggers: between its lock and the end of its line a     *)
(* logger is one thread's, and changes of level that do not overlap agree  *)
(* with the holder.  Buffers: the two keys of a thread tell what it has    *)
(* and whether that is of the heap, at every step.  Cleaner: a step moves  *)
(* the counter, the entries and the threads under way together; as long as *)
(* no thread joins a round while another resets the last, the resetting    *)
(* thread is alone with all entries one, so that what was free when the    *)
(* round began has been released by all (InRound).  Registry: the          *)
(* allocator gives the address of a handler that somebody refers to nobody *)
(* else, so that of two handlers at one address the younger was created    *)
(* when nobody referred to the elder (Younger).  Proxies: the pointer of a *)
(* proxy is cleared before its poller goes, under the lock that readers    *)
(* hold while they follow it, and a poller in its destructor has no        *)
(* reference left and gets none (ProxyInv).                                *)
(***************************************************************************)
EXTENDS
  MCParts, FiniteSetTheorems, FunctionTheorems, SequenceTheorems, WellFoundedInduction, TLAPS

\* An instance has a Cardinality of its own, with the same definition.
LEMMA SameCardinality ==
  \A S : Buffer!Cardinality(S) = Cardinality(S) /\ Rounds!Cardinality(S) = Cardinality(S)
BY DEF Buffer!Cardinality, Rounds!Cardinality, Cardinality

-----------------------------------------------------------------------------
(* The holder of a logger.                                                 *)

Spots == {"idle", "pass", "take", "log", "lock", "format", "write"}

LoggerTypeOK ==
  /\ logger_ \in Loggers \cup {NoLogger}
  /\ DOMAIN level = Loggers
  /\ lock_ \in [Loggers -> SUBSET LogThreads] /\ BUFFER_ \in [Loggers -> SUBSET LogThreads]
  /\ spot \in [LogThreads -> Spots]
  /\ mine \in [LogThreads -> Loggers \cup {NoLogger}] /\ DOMAIN value = LogThreads
  /\ torn \in BOOLEAN /\ overlapping \in BOOLEAN
  /\ \A t \in LogThreads :
       spot[t] \in {"pass", "log", "lock", "format", "write"} => mine[t] \in Loggers

\* Between its lock and the end of the line a logger is one thread's, and so is
\* what it has formatted.
LockInv ==
  /\ \A t \in LogThreads : spot[t] \in {"format", "write"} => lock_[mine[t]] = {t}
  /\ \A t \in LogThreads : spot[t] = "write" => BUFFER_[mine[t]] = {t}
  /\ ~torn

\* As long as changes do not overlap, one that is under way is of the holder's
\* logger, and has the level that the holder shows.
ChangeInv ==
  ~overlapping =>
    /\ \A t, u \in Logging!Changing : t = u
    /\ \A t \in Logging!Changing : mine[t] = logger_ /\ value[t] = log_level_
    /\ Logging!LevelsAgree

LoggerInv == LoggerTypeOK /\ LockInv /\ ChangeInv

LEMMA LoggerInvInit == Logging!LoggerInit => LoggerInv
BY DEF Logging!LoggerInit, LoggerInv, LoggerTypeOK, Spots, LockInv, ChangeInv,
       Logging!Changing, Logging!LevelsAgree

LEMMA LoggerInvStep ==
  ASSUME LoggerInv, NEW t \in LogThreads, Logging!LoggerStep(t)
  PROVE  LoggerInv'
<1> USE DEF LoggerInv, Logging!Moves, Logging!Takes, Logging!Changing
<1>1. CASE Logging!SetLogger(t)
  <2>1. /\ LoggerTypeOK' /\ LockInv'
    BY <1>1 DEF Logging!SetLogger, LoggerTypeOK, LockInv
  <2>2. ChangeInv'
    BY <1>1 DEF Logging!SetLogger, LoggerTypeOK, ChangeInv, Logging!LevelsAgree
  <2> QED
    BY <2>1, <2>2
<1>2. CASE Logging!SetLevel(t)
  <2>1. /\ LoggerTypeOK' /\ LockInv'
    BY <1>2 DEF Logging!SetLevel, LoggerTypeOK, Spots, LockInv
  <2>2. ChangeInv'
    BY <1>2 DEF Logging!SetLevel, Logging!NewLevel, LoggerTypeOK, ChangeInv,
                Logging!LevelsAgree
  <2> QED
    BY <2>1, <2>2
<1>3. CASE Logging!PassLevel(t)
  <2>1. /\ LoggerTypeOK' /\ LockInv'
    BY <1>3 DEF Logging!PassLevel, LoggerTypeOK, Spots, LockInv
  <2>2. ChangeInv'
    BY <1>3 DEF Logging!PassLevel, LoggerTypeOK, ChangeInv, Logging!LevelsAgree
  <2> QED
    BY <2>1, <2>2
<1>4. CASE Logging!Log(t) \/ Logging!TakeLogger(t) \/ Logging!LogRecord(t)
  <2>1. /\ LoggerTypeOK' /\ LockInv'
    BY <1>4 DEF Logging!Log, Logging!TakeLogger, Logging!LogRecord, LoggerTypeOK, Spots, LockInv
  <2>2. ChangeInv'
    BY <1>4 DEF Logging!Log, Logging!TakeLogger, Logging!LogRecord, LoggerTypeOK, ChangeInv,
                Logging!LevelsAgree
  <2> QED
    BY <2>1, <2>2
<1>5. CASE Logging!LockLogger(t)
  <2>1. /\ spot[t] = "lock" /\ mine[t] \in Loggers /\ lock_[mine[t]] = {}
        /\ \A u \in LogThreads : spot'[u] = IF u = t THEN "format" ELSE spot[u]
        /\ \A l \in Loggers : lock_'[l] = IF l = mine[t] THEN {t} ELSE lock_[l]
        /\ spot' \in [LogThreads -> Spots] /\ lock_' \in [Loggers -> SUBSET LogThreads]
        /\ UNCHANGED <<logger_, log_level_, level, BUFFER_, mine, value, torn, overlapping>>
    BY <1>5 DEF Logging!LockLogger, Logging!Guarded, LoggerTypeOK, Spots
  <2>2. LoggerTypeOK' /\ LockInv'
    BY <2>1 DEF LoggerTypeOK, LockInv
  <2>3. ChangeInv'
    BY <2>1 DEF LoggerTypeOK, ChangeInv, Logging!LevelsAgree
  <2> QED
    BY <2>2, <2>3
<1>6. CASE Logging!Format(t)
  <2>1. /\ spot[t] = "format" /\ mine[t] \in Loggers
        /\ \A u \in LogThreads : spot'[u] = IF u = t THEN "write" ELSE spot[u]
        /\ \A l \in Loggers : BUFFER_'[l] = IF l = mine[t] THEN {t} ELSE BUFFER_[l]
        /\ spot' \in [LogThreads -> Spots] /\ BUFFER_' \in [Loggers -> SUBSET LogThreads]
        /\ UNCHANGED <<logger_, log_level_, level, lock_, mine, value, torn, overlapping>>
    BY <1>6 DEF Logging!Format, LoggerTypeOK, Spots
  <2>2. LoggerTypeOK' /\ LockInv'
    BY <2>1 DEF LoggerTypeOK, LockInv
  <2>3. ChangeInv'
    BY <2>1 DEF LoggerTypeOK, ChangeInv, Logging!LevelsAgree
  <2> QED
    BY <2>2, <2>3
<1>7. CASE Logging!Publish(t)
  <2>1. /\ spot[t] = "write" /\ mine[t] \in Loggers /\ torn' = torn
        /\ \A u \in LogThreads : spot'[u] = IF u = t THEN "idle" ELSE spot[u]
        /\ \A u \in LogThreads : mine'[u] = IF u = t THEN NoLogger ELSE mine[u]
        /\ \A l \in Loggers : l # mine[t] => BUFFER_'[l] = BUFFER_[l] /\ lock_'[l] = lock_[l]
        /\ spot' \in [LogThreads -> Spots] /\ mine' \in [LogThreads -> Loggers \cup {NoLogger}]
        /\ UNCHANGED <<logger_, log_level_, level, overlapping>>
    BY <1>7 DEF Logging!Publish, LoggerTypeOK, Spots, LockInv
  <2>2. /\ lock_' \in [Loggers -> SUBSET LogThreads]
        /\ BUFFER_' \in [Loggers -> SUBSET LogThreads]
        /\ DOMAIN value' = LogThreads
        /\ \A u \in LogThreads : u # t => value'[u] = value[u]
    BY <1>7 DEF Logging!Publish, LoggerTypeOK
  <2>3. LoggerTypeOK'
    BY <2>1, <2>2 DEF LoggerTypeOK
  <2>4. LockInv'
    BY <2>1 DEF LoggerTypeOK, LockInv
  <2>5. ChangeInv'
    BY <2>1, <2>2 DEF LoggerTypeOK, ChangeInv, Logging!LevelsAgree
  <2> QED
    BY <2>3, <2>4, <2>5
<1> QED
  BY <1>1, <1>2, <1>3, <1>4, <1>5, <1>6, <1>7 DEF Logging!LoggerStep

\* For any threads and loggers: lines are whole, and the holder's copy of the
\* level is that of its logger once a change is over, unless changes overlapped.
THEOREM LoggingIsRight == PartsSpec => []LogRight
<1>1. PartsInit => LoggerInv
  BY LoggerInvInit DEF PartsInit
<1>2. LoggerInv /\ [PartsNext]_<<part, aloneVars, sharedVars, pollerVars>> => LoggerInv'
  <2>1. [PartsNext]_<<part, aloneVars, sharedVars, pollerVars>> =>
          Logging!LoggerNext \/ UNCHANGED loggerVars
    BY DEF PartsNext, PollerNext, pollerVars
  <2>2. LoggerInv /\ Logging!LoggerNext => LoggerInv'
    BY LoggerInvStep DEF Logging!LoggerNext
  <2>3. LoggerInv /\ UNCHANGED loggerVars => LoggerInv'
    BY DEF loggerVars, LoggerInv, LoggerTypeOK, LockInv, ChangeInv, Logging!Changing,
           Logging!LevelsAgree
  <2> QED
    BY <2>1, <2>2, <2>3
<1>3. LoggerInv => LogRight
  BY DEF LoggerInv, LockInv, ChangeInv, LogRight, Logging!LogRight, Logging!LevelsAgree,
         Logging!LinesWhole
<1> QED
  BY <1>1, <1>2, <1>3, PTL DEF PartsSpec

-----------------------------------------------------------------------------
(* The buffers of threads.                                                 *)

BufferSteps == {"run", "take", "new", "set_type", "set_buffer", "free", "ended"}
AnyBuffer == StaticBuffers \cup HeapBuffers \cup {NoBuffer}

BufferTypeOK ==
  /\ at \in [BufferThreads -> BufferSteps]
  /\ local \in [BufferThreads -> AnyBuffer] /\ bufferKey \in [BufferThreads -> AnyBuffer]
  /\ typeKey \in [BufferThreads -> AnyBuffer]
  /\ pool \in Seq(StaticBuffers) /\ heap \subseteq HeapBuffers

\* The keys of a thread tell what it has: buffer_key_ is set only while it runs,
\* and type_key_ says whether the buffer is of the heap, from before buffer_key_
\* is set until the buffer is given back.
KeysTell ==
  \A t \in BufferThreads :
    /\ at[t] # "run" => bufferKey[t] = NoBuffer
    /\ at[t] \in {"take", "new"} \/ (at[t] = "run" /\ bufferKey[t] = NoBuffer) =>
         typeKey[t] = NoBuffer
    /\ at[t] \in {"set_type", "set_buffer", "free"} => local[t] # NoBuffer
    /\ at[t] = "set_type" => local[t] \in heap
    /\ at[t] \in {"set_buffer", "free"} => (local[t] \in heap <=> typeKey[t] # NoBuffer)
    /\ at[t] = "run" /\ bufferKey[t] # NoBuffer =>
         (bufferKey[t] \in heap <=> typeKey[t] # NoBuffer)

Pooled == {pool[i] : i \in DOMAIN pool}

\* Every buffer is with one thread or free, and nothing else is.
OneHome ==
  /\ \A t, u \in BufferThreads :
       Buffer!Holds(t) # NoBuffer /\ t # u => Buffer!Holds(t) # Buffer!Holds(u)
  /\ \A t \in BufferThreads : Buffer!Holds(t) \notin Pooled
  /\ \A t \in BufferThreads : Buffer!Holds(t) \in StaticBuffers \cup heap \cup {NoBuffer}
  /\ \A b \in StaticBuffers \cup heap :
       b \in Pooled \/ \E t \in BufferThreads : Buffer!Holds(t) = b
  /\ \A i, j \in DOMAIN pool : pool[i] = pool[j] => i = j

BufferInv == BufferTypeOK /\ KeysTell /\ OneHome

\* The static buffers in some order.
LEMMA InitialPool ==
  /\ Buffer!Initial \in Seq(StaticBuffers)
  /\ {Buffer!Initial[i] : i \in DOMAIN Buffer!Initial} = StaticBuffers
  /\ \A i, j \in DOMAIN Buffer!Initial : Buffer!Initial[i] = Buffer!Initial[j] => i = j
<1> DEFINE n == Cardinality(StaticBuffers)
           Right(s) == \A i, j \in DOMAIN s : s[i] = s[j] => i = j
<1>1. n \in Nat /\ IsFiniteSet(StaticBuffers) /\ ExistsBijection(1 .. n, StaticBuffers)
  BY PartsAssumption, FS_CardinalityType
<1>2. \E s \in [1 .. n -> StaticBuffers] : Right(s)
  <2>1. PICK f \in Bijection(1 .. n, StaticBuffers) : TRUE
    BY <1>1 DEF ExistsBijection
  <2> QED
    BY <2>1 DEF Bijection, Injection, IsInjective
<1>3. Buffer!Initial \in [1 .. n -> StaticBuffers] /\ Right(Buffer!Initial)
  <2> HIDE DEF n
  <2>1. Buffer!Initial = CHOOSE s \in [1 .. n -> StaticBuffers] : Right(s)
    BY SameCardinality DEF Buffer!Initial, n
  <2> QED
    BY <1>2, <2>1
<1>4. Buffer!Initial \in Seq(StaticBuffers)
  BY <1>1, <1>3, SeqDef
<1>5. Buffer!Initial \in Surjection(1 .. n, StaticBuffers)
  <2>1. Buffer!Initial \in Injection(1 .. n, StaticBuffers)
    BY <1>3 DEF Injection, IsInjective
  <2>2. Cardinality(1 .. n) = n
    BY <1>1, FS_Interval
  <2> HIDE DEF n
  <2> QED
    BY <1>1, <2>1, <2>2, FS_Injection DEF n
<1>6. {Buffer!Initial[i] : i \in DOMAIN Buffer!Initial} = StaticBuffers
  BY <1>3, <1>5 DEF Surjection
<1> QED
  BY <1>3, <1>4, <1>6

LEMMA BufferInvInit == Buffer!ThreadBufferInit => BufferInv
<1> SUFFICES ASSUME Buffer!ThreadBufferInit
             PROVE  BufferInv
  OBVIOUS
<1>1. /\ pool \in Seq(StaticBuffers) /\ Pooled = StaticBuffers /\ heap = {}
      /\ \A i, j \in DOMAIN pool : pool[i] = pool[j] => i = j
  BY InitialPool DEF Buffer!ThreadBufferInit, Pooled
<1>2. \A t \in BufferThreads : Buffer!Holds(t) = NoBuffer
  BY DEF Buffer!ThreadBufferInit, Buffer!Holds
<1>3. BufferTypeOK /\ KeysTell
  BY <1>1 DEF Buffer!ThreadBufferInit, BufferTypeOK, BufferSteps, AnyBuffer, KeysTell
<1>4. OneHome
  BY <1>1, <1>2, PartsAssumption DEF OneHome
<1> QED
  BY <1>3, <1>4 DEF BufferInv

\* Steps in which a thread goes on with what it has.
LEMMA BufferStays ==
  ASSUME BufferInv, NEW t \in BufferThreads,
         \/ Buffer!GetBuffer(t) \/ Buffer!SetType(t) \/ Buffer!SetBuffer(t)
         \/ Buffer!EndThread(t) \/ Buffer!StartThread(t)
         \/ Buffer!TakeStatic(t) /\ pool = <<>>
         \/ Buffer!NewBuffer(t) /\ UNCHANGED heap
  PROVE  BufferInv'
<1> USE DEF BufferInv, Buffer!Without
<1>1. BufferTypeOK'
  BY DEF BufferTypeOK, BufferSteps, AnyBuffer, Buffer!GetBuffer, Buffer!SetType, Buffer!SetTypeKey,
         Buffer!SetBuffer, Buffer!EndThread, Buffer!StartThread, Buffer!TakeStatic, Buffer!NewBuffer
<1>2. UNCHANGED <<pool, heap>>
  BY DEF Buffer!GetBuffer, Buffer!SetType, Buffer!SetBuffer, Buffer!EndThread,
         Buffer!StartThread, Buffer!TakeStatic, Buffer!NewBuffer
<1>3. \A u \in BufferThreads :
        u # t => /\ at'[u] = at[u] /\ local'[u] = local[u]
                 /\ bufferKey'[u] = bufferKey[u] /\ typeKey'[u] = typeKey[u]
  BY DEF BufferTypeOK, Buffer!GetBuffer, Buffer!SetType, Buffer!SetTypeKey,
         Buffer!SetBuffer, Buffer!EndThread, Buffer!StartThread, Buffer!TakeStatic, Buffer!NewBuffer
<1>4. \A u \in BufferThreads : Buffer!Holds(u)' = Buffer!Holds(u)
  BY <1>3 DEF BufferTypeOK, KeysTell, Buffer!Holds, Buffer!GetBuffer, Buffer!SetType,
              Buffer!SetBuffer, Buffer!EndThread, Buffer!StartThread, Buffer!TakeStatic, Buffer!NewBuffer
<1>5. KeysTell'
  BY <1>2, <1>3, PartsAssumption
     DEF BufferTypeOK, KeysTell, Buffer!GetBuffer, Buffer!SetType, Buffer!SetTypeKey,
         Buffer!SetBuffer, Buffer!EndThread, Buffer!StartThread, Buffer!TakeStatic, Buffer!NewBuffer
<1>6. OneHome'
  BY <1>2, <1>4 DEF OneHome, Pooled
<1> QED
  BY <1>1, <1>5, <1>6

\* A buffer that nobody has is given to a thread that has none.
LEMMA BufferGiven ==
  ASSUME BufferInv, NEW t \in BufferThreads, NEW b, b # NoBuffer,
         Buffer!Holds(t) = NoBuffer, \A u \in BufferThreads : Buffer!Holds(u) # b,
         \A u \in BufferThreads : Buffer!Holds(u)' = IF u = t THEN b ELSE Buffer!Holds(u),
         Pooled' = Pooled \ {b}, heap' \in {heap, heap \cup {b}},
         b \in StaticBuffers \cup heap',
         \A i, j \in DOMAIN pool' : pool'[i] = pool'[j] => i = j
  PROVE  OneHome'
<1>1. \A u, v \in BufferThreads : Buffer!Holds(u)' # NoBuffer /\ u # v =>
                                    Buffer!Holds(u)' # Buffer!Holds(v)'
  BY DEF BufferInv, OneHome
<1>2. \A u \in BufferThreads : /\ Buffer!Holds(u)' \notin Pooled'
                               /\ Buffer!Holds(u)' \in StaticBuffers \cup heap' \cup {NoBuffer}
  BY DEF BufferInv, OneHome
<1>3. ASSUME NEW x \in StaticBuffers \cup heap'
      PROVE  x \in Pooled' \/ \E u \in BufferThreads : Buffer!Holds(u)' = x
  <2>1. CASE x = b
    BY <2>1
  <2>2. CASE x # b /\ x \notin Pooled
    <3>1. PICK u \in BufferThreads : Buffer!Holds(u) = x
      BY <2>2 DEF BufferInv, OneHome
    <3>2. x # NoBuffer
      BY <2>2, PartsAssumption DEF BufferInv, BufferTypeOK
    <3> QED
      BY <3>1, <3>2
  <2> QED
    BY <2>1, <2>2
<1> QED
  BY <1>1, <1>2, <1>3 DEF OneHome

\* The last of the static buffers that are free, under mutex_.
LEMMA TakeStaticKeeps ==
  ASSUME BufferInv, NEW t \in BufferThreads, Buffer!TakeStatic(t), pool # <<>>
  PROVE  BufferInv'
<1> DEFINE b == pool[Len(pool)]
<1>1. /\ at[t] = "take" /\ at' = [at EXCEPT ![t] = "set_buffer"]
      /\ local' = [local EXCEPT ![t] = b] /\ pool' = SubSeq(pool, 1, Len(pool) - 1)
      /\ UNCHANGED <<bufferKey, typeKey, heap>>
  BY DEF Buffer!TakeStatic
<1>2. /\ Len(pool) \in Nat \ {0} /\ DOMAIN pool = 1 .. Len(pool) /\ b \in StaticBuffers
      /\ pool' \in Seq(StaticBuffers) /\ DOMAIN pool' = 1 .. Len(pool) - 1
      /\ \A i \in 1 .. Len(pool) - 1 : pool'[i] = pool[i]
  BY <1>1 DEF BufferInv, BufferTypeOK
<1>3. /\ b # NoBuffer /\ b \notin heap /\ b \in Pooled
  <2>1. b \in Pooled
    BY <1>2 DEF Pooled
  <2>2. heap \subseteq HeapBuffers
    BY DEF BufferInv, BufferTypeOK
  <2>3. NoBuffer \notin StaticBuffers /\ StaticBuffers \cap HeapBuffers = {}
    BY PartsAssumption
  <2> QED
    BY <1>2, <2>1, <2>2, <2>3
<1>4. Pooled' = Pooled \ {b}
  <2>1. \A i \in 1 .. Len(pool) : i \in 1 .. Len(pool) - 1 <=> pool[i] # b
    BY <1>2 DEF BufferInv, OneHome
  <2>2. Pooled' = {pool[i] : i \in 1 .. Len(pool) - 1}
    BY <1>2 DEF Pooled
  <2>3. Pooled = {pool[i] : i \in 1 .. Len(pool)}
    BY <1>2 DEF Pooled
  <2> HIDE DEF b
  <2>4. 1 .. Len(pool) - 1 \subseteq 1 .. Len(pool)
    BY <1>2
  <2> QED
    BY <2>1, <2>2, <2>3, <2>4
<1> HIDE DEF b
<1>5. /\ \A u \in BufferThreads : at'[u] = IF u = t THEN "set_buffer" ELSE at[u]
      /\ \A u \in BufferThreads : local'[u] = IF u = t THEN b ELSE local[u]
  BY <1>1 DEF BufferInv, BufferTypeOK
<1>6. /\ Buffer!Holds(t) = NoBuffer
      /\ \A u \in BufferThreads : Buffer!Holds(u)' = IF u = t THEN b ELSE Buffer!Holds(u)
  BY <1>1, <1>5 DEF BufferInv, KeysTell, Buffer!Holds
<1>7. BufferTypeOK'
  BY <1>1, <1>2 DEF BufferInv, BufferTypeOK, BufferSteps, AnyBuffer
<1>8. KeysTell'
  BY <1>1, <1>3, <1>5 DEF BufferInv, KeysTell
<1>9. OneHome'
  <2>1. \A i, j \in DOMAIN pool' : pool'[i] = pool'[j] => i = j
    <3>1. 1 .. Len(pool) - 1 \subseteq 1 .. Len(pool)
      BY <1>2
    <3> QED
      BY <1>2, <3>1 DEF BufferInv, OneHome
  <2>2. \A u \in BufferThreads : Buffer!Holds(u) # b
    BY <1>3 DEF BufferInv, OneHome
  <2> QED
    BY <1>1, <1>2, <1>3, <1>4, <1>6, <2>1, <2>2, BufferGiven
<1> QED
  BY <1>7, <1>8, <1>9 DEF BufferInv

\* A block of the heap that nobody has.
LEMMA NewBufferKeeps ==
  ASSUME BufferInv, NEW t \in BufferThreads, NEW b \in HeapBuffers \ heap,
         at[t] = "new", at' = [at EXCEPT ![t] = "set_type"],
         local' = [local EXCEPT ![t] = b], heap' = heap \cup {b},
         UNCHANGED <<bufferKey, typeKey, pool>>
  PROVE  BufferInv'
<1>1. /\ \A u \in BufferThreads : at'[u] = IF u = t THEN "set_type" ELSE at[u]
      /\ \A u \in BufferThreads : local'[u] = IF u = t THEN b ELSE local[u]
  BY DEF BufferInv, BufferTypeOK
<1>2. /\ Buffer!Holds(t) = NoBuffer
      /\ \A u \in BufferThreads : Buffer!Holds(u)' = IF u = t THEN b ELSE Buffer!Holds(u)
  BY <1>1 DEF BufferInv, KeysTell, Buffer!Holds
<1>3. /\ Pooled' = Pooled /\ Pooled \subseteq StaticBuffers
      /\ b # NoBuffer /\ b \notin StaticBuffers /\ b \notin heap
  BY PartsAssumption DEF Pooled, BufferInv, BufferTypeOK
<1>4. \A u \in BufferThreads : Buffer!Holds(u) # b
  BY <1>3 DEF BufferInv, OneHome
<1>5. BufferTypeOK'
  BY DEF BufferInv, BufferTypeOK, BufferSteps, AnyBuffer
<1>6. KeysTell'
  <2>1. \A u \in BufferThreads :
          /\ at[u] = "set_buffer" \/ at[u] = "free" => local[u] # b
          /\ at[u] = "run" => bufferKey[u] # b
    BY <1>4 DEF Buffer!Holds
  <2> QED
    BY <1>1, <1>3, <2>1 DEF BufferInv, KeysTell
<1>7. OneHome'
  BY <1>2, <1>3, <1>4, BufferGiven DEF BufferInv, OneHome
<1> QED
  BY <1>5, <1>6, <1>7 DEF BufferInv

\* A buffer goes back where type_key_ says it is from.
LEMMA FreeBufferKeeps ==
  ASSUME BufferInv, NEW t \in BufferThreads, Buffer!FreeBuffer(t)
  PROVE  BufferInv'
<1> DEFINE b == local[t]
<1>1. /\ at[t] = "free" /\ at' = [at EXCEPT ![t] = "ended"]
      /\ UNCHANGED <<local, bufferKey, typeKey>>
  BY DEF Buffer!FreeBuffer
<1>2. /\ \A u \in BufferThreads : at'[u] = IF u = t THEN "ended" ELSE at[u]
      /\ at' \in [BufferThreads -> BufferSteps]
  BY <1>1 DEF BufferInv, BufferTypeOK, BufferSteps
<1>3. /\ Buffer!Holds(t) = b /\ b # NoBuffer /\ bufferKey[t] = NoBuffer
      /\ \A u \in BufferThreads :
           Buffer!Holds(u)' = IF u = t THEN NoBuffer ELSE Buffer!Holds(u)
  BY <1>1, <1>2 DEF BufferInv, KeysTell, Buffer!Holds
<1>4. /\ b \notin Pooled /\ b \in StaticBuffers \cup heap
      /\ \A u \in BufferThreads : u # t => Buffer!Holds(u) # b
      /\ Pooled \subseteq StaticBuffers /\ NoBuffer \notin StaticBuffers
      /\ (b \in heap <=> typeKey[t] # NoBuffer) /\ (b \in heap => b \notin StaticBuffers)
  BY <1>1, <1>3, PartsAssumption DEF BufferInv, BufferTypeOK, OneHome, KeysTell, Pooled
<1>5. \/ heap' = heap \ {b} /\ b \in heap /\ UNCHANGED pool
      \/ pool' = Append(pool, b) /\ b \notin heap /\ UNCHANGED heap
  BY <1>4 DEF Buffer!FreeBuffer
<1> HIDE DEF b
<1>6. BufferTypeOK'
  <2>1. pool \in Seq(StaticBuffers) /\ heap \subseteq HeapBuffers
    BY DEF BufferInv, BufferTypeOK
  <2>2. heap' \subseteq HeapBuffers
    BY <1>5, <2>1
  <2>3. b \notin heap => Append(pool, b) \in Seq(StaticBuffers)
    <3>1. b \notin heap => b \in StaticBuffers
      BY <1>4
    <3> QED
      BY <2>1, <3>1, AppendProperties
  <2>4. pool' \in Seq(StaticBuffers)
    BY <1>5, <2>1, <2>3
  <2> QED
    BY <1>1, <1>2, <2>2, <2>4 DEF BufferInv, BufferTypeOK
<1>7. KeysTell'
  <2>1. \A u \in BufferThreads : u # t =>
          /\ at[u] \in {"set_type", "set_buffer", "free"} => local[u] # b
          /\ at[u] = "run" => bufferKey[u] # b
    BY <1>4 DEF Buffer!Holds
  <2> QED
    BY <1>1, <1>2, <1>3, <1>5, <2>1 DEF BufferInv, KeysTell
<1>8. CASE heap' = heap \ {b} /\ b \in heap /\ UNCHANGED pool
  BY <1>3, <1>4, <1>6, <1>7, <1>8 DEF BufferInv, OneHome, Pooled
<1>9. CASE pool' = Append(pool, b) /\ b \notin heap /\ UNCHANGED heap
  <2>1. /\ Len(pool) \in Nat /\ DOMAIN pool = 1 .. Len(pool)
        /\ DOMAIN pool' = 1 .. Len(pool) + 1 /\ pool'[Len(pool) + 1] = b
        /\ \A i \in 1 .. Len(pool) : pool'[i] = pool[i]
    BY <1>9 DEF BufferInv, BufferTypeOK
  <2>2. Pooled' = Pooled \cup {b}
    BY <2>1 DEF Pooled
  <2>3. \A i \in DOMAIN pool : pool[i] # b
    BY <1>4 DEF Pooled
  <2>4. \A i, j \in DOMAIN pool' : pool'[i] = pool'[j] => i = j
    <3>1. \A i \in 1 .. Len(pool) + 1 : i = Len(pool) + 1 \/ i \in 1 .. Len(pool)
      BY <2>1
    <3> QED
      BY <2>1, <2>3, <3>1 DEF BufferInv, OneHome
  <2>5. NoBuffer \notin Pooled'
    BY <1>3, <1>4, <2>2
  <2>6. OneHome'
    BY <1>3, <1>4, <1>9, <2>2, <2>4, <2>5 DEF BufferInv, OneHome
  <2> QED
    BY <1>6, <1>7, <2>6 DEF BufferInv
<1> QED
  BY <1>5, <1>8, <1>9

\* For any threads and buffers: no buffer is two threads', or a thread's and
\* free, and none is lost or given back twice.
THEOREM BuffersAreKept == PartsSpec => []BuffersKept
<1>1. PartsInit => BufferInv
  BY BufferInvInit DEF PartsInit
<1>2. BufferInv /\ [PartsNext]_<<part, aloneVars, sharedVars, pollerVars>> => BufferInv'
  <2>1. [PartsNext]_<<part, aloneVars, sharedVars, pollerVars>> =>
          Buffer!ThreadBufferNext \/ UNCHANGED bufferVars
    BY DEF PartsNext, SharedNext, sharedVars
  <2>2. ASSUME BufferInv, NEW t \in BufferThreads,
               \/ Buffer!GetBuffer(t) \/ Buffer!TakeStatic(t) \/ Buffer!NewBuffer(t)
               \/ Buffer!SetType(t) \/ Buffer!SetBuffer(t) \/ Buffer!EndThread(t)
               \/ Buffer!FreeBuffer(t) \/ Buffer!StartThread(t)
        PROVE  BufferInv'
    <3>1. CASE Buffer!NewBuffer(t)
      BY <2>2, <3>1, NewBufferKeeps, BufferStays DEF Buffer!NewBuffer
    <3>2. CASE Buffer!TakeStatic(t)
      BY <2>2, <3>2, TakeStaticKeeps, BufferStays
    <3>3. CASE Buffer!FreeBuffer(t)
      BY <2>2, <3>3, FreeBufferKeeps
    <3> QED
      BY <2>2, <3>1, <3>2, <3>3, BufferStays
  <2>3. BufferInv /\ UNCHANGED bufferVars => BufferInv'
    BY DEF bufferVars, BufferInv, BufferTypeOK, KeysTell, OneHome, Pooled, Buffer!Holds
  <2> QED
    BY <2>1, <2>2, <2>3 DEF Buffer!ThreadBufferNext
<1>3. ASSUME BufferInv PROVE BuffersKept
  <2>1. Buffer!BuffersApart
    BY <1>3 DEF BufferInv, OneHome, Pooled, Buffer!BuffersApart
  <2>2. Pooled \cup {Buffer!Holds(t) : t \in BufferThreads} \subseteq
          StaticBuffers \cup heap \cup {NoBuffer}
    BY <1>3 DEF BufferInv, BufferTypeOK, OneHome, Pooled
  <2>3. StaticBuffers \cup heap \subseteq Pooled \cup {Buffer!Holds(t) : t \in BufferThreads}
    BY <1>3 DEF BufferInv, OneHome
  <2>4. NoBuffer \notin StaticBuffers \cup heap
    BY <1>3, PartsAssumption DEF BufferInv, BufferTypeOK
  <2>5. (Pooled \cup {Buffer!Holds(t) : t \in BufferThreads}) \ {NoBuffer}
          = StaticBuffers \cup heap
    BY <2>2, <2>3, <2>4
  <2>6. Len(pool) <= Cardinality(StaticBuffers)
    <3>1. pool \in [1 .. Len(pool) -> StaticBuffers] /\ Len(pool) \in Nat
      BY <1>3 DEF BufferInv, BufferTypeOK
    <3>2. pool \in Injection(1 .. Len(pool), StaticBuffers)
      BY <1>3, <3>1 DEF BufferInv, OneHome, Injection, IsInjective
    <3>3. Cardinality(1 .. Len(pool)) <= Cardinality(StaticBuffers)
      BY <3>2, PartsAssumption, FS_Injection
    <3> QED
      BY <3>1, <3>3, FS_Interval
  <2> QED
    BY <1>3, <2>1, <2>5, <2>6, SameCardinality
       DEF BuffersKept, Buffer!BuffersKept, BufferInv, OneHome, Pooled
<1> QED
  BY <1>1, <1>2, <1>3, PTL DEF PartsSpec

-----------------------------------------------------------------------------
(* The cleaner.  `released_by' is the history `called' of Cleaner.         *)

\* A holder is in one place.
Placed ==
  /\ free_ \cap free_candidates_ = {} /\ free_ \cap destroyed = {}
  /\ free_candidates_ \cap destroyed = {}
  /\ \A t \in Rounds!Threads :
       clear_list[t] \cap (free_ \cup free_candidates_ \cup destroyed) = {}
  /\ \A t, u \in Rounds!Threads : t # u => clear_list[t] \cap clear_list[u] = {}

\* The reset loop stays within the array, and only its own thread raises an entry.
Walks ==
  \A t \in Rounds!Threads :
    /\ pc[t] \in {"reset", "restore"} => it[t] \in 1 .. N
    /\ pc[t] = "mark" => release_array_[t] <= 0

AllReleased(os) == \A o \in os : released_by[o] = Rounds!Threads

\* As long as no thread joins a round while another resets the last: the resetting
\* thread is alone, the entries before its iterator are zero and the rest one, and
\* who is marked in a round began its release() after the last swap.
InRound ==
  ~overlap =>
    /\ \A t \in Rounds!Threads :
         /\ release_array_[t] \in {0, 1} /\ pc[t] # "revert"
         /\ pc[t] = "mark" => release_array_[t] = 0
         /\ pc[t] = "count" => release_array_[t] = 1
         /\ AllReleased(clear_list[t])
    /\ AllReleased(destroyed)
    /\ \A t \in Rounds!Threads : pc[t] \in Rounds!Resetting =>
         /\ \A u \in Rounds!Threads : u = t \/ pc[u] \in {"idle", "destroy"}
         /\ AllReleased(free_)
         /\ pc[t] = "reset" => \A i \in Rounds!Threads : release_array_[i] = 1 <=> i >= it[t]
         /\ pc[t] = "restore" => \A i \in Rounds!Threads : release_array_[i] = 1 <=> i > it[t]
         /\ pc[t] = "swap" => \A i \in Rounds!Threads : release_array_[i] = 0
    /\ \A t \in Rounds!Threads, o \in free_ :
         release_array_[t] = 1 \/ pc[t] = "mark" => t \in released_by[o]

CleanerInv == Rounds!TypeOK /\ Rounds!CountConsistent /\ Placed /\ Walks /\ InRound

Marked == {t \in Rounds!Threads : release_array_[t] = 1}

LEMMA CleanerSets ==
  /\ N \in Nat \ {0} /\ Rounds!Threads = 1 .. N
  /\ IsFiniteSet(Rounds!Threads) /\ Cardinality(Rounds!Threads) = N
  /\ IsFiniteSet(Marked) /\ Cardinality(Marked) \in Nat
  /\ \A l : IsFiniteSet(Rounds!At(l)) /\ Cardinality(Rounds!At(l)) \in Nat
<1>1. /\ N \in Nat \ {0} /\ Rounds!Threads = 1 .. N
      /\ IsFiniteSet(Rounds!Threads) /\ Cardinality(Rounds!Threads) = N
  BY PartsAssumption, FS_Interval DEF Rounds!Threads
<1>2. IsFiniteSet(Marked) /\ \A l : IsFiniteSet(Rounds!At(l))
  BY <1>1, FS_Subset DEF Marked, Rounds!At
<1> QED
  BY <1>1, <1>2, FS_CardinalityType

\* The counter, in the sets of this module.
LEMMA Consistent ==
  Rounds!CountConsistent <=>
    unreleased_count_ = N - Cardinality(Marked) + Cardinality(Rounds!At("count"))
                          - Cardinality(Rounds!At("restore"))
BY SameCardinality DEF Rounds!CountConsistent, Marked

LEMMA ConsistentNext ==
  ASSUME unreleased_count_' =
           N - Cardinality(Marked)' + Cardinality(Rounds!At("count"))'
             - Cardinality(Rounds!At("restore"))'
  PROVE  Rounds!CountConsistent'
BY SameCardinality DEF Rounds!CountConsistent, Marked

LEMMA LabelCounted ==
  ASSUME Rounds!TypeOK, NEW t \in Rounds!Threads, NEW to, pc' = [pc EXCEPT ![t] = to]
  PROVE  \A l : Cardinality(Rounds!At(l))' = Cardinality(Rounds!At(l))
                  + (IF to = l /\ pc[t] # l THEN 1 ELSE 0)
                  - (IF to # l /\ pc[t] = l THEN 1 ELSE 0)
<1> TAKE l
<1>1. /\ IsFiniteSet(Rounds!At(l)) /\ Cardinality(Rounds!At(l)) \in Nat
      /\ \A u \in Rounds!Threads : pc'[u] = IF u = t THEN to ELSE pc[u]
      /\ (t \in Rounds!At(l) <=> pc[t] = l)
  BY CleanerSets DEF Rounds!TypeOK, Rounds!At
<1>2. CASE to = l
  <2>1. Rounds!At(l)' = Rounds!At(l) \cup {t}
    BY <1>1, <1>2 DEF Rounds!At
  <2>2. Cardinality(Rounds!At(l) \cup {t})
          = IF t \in Rounds!At(l) THEN Cardinality(Rounds!At(l))
            ELSE Cardinality(Rounds!At(l)) + 1
    BY <1>1, FS_AddElement
  <2> QED
    BY <1>1, <1>2, <2>1, <2>2
<1>3. CASE to # l
  <2>1. Rounds!At(l)' = Rounds!At(l) \ {t}
    BY <1>1, <1>3 DEF Rounds!At
  <2>2. Cardinality(Rounds!At(l) \ {t})
          = IF t \in Rounds!At(l) THEN Cardinality(Rounds!At(l)) - 1
            ELSE Cardinality(Rounds!At(l))
    BY <1>1, FS_RemoveElement
  <2> QED
    BY <1>1, <1>3, <2>1, <2>2
<1> QED
  BY <1>2, <1>3

LEMMA MarkCounted ==
  ASSUME Rounds!TypeOK, NEW t \in Rounds!Threads, NEW v,
         release_array_' = [release_array_ EXCEPT ![t] = v]
  PROVE  Cardinality(Marked)' = Cardinality(Marked)
           + (IF v = 1 /\ release_array_[t] # 1 THEN 1 ELSE 0)
           - (IF v # 1 /\ release_array_[t] = 1 THEN 1 ELSE 0)
<1>1. /\ IsFiniteSet(Marked) /\ Cardinality(Marked) \in Nat
      /\ \A u \in Rounds!Threads : release_array_'[u] = IF u = t THEN v ELSE release_array_[u]
      /\ (t \in Marked <=> release_array_[t] = 1)
  BY CleanerSets DEF Rounds!TypeOK, Marked
<1>2. CASE v = 1
  <2>1. Marked' = Marked \cup {t}
    BY <1>1, <1>2 DEF Marked
  <2>2. Cardinality(Marked \cup {t})
          = IF t \in Marked THEN Cardinality(Marked) ELSE Cardinality(Marked) + 1
    BY <1>1, FS_AddElement
  <2> QED
    BY <1>1, <1>2, <2>1, <2>2
<1>3. CASE v # 1
  <2>1. Marked' = Marked \ {t}
    BY <1>1, <1>3 DEF Marked
  <2>2. Cardinality(Marked \ {t})
          = IF t \in Marked THEN Cardinality(Marked) - 1 ELSE Cardinality(Marked)
    BY <1>1, FS_RemoveElement
  <2> QED
    BY <1>1, <1>3, <2>1, <2>2
<1> QED
  BY <1>2, <1>3

LEMMA CleanerInvInit == Rounds!Init => CleanerInv
<1> SUFFICES ASSUME Rounds!Init
             PROVE  CleanerInv
  OBVIOUS
<1>1. /\ N \in Nat \ {0} /\ Rounds!Threads = 1 .. N /\ 1 \in 1 .. N + 1
      /\ 0 \in Rounds!Floor .. 1
  BY CleanerSets DEF Rounds!Floor
<1>2. Rounds!TypeOK
  <2>1. release_array_ \in [Rounds!Threads -> Rounds!Floor .. 1] /\ unreleased_count_ \in Int
    BY <1>1 DEF Rounds!Init
  <2>2. pc \in [Rounds!Threads -> Rounds!Labels] /\ it \in [Rounds!Threads -> 1 .. N + 1]
    BY <1>1 DEF Rounds!Init, Rounds!Labels
  <2>3. /\ free_candidates_ \subseteq Objects /\ free_ \subseteq Objects
        /\ destroyed \subseteq Objects /\ clear_list \in [Rounds!Threads -> SUBSET Objects]
        /\ released_by \in [Objects -> SUBSET Rounds!Threads] /\ overlap \in BOOLEAN
    BY DEF Rounds!Init
  <2> QED
    BY <2>1, <2>2, <2>3 DEF Rounds!TypeOK
<1>3. Marked = {} /\ Rounds!At("count") = {} /\ Rounds!At("restore") = {}
  BY DEF Rounds!Init, Marked, Rounds!At
<1>4. Cardinality({}) = 0
  BY FS_EmptySet
<1>5. Rounds!CountConsistent
  <2>1. unreleased_count_ = N
    BY DEF Rounds!Init
  <2>2. /\ Cardinality(Marked) = 0 /\ Cardinality(Rounds!At("count")) = 0
        /\ Cardinality(Rounds!At("restore")) = 0
    BY <1>3, <1>4
  <2> QED
    BY <1>1, <2>1, <2>2, Consistent
<1>6. Placed /\ Walks
  BY DEF Rounds!Init, Placed, Walks
<1>7. InRound
  BY DEF Rounds!Init, InRound, AllReleased, Rounds!Resetting
<1> QED
  BY <1>2, <1>5, <1>6, <1>7 DEF CleanerInv

LEMMA PushKeepsRounds ==
  ASSUME CleanerInv, NEW t \in Rounds!Threads, NEW o \in Objects, Rounds!Push(t, o)
  PROVE  CleanerInv'
<1>1. /\ o \notin free_ \cup free_candidates_ \cup destroyed
      /\ \A u \in Rounds!Threads : o \notin clear_list[u]
      /\ free_candidates_' = free_candidates_ \cup {o}
      /\ UNCHANGED <<release_array_, unreleased_count_, free_, clear_list, destroyed, pc, it,
                     released_by, overlap>>
  <2>1. o \notin Rounds!Pushed
    BY DEF Rounds!Push
  <2>2. \A u \in Rounds!Threads : o \notin clear_list[u]
    <3> DEFINE L == {clear_list[v] : v \in Rounds!Threads}
    <3>1. UNION L \subseteq Rounds!Pushed
      BY DEF Rounds!Pushed
    <3>2. \A u \in Rounds!Threads : clear_list[u] \in L
      OBVIOUS
    <3> HIDE DEF L
    <3>3. o \notin UNION L
      BY <2>1, <3>1
    <3> QED
      BY <3>2, <3>3
  <2>3. free_ \cup free_candidates_ \cup destroyed \subseteq Rounds!Pushed
    BY DEF Rounds!Pushed
  <2> QED
    BY <2>1, <2>2, <2>3 DEF Rounds!Push, Rounds!counters
<1>2. Rounds!TypeOK'
  BY <1>1 DEF CleanerInv, Rounds!TypeOK
<1>3. Rounds!CountConsistent'
  BY <1>1 DEF CleanerInv, Rounds!CountConsistent, Rounds!At
<1>4. Placed' /\ Walks'
  BY <1>1 DEF CleanerInv, Placed, Walks
<1>5. InRound'
  BY <1>1 DEF CleanerInv, InRound, AllReleased
<1> QED
  BY <1>2, <1>3, <1>4, <1>5 DEF CleanerInv

LEMMA CallKeepsRounds ==
  ASSUME CleanerInv, NEW t \in Rounds!Threads, Rounds!Call(t)
  PROVE  CleanerInv'
<1>1. /\ pc[t] = "idle"
      /\ UNCHANGED <<release_array_, unreleased_count_, free_candidates_, free_, clear_list,
                     destroyed, it>>
      /\ \/ /\ pc' = [pc EXCEPT ![t] = "mark"] /\ release_array_[t] = 0
            /\ overlap' = (overlap \/ Rounds!Overlaps)
         \/ UNCHANGED <<pc, overlap>>
  BY DEF Rounds!Call, Rounds!MayMark, Rounds!Goto, Rounds!counters, Rounds!lists
<1>2. /\ \A o \in Objects : released_by[o] \subseteq released_by'[o]
      /\ \A o \in free_ : t \in released_by'[o]
      /\ released_by' \in [Objects -> SUBSET Rounds!Threads]
  BY DEF Rounds!Call, Rounds!Pushed, CleanerInv, Rounds!TypeOK
<1>3. /\ \A u \in Rounds!Threads : u # t => pc'[u] = pc[u]
      /\ (pc'[t] = "mark" /\ release_array_[t] = 0) \/ pc'[t] = "idle"
      /\ pc' \in [Rounds!Threads -> Rounds!Labels]
  BY <1>1 DEF CleanerInv, Rounds!TypeOK, Rounds!Labels
<1>4. Rounds!TypeOK'
  BY <1>1, <1>2, <1>3 DEF CleanerInv, Rounds!TypeOK
<1>5. Rounds!CountConsistent'
  <2>1. Rounds!At("count")' = Rounds!At("count") /\ Rounds!At("restore")' = Rounds!At("restore")
    BY <1>1, <1>3 DEF Rounds!At
  <2> QED
    BY <1>1, <2>1 DEF CleanerInv, Rounds!CountConsistent
<1>6. Placed' /\ Walks'
  BY <1>1, <1>3 DEF CleanerInv, Placed, Walks
<1>7. InRound'
  <2>1. SUFFICES ASSUME ~overlap'
                 PROVE  InRound'
    BY DEF InRound
  <2>2. ~overlap
    BY <1>1, <2>1 DEF CleanerInv, Rounds!TypeOK
  <2>3. \A os \in SUBSET Objects : AllReleased(os) => AllReleased(os)'
    BY <1>2 DEF CleanerInv, Rounds!TypeOK, AllReleased
  <2>4. pc'[t] = "mark" => \A u \in Rounds!Threads : pc[u] \notin Rounds!Resetting
    BY <1>1, <2>1 DEF Rounds!Overlaps
  <2>5. /\ destroyed \in SUBSET Objects /\ free_ \in SUBSET Objects
        /\ \A u \in Rounds!Threads : clear_list[u] \in SUBSET Objects
    BY DEF CleanerInv, Rounds!TypeOK
  <2>6. \A u \in Rounds!Threads : pc'[u] \in Rounds!Resetting => u # t /\ pc'[u] = pc[u]
    BY <1>3 DEF Rounds!Resetting
  <2>7. \A u \in Rounds!Threads :
           /\ release_array_'[u] \in {0, 1} /\ pc'[u] # "revert"
           /\ pc'[u] = "mark" => release_array_'[u] = 0
           /\ pc'[u] = "count" => release_array_'[u] = 1
           /\ AllReleased(clear_list[u])'
    BY <1>1, <1>3, <2>2, <2>3, <2>5 DEF CleanerInv, InRound
  <2>8. AllReleased(destroyed)'
    BY <1>1, <2>2, <2>3, <2>5 DEF CleanerInv, InRound
  <2>9. \A u \in Rounds!Threads : pc'[u] \in Rounds!Resetting =>
          /\ \A v \in Rounds!Threads : v = u \/ pc'[v] \in {"idle", "destroy"}
          /\ AllReleased(free_)'
          /\ pc'[u] = "reset" => \A i \in Rounds!Threads : release_array_'[i] = 1 <=> i >= it'[u]
          /\ pc'[u] = "restore" => \A i \in Rounds!Threads : release_array_'[i] = 1 <=> i > it'[u]
          /\ pc'[u] = "swap" => \A i \in Rounds!Threads : release_array_'[i] = 0
    BY <1>1, <1>3, <2>2, <2>3, <2>4, <2>5, <2>6 DEF CleanerInv, InRound
  <2>10. \A u \in Rounds!Threads, o \in free_' :
           release_array_'[u] = 1 \/ pc'[u] = "mark" => u \in released_by'[o]
    BY <1>1, <1>2, <1>3, <2>2, <2>5 DEF CleanerInv, InRound
  <2> QED
    BY <1>1, <2>7, <2>8, <2>9, <2>10 DEF InRound
<1> QED
  BY <1>4, <1>5, <1>6, <1>7 DEF CleanerInv

\* A thread that is marked began its release() in this round.
LEMMA MarkKeepsRounds ==
  ASSUME CleanerInv, NEW t \in Rounds!Threads, Rounds!Mark(t)
  PROVE  CleanerInv'
<1> DEFINE to == IF release_array_[t] = 0 THEN "count" ELSE "revert"
<1>1. /\ pc[t] = "mark" /\ pc' = [pc EXCEPT ![t] = to]
      /\ release_array_' = [release_array_ EXCEPT ![t] = release_array_[t] + 1]
      /\ overlap' = (overlap \/ Rounds!Overlaps)
      /\ UNCHANGED <<unreleased_count_, free_candidates_, free_, clear_list, destroyed, it,
                     released_by>>
  BY DEF Rounds!Mark, Rounds!Goto, Rounds!lists
<1>2. release_array_[t] \in Rounds!Floor .. 0 /\ Rounds!Floor = -2
  BY <1>1 DEF CleanerInv, Walks, Rounds!TypeOK, Rounds!Floor
<1>3. /\ to \in {"count", "revert"} /\ (to = "count" <=> release_array_[t] = 0)
      /\ \A u \in Rounds!Threads : pc'[u] = IF u = t THEN to ELSE pc[u]
      /\ pc' \in [Rounds!Threads -> Rounds!Labels]
      /\ \A u \in Rounds!Threads :
           release_array_'[u] = IF u = t THEN release_array_[t] + 1 ELSE release_array_[u]
      /\ release_array_' \in [Rounds!Threads -> Rounds!Floor .. 1]
  BY <1>1, <1>2 DEF CleanerInv, Rounds!TypeOK, Rounds!Labels
<1> HIDE DEF to
<1>4. Rounds!TypeOK'
  <2>1. overlap' \in BOOLEAN
    BY <1>1
  <2> QED
    BY <1>1, <1>3, <2>1 DEF CleanerInv, Rounds!TypeOK
<1>5. Rounds!CountConsistent'
  <2>1. Cardinality(Marked)' = Cardinality(Marked) + (IF to = "count" THEN 1 ELSE 0)
    <3>1. Cardinality(Marked)' = Cardinality(Marked)
           + (IF release_array_[t] + 1 = 1 /\ release_array_[t] # 1 THEN 1 ELSE 0)
           - (IF release_array_[t] + 1 # 1 /\ release_array_[t] = 1 THEN 1 ELSE 0)
      BY <1>1, MarkCounted DEF CleanerInv
    <3> QED
      BY <1>2, <1>3, <3>1, CleanerSets
  <2>2. \A l : Cardinality(Rounds!At(l))' = Cardinality(Rounds!At(l))
                  + (IF to = l /\ pc[t] # l THEN 1 ELSE 0)
                  - (IF to # l /\ pc[t] = l THEN 1 ELSE 0)
    BY <1>1, LabelCounted DEF CleanerInv
  <2>3. /\ Cardinality(Rounds!At("count"))' = Cardinality(Rounds!At("count"))
              + (IF to = "count" THEN 1 ELSE 0)
        /\ Cardinality(Rounds!At("restore"))' = Cardinality(Rounds!At("restore"))
    BY <1>1, <1>3, <2>2, CleanerSets
  <2>4. unreleased_count_ =
          N - Cardinality(Marked) + Cardinality(Rounds!At("count"))
            - Cardinality(Rounds!At("restore"))
    BY Consistent DEF CleanerInv
  <2> QED
    BY <1>1, <2>1, <2>3, <2>4, CleanerSets, ConsistentNext
<1>6. Placed' /\ Walks'
  BY <1>1, <1>3 DEF CleanerInv, Placed, Walks
<1>7. InRound'
  <2>1. SUFFICES ASSUME ~overlap'
                 PROVE  InRound'
    BY DEF InRound
  <2>2. /\ ~overlap /\ \A u \in Rounds!Threads : pc[u] \notin Rounds!Resetting
        /\ release_array_[t] = 0
    BY <1>1, <2>1 DEF CleanerInv, InRound, Rounds!Overlaps, Rounds!TypeOK
  <2>3. /\ to = "count" /\ release_array_'[t] = 1
        /\ \A u \in Rounds!Threads : pc'[u] \notin Rounds!Resetting
    BY <1>3, <2>2 DEF Rounds!Resetting
  <2> QED
    BY <1>1, <1>3, <2>2, <2>3 DEF CleanerInv, InRound, AllReleased
<1> QED
  BY <1>4, <1>5, <1>6, <1>7 DEF CleanerInv

\* The last of a round finds all marked: it resets alone, and what was free when the
\* round began has been released by all.
LEMMA CountKeepsRounds ==
  ASSUME CleanerInv, NEW t \in Rounds!Threads, Rounds!Count(t)
  PROVE  CleanerInv'
<1> DEFINE to == IF unreleased_count_ = 1 THEN "reset" ELSE "idle"
<1>1. /\ pc[t] = "count" /\ pc' = [pc EXCEPT ![t] = to]
      /\ unreleased_count_' = unreleased_count_ - 1
      /\ it' = [it EXCEPT ![t] = 1]
      /\ UNCHANGED <<release_array_, free_candidates_, free_, clear_list, destroyed,
                     released_by, overlap>>
  BY DEF Rounds!Count, Rounds!Goto, Rounds!lists, Rounds!LastOfRound
<1>2. to \in {"reset", "idle"} /\ (to = "reset" <=> unreleased_count_ = 1)
  OBVIOUS
<1> HIDE DEF to
<1>3. /\ \A u \in Rounds!Threads : pc'[u] = IF u = t THEN to ELSE pc[u]
      /\ pc' \in [Rounds!Threads -> Rounds!Labels]
      /\ \A u \in Rounds!Threads : it'[u] = IF u = t THEN 1 ELSE it[u]
      /\ it' \in [Rounds!Threads -> 1 .. N + 1] /\ 1 \in 1 .. N
      /\ unreleased_count_ \in Int
  BY <1>1, <1>2, CleanerSets DEF CleanerInv, Rounds!TypeOK, Rounds!Labels
<1>4. Rounds!TypeOK'
  BY <1>1, <1>3 DEF CleanerInv, Rounds!TypeOK
<1>5. /\ Cardinality(Rounds!At("count"))' = Cardinality(Rounds!At("count")) - 1
      /\ Cardinality(Rounds!At("restore"))' = Cardinality(Rounds!At("restore"))
      /\ Cardinality(Rounds!At("count"))' \in Nat
      /\ unreleased_count_ = N - Cardinality(Marked) + Cardinality(Rounds!At("count"))
                               - Cardinality(Rounds!At("restore"))
  <2>1. \A l : Cardinality(Rounds!At(l))' = Cardinality(Rounds!At(l))
                  + (IF to = l /\ pc[t] # l THEN 1 ELSE 0)
                  - (IF to # l /\ pc[t] = l THEN 1 ELSE 0)
    BY <1>1, LabelCounted DEF CleanerInv
  <2>2. unreleased_count_ = N - Cardinality(Marked) + Cardinality(Rounds!At("count"))
                               - Cardinality(Rounds!At("restore"))
    BY Consistent DEF CleanerInv
  <2>3. /\ Cardinality(Rounds!At("count"))' = Cardinality(Rounds!At("count")) - 1
        /\ Cardinality(Rounds!At("restore"))' = Cardinality(Rounds!At("restore"))
    BY <1>1, <1>2, <2>1, CleanerSets
  <2>4. Cardinality(Rounds!At("count")) # 0
    <3>1. t \in Rounds!At("count")
      BY <1>1 DEF Rounds!At
    <3> QED
      BY <3>1, CleanerSets, FS_EmptySet
  <2> QED
    BY <2>2, <2>3, <2>4, CleanerSets
<1>6. Rounds!CountConsistent'
  <2>1. Marked' = Marked
    BY <1>1 DEF Marked
  <2> QED
    BY <1>1, <1>5, <2>1, CleanerSets, ConsistentNext
<1>7. Placed' /\ Walks'
  BY <1>1, <1>2, <1>3 DEF CleanerInv, Placed, Walks
<1>8. InRound'
  <2>1. SUFFICES ASSUME ~overlap
                 PROVE  InRound'
    BY <1>1 DEF InRound
  <2>2. \A u \in Rounds!Threads : pc[u] \notin Rounds!Resetting
    BY <1>1, <2>1 DEF CleanerInv, InRound, Rounds!Resetting
  <2>3. CASE to = "idle"
    <3>1. \A u \in Rounds!Threads : pc'[u] \notin Rounds!Resetting
      BY <1>3, <2>2, <2>3 DEF Rounds!Resetting
    <3> QED
      BY <1>1, <1>3, <2>1, <2>3, <3>1 DEF CleanerInv, InRound, AllReleased
  <2>4. CASE to = "reset"
    <3>1. Cardinality(Rounds!At("restore")) = 0
      <4>1. Rounds!At("restore") = {}
        BY <2>2 DEF Rounds!At, Rounds!Resetting
      <4> QED
        BY <4>1, FS_EmptySet
    <3>2. Cardinality(Marked) <= N /\ (Cardinality(Marked) = N => Marked = Rounds!Threads)
      <4>1. Marked \in SUBSET Rounds!Threads
        BY DEF Marked
      <4> QED
        BY <4>1, CleanerSets, FS_Subset
    <3>3. Cardinality(Marked) = N /\ Cardinality(Rounds!At("count"))' = 0
      BY <1>2, <1>5, <2>4, <3>1, <3>2, CleanerSets
    <3>4. /\ \A u \in Rounds!Threads : release_array_[u] = 1
          /\ \A u \in Rounds!Threads : pc'[u] # "count"
      <4>1. Rounds!At("count")' = {}
        <5>1. IsFiniteSet(Rounds!At("count")')
          BY CleanerSets, FS_Subset DEF Rounds!At
        <5> QED
          BY <3>3, <5>1, FS_EmptySet
      <4> QED
        BY <3>2, <3>3, <4>1 DEF Marked, Rounds!At
    <3>5. \A u \in Rounds!Threads : u = t \/ pc'[u] \in {"idle", "destroy"}
      BY <1>3, <2>1, <2>2, <3>4 DEF CleanerInv, InRound, Rounds!Resetting, Rounds!TypeOK, Rounds!Labels
    <3>6. AllReleased(free_)
      <4>1. \A o \in free_ : released_by[o] \subseteq Rounds!Threads
        BY DEF CleanerInv, Rounds!TypeOK
      <4>2. \A u \in Rounds!Threads, o \in free_ : u \in released_by[o]
        BY <2>1, <3>4 DEF CleanerInv, InRound
      <4> QED
        BY <4>1, <4>2 DEF AllReleased
    <3>7. \A i \in Rounds!Threads : release_array_'[i] = 1 <=> i >= it'[t]
      BY <1>1, <1>3, <3>4, CleanerSets
    <3>8. pc'[t] = "reset"
      BY <1>3, <2>4
    <3>9. \A u \in Rounds!Threads : pc'[u] \in Rounds!Resetting => u = t
      BY <3>5 DEF Rounds!Resetting
    <3>10. /\ \A u \in Rounds!Threads : AllReleased(clear_list[u])
           /\ AllReleased(destroyed)
      BY <2>1 DEF CleanerInv, InRound
    <3>11. \A u \in Rounds!Threads, o \in free_ : u \in released_by[o]
      BY <3>6 DEF AllReleased
    <3> QED
      BY <1>1, <3>4, <3>5, <3>6, <3>7, <3>8, <3>9, <3>10, <3>11 DEF InRound, AllReleased
  <2> QED
    BY <1>2, <2>3, <2>4
<1> QED
  BY <1>4, <1>6, <1>7, <1>8 DEF CleanerInv

\* One turn of the reset loop: an entry that was one is counted back.
LEMMA ResetKeepsRounds ==
  ASSUME CleanerInv, NEW t \in Rounds!Threads, Rounds!ResetEntry(t)
  PROVE  CleanerInv'
<1> DEFINE i == it[t]
           v == Rounds!Decremented(release_array_[i])
           to == IF release_array_[i] = 1 THEN "restore" ELSE IF i < N THEN "reset" ELSE "swap"
<1>1. /\ pc[t] = "reset" /\ pc' = [pc EXCEPT ![t] = to]
      /\ release_array_' = [release_array_ EXCEPT ![i] = v]
      /\ it' = IF release_array_[i] = 1 THEN it ELSE [it EXCEPT ![t] = i + 1]
      /\ UNCHANGED <<unreleased_count_, free_candidates_, free_, clear_list, destroyed,
                     released_by, overlap>>
  BY DEF Rounds!ResetEntry, Rounds!Goto, Rounds!lists, Rounds!CountsBack, Rounds!AfterEntry
<1>2. /\ i \in 1 .. N /\ i \in Rounds!Threads /\ release_array_[i] \in -2 .. 1
      /\ release_array_ \in [Rounds!Threads -> -2 .. 1] /\ it \in [Rounds!Threads -> 1 .. N + 1]
      /\ pc \in [Rounds!Threads -> Rounds!Labels] /\ N \in Nat \ {0}
  <2>1. i \in 1 .. N
    BY <1>1 DEF CleanerInv, Walks
  <2> HIDE DEF i
  <2> QED
    BY <2>1, CleanerSets DEF CleanerInv, Rounds!TypeOK, Rounds!Floor
<1>3. v \in -2 .. 0 /\ (release_array_[i] = 1 => v = 0) /\ v # 1 /\ v <= 0
  <2> HIDE DEF i
  <2> QED
    BY <1>2 DEF Rounds!Decremented, Rounds!Floor
<1>4. /\ to \in {"restore", "reset", "swap"} /\ (to = "restore" <=> release_array_[i] = 1)
      /\ (to = "reset" => release_array_[i] # 1 /\ i < N)
      /\ (to = "swap" => release_array_[i] # 1 /\ ~(i < N))
  OBVIOUS
<1>i. i = it[t]
  OBVIOUS
<1> HIDE DEF to, v, i
<1>5. /\ \A u \in Rounds!Threads : pc'[u] = IF u = t THEN to ELSE pc[u]
      /\ pc' \in [Rounds!Threads -> Rounds!Labels]
      /\ \A u \in Rounds!Threads : release_array_'[u] = IF u = i THEN v ELSE release_array_[u]
      /\ release_array_' \in [Rounds!Threads -> -2 .. 1]
      /\ \A u \in Rounds!Threads :
           it'[u] = IF u = t /\ release_array_[i] # 1 THEN i + 1 ELSE it[u]
      /\ it' \in [Rounds!Threads -> 1 .. N + 1]
  <2>1. pc' \in [Rounds!Threads -> Rounds!Labels] /\ v \in -2 .. 1 /\ i + 1 \in 1 .. N + 1
    BY <1>1, <1>2, <1>3, <1>4 DEF Rounds!Labels
  <2> QED
    BY <1>1, <1>2, <2>1
<1>6. Rounds!TypeOK'
  BY <1>1, <1>5 DEF CleanerInv, Rounds!TypeOK, Rounds!Floor
<1>7. Rounds!CountConsistent'
  <2>1. \A l : Cardinality(Rounds!At(l))' = Cardinality(Rounds!At(l))
                  + (IF to = l /\ pc[t] # l THEN 1 ELSE 0)
                  - (IF to # l /\ pc[t] = l THEN 1 ELSE 0)
    BY <1>1, LabelCounted DEF CleanerInv
  <2>2. /\ Cardinality(Rounds!At("count"))' = Cardinality(Rounds!At("count"))
        /\ Cardinality(Rounds!At("restore"))' = Cardinality(Rounds!At("restore"))
             + (IF to = "restore" THEN 1 ELSE 0)
    BY <1>1, <1>4, <2>1, CleanerSets
  <2>3. Cardinality(Marked)' = Cardinality(Marked)
           + (IF v = 1 /\ release_array_[i] # 1 THEN 1 ELSE 0)
           - (IF v # 1 /\ release_array_[i] = 1 THEN 1 ELSE 0)
    BY <1>1, <1>2, MarkCounted DEF CleanerInv
  <2>4. Cardinality(Marked)' = Cardinality(Marked) - (IF to = "restore" THEN 1 ELSE 0)
    BY <1>3, <1>4, <2>3, CleanerSets
  <2>5. unreleased_count_ =
          N - Cardinality(Marked) + Cardinality(Rounds!At("count"))
            - Cardinality(Rounds!At("restore"))
    BY Consistent DEF CleanerInv
  <2> QED
    BY <1>1, <2>2, <2>4, <2>5, CleanerSets, ConsistentNext
<1>8. Placed'
  BY <1>1 DEF CleanerInv, Placed
<1>9. Walks'
  <2>1. to \in {"reset", "restore"} => it'[t] \in 1 .. N
    BY <1>i, <1>2, <1>4, <1>5
  <2>2. \A u \in Rounds!Threads : pc'[u] = "mark" => release_array_'[u] <= 0
    BY <1>3, <1>4, <1>5 DEF CleanerInv, Walks
  <2> QED
    BY <1>4, <1>5, <2>1, <2>2 DEF CleanerInv, Walks
<1>10. InRound'
  <2>1. SUFFICES ASSUME ~overlap
                 PROVE  InRound'
    BY <1>1 DEF InRound
  <2>2. /\ \A u \in Rounds!Threads : u = t \/ pc[u] \in {"idle", "destroy"}
        /\ AllReleased(free_)
        /\ \A j \in Rounds!Threads : release_array_[j] = 1 <=> j >= i
        /\ \A u \in Rounds!Threads : release_array_[u] \in {0, 1} /\ AllReleased(clear_list[u])
        /\ AllReleased(destroyed)
    BY <1>1, <1>i, <2>1 DEF CleanerInv, InRound, Rounds!Resetting
  <2>3. release_array_[i] = 1 /\ to = "restore" /\ v = 0
    BY <1>2, <1>3, <1>4, <2>2
  <2>4. /\ \A u \in Rounds!Threads : u = t \/ pc'[u] \in {"idle", "destroy"}
        /\ pc'[t] = "restore" /\ it'[t] = i
    BY <1>i, <1>5, <2>2, <2>3
  <2>5. \A j \in Rounds!Threads : release_array_'[j] = 1 <=> j > i
    BY <1>2, <1>5, <2>2, <2>3, CleanerSets
  <2>6. \A u \in Rounds!Threads : release_array_'[u] \in {0, 1}
    BY <1>5, <2>2, <2>3
  <2>7. \A u \in Rounds!Threads, o \in free_ : u \in released_by[o]
    BY <2>2 DEF AllReleased
  <2> QED
    BY <1>1, <2>2, <2>4, <2>5, <2>6, <2>7 DEF InRound, AllReleased, Rounds!Resetting
<1> QED
  BY <1>6, <1>7, <1>8, <1>9, <1>10 DEF CleanerInv


LEMMA RestoreKeepsRounds ==
  ASSUME CleanerInv, NEW t \in Rounds!Threads, Rounds!Restore(t)
  PROVE  CleanerInv'
<1> DEFINE i == it[t]
           to == IF i < N THEN "reset" ELSE "swap"
<1>1. /\ pc[t] = "restore" /\ pc' = [pc EXCEPT ![t] = to]
      /\ unreleased_count_' = unreleased_count_ + 1
      /\ it' = [it EXCEPT ![t] = i + 1]
      /\ UNCHANGED <<release_array_, free_candidates_, free_, clear_list, destroyed,
                     released_by, overlap>>
  BY DEF Rounds!Restore, Rounds!Goto, Rounds!lists, Rounds!AfterEntry
<1>2. /\ i \in 1 .. N /\ N \in Nat \ {0} /\ Rounds!Threads = 1 .. N
      /\ it \in [Rounds!Threads -> 1 .. N + 1] /\ pc \in [Rounds!Threads -> Rounds!Labels]
      /\ unreleased_count_ \in Int
  BY <1>1, CleanerSets DEF CleanerInv, Walks, Rounds!TypeOK
<1>3. to \in {"reset", "swap"} /\ (to = "reset" <=> i < N)
  OBVIOUS
<1>i. i = it[t]
  OBVIOUS
<1> HIDE DEF to, i
<1>4. /\ \A u \in Rounds!Threads : pc'[u] = IF u = t THEN to ELSE pc[u]
      /\ pc' \in [Rounds!Threads -> Rounds!Labels]
      /\ \A u \in Rounds!Threads : it'[u] = IF u = t THEN i + 1 ELSE it[u]
      /\ it' \in [Rounds!Threads -> 1 .. N + 1]
  <2>1. to \in Rounds!Labels /\ i + 1 \in 1 .. N + 1
    BY <1>2, <1>3 DEF Rounds!Labels
  <2> QED
    BY <1>1, <1>2, <2>1
<1>5. Rounds!TypeOK'
  <2>1. unreleased_count_' \in Int
    BY <1>1, <1>2
  <2> QED
    BY <1>1, <1>4, <2>1 DEF CleanerInv, Rounds!TypeOK
<1>6. Rounds!CountConsistent'
  <2>1. \A l : Cardinality(Rounds!At(l))' = Cardinality(Rounds!At(l))
                  + (IF to = l /\ pc[t] # l THEN 1 ELSE 0)
                  - (IF to # l /\ pc[t] = l THEN 1 ELSE 0)
    BY <1>1, LabelCounted DEF CleanerInv
  <2>2. /\ Cardinality(Rounds!At("count"))' = Cardinality(Rounds!At("count"))
        /\ Cardinality(Rounds!At("restore"))' = Cardinality(Rounds!At("restore")) - 1
    BY <1>1, <1>3, <2>1, CleanerSets
  <2>3. unreleased_count_ =
          N - Cardinality(Marked) + Cardinality(Rounds!At("count"))
            - Cardinality(Rounds!At("restore"))
    BY Consistent DEF CleanerInv
  <2>4. Marked' = Marked
    BY <1>1 DEF Marked
  <2> QED
    BY <1>1, <2>2, <2>3, <2>4, CleanerSets, ConsistentNext
<1>7. Placed'
  BY <1>1 DEF CleanerInv, Placed
<1>8. Walks'
  <2>1. to = "reset" => it'[t] \in 1 .. N
    BY <1>2, <1>3, <1>4
  <2> QED
    BY <1>1, <1>3, <1>4, <2>1 DEF CleanerInv, Walks
<1>9. InRound'
  <2>1. SUFFICES ASSUME ~overlap
                 PROVE  InRound'
    BY <1>1 DEF InRound
  <2>2. /\ \A u \in Rounds!Threads : u = t \/ pc[u] \in {"idle", "destroy"}
        /\ AllReleased(free_)
        /\ \A j \in Rounds!Threads : release_array_[j] = 1 <=> j > i
        /\ \A u \in Rounds!Threads : release_array_[u] \in {0, 1} /\ AllReleased(clear_list[u])
        /\ AllReleased(destroyed)
    BY <1>1, <1>i, <2>1 DEF CleanerInv, InRound, Rounds!Resetting
  <2>3. \A u \in Rounds!Threads : u = t \/ pc'[u] \in {"idle", "destroy"}
    BY <1>4, <2>2
  <2>4. pc'[t] = "reset" => \A j \in Rounds!Threads : release_array_'[j] = 1 <=> j >= it'[t]
    BY <1>1, <1>2, <1>4, <2>2
  <2>5. pc'[t] = "swap" => \A j \in Rounds!Threads : release_array_'[j] = 0
    BY <1>1, <1>2, <1>3, <1>4, <2>2
  <2>6. \A u \in Rounds!Threads, o \in free_ : u \in released_by[o]
    BY <2>2 DEF AllReleased
  <2>7. pc'[t] \in {"reset", "swap"}
    BY <1>3, <1>4
  <2> QED
    BY <1>1, <2>2, <2>3, <2>4, <2>5, <2>6, <2>7 DEF InRound, AllReleased, Rounds!Resetting
<1> QED
  BY <1>5, <1>6, <1>7, <1>8, <1>9 DEF CleanerInv

\* The swaps end a round: what was free is destroyed next, and no entry is one yet.
LEMMA SwapKeepsRounds ==
  ASSUME CleanerInv, NEW t \in Rounds!Threads, Rounds!Swap(t)
  PROVE  CleanerInv'
<1>1. /\ pc[t] = "swap" /\ pc' = [pc EXCEPT ![t] = "destroy"]
      /\ clear_list' = [clear_list EXCEPT ![t] = free_]
      /\ free_' = free_candidates_ /\ free_candidates_' = {}
      /\ UNCHANGED <<release_array_, unreleased_count_, destroyed, it, released_by, overlap>>
  BY DEF Rounds!Swap, Rounds!Swapped, Rounds!Goto, Rounds!counters
<1>2. /\ \A u \in Rounds!Threads : pc'[u] = IF u = t THEN "destroy" ELSE pc[u]
      /\ pc' \in [Rounds!Threads -> Rounds!Labels]
      /\ \A u \in Rounds!Threads : clear_list'[u] = IF u = t THEN free_ ELSE clear_list[u]
      /\ clear_list' \in [Rounds!Threads -> SUBSET Objects]
  BY <1>1 DEF CleanerInv, Rounds!TypeOK, Rounds!Labels
<1>3. Rounds!TypeOK'
  BY <1>1, <1>2 DEF CleanerInv, Rounds!TypeOK
<1>4. Rounds!CountConsistent'
  <2>1. Rounds!At("count")' = Rounds!At("count") /\ Rounds!At("restore")' = Rounds!At("restore")
    BY <1>1, <1>2 DEF Rounds!At
  <2> QED
    BY <1>1, <2>1 DEF CleanerInv, Rounds!CountConsistent
<1>5. Placed'
  BY <1>1, <1>2 DEF CleanerInv, Placed
<1>6. Walks'
  BY <1>1, <1>2 DEF CleanerInv, Walks
<1>7. InRound'
  <2>1. SUFFICES ASSUME ~overlap
                 PROVE  InRound'
    BY <1>1 DEF InRound
  <2>2. /\ \A u \in Rounds!Threads : u = t \/ pc[u] \in {"idle", "destroy"}
        /\ AllReleased(free_) /\ AllReleased(destroyed)
        /\ \A u \in Rounds!Threads : release_array_[u] = 0 /\ AllReleased(clear_list[u])
    BY <1>1, <2>1 DEF CleanerInv, InRound, Rounds!Resetting
  <2>3. \A u \in Rounds!Threads : pc'[u] \in {"idle", "destroy"}
    BY <1>2, <2>2
  <2>4. \A u \in Rounds!Threads : AllReleased(clear_list[u])'
    BY <1>1, <1>2, <2>2 DEF AllReleased
  <2> QED
    BY <1>1, <2>2, <2>3, <2>4 DEF InRound, AllReleased, Rounds!Resetting
<1> QED
  BY <1>3, <1>4, <1>5, <1>6, <1>7 DEF CleanerInv

LEMMA DestroyKeepsRounds ==
  ASSUME CleanerInv, NEW t \in Rounds!Threads, Rounds!Destroy(t)
  PROVE  CleanerInv'
<1>1. /\ pc[t] = "destroy" /\ pc' = [pc EXCEPT ![t] = "idle"]
      /\ destroyed' = destroyed \cup clear_list[t]
      /\ clear_list' = [clear_list EXCEPT ![t] = {}] /\ it' = [it EXCEPT ![t] = 1]
      /\ UNCHANGED <<release_array_, unreleased_count_, free_candidates_, free_, released_by,
                     overlap>>
  BY DEF Rounds!Destroy, Rounds!Goto, Rounds!counters
<1>2. /\ \A u \in Rounds!Threads : pc'[u] = IF u = t THEN "idle" ELSE pc[u]
      /\ pc' \in [Rounds!Threads -> Rounds!Labels]
      /\ \A u \in Rounds!Threads : clear_list'[u] = IF u = t THEN {} ELSE clear_list[u]
      /\ clear_list' \in [Rounds!Threads -> SUBSET Objects]
      /\ \A u \in Rounds!Threads : u # t => it'[u] = it[u]
      /\ it' \in [Rounds!Threads -> 1 .. N + 1]
      /\ destroyed' \subseteq Objects
  <2>1. 1 \in 1 .. N + 1
    BY CleanerSets
  <2> QED
    BY <1>1, <2>1 DEF CleanerInv, Rounds!TypeOK, Rounds!Labels
<1>3. Rounds!TypeOK'
  BY <1>1, <1>2 DEF CleanerInv, Rounds!TypeOK
<1>4. Rounds!CountConsistent'
  <2>1. Rounds!At("count")' = Rounds!At("count") /\ Rounds!At("restore")' = Rounds!At("restore")
    BY <1>1, <1>2 DEF Rounds!At
  <2> QED
    BY <1>1, <2>1 DEF CleanerInv, Rounds!CountConsistent
<1>5. Placed'
  <2>1. \A u \in Rounds!Threads : u # t => clear_list[u] \cap clear_list[t] = {}
    BY DEF CleanerInv, Placed
  <2> QED
    BY <1>1, <1>2, <2>1 DEF CleanerInv, Placed
<1>6. Walks'
  BY <1>1, <1>2 DEF CleanerInv, Walks
<1>7. InRound'
  <2>1. SUFFICES ASSUME ~overlap
                 PROVE  InRound'
    BY <1>1 DEF InRound
  <2>2. /\ \A u \in Rounds!Threads : AllReleased(clear_list[u])'
        /\ AllReleased(destroyed)'
    BY <1>1, <1>2, <2>1 DEF CleanerInv, InRound, AllReleased
  <2>3. \A u \in Rounds!Threads : pc'[u] \in Rounds!Resetting => u # t /\ pc[u] = pc'[u]
    BY <1>2 DEF Rounds!Resetting
  <2>4. \A u \in Rounds!Threads : pc'[u] \in Rounds!Resetting =>
          /\ \A v \in Rounds!Threads : v = u \/ pc'[v] \in {"idle", "destroy"}
          /\ AllReleased(free_)'
          /\ pc'[u] = "reset" => \A i \in Rounds!Threads : release_array_'[i] = 1 <=> i >= it'[u]
          /\ pc'[u] = "restore" => \A i \in Rounds!Threads : release_array_'[i] = 1 <=> i > it'[u]
          /\ pc'[u] = "swap" => \A i \in Rounds!Threads : release_array_'[i] = 0
    BY <1>1, <1>2, <2>1, <2>3 DEF CleanerInv, InRound, AllReleased
  <2>5. \A u \in Rounds!Threads :
           /\ release_array_'[u] \in {0, 1} /\ pc'[u] # "revert"
           /\ pc'[u] = "mark" => release_array_'[u] = 0
           /\ pc'[u] = "count" => release_array_'[u] = 1
    BY <1>1, <1>2, <2>1 DEF CleanerInv, InRound
  <2>6. \A u \in Rounds!Threads, o \in free_' :
           release_array_'[u] = 1 \/ pc'[u] = "mark" => u \in released_by'[o]
    BY <1>1, <1>2, <2>1 DEF CleanerInv, InRound
  <2> QED
    BY <1>1, <2>2, <2>4, <2>5, <2>6 DEF InRound
<1> QED
  BY <1>3, <1>4, <1>5, <1>6, <1>7 DEF CleanerInv

\* Reached only when rounds overlap.
LEMMA RevertKeepsRounds ==
  ASSUME CleanerInv, NEW t \in Rounds!Threads, Rounds!Revert(t)
  PROVE  CleanerInv'
<1> DEFINE v == Rounds!Decremented(release_array_[t])
<1>1. /\ pc[t] = "revert" /\ pc' = [pc EXCEPT ![t] = "idle"]
      /\ release_array_' = [release_array_ EXCEPT ![t] = v]
      /\ unreleased_count_' = IF release_array_[t] = 1
                              THEN unreleased_count_ + 1 ELSE unreleased_count_
      /\ UNCHANGED <<free_candidates_, free_, clear_list, destroyed, it, released_by, overlap>>
  BY DEF Rounds!Revert, Rounds!Goto, Rounds!lists, Rounds!CountsBack
<1>2. /\ release_array_[t] \in -2 .. 1 /\ release_array_ \in [Rounds!Threads -> -2 .. 1]
      /\ unreleased_count_ \in Int
  BY DEF CleanerInv, Rounds!TypeOK, Rounds!Floor
<1>3. v \in -2 .. 0 /\ v \in -2 .. 1 /\ v # 1
  BY <1>2 DEF Rounds!Decremented, Rounds!Floor
<1> HIDE DEF v
<1>4. /\ \A u \in Rounds!Threads : pc'[u] = IF u = t THEN "idle" ELSE pc[u]
      /\ pc' \in [Rounds!Threads -> Rounds!Labels]
      /\ \A u \in Rounds!Threads : release_array_'[u] = IF u = t THEN v ELSE release_array_[u]
      /\ release_array_' \in [Rounds!Threads -> -2 .. 1]
  BY <1>1, <1>2, <1>3 DEF CleanerInv, Rounds!TypeOK, Rounds!Labels
<1>5. Rounds!TypeOK'
  <2>1. unreleased_count_' \in Int
    BY <1>1, <1>2
  <2> QED
    BY <1>1, <1>4, <2>1 DEF CleanerInv, Rounds!TypeOK, Rounds!Floor
<1>6. Rounds!CountConsistent'
  <2>1. \A l : Cardinality(Rounds!At(l))' = Cardinality(Rounds!At(l))
                  + (IF "idle" = l /\ pc[t] # l THEN 1 ELSE 0)
                  - (IF "idle" # l /\ pc[t] = l THEN 1 ELSE 0)
    BY <1>1, LabelCounted DEF CleanerInv
  <2>2. /\ Cardinality(Rounds!At("count"))' = Cardinality(Rounds!At("count"))
        /\ Cardinality(Rounds!At("restore"))' = Cardinality(Rounds!At("restore"))
    BY <1>1, <2>1, CleanerSets
  <2>3. Cardinality(Marked)' = Cardinality(Marked)
           + (IF v = 1 /\ release_array_[t] # 1 THEN 1 ELSE 0)
           - (IF v # 1 /\ release_array_[t] = 1 THEN 1 ELSE 0)
    BY <1>1, MarkCounted DEF CleanerInv
  <2>4. Cardinality(Marked)' =
          Cardinality(Marked) - (IF release_array_[t] = 1 THEN 1 ELSE 0)
    BY <1>3, <2>3, CleanerSets
  <2>5. unreleased_count_ =
          N - Cardinality(Marked) + Cardinality(Rounds!At("count"))
            - Cardinality(Rounds!At("restore"))
    BY Consistent DEF CleanerInv
  <2> QED
    BY <1>1, <2>2, <2>4, <2>5, CleanerSets, ConsistentNext
<1>7. Placed' /\ Walks'
  BY <1>1, <1>4 DEF CleanerInv, Placed, Walks
<1>8. InRound'
  BY <1>1 DEF CleanerInv, InRound
<1> QED
  BY <1>5, <1>6, <1>7, <1>8 DEF CleanerInv

\* Placed gives the count of places that OnePlace bounds.
LEMMA PlacedOnce ==
  ASSUME CleanerInv
  PROVE  Rounds!OnePlace
<1> SUFFICES ASSUME NEW o \in Objects
             PROVE  Rounds!Cardinality({<<"list", t>> :
                                          t \in {u \in Rounds!Threads : o \in clear_list[u]}})
                      + (IF o \in free_candidates_ THEN 1 ELSE 0)
                      + (IF o \in free_ THEN 1 ELSE 0)
                      + (IF o \in destroyed THEN 1 ELSE 0) <= 1
  BY DEF Rounds!OnePlace
<1> DEFINE L == {<<"list", t>> : t \in {u \in Rounds!Threads : o \in clear_list[u]}}
<1>1. Rounds!Cardinality(L) = Cardinality(L)
  BY SameCardinality
<1>2. ASSUME \A u \in Rounds!Threads : o \notin clear_list[u]
      PROVE  Rounds!Cardinality(L) + (IF o \in free_candidates_ THEN 1 ELSE 0)
               + (IF o \in free_ THEN 1 ELSE 0) + (IF o \in destroyed THEN 1 ELSE 0) <= 1
  <2>1. L = {}
    BY <1>2
  <2>2. Cardinality(L) = 0
    BY <2>1, FS_EmptySet
  <2> HIDE DEF L
  <2>3. /\ ~(o \in free_candidates_ /\ o \in free_) /\ ~(o \in free_ /\ o \in destroyed)
        /\ ~(o \in free_candidates_ /\ o \in destroyed)
    BY DEF CleanerInv, Placed
  <2> QED
    BY <1>1, <2>2, <2>3
<1>3. ASSUME NEW u \in Rounds!Threads, o \in clear_list[u]
      PROVE  Rounds!Cardinality(L) + (IF o \in free_candidates_ THEN 1 ELSE 0)
               + (IF o \in free_ THEN 1 ELSE 0) + (IF o \in destroyed THEN 1 ELSE 0) <= 1
  <2>1. {v \in Rounds!Threads : o \in clear_list[v]} = {u}
    BY <1>3 DEF CleanerInv, Placed
  <2>2. L = {<<"list", u>>}
    BY <2>1
  <2>3. Cardinality(L) = 1
    BY <2>2, FS_Singleton
  <2>4. o \notin free_ \cup free_candidates_ \cup destroyed
    BY <1>3 DEF CleanerInv, Placed
  <2> HIDE DEF L
  <2> QED
    BY <1>1, <2>3, <2>4
<1> QED
  BY <1>2, <1>3

\* For any number of the poller's threads and any holders, whether rounds overlap or
\* not: a holder is in one place and unreleased_count_ agrees with release_array_;
\* and as long as they do not, every thread released what is destroyed.
THEOREM HoldersAreAccounted == PartsSpec => []HoldersAccounted
<1>1. PartsInit => CleanerInv
  BY CleanerInvInit DEF PartsInit
<1>2. CleanerInv /\ [PartsNext]_<<part, aloneVars, sharedVars, pollerVars>> => CleanerInv'
  <2>1. [PartsNext]_<<part, aloneVars, sharedVars, pollerVars>> =>
          Rounds!Next \/ UNCHANGED cleanerVars
    BY DEF PartsNext, SharedNext, sharedVars
  <2>2. ASSUME CleanerInv, NEW t \in Rounds!Threads, Rounds!ReleaseStep(t)
        PROVE  CleanerInv'
    BY <2>2, CallKeepsRounds, MarkKeepsRounds, CountKeepsRounds, ResetKeepsRounds,
       RestoreKeepsRounds, SwapKeepsRounds, DestroyKeepsRounds, RevertKeepsRounds
       DEF Rounds!ReleaseStep
  <2>3. CleanerInv /\ UNCHANGED cleanerVars => CleanerInv'
    BY DEF cleanerVars, CleanerInv, Rounds!TypeOK, Rounds!CountConsistent, Rounds!At, Placed,
           Walks, InRound, AllReleased
  <2> QED
    BY <2>1, <2>2, <2>3, PushKeepsRounds DEF Rounds!Next
<1>3. ASSUME CleanerInv PROVE HoldersAccounted
  <2>1. Rounds!FreedInTime
    BY <1>3 DEF CleanerInv, InRound, AllReleased, Rounds!FreedInTime,
                Rounds!FreedAfterAllReleased
  <2> QED
    BY <1>3, <2>1, PlacedOnce DEF CleanerInv, HoldersAccounted, Rounds!HoldersAccounted
<1> QED
  BY <1>1, <1>2, <1>3, PTL DEF PartsSpec

-----------------------------------------------------------------------------
(* The registry of handlers and the proxies of pollers.                    *)

HandlerNumbers == 0 .. HandlerBound

RegistryTypeOK ==
  /\ created \in HandlerNumbers
  /\ address \in [Handlers -> Addresses] /\ poller \in [Handlers -> Pollers]
  /\ handlers_ \in [Pollers -> [Addresses -> HandlerNumbers]]
  /\ registered \subseteq Handlers /\ held \subseteq Handlers
  /\ phase \in [Handlers -> {"open", "failed", "deleted", "reset", "closed"}]
  /\ poller_it_ \in Pollers
  /\ place \in [AdderThreads -> {"idle", "choose", "insert", "register", "leave"}]
  /\ adding \in [AdderThreads -> HandlerNumbers]
  /\ blocker \in [Handlers -> HandlerNumbers]

InMap(h) == \/ h \in registered
            \/ phase[h] \in {"deleted", "reset", "failed"}
            \/ \E t \in AdderThreads : AddsAt(t, h, {"register"})

\* The entry of a handler that is in the map is its own, and nothing else is there.
MapExact ==
  /\ \A h \in Handlers : InMap(h) => EntryOf(h) = h
  /\ \A p \in Pollers, a \in Addresses :
       handlers_[p][a] # NoEntry =>
         /\ InMap(handlers_[p][a])
         /\ poller[handlers_[p][a]] = p /\ address[handlers_[p][a]] = a

\* A handler that was not created yet has no trace.
Untouched ==
  \A h \in Handlers : h > created =>
    phase[h] = "open" /\ h \notin registered /\ h \notin held /\ blocker[h] = NoEntry

\* Each thread adds a handler of its own, which is untouched until it is inserted.
AddersOwn ==
  /\ \A t \in AdderThreads : adding[t] <= created /\ (place[t] = "idle" <=> adding[t] = NoEntry)
  /\ \A t, u \in AdderThreads : adding[t] = adding[u] /\ adding[t] # NoEntry => t = u

AddersInOrder ==
  \A t \in AdderThreads :
    /\ place[t] \in {"choose", "insert", "register"} =>
         /\ phase[adding[t]] = "open" /\ adding[t] \notin registered
         /\ blocker[adding[t]] = NoEntry
    /\ place[t] \in {"choose", "insert"} => adding[t] \notin held
    /\ place[t] = "register" => adding[t] \in held

\* A handler that is in the map is kept until it is reset.
KeptUntilReset ==
  /\ \A h \in registered : phase[h] = "open"
  /\ \A h \in Handlers : h \in registered \/ phase[h] \in {"deleted", "failed"} => h \in held

Traces == Untouched /\ AddersOwn /\ AddersInOrder /\ KeptUntilReset

\* No younger handler has the address of one that somebody refers to.
Younger ==
  \A h \in Alive \ {NoEntry}, g \in Handlers :
    g <= created /\ g > h => address[g] # address[h]

RegistryInv == RegistryTypeOK /\ MapExact /\ Traces /\ Younger /\ RefusedOnlyIfReused

-----------------------------------------------------------------------------
LEMMA RegistryInvInit == RegistryInit => RegistryInv
<1> SUFFICES ASSUME RegistryInit
             PROVE  RegistryInv
  OBVIOUS
<1> USE RegistryAssumption DEF RegistryInit, NoEntry
<1>1. RegistryTypeOK
  BY DEF RegistryTypeOK, HandlerNumbers, Handlers, Pollers
<1>2. MapExact
  BY DEF MapExact, InMap, AddsAt
<1>3. Traces
  BY DEF Traces, Untouched, AddersOwn, AddersInOrder, KeptUntilReset, Handlers
<1>4. Younger /\ RefusedOnlyIfReused
  BY DEF Younger, Alive, RefusedOnlyIfReused
<1> QED
  BY <1>1, <1>2, <1>3, <1>4 DEF RegistryInv

\* The entries as a step that inserts or erases one leaves them.
LEMMA EntryChange ==
  ASSUME RegistryTypeOK, NEW h \in Handlers, NEW n \in HandlerNumbers,
         handlers_' = WithEntry(h, n)
  PROVE  /\ handlers_' \in [Pollers -> [Addresses -> HandlerNumbers]]
         /\ \A p \in Pollers, a \in Addresses :
              handlers_'[p][a] = IF p = poller[h] /\ a = address[h] THEN n
                                 ELSE handlers_[p][a]
BY DEF RegistryTypeOK, WithEntry

\* A handler that is in the map was created.
LEMMA InMapCreated ==
  ASSUME RegistryInv, NEW h \in Handlers, InMap(h)
  PROVE  h <= created
<1>1. created \in Nat /\ h \in Nat
  BY RegistryAssumption DEF RegistryInv, RegistryTypeOK, HandlerNumbers, Handlers
<1>2. CASE h \in registered \/ phase[h] \in {"deleted", "reset", "failed"}
  BY <1>1, <1>2 DEF RegistryInv, Traces, Untouched
<1>3. ASSUME NEW t \in AdderThreads, AddsAt(t, h, {"register"})
      PROVE  h <= created
  BY <1>3 DEF RegistryInv, Traces, AddersOwn, AddsAt
<1> QED
  BY <1>2, <1>3 DEF InMap

\* What the map and the history refer to are handlers.
LEMMA References ==
  ASSUME RegistryInv
  PROVE  /\ \A p \in Pollers, b \in Addresses :
              handlers_[p][b] # NoEntry =>
                handlers_[p][b] \in Handlers /\ InMap(handlers_[p][b])
         /\ \A h \in Handlers :
              blocker[h] # NoEntry =>
                blocker[h] \in Handlers /\ phase[blocker[h]] \in {"reset", "closed"}
<1>1. ASSUME NEW p \in Pollers, NEW b \in Addresses, handlers_[p][b] # NoEntry
      PROVE  handlers_[p][b] \in Handlers /\ InMap(handlers_[p][b])
  <2>1. handlers_[p][b] \in 0 .. HandlerBound
    BY DEF RegistryInv, RegistryTypeOK, HandlerNumbers
  <2>2. InMap(handlers_[p][b])
    BY <1>1 DEF RegistryInv, MapExact
  <2> QED
    BY <1>1, <2>1, <2>2, RegistryAssumption DEF Handlers, NoEntry
<1>2. ASSUME NEW h \in Handlers, blocker[h] # NoEntry
      PROVE  blocker[h] \in Handlers /\ phase[blocker[h]] \in {"reset", "closed"}
  <2>1. blocker[h] \in 0 .. HandlerBound
    BY DEF RegistryInv, RegistryTypeOK, HandlerNumbers
  <2>2. phase[blocker[h]] \in {"reset", "closed"}
    BY <1>2 DEF RegistryInv, RefusedOnlyIfReused
  <2> QED
    BY <1>2, <2>1, <2>2, RegistryAssumption DEF Handlers, NoEntry
<1> QED
  BY <1>1, <1>2

LEMMA RegistryInvStep ==
  RegistryInv /\ [RegistryNext]_registryVars => RegistryInv'
<1> SUFFICES ASSUME RegistryInv, [RegistryNext]_registryVars
             PROVE  RegistryInv'
  OBVIOUS
<1> USE RegistryAssumption DEF RegistryInv, HandlerNumbers, Handlers, NoEntry
<1>0. /\ \A p \in Pollers, b \in Addresses :
           handlers_[p][b] # 0 => handlers_[p][b] \in Handlers /\ InMap(handlers_[p][b])
      /\ \A h \in Handlers :
           blocker[h] # 0 => blocker[h] \in Handlers /\ phase[blocker[h]] \in {"reset", "closed"}
  BY References
<1>1. ASSUME NEW t \in AdderThreads, Create(t)
      PROVE  RegistryInv'
  <2> DEFINE n == created + 1
  <2>1. /\ n = created + 1 /\ n \in Handlers /\ created \in Nat /\ created' = n
        /\ place[t] = "idle" /\ place' = [place EXCEPT ![t] = "choose"]
        /\ adding' = [adding EXCEPT ![t] = n]
        /\ UNCHANGED <<poller, handlers_, registered, held, phase, poller_it_, blocker>>
    BY <1>1 DEF Create, To, RegistryTypeOK
  <2>2. PICK a \in Addresses \ {address[h] : h \in Alive \ {0}} :
          address' = [address EXCEPT ![n] = a]
    BY <1>1 DEF Create
  <2> HIDE DEF n
  <2>3. RegistryTypeOK'
    <3>1. created' \in 0 .. HandlerBound /\ adding' \in [AdderThreads -> 0 .. HandlerBound]
      BY <2>1 DEF RegistryTypeOK
    <3>2. address' \in [Handlers -> Addresses]
      BY <2>2 DEF RegistryTypeOK
    <3> QED
      BY <2>1, <3>1, <3>2 DEF RegistryTypeOK
  <2>5. /\ phase[n] = "open" /\ n \notin registered /\ n \notin held /\ blocker[n] = 0
        /\ \A u \in AdderThreads : adding[u] \in Nat /\ adding[u] < n
    BY <2>1 DEF Traces, Untouched, AddersOwn, RegistryTypeOK
  <2>6. ~InMap(n)
    BY <2>1, <2>5 DEF InMap, AddsAt
  <2>7. \A h \in Handlers : InMap(h)' <=> InMap(h)
    <3>1. \A u \in AdderThreads, h \in Handlers :
            AddsAt(u, h, {"register"})' <=> AddsAt(u, h, {"register"})
      BY <2>1 DEF AddsAt, RegistryTypeOK
    <3> QED
      BY <2>1, <3>1 DEF InMap
  <2>8. MapExact'
    <3>1. \A h \in Handlers : h # n => address'[h] = address[h]
      BY <2>2 DEF RegistryTypeOK
    <3>2. \A h \in Handlers : h # n => EntryOf(h)' = EntryOf(h)
      BY <2>1, <3>1 DEF EntryOf
    <3>3. \A p \in Pollers, b \in Addresses : handlers_[p][b] # 0 => handlers_[p][b] # n
      BY <1>0, <2>6
    <3> QED
      BY <1>0, <2>1, <2>6, <2>7, <3>1, <3>2, <3>3 DEF MapExact
  <2>9. Traces'
    <3>1. Untouched' /\ KeptUntilReset'
      <4>1. Untouched'
        BY <2>1 DEF Traces, Untouched
      <4>2. KeptUntilReset'
        BY <2>1 DEF Traces, KeptUntilReset
      <4> QED
        BY <4>1, <4>2
    <3>2. AddersOwn'
      BY <2>1, <2>5 DEF Traces, AddersOwn, RegistryTypeOK
    <3>3. AddersInOrder'
      BY <2>1, <2>5 DEF Traces, AddersInOrder, RegistryTypeOK
    <3> QED
      BY <3>1, <3>2, <3>3 DEF Traces
  <2>10. Younger'
    <3>1. \A h \in Alive \ {0} : h \in Handlers /\ h # n /\ address[h] # a
      BY <2>2, <2>5 DEF Alive, RegistryTypeOK
    <3>2. \A h \in Alive' \ {0} : h \in Alive \/ h = n
      BY <2>1 DEF Alive, RegistryTypeOK
    <3>3. \A h \in Handlers : address'[h] = IF h = n THEN a ELSE address[h]
      BY <2>2 DEF RegistryTypeOK
    <3> SUFFICES ASSUME NEW h \in Alive' \ {0}, NEW g \in Handlers, g <= n, g > h
                 PROVE  address'[g] # address'[h]
      BY <2>1 DEF Younger
    <3>4. h \in Alive \ {0} /\ h # n
      BY <2>1, <3>2
    <3>5. CASE g = n
      BY <3>1, <3>3, <3>4, <3>5
    <3>6. CASE g # n
      BY <2>1, <3>1, <3>3, <3>4, <3>6 DEF Younger
    <3> QED
      BY <3>5, <3>6
  <2>11. RefusedOnlyIfReused'
    <3>1. \A h \in Handlers : h # n => address'[h] = address[h]
      BY <2>2 DEF RegistryTypeOK
    <3>2. \A h \in Handlers : blocker[h] # 0 => h # n /\ blocker[h] # n
      BY <1>0, <2>5
    <3> QED
      BY <1>0, <2>1, <3>1, <3>2 DEF RefusedOnlyIfReused
  <2> QED
    BY <2>3, <2>8, <2>9, <2>10, <2>11
<1>2. ASSUME NEW t \in AdderThreads, Choose(t)
      PROVE  RegistryInv'
  <2> DEFINE n == adding[t]
  <2>1. /\ n = adding[t] /\ place[t] = "choose" /\ place' = [place EXCEPT ![t] = "insert"]
        /\ poller' = [poller EXCEPT ![n] = poller_it_]
        /\ UNCHANGED <<created, address, handlers_, registered, held, phase, adding, blocker>>
    BY <1>2 DEF Choose, To
  <2> HIDE DEF n
  <2>2. /\ n \in Handlers /\ phase[n] = "open" /\ n \notin registered
        /\ n \notin held /\ blocker[n] = 0
        /\ \A u \in AdderThreads : adding[u] = n => u = t
    <3>1. n \in 0 .. HandlerBound /\ n # 0 /\ \A u \in AdderThreads : adding[u] = n => u = t
      BY <2>1 DEF Traces, AddersOwn, RegistryTypeOK
    <3>2. phase[n] = "open" /\ n \notin registered /\ n \notin held /\ blocker[n] = 0
      BY <2>1 DEF Traces, AddersInOrder
    <3> QED
      BY <3>1, <3>2
  <2>3. poller_it_' \in Pollers
    BY <1>2 DEF Choose, Following, Pollers, RegistryTypeOK
  <2>4. RegistryTypeOK'
    BY <2>1, <2>2, <2>3 DEF RegistryTypeOK
  <2>5. ~InMap(n)
    BY <2>1, <2>2 DEF InMap, AddsAt
  <2>6. \A h \in Handlers : InMap(h)' <=> InMap(h)
    <3>1. \A u \in AdderThreads, h \in Handlers :
            AddsAt(u, h, {"register"})' <=> AddsAt(u, h, {"register"})
      BY <2>1 DEF AddsAt, RegistryTypeOK
    <3> QED
      BY <2>1, <3>1 DEF InMap
  <2>7. MapExact'
    <3>1. \A h \in Handlers : h # n => poller'[h] = poller[h]
      BY <2>1 DEF RegistryTypeOK
    <3>2. \A h \in Handlers : h # n => EntryOf(h)' = EntryOf(h)
      BY <2>1, <3>1 DEF EntryOf
    <3>3. \A p \in Pollers, b \in Addresses : handlers_[p][b] # 0 => handlers_[p][b] # n
      BY <1>0, <2>5
    <3> QED
      BY <1>0, <2>1, <2>5, <2>6, <3>1, <3>2, <3>3 DEF MapExact
  <2>8. Traces'
    <3>1. Untouched' /\ KeptUntilReset'
      BY <2>1 DEF Traces, Untouched, KeptUntilReset
    <3>2. AddersOwn'
      BY <2>1 DEF Traces, AddersOwn, RegistryTypeOK
    <3>3. AddersInOrder'
      BY <2>1 DEF Traces, AddersInOrder, RegistryTypeOK
    <3> QED
      BY <3>1, <3>2, <3>3 DEF Traces
  <2>9. Younger'
    BY <2>1 DEF Younger, Alive
  <2>10. RefusedOnlyIfReused'
    <3>1. \A h \in Handlers : h # n => poller'[h] = poller[h]
      BY <2>1 DEF RegistryTypeOK
    <3>2. \A h \in Handlers : blocker[h] # 0 => h # n /\ blocker[h] # n
      BY <1>0, <2>2
    <3> QED
      BY <1>0, <2>1, <3>1, <3>2 DEF RefusedOnlyIfReused
  <2> QED
    BY <2>4, <2>7, <2>8, <2>9, <2>10
<1>3. ASSUME NEW t \in AdderThreads, Insert(t)
      PROVE  RegistryInv'
  <2> DEFINE n == adding[t]
  <2>1. /\ n = adding[t] /\ place[t] = "insert"
        /\ UNCHANGED <<created, address, poller, registered, phase, poller_it_, adding>>
    BY <1>3 DEF Insert
  <2>2. \/ /\ EntryOf(n) = 0 /\ place' = [place EXCEPT ![t] = "register"]
           /\ handlers_' = WithEntry(n, n) /\ held' = held \cup {n} /\ blocker' = blocker
        \/ /\ EntryOf(n) # 0 /\ place' = [place EXCEPT ![t] = "leave"]
           /\ blocker' = [blocker EXCEPT ![n] = EntryOf(n)]
           /\ handlers_' = handlers_ /\ held' = held
    BY <1>3 DEF Insert, MayInsert, To
  <2> HIDE DEF n
  <2>3. /\ n \in Handlers /\ phase[n] = "open" /\ n \notin registered
        /\ n \notin held /\ blocker[n] = 0 /\ n <= created
        /\ \A u \in AdderThreads : adding[u] = n => u = t
    <3>1. /\ n \in 0 .. HandlerBound /\ n # 0 /\ n <= created
          /\ \A u \in AdderThreads : adding[u] = n => u = t
      BY <2>1 DEF Traces, AddersOwn, RegistryTypeOK
    <3>2. phase[n] = "open" /\ n \notin registered /\ n \notin held /\ blocker[n] = 0
      BY <2>1 DEF Traces, AddersInOrder
    <3> QED
      BY <3>1, <3>2
  <2>4. ~InMap(n)
    BY <2>1, <2>3 DEF InMap, AddsAt
  <2>5. n \in Alive /\ Alive' = Alive
    BY <2>1, <2>2 DEF Alive
  <2>6. Younger'
    BY <2>1, <2>5 DEF Younger
  <2>7. Untouched' /\ KeptUntilReset'
    <3>1. created \in Nat /\ n \in Nat
      BY <2>3 DEF RegistryTypeOK
    <3>2. \A h \in Handlers : h # n => blocker'[h] = blocker[h] /\ (h \in held' <=> h \in held)
      BY <2>2 DEF RegistryTypeOK
    <3>3. Untouched'
      BY <2>1, <2>3, <3>1, <3>2 DEF Traces, Untouched
    <3>4. KeptUntilReset'
      BY <2>1, <2>2 DEF Traces, KeptUntilReset
    <3> QED
      BY <3>3, <3>4
  <2>8. AddersOwn'
    BY <2>1, <2>2 DEF Traces, AddersOwn, RegistryTypeOK
  <2>9. CASE EntryOf(n) = 0
    <3>1. /\ place' = [place EXCEPT ![t] = "register"]
          /\ handlers_' = WithEntry(n, n) /\ held' = held \cup {n} /\ blocker' = blocker
      BY <2>2, <2>9
    <3>2. /\ handlers_' \in [Pollers -> [Addresses -> 0 .. HandlerBound]]
          /\ \A p \in Pollers, a \in Addresses :
               handlers_'[p][a] = IF p = poller[n] /\ a = address[n] THEN n
                                  ELSE handlers_[p][a]
      BY <2>3, <3>1, EntryChange
    <3>3. RegistryTypeOK'
      BY <2>1, <2>3, <3>1, <3>2 DEF RegistryTypeOK
    <3>4. AddersInOrder'
      BY <2>1, <2>3, <3>1 DEF Traces, AddersOwn, AddersInOrder, RegistryTypeOK
    <3>5. \A h \in Handlers : InMap(h)' <=> InMap(h) \/ h = n
      <4>1. \A u \in AdderThreads, h \in Handlers :
              AddsAt(u, h, {"register"})' <=> AddsAt(u, h, {"register"}) \/ (u = t /\ h = n)
        BY <2>1, <3>1 DEF AddsAt, RegistryTypeOK
      <4> QED
        BY <2>1, <4>1 DEF InMap
    <3>6. \A h \in Handlers : InMap(h)' => EntryOf(h)' = h
      <4> SUFFICES ASSUME NEW h \in Handlers, InMap(h)'
                   PROVE  EntryOf(h)' = h
        OBVIOUS
      <4>1. poller[h] \in Pollers /\ address[h] \in Addresses
        BY DEF RegistryTypeOK
      <4>2. CASE h = n
        BY <2>1, <3>2, <4>1, <4>2 DEF EntryOf
      <4>3. CASE h # n
        <5>1. handlers_[poller[h]][address[h]] = h
          BY <3>5, <4>3 DEF MapExact, EntryOf
        <5>2. ~(poller[h] = poller[n] /\ address[h] = address[n])
          BY <2>9, <5>1 DEF EntryOf
        <5> QED
          BY <2>1, <3>2, <4>1, <5>1, <5>2 DEF EntryOf
      <4> QED
        BY <4>2, <4>3
    <3>7. MapExact'
      BY <1>0, <2>1, <2>3, <3>2, <3>5, <3>6 DEF MapExact
    <3>8. RefusedOnlyIfReused'
      BY <2>1, <3>1 DEF RefusedOnlyIfReused
    <3> QED
      BY <2>6, <2>7, <2>8, <3>3, <3>4, <3>7, <3>8 DEF Traces
  <2>10. CASE EntryOf(n) # 0
    <3> DEFINE b == EntryOf(n)
    <3>1. /\ place' = [place EXCEPT ![t] = "leave"] /\ blocker' = [blocker EXCEPT ![n] = b]
          /\ handlers_' = handlers_ /\ held' = held
      BY <2>2, <2>10
    <3>2. /\ b \in Handlers /\ InMap(b) /\ b # n
          /\ poller[b] = poller[n] /\ address[b] = address[n]
      <4>1. /\ b = handlers_[poller[n]][address[n]] /\ b # 0
            /\ poller[n] \in Pollers /\ address[n] \in Addresses
        BY <2>3, <2>10 DEF EntryOf, RegistryTypeOK
      <4>2. b \in Handlers /\ InMap(b)
        BY <1>0, <4>1
      <4>3. poller[b] = poller[n] /\ address[b] = address[n]
        BY <4>1 DEF MapExact
      <4> QED
        BY <2>4, <4>2, <4>3
    <3> HIDE DEF b
    <3>3. RegistryTypeOK'
      <4>1. blocker' \in [Handlers -> 0 .. HandlerBound]
        <5>1. b \in 0 .. HandlerBound /\ blocker \in [Handlers -> 0 .. HandlerBound]
          BY <3>2 DEF RegistryTypeOK
        <5> HIDE DEF Handlers
        <5> QED
          BY <3>1, <5>1
      <4>2. place' \in [AdderThreads -> {"idle", "choose", "insert", "register", "leave"}]
        BY <3>1 DEF RegistryTypeOK
      <4> QED
        BY <2>1, <3>1, <4>1, <4>2 DEF RegistryTypeOK
    <3>4. AddersInOrder'
      <4>1. \A u \in AdderThreads :
              place'[u] \in {"choose", "insert", "register"} =>
                u # t /\ place'[u] = place[u] /\ adding[u] # n
        BY <2>3, <3>1 DEF RegistryTypeOK
      <4>2. \A u \in AdderThreads : adding[u] # n => blocker'[adding[u]] = blocker[adding[u]]
        BY <3>1 DEF RegistryTypeOK
      <4> QED
        BY <2>1, <3>1, <4>1, <4>2 DEF Traces, AddersInOrder
    <3>5. MapExact'
      <4>1. \A u \in AdderThreads, h \in Handlers :
              AddsAt(u, h, {"register"})' <=> AddsAt(u, h, {"register"})
        BY <2>1, <3>1 DEF AddsAt, RegistryTypeOK
      <4>2. \A h \in Handlers : InMap(h)' <=> InMap(h)
        BY <2>1, <4>1 DEF InMap
      <4> QED
        BY <1>0, <2>1, <3>1, <4>2 DEF MapExact, EntryOf
    <3>6. b <= created /\ n \in Nat /\ b \in Nat
      BY <2>3, <3>2, InMapCreated
    <3>7. b < n /\ phase[b] = "reset"
      <4>1. ~(n < b)
        BY <2>3, <2>5, <3>2, <3>6 DEF Younger
      <4>2. b \notin Alive
        BY <2>3, <3>2, <3>6, <4>1 DEF Younger
      <4>3. b \notin held /\ \A u \in AdderThreads : ~AddsAt(u, b, {"register"})
        BY <4>2 DEF Alive, AddsAt
      <4>4. b \notin registered /\ phase[b] \notin {"deleted", "failed"}
        BY <3>2, <4>3 DEF Traces, KeptUntilReset
      <4> QED
        BY <3>2, <3>6, <4>1, <4>3, <4>4 DEF InMap
    <3>8. RefusedOnlyIfReused'
      <4> SUFFICES ASSUME NEW h \in Handlers, blocker'[h] # 0
                   PROVE  /\ poller[blocker'[h]] = poller[h]
                          /\ address[blocker'[h]] = address[h]
                          /\ phase[blocker'[h]] \in {"reset", "closed"} /\ blocker'[h] < h
        BY <2>1 DEF RefusedOnlyIfReused
      <4>1. CASE h = n
        BY <2>3, <3>1, <3>2, <3>7, <4>1 DEF RegistryTypeOK
      <4>2. CASE h # n
        <5>1. blocker'[h] = blocker[h]
          BY <3>1, <4>2 DEF RegistryTypeOK
        <5> QED
          BY <5>1 DEF RefusedOnlyIfReused
      <4> QED
        BY <4>1, <4>2
    <3> QED
      BY <2>6, <2>7, <2>8, <3>3, <3>4, <3>5, <3>8 DEF Traces
  <2> QED
    BY <2>9, <2>10
<1>4. ASSUME NEW t \in AdderThreads, Register(t)
      PROVE  RegistryInv'
  <2> DEFINE n == adding[t]
  <2>1. /\ n = adding[t] /\ place[t] = "register" /\ place' = [place EXCEPT ![t] = "leave"]
        /\ registered' = registered \cup {n}
        /\ UNCHANGED <<created, address, poller, handlers_, held, phase, poller_it_, adding,
                       blocker>>
    BY <1>4 DEF Register, To
  <2> HIDE DEF n
  <2>2. /\ n \in Handlers /\ phase[n] = "open" /\ n \in held /\ n <= created
        /\ \A u \in AdderThreads : adding[u] = n => u = t
    <3>1. /\ n \in 0 .. HandlerBound /\ n # 0 /\ n <= created
          /\ \A u \in AdderThreads : adding[u] = n => u = t
      BY <2>1 DEF Traces, AddersOwn, RegistryTypeOK
    <3>2. phase[n] = "open" /\ n \in held
      BY <2>1 DEF Traces, AddersInOrder
    <3> QED
      BY <3>1, <3>2
  <2>3. RegistryTypeOK'
    BY <2>1, <2>2 DEF RegistryTypeOK
  <2>4. \A h \in Handlers : InMap(h)' <=> InMap(h)
    <3>1. \A u \in AdderThreads, h \in Handlers :
            AddsAt(u, h, {"register"}) <=> AddsAt(u, h, {"register"})' \/ (u = t /\ h = n)
      BY <2>1 DEF AddsAt, RegistryTypeOK
    <3> QED
      BY <2>1, <3>1 DEF InMap
  <2>5. MapExact'
    BY <1>0, <2>1, <2>4 DEF MapExact, EntryOf
  <2>6. Traces'
    <3>1. created \in Nat /\ n \in Nat
      BY <2>2 DEF RegistryTypeOK
    <3>2. Untouched' /\ KeptUntilReset'
      BY <2>1, <2>2, <3>1 DEF Traces, Untouched, KeptUntilReset
    <3>3. AddersOwn'
      BY <2>1 DEF Traces, AddersOwn, RegistryTypeOK
    <3>4. AddersInOrder'
      <4>1. \A u \in AdderThreads :
              place'[u] \in {"choose", "insert", "register"} =>
                place'[u] = place[u] /\ adding[u] # n
        BY <2>1, <2>2 DEF RegistryTypeOK
      <4> QED
        BY <2>1, <4>1 DEF Traces, AddersInOrder
    <3> QED
      BY <3>2, <3>3, <3>4 DEF Traces
  <2>7. Younger' /\ RefusedOnlyIfReused'
    BY <2>1 DEF Younger, Alive, RefusedOnlyIfReused
  <2> QED
    BY <2>3, <2>5, <2>6, <2>7
<1>5. ASSUME NEW t \in AdderThreads, RegisterFails(t)
      PROVE  RegistryInv'
  <2> DEFINE n == adding[t]
  <2>1. /\ n = adding[t] /\ place[t] = "register" /\ place' = [place EXCEPT ![t] = "leave"]
        /\ phase' = [phase EXCEPT ![n] = "failed"]
        /\ UNCHANGED <<created, address, poller, handlers_, registered, held, poller_it_,
                       adding, blocker>>
    BY <1>5 DEF RegisterFails, KeptOnFailure, To
  <2> HIDE DEF n
  <2>2. /\ n \in Handlers /\ phase[n] = "open" /\ n \in held /\ n <= created
        /\ n \notin registered /\ \A u \in AdderThreads : adding[u] = n => u = t
    <3>1. /\ n \in 0 .. HandlerBound /\ n # 0 /\ n <= created
          /\ \A u \in AdderThreads : adding[u] = n => u = t
      BY <2>1 DEF Traces, AddersOwn, RegistryTypeOK
    <3>2. phase[n] = "open" /\ n \in held /\ n \notin registered
      BY <2>1 DEF Traces, AddersInOrder
    <3> QED
      BY <3>1, <3>2
  <2>3. \A h \in Handlers : phase'[h] = IF h = n THEN "failed" ELSE phase[h]
    BY <2>1 DEF RegistryTypeOK
  <2>4. RegistryTypeOK'
    BY <2>1, <2>2 DEF RegistryTypeOK
  <2>5. \A h \in Handlers : InMap(h)' <=> InMap(h)
    <3>1. \A u \in AdderThreads, h \in Handlers :
            AddsAt(u, h, {"register"}) <=> AddsAt(u, h, {"register"})' \/ (u = t /\ h = n)
      BY <2>1 DEF AddsAt, RegistryTypeOK
    <3> QED
      BY <2>1, <2>3, <3>1 DEF InMap
  <2>6. MapExact'
    BY <1>0, <2>1, <2>5 DEF MapExact, EntryOf
  <2>7. Traces'
    <3>1. created \in Nat /\ n \in Nat
      BY <2>2 DEF RegistryTypeOK
    <3>2. Untouched'
      BY <2>1, <2>2, <2>3, <3>1 DEF Traces, Untouched
    <3>3. KeptUntilReset'
      BY <2>1, <2>2, <2>3 DEF Traces, KeptUntilReset, RegistryTypeOK
    <3>4. AddersOwn'
      BY <2>1 DEF Traces, AddersOwn, RegistryTypeOK
    <3>5. AddersInOrder'
      <4>1. \A u \in AdderThreads :
              place'[u] \in {"choose", "insert", "register"} =>
                /\ place'[u] = place[u] /\ adding[u] # n
                /\ phase'[adding[u]] = phase[adding[u]]
        BY <2>1, <2>2 DEF RegistryTypeOK
      <4> QED
        BY <2>1, <4>1 DEF Traces, AddersInOrder
    <3> QED
      BY <3>2, <3>3, <3>4, <3>5 DEF Traces
  <2>8. Younger'
    BY <2>1 DEF Younger, Alive
  <2>9. RefusedOnlyIfReused'
    BY <1>0, <2>1, <2>2, <2>3 DEF RefusedOnlyIfReused
  <2> QED
    BY <2>4, <2>6, <2>7, <2>8, <2>9
<1>6. ASSUME NEW t \in AdderThreads, Leave(t)
      PROVE  RegistryInv'
  <2>1. /\ place[t] = "leave" /\ place' = [place EXCEPT ![t] = "idle"]
        /\ adding' = [adding EXCEPT ![t] = 0]
        /\ UNCHANGED <<created, address, poller, handlers_, registered, held, phase,
                       poller_it_, blocker>>
    BY <1>6 DEF Leave, To
  <2>2. RegistryTypeOK'
    <3>1. adding' \in [AdderThreads -> 0 .. HandlerBound]
      BY <2>1 DEF RegistryTypeOK
    <3> QED
      BY <2>1, <3>1 DEF RegistryTypeOK
  <2>3. \A h \in Handlers : InMap(h)' <=> InMap(h)
    <3>1. \A u \in AdderThreads, h \in Handlers :
            AddsAt(u, h, {"register"})' <=> AddsAt(u, h, {"register"})
      BY <2>1 DEF AddsAt, RegistryTypeOK
    <3> QED
      BY <2>1, <3>1 DEF InMap
  <2>4. MapExact'
    BY <1>0, <2>1, <2>3 DEF MapExact, EntryOf
  <2>5. Traces'
    <3>1. Untouched' /\ KeptUntilReset'
      BY <2>1 DEF Traces, Untouched, KeptUntilReset
    <3>2. AddersOwn'
      BY <2>1 DEF Traces, AddersOwn, RegistryTypeOK
    <3>3. AddersInOrder'
      BY <2>1 DEF Traces, AddersInOrder, RegistryTypeOK
    <3> QED
      BY <3>1, <3>2, <3>3 DEF Traces
  <2>6. Younger'
    <3>1. \A h \in Alive' \ {0} : h \in Alive
      BY <2>1 DEF Alive, RegistryTypeOK
    <3> QED
      BY <2>1, <3>1 DEF Younger
  <2>7. RefusedOnlyIfReused'
    BY <2>1 DEF RefusedOnlyIfReused
  <2> QED
    BY <2>2, <2>4, <2>5, <2>6, <2>7
<1>7. ASSUME NEW n \in Handlers, DeleteFd(n)
      PROVE  RegistryInv'
  <2>1. /\ n \in registered /\ registered' = registered \ {n}
        /\ phase' = [phase EXCEPT ![n] = "deleted"]
        /\ UNCHANGED <<created, address, poller, handlers_, held, poller_it_, place, adding,
                       blocker>>
    BY <1>7 DEF DeleteFd
  <2>2. phase[n] = "open" /\ n \in held /\ \A h \in Handlers :
          phase'[h] = IF h = n THEN "deleted" ELSE phase[h]
    BY <2>1 DEF Traces, KeptUntilReset, RegistryTypeOK
  <2>3. RegistryTypeOK'
    BY <2>1 DEF RegistryTypeOK
  <2>4. \A h \in Handlers : InMap(h)' <=> InMap(h)
    BY <2>1, <2>2 DEF InMap, AddsAt
  <2>5. MapExact'
    BY <1>0, <2>1, <2>4 DEF MapExact, EntryOf
  <2>6. Traces'
    <3>1. Untouched' /\ KeptUntilReset'
      BY <2>1, <2>2 DEF Traces, Untouched, KeptUntilReset, RegistryTypeOK
    <3>2. AddersOwn'
      BY <2>1 DEF Traces, AddersOwn
    <3>3. AddersInOrder'
      <4>1. \A u \in AdderThreads :
              place[u] \in {"choose", "insert", "register"} =>
                adding[u] # n /\ phase'[adding[u]] = phase[adding[u]]
        <5>1. \A u \in AdderThreads : place[u] # "idle" => adding[u] \in Handlers
          BY DEF Traces, AddersOwn, RegistryTypeOK
        <5>2. \A u \in AdderThreads :
                place[u] \in {"choose", "insert", "register"} => adding[u] # n
          BY <2>1 DEF Traces, AddersInOrder
        <5> QED
          BY <2>2, <5>1, <5>2
      <4> QED
        BY <2>1, <4>1 DEF Traces, AddersInOrder
    <3> QED
      BY <3>1, <3>2, <3>3 DEF Traces
  <2>7. Younger'
    BY <2>1 DEF Younger, Alive
  <2>8. RefusedOnlyIfReused'
    BY <1>0, <2>1, <2>2 DEF RefusedOnlyIfReused
  <2> QED
    BY <2>3, <2>5, <2>6, <2>7, <2>8
<1>8. ASSUME NEW n \in Handlers, ResetHandler(n)
      PROVE  RegistryInv'
  <2>1. /\ phase[n] = "deleted" /\ held' = held \ {n}
        /\ phase' = [phase EXCEPT ![n] = "reset"]
        /\ UNCHANGED <<created, address, poller, handlers_, registered, poller_it_, place,
                       adding, blocker>>
    BY <1>8 DEF ResetHandler
  <2>2. \A h \in Handlers : phase'[h] = IF h = n THEN "reset" ELSE phase[h]
    BY <2>1 DEF RegistryTypeOK
  <2>3. RegistryTypeOK'
    BY <2>1 DEF RegistryTypeOK
  <2>4. \A h \in Handlers : InMap(h)' <=> InMap(h)
    BY <2>1, <2>2 DEF InMap, AddsAt
  <2>5. MapExact'
    BY <1>0, <2>1, <2>4 DEF MapExact, EntryOf
  <2>6. Traces'
    <3>1. Untouched' /\ KeptUntilReset'
      BY <2>1, <2>2 DEF Traces, Untouched, KeptUntilReset, RegistryTypeOK
    <3>2. AddersOwn'
      BY <2>1 DEF Traces, AddersOwn
    <3>3. AddersInOrder'
      <4>1. \A u \in AdderThreads :
              place[u] \in {"choose", "insert", "register"} =>
                adding[u] # n /\ phase'[adding[u]] = phase[adding[u]]
        <5>1. \A u \in AdderThreads : place[u] # "idle" => adding[u] \in Handlers
          BY DEF Traces, AddersOwn, RegistryTypeOK
        <5>2. \A u \in AdderThreads :
                place[u] \in {"choose", "insert", "register"} => adding[u] # n
          BY <2>1 DEF Traces, AddersInOrder
        <5> QED
          BY <2>2, <5>1, <5>2
      <4> QED
        BY <2>1, <4>1 DEF Traces, AddersInOrder
    <3> QED
      BY <3>1, <3>2, <3>3 DEF Traces
  <2>7. Younger'
    BY <2>1 DEF Younger, Alive
  <2>8. RefusedOnlyIfReused'
    BY <1>0, <2>1, <2>2 DEF RefusedOnlyIfReused
  <2> QED
    BY <2>3, <2>5, <2>6, <2>7, <2>8
<1>9. ASSUME NEW n \in Handlers, Erase(n)
      PROVE  RegistryInv'
  <2>1. /\ phase[n] = "reset" /\ handlers_' = WithEntry(n, 0)
        /\ phase' = [phase EXCEPT ![n] = "closed"]
        /\ UNCHANGED <<created, address, poller, registered, held, poller_it_, place, adding,
                       blocker>>
    BY <1>9 DEF Erase, Erased
  <2>2. \A h \in Handlers : phase'[h] = IF h = n THEN "closed" ELSE phase[h]
    BY <2>1 DEF RegistryTypeOK
  <2>3. /\ handlers_' \in [Pollers -> [Addresses -> 0 .. HandlerBound]]
        /\ \A p \in Pollers, a \in Addresses :
             handlers_'[p][a] = IF p = poller[n] /\ a = address[n] THEN 0
                                ELSE handlers_[p][a]
    BY <2>1, EntryChange
  <2>4. InMap(n) /\ EntryOf(n) = n /\ poller[n] \in Pollers /\ address[n] \in Addresses
    BY <2>1 DEF InMap, MapExact, RegistryTypeOK
  <2>5. RegistryTypeOK'
    BY <2>1, <2>3 DEF RegistryTypeOK
  <2>6. \A h \in Handlers : InMap(h)' <=> InMap(h) /\ h # n
    <3>1. n \notin registered /\ \A u \in AdderThreads : ~AddsAt(u, n, {"register"})
      BY <2>1 DEF Traces, KeptUntilReset, AddersInOrder, AddsAt
    <3> QED
      BY <2>1, <2>2, <3>1 DEF InMap, AddsAt
  <2>7. MapExact'
    <3>1. \A h \in Handlers : InMap(h)' => EntryOf(h)' = h
      <4> SUFFICES ASSUME NEW h \in Handlers, InMap(h)'
                   PROVE  EntryOf(h)' = h
        OBVIOUS
      <4>1. h # n /\ EntryOf(h) = h /\ poller[h] \in Pollers /\ address[h] \in Addresses
        BY <2>6 DEF MapExact, RegistryTypeOK
      <4>2. ~(poller[h] = poller[n] /\ address[h] = address[n])
        BY <2>4, <4>1 DEF EntryOf
      <4> QED
        BY <2>1, <2>3, <4>1, <4>2 DEF EntryOf
    <3>2. ASSUME NEW p \in Pollers, NEW a \in Addresses, handlers_'[p][a] # 0
          PROVE  /\ InMap(handlers_[p][a])'
                 /\ (poller[handlers_[p][a]] = p /\ address[handlers_[p][a]] = a)'
      <4>1. /\ handlers_'[p][a] = handlers_[p][a] /\ ~(p = poller[n] /\ a = address[n])
            /\ handlers_[p][a] # 0
        BY <2>3, <3>2
      <4>2. /\ handlers_[p][a] \in Handlers /\ InMap(handlers_[p][a])
            /\ poller[handlers_[p][a]] = p /\ address[handlers_[p][a]] = a
        BY <1>0, <4>1 DEF MapExact
      <4> QED
        BY <2>1, <2>6, <4>1, <4>2
    <3> QED
      BY <3>1, <3>2 DEF MapExact
  <2>8. Traces'
    <3>1. Untouched' /\ KeptUntilReset'
      BY <2>1, <2>2 DEF Traces, Untouched, KeptUntilReset, RegistryTypeOK
    <3>2. AddersOwn'
      BY <2>1 DEF Traces, AddersOwn
    <3>3. AddersInOrder'
      <4>1. \A u \in AdderThreads :
              place[u] \in {"choose", "insert", "register"} =>
                adding[u] # n /\ phase'[adding[u]] = phase[adding[u]]
        <5>1. \A u \in AdderThreads : place[u] # "idle" => adding[u] \in Handlers
          BY DEF Traces, AddersOwn, RegistryTypeOK
        <5>2. \A u \in AdderThreads :
                place[u] \in {"choose", "insert", "register"} => adding[u] # n
          BY <2>1 DEF Traces, AddersInOrder
        <5> QED
          BY <2>2, <5>1, <5>2
      <4> QED
        BY <2>1, <4>1 DEF Traces, AddersInOrder
    <3> QED
      BY <3>1, <3>2, <3>3 DEF Traces
  <2>9. Younger'
    BY <2>1 DEF Younger, Alive
  <2>10. RefusedOnlyIfReused'
    BY <1>0, <2>1, <2>2 DEF RefusedOnlyIfReused
  <2> QED
    BY <2>5, <2>7, <2>8, <2>9, <2>10
<1>10. CASE UNCHANGED registryVars
  <2>1. UNCHANGED <<created, address, poller, handlers_, registered, held, phase, poller_it_,
                    place, adding, blocker>>
    BY <1>10 DEF registryVars
  <2>2. RegistryTypeOK'
    BY <2>1 DEF RegistryTypeOK
  <2>3. MapExact'
    BY <2>1 DEF MapExact, EntryOf, InMap, AddsAt
  <2>4. Traces'
    BY <2>1 DEF Traces, Untouched, AddersOwn, AddersInOrder, KeptUntilReset
  <2>5. Younger' /\ RefusedOnlyIfReused'
    BY <2>1 DEF Younger, Alive, RefusedOnlyIfReused
  <2> QED
    BY <2>2, <2>3, <2>4, <2>5
<1> QED
  BY <1>1, <1>2, <1>3, <1>4, <1>5, <1>6, <1>7, <1>8, <1>9, <1>10
     DEF RegistryNext, AddStep, CloseStep

-----------------------------------------------------------------------------
\* The pollers before poller_it_ had one turn more than the rest.
Turns ==
  \E k \in Nat : \A p \in Pollers :
    Cardinality(Chosen(p)) = k + IF p < poller_it_ THEN 1 ELSE 0

LEMMA TurnsInit == RegistryInit => Turns
<1> SUFFICES ASSUME RegistryInit
             PROVE  Turns
  OBVIOUS
<1>1. \A p \in Pollers : Chosen(p) = {}
  BY DEF RegistryInit, Chosen
<1>2. \A p \in Pollers : ~(p < poller_it_)
  BY RegistryAssumption DEF RegistryInit, Pollers
<1> QED
  BY <1>1, <1>2, FS_EmptySet DEF Turns

\* Only the choice of a poller changes what was chosen.
LEMMA TurnsStep ==
  RegistryInv /\ Turns /\ [RegistryNext]_registryVars => Turns'
<1> SUFFICES ASSUME RegistryInv, Turns, [RegistryNext]_registryVars
             PROVE  Turns'
  OBVIOUS
<1> USE RegistryAssumption DEF RegistryInv, HandlerNumbers, Handlers, NoEntry
<1>1. PICK k \in Nat : \A p \in Pollers :
        Cardinality(Chosen(p)) = k + IF p < poller_it_ THEN 1 ELSE 0
  BY DEF Turns
<1>2. created \in Nat /\ poller_it_ \in Pollers
  BY DEF RegistryTypeOK
<1>3. ASSUME NEW t \in AdderThreads, Choose(t)
      PROVE  Turns'
  <2> DEFINE n == adding[t]
             q == poller_it_
  <2>1. /\ n = adding[t] /\ place[t] = "choose" /\ place' = [place EXCEPT ![t] = "insert"]
        /\ poller' = [poller EXCEPT ![n] = q] /\ poller_it_' = Following(q)
        /\ created' = created /\ adding' = adding
    BY <1>3 DEF Choose, To
  <2>2. /\ n \in 1 .. HandlerBound /\ n \in 1 .. created
        /\ \A u \in AdderThreads : adding[u] = n => u = t
    <3>1. n \in 0 .. HandlerBound /\ n # 0 /\ n <= created
      BY <2>1 DEF Traces, AddersOwn, RegistryTypeOK
    <3>2. \A u \in AdderThreads : adding[u] = n => u = t
      BY <2>1, <3>1 DEF Traces, AddersOwn
    <3> QED
      BY <1>2, <3>1, <3>2
  <2> HIDE DEF n
  <2>3. /\ \A h \in 1 .. created : h # n => poller'[h] = poller[h]
        /\ poller'[n] = q
    BY <1>2, <2>1, <2>2 DEF RegistryTypeOK
  <2>4. /\ \A u \in AdderThreads, h \in 1 .. created :
             h # n => (AddsAt(u, h, {"choose"})' <=> AddsAt(u, h, {"choose"}))
        /\ AddsAt(t, n, {"choose"})
        /\ \A u \in AdderThreads : ~(adding'[u] = n /\ place'[u] = "choose")
    <3>1. /\ \A u \in AdderThreads \ {t} : place'[u] = place[u]
          /\ place'[t] = "insert"
      BY <2>1 DEF RegistryTypeOK
    <3>2. \A u \in AdderThreads, h \in 1 .. created :
            h # n => (AddsAt(u, h, {"choose"})' <=> AddsAt(u, h, {"choose"}))
      <4> SUFFICES ASSUME NEW u \in AdderThreads, NEW h \in 1 .. created, h # n
                   PROVE  AddsAt(u, h, {"choose"})' <=> AddsAt(u, h, {"choose"})
        OBVIOUS
      <4>1. CASE u = t
        BY <2>1, <4>1 DEF AddsAt
      <4>2. CASE u # t
        BY <2>1, <3>1, <4>2 DEF AddsAt
      <4> QED
        BY <4>1, <4>2
    <3>3. AddsAt(t, n, {"choose"})
      BY <2>1 DEF AddsAt
    <3>4. \A u \in AdderThreads : ~(adding'[u] = n /\ place'[u] = "choose")
      BY <2>1, <2>2, <3>1
    <3> QED
      BY <3>2, <3>3, <3>4
  <2>5. \A p \in Pollers : n \notin Chosen(p)
    BY <2>4 DEF Chosen
  <2>6. \A p \in Pollers :
          Chosen(p)' = IF p = q THEN Chosen(p) \cup {n} ELSE Chosen(p)
    <3> SUFFICES ASSUME NEW p \in Pollers
                 PROVE  Chosen(p)' = IF p = q THEN Chosen(p) \cup {n} ELSE Chosen(p)
      OBVIOUS
    <3>1. \A h \in 1 .. created : h # n => (h \in Chosen(p)' <=> h \in Chosen(p))
      BY <2>1, <2>3, <2>4 DEF Chosen
    <3>2. n \in Chosen(p)' <=> p = q
      <4>1. n \in 1 .. created' /\ poller'[n] = q
        BY <2>1, <2>2, <2>3
      <4>2. n \in Chosen(p)' <=>
              n \in 1 .. created' /\ poller'[n] = p
                /\ \A u \in AdderThreads : ~(adding'[u] = n /\ place'[u] = "choose")
        BY DEF Chosen, AddsAt
      <4> QED
        BY <2>4, <4>1, <4>2
    <3>3. Chosen(p)' \subseteq 1 .. created /\ Chosen(p) \subseteq 1 .. created
      BY <2>1 DEF Chosen
    <3> QED
      BY <2>2, <2>5, <3>1, <3>2, <3>3
  <2>7. IsFiniteSet(Chosen(q))
    <3>1. Chosen(q) \subseteq 1 .. created
      BY DEF Chosen
    <3>2. IsFiniteSet(1 .. created)
      BY <1>2, FS_Interval
    <3> QED
      BY <3>1, <3>2, FS_Subset
  <2>8. Cardinality(Chosen(q) \cup {n}) = Cardinality(Chosen(q)) + 1
    BY <1>2, <2>5, <2>7, FS_AddElement
  <2>9. \A p \in Pollers :
          Cardinality(Chosen(p)') = k + IF p <= q THEN 1 ELSE 0
    BY <1>1, <1>2, <2>6, <2>8 DEF Pollers
  <2>10. CASE q = PollerNumber
    <3>1. poller_it_' = 1 /\ \A p \in Pollers : p <= q /\ ~(p < 1)
      BY <2>1, <2>10 DEF Following, Pollers
    <3>2. \A p \in Pollers :
            Cardinality(Chosen(p)') = (k + 1) + IF p < poller_it_' THEN 1 ELSE 0
      BY <2>9, <3>1 DEF Pollers
    <3>3. Pollers' = Pollers /\ k + 1 \in Nat
      BY DEF Pollers
    <3> QED
      BY <3>2, <3>3 DEF Turns
  <2>11. CASE q # PollerNumber
    <3>1. poller_it_' = q + 1 /\ \A p \in Pollers : p <= q <=> p < q + 1
      BY <1>2, <2>1, <2>11 DEF Following, Pollers
    <3>2. \A p \in Pollers :
            Cardinality(Chosen(p)') = k + IF p < poller_it_' THEN 1 ELSE 0
      BY <2>9, <3>1 DEF Pollers
    <3> QED
      BY <3>2 DEF Turns, Pollers
  <2> QED
    BY <2>10, <2>11
<1>4. ASSUME NEW t \in AdderThreads, Create(t)
      PROVE  Turns'
  <2> DEFINE n == created + 1
  <2>1. /\ place[t] = "idle" /\ place' = [place EXCEPT ![t] = "choose"]
        /\ created' = n /\ adding' = [adding EXCEPT ![t] = n]
        /\ UNCHANGED <<poller, poller_it_>>
    BY <1>4 DEF Create, To
  <2>2. \A u \in AdderThreads : adding[u] <= created /\ adding[u] \in Nat
    BY DEF Traces, AddersOwn, RegistryTypeOK
  <2>3. /\ adding'[t] = n /\ place'[t] = "choose" /\ adding[t] = 0
        /\ \A u \in AdderThreads, h \in 1 .. created :
             AddsAt(u, h, {"choose"})' <=> AddsAt(u, h, {"choose"})
    <3>1. adding[t] = 0
      BY <2>1 DEF Traces, AddersOwn
    <3>2. /\ \A u \in AdderThreads \ {t} : place'[u] = place[u] /\ adding'[u] = adding[u]
          /\ place'[t] = "choose" /\ adding'[t] = n
      BY <2>1 DEF RegistryTypeOK
    <3>3. ASSUME NEW u \in AdderThreads, NEW h \in 1 .. created
          PROVE  AddsAt(u, h, {"choose"})' <=> AddsAt(u, h, {"choose"})
      <4>1. CASE u = t
        BY <1>2, <2>1, <3>2, <4>1 DEF AddsAt
      <4>2. CASE u # t
        BY <3>2, <4>2 DEF AddsAt
      <4> QED
        BY <4>1, <4>2
    <3> QED
      BY <3>1, <3>2, <3>3
  <2>4. \A p \in Pollers : Chosen(p)' = Chosen(p)
    <3>1. \A h : h \in 1 .. created' <=> h \in 1 .. created \/ h = n
      BY <1>2, <2>1
    <3> SUFFICES ASSUME NEW p \in Pollers
                 PROVE  Chosen(p)' = Chosen(p)
      OBVIOUS
    <3>2. n \notin Chosen(p)'
      BY <2>3 DEF Chosen, AddsAt
    <3>3. \A h \in 1 .. created : h \in Chosen(p)' <=> h \in Chosen(p)
      BY <2>1, <2>3, <3>1 DEF Chosen
    <3>4. \A h \in Chosen(p)' : h \in 1 .. created'
      BY DEF Chosen
    <3>5. \A h \in Chosen(p) : h \in 1 .. created
      BY DEF Chosen
    <3> QED
      BY <3>1, <3>2, <3>3, <3>4, <3>5
  <2> QED
    BY <1>1, <2>1, <2>4 DEF Turns, Pollers
<1>5. ASSUME UNCHANGED <<created, poller, poller_it_>>,
             \A u \in AdderThreads, h \in 1 .. created :
               AddsAt(u, h, {"choose"})' <=> AddsAt(u, h, {"choose"})
      PROVE  Turns'
  <2>1. \A p \in Pollers : Chosen(p)' = Chosen(p)
    BY <1>5 DEF Chosen
  <2> QED
    BY <1>1, <1>5, <2>1 DEF Turns, Pollers
<1>6. ASSUME NEW t \in AdderThreads,
             Insert(t) \/ Register(t) \/ RegisterFails(t) \/ Leave(t)
      PROVE  Turns'
  <2>1. /\ UNCHANGED <<created, poller, poller_it_>>
        /\ place[t] # "choose" /\ place'[t] # "choose"
        /\ \A u \in AdderThreads \ {t} : place'[u] = place[u] /\ adding'[u] = adding[u]
    BY <1>6 DEF Insert, Register, RegisterFails, Leave, To, RegistryTypeOK
  <2> QED
    BY <1>5, <2>1 DEF AddsAt
<1>7. ASSUME NEW h \in Handlers, CloseStep(h)
      PROVE  Turns'
  <2>1. UNCHANGED <<created, poller, poller_it_, place, adding>>
    BY <1>7 DEF CloseStep, DeleteFd, ResetHandler, Erase
  <2> QED
    BY <1>5, <2>1 DEF AddsAt
<1>8. CASE UNCHANGED registryVars
  BY <1>5, <1>8 DEF AddsAt, registryVars
<1> QED
  BY <1>3, <1>4, <1>6, <1>7, <1>8 DEF RegistryNext, AddStep

LEMMA TurnsTaken == Turns => TakesTurns
BY RegistryAssumption DEF Turns, TakesTurns

-----------------------------------------------------------------------------
\* epoll's pointers lead to holders that are there, entries are of handlers that
\* are in use or could not be registered, a handler is turned away only while
\* an earlier one at its address is being closed, and pollers take turns.
THEOREM RegistryIsRight == RegistrySpec => []RegistryRight
<1>1. RegistryInv /\ Turns => RegistryRight
  <2> SUFFICES ASSUME RegistryInv, Turns
               PROVE  RegistryRight
    OBVIOUS
  <2>1. HolderKept
    BY DEF RegistryInv, RegistryTypeOK, MapExact, InMap, Traces, KeptUntilReset, HolderKept
  <2>2. EntriesAccounted
    BY DEF RegistryInv, MapExact, InMap, EntriesAccounted
  <2> QED
    BY <2>1, <2>2, TurnsTaken DEF RegistryInv, RegistryRight
<1>2. RegistryInit => RegistryInv /\ Turns
  BY RegistryInvInit, TurnsInit
<1>3. RegistryInv /\ Turns /\ [RegistryNext]_registryVars => RegistryInv' /\ Turns'
  BY RegistryInvStep, TurnsStep
<1> QED
  BY <1>1, <1>2, <1>3, PTL DEF RegistrySpec

-----------------------------------------------------------------------------
ProxyTypeOK ==
  /\ owner_ \in BOOLEAN
  /\ readers \subseteq Users
  /\ references \subseteq ProxyThreads
  /\ life \in {"alive", "destructor", "gone"}
  /\ turn \in [ProxyThreads -> {"idle", "look", "use", "destroy", "free", "ended"}]

\* Whoever uses the poller has a reference; a poller without any is with the one
\* thread in its destructor, and after detach_() the pointer is gone.
ProxyInv ==
  /\ ProxyTypeOK
  /\ \A t \in ProxyThreads : turn[t] = "use" <=> t \in references
  /\ life = "alive" <=> references # {}
  /\ \A t \in ProxyThreads : turn[t] \in {"destroy", "free"} => life = "destructor"
  /\ \A t, u \in ProxyThreads :
       turn[t] \in {"destroy", "free"} /\ turn[u] \in {"destroy", "free"} => t = u
  /\ \A t \in ProxyThreads : turn[t] = "free" => ~owner_
  /\ life = "gone" => ~owner_

\* The program starts with one reference, that of the owner.
LEMMA ProxyInvInit == ProxyInit => ProxyInv
BY DEF ProxyInit, ProxyInv, ProxyTypeOK, ProxyThreads

\* Every step keeps it: a reference is taken only from another one.
LEMMA ProxyInvStep == ProxyInv /\ [ProxyNext]_proxyVars => ProxyInv'
<1> SUFFICES ASSUME ProxyInv, [ProxyNext]_proxyVars
             PROVE  ProxyInv'
  OBVIOUS
<1> USE DEF ProxyInv, ProxyTypeOK, Turn
<1>1. ASSUME NEW u \in Users, LockOwner(u)
      PROVE  ProxyInv'
  BY <1>1 DEF LockOwner, ProxyThreads
<1>2. ASSUME NEW u \in Users, GetPtr(u)
      PROVE  ProxyInv'
  BY <1>2 DEF GetPtr, ProxyThreads
<1>3. ASSUME NEW t \in ProxyThreads, Drop(t)
      PROVE  ProxyInv'
  <2>1. t \in references
    BY <1>3 DEF Drop
  <2>2. CASE references = {t}
    BY <1>3, <2>1, <2>2 DEF Drop
  <2>3. CASE references # {t}
    <3>1. references' # {}
      BY <1>3, <2>1, <2>3 DEF Drop
    <3>2. \A u \in ProxyThreads : turn[u] \notin {"destroy", "free"}
      BY <2>1
    <3> QED
      BY <1>3, <2>1, <2>3, <3>1, <3>2 DEF Drop
  <2> QED
    BY <2>2, <2>3
<1>4. ASSUME NEW t \in ProxyThreads, Detach(t)
      PROVE  ProxyInv'
  BY <1>4 DEF Detach, Detached
<1>5. ASSUME NEW t \in ProxyThreads, Free(t)
      PROVE  ProxyInv'
  BY <1>5 DEF Free
<1>6. CASE UNCHANGED proxyVars
  BY <1>6 DEF proxyVars
<1> QED
  BY <1>1, <1>2, <1>3, <1>4, <1>5, <1>6 DEF ProxyNext

\* For any threads: "lock_owner_" never gives a poller that is gone, and none
\* that somebody still refers to goes.
THEOREM GoneIsUnreachable == ProxySpec => []NoneReachesGone
<1>1. ProxyInv => NoneReachesGone
  BY DEF ProxyInv, ProxyTypeOK, NoneReachesGone, ProxyThreads
<1> QED
  BY <1>1, ProxyInvInit, ProxyInvStep, PTL DEF ProxySpec
=============================================================================
