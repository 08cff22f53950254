----------------------------- MODULE ThreadBuffer -----------------------------
(***************************************************************************)
(* Gears::ThreadBuffer (gears/ThreadBuffer.hpp) over Gears::ThreadKey: the *)
(* first get_buffer() of a thread takes one of the static buffers, or one  *)
(* of the heap when there is none, and the end of the thread gives it      *)
(* back.  type_key_ tells the end of the thread which of them it was.      *)
(* pthread calls the destructor of buffer_key_ with the buffer, with       *)
(* type_key_ still set: it is the key that was created later.              *)
(***************************************************************************)
EXTENDS Integers, Sequences, FiniteSets

CONSTANTS
  BufferThreads,  \* threads; one that ended is replaced by a new one
  StaticBuffers,  \* the static buffers (THREADS of them)
  HeapBuffers,    \* the blocks that new char[] may give
  NoBuffer        \* the null pointer

VARIABLES
  at,             \* where each thread is
  local,          \* buffer of a call that is under way
  bufferKey,      \* buffer_key_ and type_key_, by thread
  typeKey,
  pool,           \* buffer_pointers_, up to available_
  heap            \* heap blocks in use

threadBufferVars == <<at, local, bufferKey, typeKey, pool, heap>>

Without(t, f) == [f EXCEPT ![t] = NoBuffer]

Initial == CHOOSE s \in [1 .. Cardinality(StaticBuffers) -> StaticBuffers] :
             \A i, j \in DOMAIN s : s[i] = s[j] => i = j

ThreadBufferInit ==
  /\ at = [t \in BufferThreads |-> "run"]
  /\ local = [t \in BufferThreads |-> NoBuffer]
  /\ bufferKey = [t \in BufferThreads |-> NoBuffer]
  /\ typeKey = [t \in BufferThreads |-> NoBuffer]
  /\ pool = Initial
  /\ heap = {}

\* get_buffer: nothing to do if the thread has its buffer.
GetBuffer(t) ==
  /\ at[t] = "run" /\ bufferKey[t] = NoBuffer
  /\ at' = [at EXCEPT ![t] = "take"] /\ local' = Without(t, local)
  /\ UNCHANGED <<bufferKey, typeKey, pool, heap>>

TakeShared(t) ==
  /\ at[t] = "take"
  /\ IF pool # <<>>
     THEN /\ local' = [local EXCEPT ![t] = pool[Len(pool)]] /\ UNCHANGED pool
          /\ at' = [at EXCEPT ![t] = "set_buffer"]
     ELSE at' = [at EXCEPT ![t] = "new"] /\ UNCHANGED <<local, pool>>
  /\ UNCHANGED <<bufferKey, typeKey, heap>>

\* Under mutex_.
TakeStatic(t) ==
  /\ at[t] = "take"
  /\ IF pool # <<>>
     THEN /\ local' = [local EXCEPT ![t] = pool[Len(pool)]]
          /\ pool' = SubSeq(pool, 1, Len(pool) - 1)
          /\ at' = [at EXCEPT ![t] = "set_buffer"]
     ELSE at' = [at EXCEPT ![t] = "new"] /\ UNCHANGED <<local, pool>>
  /\ UNCHANGED <<bufferKey, typeKey, heap>>

\* new char[]: another block of the heap, or bad_alloc and a null pointer.
NewBuffer(t) ==
  /\ at[t] = "new"
  /\ \/ \E b \in HeapBuffers \ heap :
          /\ local' = [local EXCEPT ![t] = b] /\ heap' = heap \cup {b}
          /\ at' = [at EXCEPT ![t] = "set_type"]
     \/ at' = [at EXCEPT ![t] = "run"] /\ UNCHANGED <<local, heap>>
  /\ UNCHANGED <<bufferKey, typeKey, pool>>

NoType(t) == UNCHANGED typeKey

SetTypeKey(t) == typeKey' = [typeKey EXCEPT ![t] = local[t]]

SetType(t) ==
  /\ at[t] = "set_type"
  /\ SetTypeKey(t)
  /\ at' = [at EXCEPT ![t] = "set_buffer"]
  /\ UNCHANGED <<local, bufferKey, pool, heap>>

SetBuffer(t) ==
  /\ at[t] = "set_buffer"
  /\ bufferKey' = [bufferKey EXCEPT ![t] = local[t]]
  /\ at' = [at EXCEPT ![t] = "run"]
  /\ UNCHANGED <<local, typeKey, pool, heap>>

\* The thread ends: pthread clears buffer_key_ and calls free_buffer_.
EndThread(t) ==
  /\ at[t] = "run"
  /\ IF bufferKey[t] = NoBuffer
     THEN at' = [at EXCEPT ![t] = "ended"] /\ UNCHANGED local
     ELSE at' = [at EXCEPT ![t] = "free"] /\ local' = [local EXCEPT ![t] = bufferKey[t]]
  /\ bufferKey' = Without(t, bufferKey)
  /\ UNCHANGED <<typeKey, pool, heap>>

FreeBuffer(t) ==
  /\ at[t] = "free"
  /\ IF typeKey[t] # NoBuffer
     THEN heap' = heap \ {local[t]} /\ UNCHANGED pool
     ELSE pool' = Append(pool, local[t]) /\ UNCHANGED heap
  /\ at' = [at EXCEPT ![t] = "ended"]
  /\ UNCHANGED <<local, bufferKey, typeKey>>

\* A new thread, with no data of its own.
StartThread(t) ==
  /\ at[t] = "ended"
  /\ at' = [at EXCEPT ![t] = "run"]
  /\ local' = Without(t, local) /\ typeKey' = Without(t, typeKey)
  /\ UNCHANGED <<bufferKey, pool, heap>>

ThreadBufferNext ==
  \E t \in BufferThreads : \/ GetBuffer(t) \/ TakeStatic(t) \/ NewBuffer(t) \/ SetType(t)
                     \/ SetBuffer(t) \/ EndThread(t) \/ FreeBuffer(t) \/ StartThread(t)

ThreadBufferSpec == ThreadBufferInit /\ [][ThreadBufferNext]_threadBufferVars

-----------------------------------------------------------------------------
Holds(t) == IF at[t] \in {"set_type", "set_buffer", "free"} THEN local[t] ELSE bufferKey[t]

\* No two threads write one buffer, and a buffer that is free is nobody's.
BuffersApart ==
  \A t, u \in BufferThreads : Holds(t) # NoBuffer =>
    /\ t # u => Holds(t) # Holds(u)
    /\ \A i \in DOMAIN pool : pool[i] # Holds(t)

\* Nothing is lost and nothing given back twice, so that available_ stays
\* within buffer_pointers_: each static buffer is free or one thread's, each
\* block of the heap that is in use is one thread's.
BuffersKept ==
  /\ \A i, j \in DOMAIN pool : pool[i] = pool[j] => i = j
  /\ ({pool[i] : i \in DOMAIN pool} \cup {Holds(t) : t \in BufferThreads}) \ {NoBuffer}
       = StaticBuffers \cup heap
  /\ Len(pool) <= Cardinality(StaticBuffers)
=============================================================================
