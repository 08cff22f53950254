----------------------------- MODULE ClientProofs -----------------------------
(***************************************************************************)
(* Theorems on the client side, for any threads and sizes.                 *)
(*                                                                         *)
(* The connection.  The count of descriptors is raised before it is        *)
(* compared, so that it is never less than what is open or is being opened:*)
(* that keeps the limit, whatever extend_connections_available_() answered *)
(* long before.                                                            *)
(*                                                                         *)
(* The queue.  A message is counted before it is pushed, and taken off the *)
(* count after it was expired, so that the count is at least what the      *)
(* queue was given and did not time out (CountCovers).  What the popper    *)
(* has in its hands was pushed before all that is queued (InHandsFirst).   *)
(***************************************************************************)
EXTENDS ClientConnection, MessageQueue, FiniteSetTheorems, SequenceTheorems, TLAPS

Lines == {"idle", "wake", "rearm", "available", "look", "extend", "open", "undo", "append"}

Working(s) == line[s] \in {"rearm", "append"}

ConnectionTypeOK ==
  /\ waiting_handlers_ \in Seq(Nat \ {0})
  /\ opened_connections_ \in Int /\ opened \in Nat /\ failures \in Nat
  /\ line \in [Senders -> Lines]
  /\ woken \in [Senders -> Nat]

\* Handlers are numbered as they are opened, and a sender has one just while it
\* is about to wake it or to let it wait.
Numbered ==
  /\ \A i \in DOMAIN waiting_handlers_ : waiting_handlers_[i] <= opened
  /\ \A s \in Senders : /\ woken[s] <= opened
                        /\ Working(s) <=> woken[s] # NoHandler

ConnectionInv == ConnectionTypeOK /\ Numbered /\ PoolRight

-----------------------------------------------------------------------------
\* A sender that moves is counted where it comes to and not where it was.
LEMMA Moves ==
  ASSUME ConnectionTypeOK, NEW s \in Senders, NEW to \in Lines, NEW lines,
         line' = [line EXCEPT ![s] = to]
  PROVE  /\ to \in lines => SendersAt(lines)' = SendersAt(lines) \cup {s}
         /\ to \notin lines => SendersAt(lines)' = SendersAt(lines) \ {s}
BY DEF SendersAt, ConnectionTypeOK

LEMMA Counted ==
  ASSUME ConnectionTypeOK, NEW s \in Senders, NEW to \in Lines, NEW lines,
         line' = [line EXCEPT ![s] = to]
  PROVE  /\ Cardinality(SendersAt(lines)) \in Nat
         /\ Cardinality(SendersAt(lines)') =
              Cardinality(SendersAt(lines))
                + (IF to \in lines /\ line[s] \notin lines THEN 1 ELSE 0)
                - (IF to \notin lines /\ line[s] \in lines THEN 1 ELSE 0)
<1>1. IsFiniteSet(SendersAt(lines))
  BY ConnectionAssumption, FS_Subset DEF SendersAt
<1>2. s \in SendersAt(lines) <=> line[s] \in lines
  BY DEF SendersAt
<1>3. Cardinality(SendersAt(lines)) \in Nat
  BY <1>1, FS_CardinalityType
<1>4. CASE to \in lines
  <2>1. SendersAt(lines)' = SendersAt(lines) \cup {s}
    BY <1>4, Moves
  <2>2. Cardinality(SendersAt(lines) \cup {s})
          = IF s \in SendersAt(lines) THEN Cardinality(SendersAt(lines))
            ELSE Cardinality(SendersAt(lines)) + 1
    BY <1>1, FS_AddElement
  <2> QED
    BY <1>2, <1>3, <1>4, <2>1, <2>2
<1>5. CASE to \notin lines
  <2>1. SendersAt(lines)' = SendersAt(lines) \ {s}
    BY <1>5, Moves
  <2>2. Cardinality(SendersAt(lines) \ {s})
          = IF s \in SendersAt(lines) THEN Cardinality(SendersAt(lines)) - 1
            ELSE Cardinality(SendersAt(lines))
    BY <1>1, FS_RemoveElement
  <2> QED
    BY <1>2, <1>3, <1>5, <2>1, <2>2
<1> QED
  BY <1>3, <1>4, <1>5

\* The two counts that the pool depends on.
LEMMA OpeningCounted ==
  ASSUME ConnectionTypeOK, NEW s \in Senders, NEW to \in Lines,
         line' = [line EXCEPT ![s] = to]
  PROVE  /\ Cardinality(SendersAt({"open"})) \in Nat
         /\ Cardinality(SendersAt({"open", "undo"})) \in Nat
         /\ Cardinality(SendersAt({"open"}))' =
              Cardinality(SendersAt({"open"}))
                + (IF to = "open" /\ line[s] # "open" THEN 1 ELSE 0)
                - (IF to # "open" /\ line[s] = "open" THEN 1 ELSE 0)
         /\ Cardinality(SendersAt({"open", "undo"}))' =
              Cardinality(SendersAt({"open", "undo"}))
                + (IF to \in {"open", "undo"} /\ line[s] \notin {"open", "undo"} THEN 1 ELSE 0)
                - (IF to \notin {"open", "undo"} /\ line[s] \in {"open", "undo"} THEN 1 ELSE 0)
<1> DEFINE Change(lines) ==
      /\ Cardinality(SendersAt(lines)) \in Nat
      /\ Cardinality(SendersAt(lines)') =
           Cardinality(SendersAt(lines))
             + (IF to \in lines /\ line[s] \notin lines THEN 1 ELSE 0)
             - (IF to \notin lines /\ line[s] \in lines THEN 1 ELSE 0)
<1>1. \A lines : Change(lines)
  BY Counted
<1>2. Change({"open"}) /\ Change({"open", "undo"})
  <2> HIDE DEF Change
  <2> QED
    BY <1>1
<1> QED
  BY <1>2

\* Those that open are among those the count has beyond what is open.
LEMMA OpenersCounted ==
  ASSUME ConnectionTypeOK
  PROVE  Cardinality(SendersAt({"open"})) <= Cardinality(SendersAt({"open", "undo"}))
<1>1. IsFiniteSet(SendersAt({"open", "undo"}))
  BY ConnectionAssumption, FS_Subset DEF SendersAt
<1>2. SendersAt({"open"}) \subseteq SendersAt({"open", "undo"})
  BY DEF SendersAt
<1> QED
  BY <1>1, <1>2, FS_Subset

-----------------------------------------------------------------------------
LEMMA ConnectionInvInit == ConnectionInit => ConnectionInv
<1> SUFFICES ASSUME ConnectionInit
             PROVE  ConnectionInv
  OBVIOUS
<1>1. ConnectionTypeOK /\ Numbered
  BY DEF ConnectionInit, ConnectionTypeOK, Numbered, Working, Lines, NoHandler
<1>2. SendersAt({"open"}) = {} /\ SendersAt({"open", "undo"}) = {}
  BY DEF ConnectionInit, SendersAt
<1>3. PoolBounded /\ OpenedCounted
  <2>1. Cardinality(SendersAt({"open"})) = 0 /\ Cardinality(SendersAt({"open", "undo"})) = 0
    BY <1>2, FS_EmptySet
  <2> QED
    BY <2>1, ConnectionAssumption DEF ConnectionInit, PoolBounded, OpenedCounted
<1>4. TakenOnce
  BY DEF ConnectionInit, TakenOnce, SendersAt
<1> QED
  BY <1>1, <1>3, <1>4 DEF ConnectionInv, PoolRight

\* The limit and the count, in the steps of a sender.
LEMMA CountKept ==
  ASSUME ConnectionInv, NEW s \in Senders,
         \/ send(s) \/ Wake(s) \/ Rearm(s) \/ NoneWaits(s) \/ ExtendAvailable(s)
         \/ LookAtEldest(s) \/ TryExtend(s) \/ Undo(s) \/ OpenFails(s) \/ Open(s)
         \/ AppendHandler(s)
  PROVE  PoolBounded' /\ OpenedCounted'
<1> DEFINE O == Cardinality(SendersAt({"open"}))
           U == Cardinality(SendersAt({"open", "undo"}))
<1> USE DEF ConnectionInv, PoolRight, Lines
<1>a. ConnectionTypeOK /\ O <= U /\ opened + O < max_out_sockets_
        /\ opened_connections_ = opened + failures + U
        /\ opened \in Nat /\ failures \in Nat /\ opened_connections_ \in Int
  BY OpenersCounted DEF PoolBounded, OpenedCounted, ConnectionTypeOK
<1>b. SUFFICES opened' + O' < max_out_sockets_
               /\ opened_connections_' = opened' + failures' + U'
  BY DEF PoolBounded, OpenedCounted
<1>c. ASSUME NEW to \in Lines, line' = [line EXCEPT ![s] = to]
      PROVE  /\ O \in Nat /\ U \in Nat
             /\ O' = O + (IF to = "open" /\ line[s] # "open" THEN 1 ELSE 0)
                       - (IF to # "open" /\ line[s] = "open" THEN 1 ELSE 0)
             /\ U' = U + (IF to \in {"open", "undo"} /\ line[s] \notin {"open", "undo"}
                          THEN 1 ELSE 0)
                       - (IF to \notin {"open", "undo"} /\ line[s] \in {"open", "undo"}
                          THEN 1 ELSE 0)
  BY <1>a, <1>c, OpeningCounted
<1> HIDE DEF O, U
<1>1. CASE send(s) \/ Wake(s) \/ Rearm(s) \/ NoneWaits(s) \/ AppendHandler(s)
  BY <1>1, <1>a, <1>c DEF send, Wake, Rearm, NoneWaits, AppendHandler, Sending, At
<1>2. CASE ExtendAvailable(s) \/ LookAtEldest(s)
  BY <1>2, <1>a, <1>c DEF ExtendAvailable, LookAtEldest, Sending, At
<1>3. CASE TryExtend(s)
  <2>1. CASE opened_connections_ + 1 < max_out_sockets_
    <3>1. line' = [line EXCEPT ![s] = "open"] /\ line[s] = "extend"
      BY <1>3, <2>1 DEF TryExtend, CountConnection, At
    <3>2. O \in Nat /\ U \in Nat /\ O' = O + 1 /\ U' = U + 1
      BY <1>c, <3>1
    <3> QED
      BY <1>3, <1>a, <2>1, <3>2, ConnectionAssumption DEF TryExtend, CountConnection
  <2>2. CASE ~(opened_connections_ + 1 < max_out_sockets_)
    <3>1. line' = [line EXCEPT ![s] = "undo"] /\ line[s] = "extend"
      BY <1>3, <2>2 DEF TryExtend, CountConnection, At
    <3>2. O \in Nat /\ U \in Nat /\ O' = O /\ U' = U + 1
      BY <1>c, <3>1
    <3> QED
      BY <1>3, <1>a, <3>2 DEF TryExtend, CountConnection
  <2> QED
    BY <2>1, <2>2
<1>4. CASE Undo(s)
  BY <1>4, <1>a, <1>c DEF Undo, UndoCount, At
<1>5. CASE OpenFails(s)
  <2>1. line' = [line EXCEPT ![s] = "idle"] /\ line[s] = "open"
    BY <1>5 DEF OpenFails, At
  <2>2. O \in Nat /\ U \in Nat /\ O' = O - 1 /\ U' = U - 1
    BY <1>c, <2>1
  <2> QED
    BY <1>5, <1>a, <2>2, ConnectionAssumption DEF OpenFails
<1>6. CASE Open(s)
  BY <1>6, <1>a, <1>c DEF Open, At
<1> QED
  BY <1>1, <1>2, <1>3, <1>4, <1>5, <1>6

\* The list and the hands of the senders.
HandlersInv == ConnectionTypeOK /\ Numbered /\ TakenOnce

\* The steps that move no handler: a sender only changes its line.
LEMMA OnlyLine ==
  ASSUME HandlersInv, NEW s \in Senders, NEW to \in Lines \ {"rearm", "append"},
         ~Working(s), line' = [line EXCEPT ![s] = to],
         UNCHANGED <<waiting_handlers_, woken, opened>>,
         opened_connections_' \in Int, failures' \in Nat
  PROVE  HandlersInv'
<1>1. ConnectionTypeOK'
  BY DEF HandlersInv, ConnectionTypeOK
<1>2. \A r \in Senders : Working(r)' <=> Working(r)
  BY DEF HandlersInv, ConnectionTypeOK, Working
<1>3. Numbered'
  BY <1>2 DEF HandlersInv, Numbered
<1>4. SendersAt({"rearm", "append"})' = SendersAt({"rearm", "append"})
  BY <1>2 DEF SendersAt, Working
<1>5. TakenOnce'
  BY <1>4 DEF HandlersInv, TakenOnce
<1> QED
  BY <1>1, <1>3, <1>5 DEF HandlersInv

LEMMA HandlersKept ==
  ASSUME HandlersInv, NEW s \in Senders,
         \/ send(s) \/ Wake(s) \/ Rearm(s) \/ NoneWaits(s) \/ ExtendAvailable(s)
         \/ LookAtEldest(s) \/ TryExtend(s) \/ Undo(s) \/ OpenFails(s) \/ Open(s)
         \/ AppendHandler(s)
  PROVE  HandlersInv'
<1> DEFINE W == waiting_handlers_
<1>a. /\ W \in Seq(Nat \ {0}) /\ Len(W) \in Nat /\ DOMAIN W = 1 .. Len(W)
      /\ \A i \in 1 .. Len(W) : W[i] \in Nat \ {0} /\ W[i] <= opened
      /\ opened \in Nat /\ failures \in Nat /\ opened_connections_ \in Int
      /\ line \in [Senders -> Lines] /\ woken \in [Senders -> Nat]
  BY LenProperties, ElementOfSeq DEF HandlersInv, ConnectionTypeOK, Numbered
<1>b. /\ \A r \in Senders : woken[r] <= opened /\ (Working(r) <=> woken[r] # NoHandler)
      /\ \A i, j \in 1 .. Len(W) : W[i] = W[j] => i = j
      /\ \A r \in Senders : Working(r) =>
           /\ \A i \in 1 .. Len(W) : W[i] # woken[r]
           /\ \A q \in Senders \ {r} : woken[q] # woken[r]
  BY <1>a DEF HandlersInv, Numbered, TakenOnce, SendersAt, Working
<1>c. SUFFICES
        /\ waiting_handlers_' \in Seq(Nat \ {0}) /\ opened_connections_' \in Int
        /\ opened' \in Nat /\ failures' \in Nat
        /\ line' \in [Senders -> Lines] /\ woken' \in [Senders -> Nat]
        /\ \A i \in 1 .. Len(W)' : W'[i] <= opened'
        /\ \A r \in Senders :
             woken'[r] <= opened' /\ (Working(r)' <=> woken'[r] # NoHandler)
        /\ \A i, j \in 1 .. Len(W)' : W'[i] = W'[j] => i = j
        /\ \A r \in Senders : Working(r)' =>
             /\ \A i \in 1 .. Len(W)' : W'[i] # woken'[r]
             /\ \A q \in Senders \ {r} : woken'[q] # woken'[r]
  <2>1. DOMAIN W' = 1 .. Len(W)'
    BY <1>c, LenProperties
  <2>2. ConnectionTypeOK'
    BY <1>c DEF ConnectionTypeOK
  <2>3. Numbered'
    BY <1>c, <2>1 DEF Numbered
  <2>4. TakenOnce'
    BY <1>c, <2>1 DEF TakenOnce, SendersAt, Working
  <2> QED
    BY <2>2, <2>3, <2>4 DEF HandlersInv
<1>1. CASE Wake(s)
  <2>1. /\ W # <<>> /\ line[s] = "wake" /\ line' = [line EXCEPT ![s] = "rearm"]
        /\ woken' = [woken EXCEPT ![s] = W[1]] /\ W' = Tail(W)
        /\ UNCHANGED <<opened_connections_, opened, failures>>
    BY <1>1 DEF Wake, Sending, At, PopFirst
  <2>2. /\ W' \in Seq(Nat \ {0}) /\ Len(W)' = Len(W) - 1 /\ Len(W) \in Nat \ {0}
        /\ \A i \in 1 .. Len(W)' : W'[i] = W[i + 1]
    BY <1>a, <2>1, HeadTailProperties, EmptySeq
  <2>3. \A i \in 1 .. Len(W)' : i + 1 \in 1 .. Len(W) /\ i + 1 # 1 /\ W[i + 1] # W[1]
    BY <1>b, <2>2
  <2>4. 1 \in 1 .. Len(W) /\ W[1] \in Nat \ {0} /\ W[1] <= opened
    BY <1>a, <2>2
  <2>5. \A r \in Senders : woken[r] # W[1]
    BY <1>b, <2>4 DEF NoHandler
  <2> HIDE DEF W
  <2>6. /\ line' \in [Senders -> Lines] /\ woken' \in [Senders -> Nat]
        /\ woken'[s] = W[1] /\ \A r \in Senders \ {s} : woken'[r] = woken[r]
        /\ Working(s)' /\ \A r \in Senders \ {s} : Working(r)' <=> Working(r)
    BY <1>a, <2>1, <2>4 DEF Lines, Working
  <2>7. \A i \in 1 .. Len(W)' : W'[i] <= opened'
    BY <1>a, <2>1, <2>2, <2>3
  <2>8. \A i, j \in 1 .. Len(W)' : W'[i] = W'[j] => i = j
    BY <1>b, <2>2, <2>3
  <2>9. \A r \in Senders : Working(r)' =>
          /\ \A i \in 1 .. Len(W)' : W'[i] # woken'[r]
          /\ \A q \in Senders \ {r} : woken'[q] # woken'[r]
    <3>1. ASSUME NEW r \in Senders, Working(r)', NEW i \in 1 .. Len(W)'
          PROVE  W'[i] # woken'[r]
      <4>1. W'[i] = W[i + 1] /\ i + 1 \in 1 .. Len(W) /\ W[i + 1] # W[1]
        BY <2>2, <2>3
      <4> QED
        BY <1>b, <2>6, <3>1, <4>1
    <3>2. ASSUME NEW r \in Senders, Working(r)', NEW q \in Senders \ {r}
          PROVE  woken'[q] # woken'[r]
      BY <1>b, <2>5, <2>6, <3>2
    <3> QED
      BY <3>1, <3>2
  <2>10. \A r \in Senders :
           woken'[r] <= opened' /\ (Working(r)' <=> woken'[r] # NoHandler)
    BY <1>b, <2>1, <2>4, <2>6 DEF NoHandler
  <2> QED
    BY <1>a, <2>1, <2>2, <2>6, <2>7, <2>8, <2>9, <2>10 DEF W
<1>2. CASE Rearm(s)
  BY <1>2, <1>a, <1>b DEF Rearm, Sending, At, Working, Lines, NoHandler
<1>3. CASE Open(s)
  <2>1. /\ line[s] = "open" /\ line' = [line EXCEPT ![s] = "append"]
        /\ woken' = [woken EXCEPT ![s] = opened + 1] /\ opened' = opened + 1
        /\ UNCHANGED <<waiting_handlers_, opened_connections_, failures>>
    BY <1>3 DEF Open, At
  <2>2. /\ line' \in [Senders -> Lines] /\ woken' \in [Senders -> Nat]
        /\ woken'[s] = opened + 1 /\ \A r \in Senders \ {s} : woken'[r] = woken[r]
        /\ Working(s)' /\ \A r \in Senders \ {s} : Working(r)' <=> Working(r)
    BY <1>a, <2>1 DEF Lines, Working
  <2>3. \A r \in Senders : woken[r] # opened + 1 /\ woken[r] \in Nat
    BY <1>a, <1>b
  <2>4. \A i \in 1 .. Len(W) : W[i] # opened + 1 /\ W[i] <= opened + 1
    BY <1>a
  <2> HIDE DEF W
  <2>5. \A r \in Senders : Working(r)' =>
          /\ \A i \in 1 .. Len(W) : W[i] # woken'[r]
          /\ \A q \in Senders \ {r} : woken'[q] # woken'[r]
    BY <1>b, <2>2, <2>3, <2>4
  <2>6. \A r \in Senders :
           woken'[r] <= opened' /\ (Working(r)' <=> woken'[r] # NoHandler)
    BY <1>a, <1>b, <2>1, <2>2 DEF NoHandler
  <2> QED
    BY <1>a, <1>b, <2>1, <2>2, <2>4, <2>5, <2>6 DEF W
<1>4. CASE AppendHandler(s)
  <2>1. /\ line[s] = "append" /\ line' = [line EXCEPT ![s] = "idle"]
        /\ woken' = [woken EXCEPT ![s] = NoHandler] /\ W' = Append(W, woken[s])
        /\ UNCHANGED <<opened_connections_, opened, failures>>
    BY <1>4 DEF AppendHandler, Sending, At
  <2>2. Working(s) /\ woken[s] \in Nat \ {0} /\ woken[s] <= opened
    BY <1>a, <1>b, <2>1 DEF Working, NoHandler
  <2>3. /\ W' \in Seq(Nat \ {0}) /\ Len(W)' = Len(W) + 1
        /\ \A i \in 1 .. Len(W) : W'[i] = W[i]
        /\ W'[Len(W) + 1] = woken[s]
    BY <1>a, <2>1, <2>2
  <2>4. /\ line' \in [Senders -> Lines] /\ woken' \in [Senders -> Nat]
        /\ woken'[s] = NoHandler /\ \A r \in Senders \ {s} : woken'[r] = woken[r]
        /\ ~Working(s)' /\ \A r \in Senders \ {s} : Working(r)' <=> Working(r)
    BY <1>a, <2>1 DEF Lines, Working, NoHandler
  <2> HIDE DEF W
  <2>5. \A i \in 1 .. Len(W)' : i \in 1 .. Len(W) \/ i = Len(W) + 1
    BY <1>a, <2>3
  <2>6. \A i \in 1 .. Len(W)' : W'[i] <= opened'
    BY <1>a, <2>1, <2>2, <2>3, <2>5
  <2>7. \A i, j \in 1 .. Len(W)' : W'[i] = W'[j] => i = j
    BY <1>b, <2>2, <2>3, <2>5
  <2>8. ASSUME NEW r \in Senders, Working(r)'
        PROVE  /\ \A i \in 1 .. Len(W)' : W'[i] # woken'[r]
               /\ \A q \in Senders \ {r} : woken'[q] # woken'[r]
    <3>1. r # s /\ Working(r) /\ woken'[r] = woken[r]
      BY <2>4, <2>8
    <3>2. \A i \in 1 .. Len(W) : W[i] # woken[r]
      BY <1>b, <3>1
    <3>3. \A q \in Senders \ {r} : woken[q] # woken[r]
      BY <1>b, <3>1
    <3>4. woken[r] # NoHandler
      BY <1>b, <3>1
    <3>5. \A i \in 1 .. Len(W)' : W'[i] # woken'[r]
      BY <2>3, <2>5, <3>1, <3>2, <3>3
    <3>6. \A q \in Senders \ {r} : woken'[q] # woken'[r]
      BY <2>4, <3>1, <3>3, <3>4
    <3> QED
      BY <3>5, <3>6
  <2>9. \A r \in Senders :
          woken'[r] <= opened' /\ (Working(r)' <=> woken'[r] # NoHandler)
    BY <1>a, <1>b, <2>1, <2>4 DEF NoHandler
  <2> QED
    BY <1>a, <2>1, <2>3, <2>4, <2>6, <2>7, <2>8, <2>9 DEF W
<1>5. CASE send(s) \/ NoneWaits(s) \/ ExtendAvailable(s) \/ LookAtEldest(s)
           \/ TryExtend(s) \/ Undo(s) \/ OpenFails(s)
  <2>1. /\ UNCHANGED <<waiting_handlers_, woken, opened>>
        /\ opened_connections_' \in Int /\ failures' \in Nat
    BY <1>5, <1>a DEF send, NoneWaits, ExtendAvailable, LookAtEldest, TryExtend, Undo,
                      OpenFails, Sending, CountConnection, UndoCount
  <2>2. /\ ~Working(s)
        /\ \E to \in Lines \ {"rearm", "append"} : line' = [line EXCEPT ![s] = to]
    BY <1>5 DEF send, NoneWaits, ExtendAvailable, LookAtEldest, TryExtend, Undo, OpenFails,
                Sending, At, CountConnection, Working, Lines
  <2>3. HandlersInv'
    BY <2>1, <2>2, OnlyLine
  <2> QED
    BY <2>3, LenProperties DEF HandlersInv, ConnectionTypeOK, Numbered, TakenOnce,
                               SendersAt, Working
<1> QED
  BY <1>1, <1>2, <1>3, <1>4, <1>5

LEMMA ConnectionInvStep == ConnectionInv /\ [ConnectionNext]_connectionVars => ConnectionInv'
<1> SUFFICES ASSUME ConnectionInv, [ConnectionNext]_connectionVars
             PROVE  ConnectionInv'
  OBVIOUS
<1> USE DEF ConnectionInv, PoolRight, HandlersInv
<1>1. ASSUME NEW s \in Senders,
             \/ send(s) \/ Wake(s) \/ Rearm(s) \/ NoneWaits(s) \/ ExtendAvailable(s)
             \/ LookAtEldest(s) \/ TryExtend(s) \/ Undo(s) \/ OpenFails(s) \/ Open(s)
             \/ AppendHandler(s)
      PROVE  ConnectionInv'
  BY <1>1, CountKept, HandlersKept
<1>2. CASE \/ \E h \in 1 .. opened : Write(h) \/ WriteFails(h)
           \/ UNCHANGED connectionVars
  <2>1. UNCHANGED <<waiting_handlers_, opened_connections_, opened, failures, line, woken>>
    BY <1>2 DEF Write, WriteFails, connectionVars
  <2> QED
    BY <2>1 DEF ConnectionTypeOK, Numbered, Working, PoolBounded, OpenedCounted, TakenOnce,
                SendersAt
<1> QED
  BY <1>1, <1>2 DEF ConnectionNext

\* For any senders and limit: fewer descriptors are ever opened than
\* max_out_sockets_, the count is of those and of what could not be opened, also
\* of what write() closed, and no two senders wake one handler.
THEOREM PoolIsRight == ConnectionSpec => []PoolRight
<1>1. ConnectionInv => PoolRight
  BY DEF ConnectionInv
<1> QED
  BY <1>1, ConnectionInvInit, ConnectionInvStep, PTL DEF ConnectionSpec

-----------------------------------------------------------------------------
Steps(c) == IF c = Popper THEN {"idle", "send", "fill", "count", "insert", "expire", "dead"}
            ELSE IF c = Timer THEN {"idle", "expire", "uncount", "dead"}
            ELSE {"idle", "push", "refuse", "dead"}

Places ==
  {"idle", "push", "refuse", "send", "fill", "count", "insert", "expire", "uncount", "dead"}

QueueTypeOK ==
  /\ pushed \in 0 .. MessageBound
  /\ messages_ \in Seq(1 .. pushed)
  /\ timed_messages_ \subseteq 1 .. pushed
  /\ message_count_ \in Int
  /\ expired_ \in [Messages -> Nat] /\ called \in [Messages -> Nat]
  /\ step \in [QueueThreads -> Places] /\ \A c \in QueueThreads : step[c] \in Steps(c)
  /\ hands \in [QueueThreads -> Seq(1 .. pushed)]

\* The callback was called if and only if the message was expired.
CalledAtFirst == \A m \in Messages : called[m] = IF expired_[m] = 0 THEN 0 ELSE 1

\* What the popper has in its hands was pushed before all that is queued, until
\* it is put back; an idle popper has nothing.
InHandsFirst ==
  /\ step[Popper] \in {"send", "fill", "count", "insert"} =>
       /\ \A i, j \in DOMAIN hands[Popper] : i < j => hands[Popper][i] < hands[Popper][j]
       /\ \A i \in DOMAIN hands[Popper], j \in DOMAIN messages_ :
            hands[Popper][i] < messages_[j]
  /\ step[Popper] = "idle" => hands[Popper] = <<>>

Unexpired == {m \in 1 .. pushed : expired_[m] = 0}
AddersAt(s) == {a \in Adders : step[a] = s}

\* The count is at least what was pushed and not expired, what adders counted
\* and have yet to push or give back, and what the timer has yet to give back.
CountCovers ==
  Cardinality(Unexpired) + Cardinality(AddersAt("push")) + Cardinality(AddersAt("refuse"))
    + (IF step[Timer] = "uncount" THEN 1 ELSE 0) <= message_count_

QueueInv == /\ QueueTypeOK /\ CalledAtFirst /\ InHandsFirst
            /\ InPushOrder /\ NoneForgotten /\ PushedBounded /\ CountCovers

\* A sequence is its first n elements and the rest.
LEMMA Cut ==
  ASSUME NEW S, NEW q \in Seq(S), NEW n \in 0 .. Len(q)
  PROVE  /\ SubSeq(q, 1, n) \in Seq(S) /\ Len(SubSeq(q, 1, n)) = n
         /\ \A i \in 1 .. n : SubSeq(q, 1, n)[i] = q[i]
         /\ SubSeq(q, n + 1, Len(q)) \in Seq(S)
         /\ Len(SubSeq(q, n + 1, Len(q))) = Len(q) - n
         /\ \A i \in 1 .. Len(q) - n : SubSeq(q, n + 1, Len(q))[i] = q[n + i]
         /\ In(q) = In(SubSeq(q, 1, n)) \cup In(SubSeq(q, n + 1, Len(q)))
<1> DEFINE a == SubSeq(q, 1, n)
           b == SubSeq(q, n + 1, Len(q))
<1>1. a \in Seq(S) /\ Len(a) = n /\ \A i \in 1 .. n : a[i] = q[i]
  OBVIOUS
<1>2. b \in Seq(S) /\ Len(b) = Len(q) - n /\ \A i \in 1 .. Len(q) - n : b[i] = q[n + i]
  OBVIOUS
<1>i. /\ In(q) = {q[i] : i \in 1 .. Len(q)}
      /\ In(a) = {a[i] : i \in 1 .. n} /\ In(b) = {b[i] : i \in 1 .. Len(q) - n}
  <2> HIDE DEF a, b
  <2>1. /\ DOMAIN q = 1 .. Len(q) /\ DOMAIN a = 1 .. n /\ DOMAIN b = 1 .. Len(q) - n
    BY <1>1, <1>2
  <2> QED
    BY <2>1 DEF In
<1> HIDE DEF a, b
<1>3. In(q) \subseteq In(a) \cup In(b)
  <2> SUFFICES ASSUME NEW i \in 1 .. Len(q)
               PROVE  q[i] \in In(a) \cup In(b)
    BY <1>i
  <2>1. CASE i <= n
    BY <1>1, <1>i, <2>1
  <2>2. CASE i > n
    <3>1. i - n \in 1 .. Len(q) - n /\ b[i - n] = q[i]
      BY <1>2, <2>2
    <3> QED
      BY <1>i, <3>1
  <2> QED
    BY <2>1, <2>2
<1>4. In(a) \subseteq In(q)
  BY <1>1, <1>i
<1>5. In(b) \subseteq In(q)
  <2> SUFFICES ASSUME NEW i \in 1 .. Len(q) - n
               PROVE  b[i] \in In(q)
    BY <1>i
  <2>1. n + i \in 1 .. Len(q) /\ b[i] = q[n + i]
    BY <1>2
  <2> QED
    BY <1>i, <2>1
<1>6. In(q) = In(a) \cup In(b)
  BY <1>3, <1>4, <1>5
<1> QED
  BY <1>1, <1>2, <1>6 DEF a, b

\* Nothing was pushed, and nobody adds.
LEMMA QueueInvInit == QueueInit => QueueInv
<1> SUFFICES ASSUME QueueInit
             PROVE  QueueInv
  OBVIOUS
<1> USE QueueAssumption DEF QueueInit
<1>1. QueueTypeOK
  BY DEF QueueTypeOK, Places, Steps, QueueThreads, Messages
<1>2. CalledAtFirst /\ InHandsFirst /\ InPushOrder /\ NoneForgotten
  BY DEF CalledAtFirst, InHandsFirst, InPushOrder, NoneForgotten, QueueThreads, Messages
<1>3. Unexpired = {} /\ AddersAt("push") = {} /\ AddersAt("refuse") = {}
  BY DEF Unexpired, AddersAt, QueueThreads
<1>4. step[Timer] = "idle"
  BY DEF QueueThreads
<1>5. /\ Cardinality(Unexpired) = 0
      /\ Cardinality(AddersAt("push")) = 0 /\ Cardinality(AddersAt("refuse")) = 0
  BY <1>3, FS_EmptySet
<1>6. CountCovers
  BY <1>4, <1>5 DEF CountCovers
<1>7. PushedBounded
  BY <1>5 DEF PushedBounded, Unexpired, AddersAt
<1> QED
  BY <1>1, <1>2, <1>6, <1>7 DEF QueueInv

\* The numbers that the count covers.
LEMMA CountTypes ==
  ASSUME QueueTypeOK
  PROVE  /\ IsFiniteSet(Unexpired) /\ Cardinality(Unexpired) \in Nat
         /\ \A s : IsFiniteSet(AddersAt(s)) /\ Cardinality(AddersAt(s)) \in Nat
         /\ Popper \in QueueThreads /\ Timer \in QueueThreads /\ Adders \subseteq QueueThreads
<1>1. IsFiniteSet(1 .. pushed)
  BY FS_Interval DEF QueueTypeOK
<1>2. IsFiniteSet(Unexpired)
  BY <1>1, FS_Subset DEF Unexpired
<1>3. \A s : IsFiniteSet(AddersAt(s))
  BY QueueAssumption, FS_Subset DEF AddersAt
<1> QED
  BY <1>2, <1>3, FS_CardinalityType DEF QueueThreads

\* The move of an adder.
LEMMA AdderMoves ==
  ASSUME QueueTypeOK, NEW a \in Adders, NEW to, step' = [step EXCEPT ![a] = to]
  PROVE  \A s : Cardinality(AddersAt(s))' = Cardinality(AddersAt(s))
                  + (IF to = s /\ step[a] # s THEN 1 ELSE 0)
                  - (IF to # s /\ step[a] = s THEN 1 ELSE 0)
<1> TAKE s
<1>1. /\ IsFiniteSet(AddersAt(s)) /\ Cardinality(AddersAt(s)) \in Nat
      /\ \A b \in Adders : step'[b] = IF b = a THEN to ELSE step[b]
  BY CountTypes DEF QueueTypeOK
<1>2. CASE to = s
  <2>1. AddersAt(s)' = AddersAt(s) \cup {a}
    BY <1>1, <1>2 DEF AddersAt
  <2>2. Cardinality(AddersAt(s) \cup {a})
          = IF a \in AddersAt(s) THEN Cardinality(AddersAt(s))
            ELSE Cardinality(AddersAt(s)) + 1
    BY <1>1, FS_AddElement
  <2>3. a \in AddersAt(s) <=> step[a] = s
    BY DEF AddersAt
  <2> QED
    BY <1>1, <1>2, <2>1, <2>2, <2>3
<1>3. CASE to # s
  <2>1. AddersAt(s)' = AddersAt(s) \ {a}
    BY <1>1, <1>3 DEF AddersAt
  <2>2. Cardinality(AddersAt(s) \ {a})
          = IF a \in AddersAt(s) THEN Cardinality(AddersAt(s)) - 1
            ELSE Cardinality(AddersAt(s))
    BY <1>1, FS_RemoveElement
  <2>3. a \in AddersAt(s) <=> step[a] = s
    BY DEF AddersAt
  <2> QED
    BY <1>1, <1>3, <2>1, <2>2, <2>3
<1> QED
  BY <1>2, <1>3

\* The move of the popper or the timer.
LEMMA OthersMove ==
  ASSUME QueueTypeOK, NEW c \in {Popper, Timer}, NEW to, step' = [step EXCEPT ![c] = to], NEW s
  PROVE  AddersAt(s)' = AddersAt(s)
BY QueueAssumption DEF QueueTypeOK, AddersAt, QueueThreads

\* add: what is about to be pushed was counted, and the count is below the limit.
LEMMA AddKeeps ==
  ASSUME QueueInv, NEW a \in Adders, CountMessage(a) \/ Refuse(a)
  PROVE  QueueInv'
<1> USE DEF QueueInv
<1>1. PICK to \in {"push", "refuse", "idle"} :
        /\ step' = [step EXCEPT ![a] = to]
        /\ step[a] = (IF to = "idle" THEN "refuse" ELSE "idle")
        /\ message_count_' = IF to = "idle" THEN message_count_ - 1 ELSE message_count_ + 1
        /\ to = "push" => message_count_ + 1 < max_size_
  BY DEF CountMessage, Refuse, Move
<1>2. UNCHANGED <<messages_, timed_messages_, expired_, called, pushed, hands, sent, let_go>>
  BY DEF CountMessage, Refuse
<1>3. /\ a \in QueueThreads /\ a # Popper /\ a # Timer
      /\ step'[Popper] = step[Popper] /\ step'[Timer] = step[Timer]
  BY <1>1, CountTypes, QueueAssumption DEF QueueTypeOK, QueueThreads
<1>4. QueueTypeOK'
  <2>1. \A c \in QueueThreads : step'[c] = IF c = a THEN to ELSE step[c]
    BY <1>1 DEF QueueTypeOK
  <2>2. to \in Steps(a) /\ to \in Places
    BY <1>3 DEF Steps, Places
  <2>3. step' \in [QueueThreads -> Places] /\ \A c \in QueueThreads : step'[c] \in Steps(c)
    BY <1>1, <2>1, <2>2 DEF QueueTypeOK
  <2>4. message_count_' \in Int
    BY <1>1 DEF QueueTypeOK
  <2> QED
    BY <1>2, <2>3, <2>4 DEF QueueTypeOK
<1>5. CalledAtFirst' /\ InHandsFirst' /\ InPushOrder' /\ NoneForgotten'
  BY <1>2, <1>3 DEF CalledAtFirst, InHandsFirst, InPushOrder, NoneForgotten
<1>c. \A s : Cardinality(AddersAt(s))' = Cardinality(AddersAt(s))
             + (IF to = s /\ step[a] # s THEN 1 ELSE 0)
             - (IF to # s /\ step[a] = s THEN 1 ELSE 0)
  BY <1>1, AdderMoves
<1>6. /\ Cardinality(AddersAt("push"))' = Cardinality(AddersAt("push"))
           + (IF to = "push" THEN 1 ELSE 0)
      /\ Cardinality(AddersAt("refuse"))' = Cardinality(AddersAt("refuse"))
           + (IF to = "refuse" THEN 1 ELSE 0) - (IF to = "idle" THEN 1 ELSE 0)
  <2>1. Cardinality(AddersAt("push"))' = Cardinality(AddersAt("push"))
           + (IF to = "push" /\ step[a] # "push" THEN 1 ELSE 0)
           - (IF to # "push" /\ step[a] = "push" THEN 1 ELSE 0)
    BY <1>c
  <2>2. Cardinality(AddersAt("refuse"))' = Cardinality(AddersAt("refuse"))
           + (IF to = "refuse" /\ step[a] # "refuse" THEN 1 ELSE 0)
           - (IF to # "refuse" /\ step[a] = "refuse" THEN 1 ELSE 0)
    BY <1>c
  <2> QED
    BY <1>1, <2>1, <2>2
<1>7. Unexpired' = Unexpired
  BY <1>2 DEF Unexpired
<1>8. /\ Cardinality(Unexpired) \in Nat /\ Cardinality(AddersAt("push")) \in Nat
      /\ Cardinality(AddersAt("refuse")) \in Nat /\ message_count_ \in Int
  BY CountTypes DEF QueueTypeOK
<1>9. CountCovers'
  BY <1>1, <1>3, <1>6, <1>7, <1>8 DEF CountCovers
<1>10. PushedBounded'
  <2>1. Cardinality(Unexpired) + Cardinality(AddersAt("push")) < max_size_
    BY DEF PushedBounded, Unexpired, AddersAt
  <2>2. Cardinality(Unexpired)' + Cardinality(AddersAt("push"))' < max_size_
    BY <1>1, <1>6, <1>7, <1>8, <2>1, QueueAssumption DEF CountCovers
  <2> QED
    BY <2>2 DEF PushedBounded, Unexpired, AddersAt
<1> QED
  BY <1>4, <1>5, <1>9, <1>10

LEMMA Elements ==
  ASSUME NEW S, NEW q \in Seq(S)
  PROVE  /\ DOMAIN q = 1 .. Len(q) /\ Len(q) \in Nat
         /\ \A i \in DOMAIN q : q[i] \in S
OBVIOUS

LEMMA Widens ==
  ASSUME NEW n \in Nat, NEW q \in Seq(1 .. n)
  PROVE  q \in Seq(1 .. n + 1)
<1>1. \A i \in 1 .. Len(q) : q[i] \in 1 .. n + 1
  BY Elements
<1> QED
  BY <1>1

\* The number of a message that is pushed is above all others.
LEMMA PushKeeps ==
  ASSUME QueueInv, NEW a \in Adders, Push(a)
  PROVE  QueueInv'
<1> USE DEF QueueInv
<1>1. /\ step[a] = "push" /\ pushed < MessageBound /\ pushed' = pushed + 1
      /\ messages_' = Append(messages_, pushed + 1)
      /\ timed_messages_' \in {timed_messages_, timed_messages_ \cup {pushed + 1}}
      /\ step' = [step EXCEPT ![a] = "idle"]
      /\ UNCHANGED <<message_count_, expired_, called, hands, sent, let_go>>
  BY DEF Push, Move
<1>2. /\ a \in QueueThreads /\ a # Popper /\ a # Timer
      /\ step'[Popper] = step[Popper] /\ step'[Timer] = step[Timer]
  BY <1>1, CountTypes, QueueAssumption DEF QueueTypeOK, QueueThreads
<1>3. /\ pushed \in Nat /\ pushed' \in 0 .. MessageBound
      /\ 1 .. pushed' = (1 .. pushed) \cup {pushed + 1}
  BY <1>1, QueueAssumption DEF QueueTypeOK
<1>4. messages_ \in Seq(1 .. pushed') /\ hands \in [QueueThreads -> Seq(1 .. pushed')]
  <2>1. messages_ \in Seq(1 .. pushed + 1)
    BY <1>3, Widens DEF QueueTypeOK
  <2>2. \A c \in QueueThreads : hands[c] \in Seq(1 .. pushed + 1)
    BY <1>3, Widens DEF QueueTypeOK
  <2> QED
    BY <1>1, <2>1, <2>2 DEF QueueTypeOK
<1>5. /\ messages_' \in Seq(1 .. pushed') /\ Len(messages_') = Len(messages_) + 1
      /\ \A i \in 1 .. Len(messages_) : messages_'[i] = messages_[i] /\ messages_[i] \in 1 .. pushed
      /\ messages_'[Len(messages_) + 1] = pushed + 1
  <2>1. messages_ \in Seq(1 .. pushed)
    BY DEF QueueTypeOK
  <2> QED
    BY <1>1, <1>3, <1>4, <2>1, AppendProperties, Elements
<1>6. /\ Len(messages_) \in Nat /\ DOMAIN messages_ = 1 .. Len(messages_)
      /\ DOMAIN messages_' = 1 .. Len(messages_) + 1
  BY <1>4, <1>5
<1>7. QueueTypeOK'
  <2>1. \A c \in QueueThreads : step'[c] = IF c = a THEN "idle" ELSE step[c]
    BY <1>1 DEF QueueTypeOK
  <2>2. "idle" \in Steps(a) /\ "idle" \in Places
    BY <1>2 DEF Steps, Places
  <2>3. step' \in [QueueThreads -> Places] /\ \A c \in QueueThreads : step'[c] \in Steps(c)
    BY <1>1, <2>1, <2>2 DEF QueueTypeOK
  <2>4. timed_messages_' \subseteq 1 .. pushed'
    BY <1>1, <1>3 DEF QueueTypeOK
  <2>5. hands' \in [QueueThreads -> Seq(1 .. pushed')]
    BY <1>1, <1>4
  <2> QED
    BY <1>1, <1>3, <1>5, <2>3, <2>4, <2>5 DEF QueueTypeOK
<1>8. CalledAtFirst'
  BY <1>1 DEF CalledAtFirst
<1>9. InPushOrder'
  <2>1. ASSUME NEW i \in 1 .. Len(messages_) + 1, NEW j \in 1 .. Len(messages_) + 1, i < j
        PROVE  messages_'[i] < messages_'[j]
    <3>1. i \in 1 .. Len(messages_)
      BY <1>6, <2>1
    <3>2. CASE j = Len(messages_) + 1
      BY <1>3, <1>5, <3>1, <3>2
    <3>3. CASE j # Len(messages_) + 1
      BY <1>5, <1>6, <2>1, <3>1, <3>3 DEF InPushOrder
    <3> QED
      BY <3>2, <3>3
  <2> QED
    BY <1>6, <2>1 DEF InPushOrder
<1>10. InHandsFirst'
  <2>1. \A i \in DOMAIN hands[Popper] : hands[Popper][i] \in 1 .. pushed
    <3>1. hands[Popper] \in Seq(1 .. pushed)
      BY CountTypes DEF QueueTypeOK
    <3> QED
      BY <3>1, Elements
  <2>2. ASSUME step[Popper] \in {"send", "fill", "count", "insert"},
               NEW i \in DOMAIN hands[Popper], NEW j \in 1 .. Len(messages_) + 1
        PROVE  hands[Popper][i] < messages_'[j]
    <3>1. CASE j = Len(messages_) + 1
      BY <1>3, <1>5, <2>1, <3>1
    <3>2. CASE j # Len(messages_) + 1
      BY <1>5, <1>6, <2>2, <3>2 DEF InHandsFirst
    <3> QED
      BY <3>1, <3>2
  <2> QED
    BY <1>1, <1>2, <1>6, <2>2 DEF InHandsFirst
<1>11. NoneForgotten'
  <2>1. In(messages_') = In(messages_) \cup {pushed + 1}
    BY <1>5, <1>6 DEF In
  <2> QED
    BY <1>1, <1>3, <2>1 DEF NoneForgotten
<1>12. /\ Cardinality(Unexpired) \in Nat /\ Cardinality(AddersAt("push")) \in Nat
       /\ Cardinality(AddersAt("refuse")) \in Nat /\ message_count_ \in Int
  BY CountTypes DEF QueueTypeOK
<1>c. \A s : Cardinality(AddersAt(s))' = Cardinality(AddersAt(s))
              + (IF "idle" = s /\ step[a] # s THEN 1 ELSE 0)
              - (IF "idle" # s /\ step[a] = s THEN 1 ELSE 0)
  BY <1>1, AdderMoves
<1>13. /\ Cardinality(AddersAt("push"))' = Cardinality(AddersAt("push")) - 1
       /\ Cardinality(AddersAt("refuse"))' = Cardinality(AddersAt("refuse"))
  <2>1. Cardinality(AddersAt("push"))' = Cardinality(AddersAt("push"))
           + (IF "idle" = "push" /\ step[a] # "push" THEN 1 ELSE 0)
           - (IF "idle" # "push" /\ step[a] = "push" THEN 1 ELSE 0)
    BY <1>c
  <2>2. Cardinality(AddersAt("refuse"))' = Cardinality(AddersAt("refuse"))
           + (IF "idle" = "refuse" /\ step[a] # "refuse" THEN 1 ELSE 0)
           - (IF "idle" # "refuse" /\ step[a] = "refuse" THEN 1 ELSE 0)
    BY <1>c
  <2> QED
    BY <1>1, <1>12, <2>1, <2>2
<1>14. Cardinality(Unexpired)' \in {Cardinality(Unexpired), Cardinality(Unexpired) + 1}
  <2>1. Unexpired' = Unexpired \/ Unexpired' = Unexpired \cup {pushed + 1}
    BY <1>1, <1>3 DEF Unexpired
  <2>2. Cardinality(Unexpired \cup {pushed + 1})
          \in {Cardinality(Unexpired), Cardinality(Unexpired) + 1}
    BY CountTypes, FS_AddElement
  <2> QED
    BY <2>1, <2>2
<1>15. CountCovers'
  BY <1>1, <1>2, <1>12, <1>13, <1>14 DEF CountCovers
<1>16. PushedBounded'
  <2>1. Cardinality(Unexpired) + Cardinality(AddersAt("push")) < max_size_
    BY DEF PushedBounded, Unexpired, AddersAt
  <2>2. Cardinality(Unexpired)' + Cardinality(AddersAt("push"))' < max_size_
    BY <1>12, <1>13, <1>14, <2>1, QueueAssumption
  <2> QED
    BY <2>2 DEF PushedBounded, Unexpired, AddersAt
<1> QED
  BY <1>7, <1>8, <1>9, <1>10, <1>11, <1>15, <1>16

\* A step of the popper or the timer that expires nothing and lowers the count
\* by no more than the timer gives back leaves the bounds.
LEMMA StillCovered ==
  ASSUME QueueInv, NEW c \in {Popper, Timer}, NEW to \in Steps(c),
         step' = [step EXCEPT ![c] = to],
         UNCHANGED <<expired_, pushed>>, message_count_' \in Int,
         message_count_' >= message_count_
           - (IF step[Timer] = "uncount" /\ step'[Timer] # "uncount" THEN 1 ELSE 0),
         to # "uncount"
  PROVE  /\ CountCovers' /\ PushedBounded'
         /\ step' \in [QueueThreads -> Places] /\ \A d \in QueueThreads : step'[d] \in Steps(d)
         /\ \A d \in QueueThreads : step'[d] = IF d = c THEN to ELSE step[d]
<1> USE DEF QueueInv
<1>1. /\ Cardinality(Unexpired) \in Nat /\ Cardinality(AddersAt("push")) \in Nat
      /\ Cardinality(AddersAt("refuse")) \in Nat /\ message_count_ \in Int
      /\ c \in QueueThreads /\ Timer \in QueueThreads
  BY CountTypes DEF QueueTypeOK
<1>2. \A d \in QueueThreads : step'[d] = IF d = c THEN to ELSE step[d]
  BY DEF QueueTypeOK
<1>3. AddersAt("push")' = AddersAt("push") /\ AddersAt("refuse")' = AddersAt("refuse")
  BY OthersMove
<1>4. Unexpired' = Unexpired
  BY DEF Unexpired
<1>5. step'[Timer] = "uncount" => step[Timer] = "uncount"
  BY <1>1, <1>2
<1>6. CountCovers'
  BY <1>1, <1>3, <1>4, <1>5 DEF CountCovers
<1>7. PushedBounded'
  <2>1. Cardinality(Unexpired)' + Cardinality(AddersAt("push"))' < max_size_
    BY <1>3, <1>4 DEF PushedBounded, Unexpired, AddersAt
  <2> QED
    BY <2>1 DEF PushedBounded, Unexpired, AddersAt
<1>8. step' \in [QueueThreads -> Places] /\ \A d \in QueueThreads : step'[d] \in Steps(d)
  <2>1. to \in Places
    BY DEF Steps, Places
  <2> QED
    BY <1>2, <2>1 DEF QueueTypeOK
<1> QED
  BY <1>2, <1>6, <1>7, <1>8

\* pop takes the front of the queue.
LEMMA PopKeeps ==
  ASSUME QueueInv, Pop
  PROVE  QueueInv'
<1> DEFINE a == SubSeq(messages_, 1, Portion)
           b == SubSeq(messages_, Portion + 1, Len(messages_))
<1>1. /\ step[Popper] = "idle" /\ step' = [step EXCEPT ![Popper] = "send"]
      /\ hands' = [hands EXCEPT ![Popper] = a] /\ messages_' = b
      /\ UNCHANGED <<timed_messages_, message_count_, expired_, called, pushed, sent, let_go>>
      /\ Portion \in 0 .. Len(messages_) /\ messages_ \in Seq(1 .. pushed)
  BY QueueAssumption DEF Pop, Move, Hold, QueueInv, QueueTypeOK
<1>2. /\ a \in Seq(1 .. pushed) /\ Len(a) = Portion
      /\ \A i \in 1 .. Portion : a[i] = messages_[i]
      /\ b \in Seq(1 .. pushed) /\ Len(b) = Len(messages_) - Portion
      /\ \A i \in 1 .. Len(messages_) - Portion : b[i] = messages_[Portion + i]
      /\ In(messages_) = In(a) \cup In(b)
  <2> DEFINE T == 1 .. pushed
  <2>1. messages_ \in Seq(T) /\ Portion \in 0 .. Len(messages_)
    BY <1>1
  <2> HIDE DEF T
  <2>2. /\ a \in Seq(T) /\ Len(a) = Portion
        /\ \A i \in 1 .. Portion : a[i] = messages_[i]
        /\ b \in Seq(T) /\ Len(b) = Len(messages_) - Portion
        /\ \A i \in 1 .. Len(messages_) - Portion : b[i] = messages_[Portion + i]
        /\ In(messages_) = In(a) \cup In(b)
    BY <2>1, Cut
  <2> QED
    BY <2>2 DEF T
<1> HIDE DEF a, b
<1>3. /\ DOMAIN a = 1 .. Portion /\ DOMAIN b = 1 .. Len(messages_) - Portion
      /\ DOMAIN messages_ = 1 .. Len(messages_) /\ Len(messages_) \in Nat
  BY <1>1, <1>2
<1>4. Popper \in QueueThreads /\ Timer \in QueueThreads /\ "send" \in Steps(Popper)
  BY CountTypes DEF QueueInv, Steps
<1>5. /\ CountCovers' /\ PushedBounded'
      /\ step' \in [QueueThreads -> Places] /\ \A d \in QueueThreads : step'[d] \in Steps(d)
      /\ \A d \in QueueThreads : step'[d] = IF d = Popper THEN "send" ELSE step[d]
  <2>1. message_count_' \in Int
    BY <1>1 DEF QueueInv, QueueTypeOK
  <2>2. message_count_' >= message_count_
           - (IF step[Timer] = "uncount" /\ step'[Timer] # "uncount" THEN 1 ELSE 0)
    BY <1>1 DEF QueueInv, QueueTypeOK
  <2>3. QueueInv /\ Popper \in {Popper, Timer} /\ UNCHANGED <<expired_, pushed>>
    BY <1>1
  <2> QED
    BY <1>1, <1>4, <2>1, <2>2, <2>3, StillCovered
<1>6. hands'[Popper] = a /\ hands' \in [QueueThreads -> Seq(1 .. pushed)]
  BY <1>1, <1>2, <1>4 DEF QueueInv, QueueTypeOK
<1>7. QueueTypeOK'
  BY <1>1, <1>2, <1>5, <1>6 DEF QueueInv, QueueTypeOK
<1>8. CalledAtFirst'
  BY <1>1 DEF QueueInv, CalledAtFirst
<1>9. InPushOrder' /\ InHandsFirst'
  <2>1. \A i, j \in 1 .. Len(messages_) : i < j => messages_[i] < messages_[j]
    BY <1>3 DEF QueueInv, InPushOrder
  <2>b. \A j \in 1 .. Len(messages_) - Portion :
          Portion + j \in 1 .. Len(messages_) /\ b[j] = messages_[Portion + j]
    BY <1>1, <1>2
  <2>c. \A i, j \in 1 .. Len(messages_) - Portion : i < j => b[i] < b[j]
    BY <1>1, <1>3, <2>1, <2>b
  <2>2. InPushOrder'
    BY <1>1, <1>3, <2>c DEF InPushOrder
  <2>3. \A i, j \in 1 .. Portion : i < j => a[i] < a[j]
    BY <1>1, <1>2, <2>1
  <2>4. \A i \in 1 .. Portion, j \in 1 .. Len(messages_) - Portion : a[i] < b[j]
    <3>1. \A i \in 1 .. Portion : i \in 1 .. Len(messages_) /\ a[i] = messages_[i]
      BY <1>1, <1>2
    <3>2. \A i \in 1 .. Portion, j \in 1 .. Len(messages_) - Portion : i < Portion + j
      BY <1>1, <1>3
    <3> QED
      BY <2>1, <2>b, <3>1, <3>2
  <2> QED
    BY <1>1, <1>3, <1>4, <1>5, <1>6, <2>2, <2>3, <2>4 DEF InHandsFirst
<1>10. NoneForgotten'
  <2>1. In(hands[Popper]) = {}
    BY <1>1, <1>4 DEF QueueInv, InHandsFirst, In
  <2> QED
    BY <1>1, <1>2, <1>6, <2>1 DEF QueueInv, NoneForgotten
<1> QED
  BY <1>5, <1>7, <1>8, <1>9, <1>10 DEF QueueInv

\* What was sent leaves the hands from the front.
LEMMA SendKeeps ==
  ASSUME QueueInv, SendSome
  PROVE  QueueInv'
<1> DEFINE h == hands[Popper]
           T == 1 .. pushed
<1>1. PICK n \in 0 .. Len(h) :
        /\ sent' = sent \cup {h[i] : i \in 1 .. n}
        /\ hands' = [hands EXCEPT ![Popper] = SubSeq(h, n + 1, Len(h))]
  BY DEF SendSome, Hold
<1> DEFINE a == SubSeq(h, 1, n)
           b == SubSeq(h, n + 1, Len(h))
<1>2. /\ step[Popper] = "send" /\ step' = [step EXCEPT ![Popper] = "count"]
      /\ UNCHANGED <<messages_, timed_messages_, message_count_, expired_, called, pushed,
                     let_go>>
      /\ Popper \in QueueThreads /\ Timer \in QueueThreads /\ "count" \in Steps(Popper)
      /\ h \in Seq(T)
  BY CountTypes DEF SendSome, Move, QueueInv, QueueTypeOK, Steps
<1>3. hands'[Popper] = b
  BY <1>1, <1>2 DEF QueueInv, QueueTypeOK
<1>4. \A i, j \in DOMAIN h : i < j => h[i] < h[j]
  BY <1>2 DEF QueueInv, InHandsFirst
<1>5. \A i \in DOMAIN h, j \in DOMAIN messages_ : h[i] < messages_[j]
  BY <1>2 DEF QueueInv, InHandsFirst
<1>t. T = 1 .. pushed /\ h = hands[Popper]
  OBVIOUS
<1>6. /\ a \in Seq(T) /\ Len(a) = n /\ \A i \in 1 .. n : a[i] = h[i]
      /\ b \in Seq(T) /\ Len(b) = Len(h) - n
      /\ \A i \in 1 .. Len(h) - n : b[i] = h[n + i]
      /\ In(h) = In(a) \cup In(b)
  <2> HIDE DEF T, h
  <2> QED
    BY <1>2, Cut
<1>s. sent' = sent \cup {h[i] : i \in 1 .. n} /\ hands' = [hands EXCEPT ![Popper] = b]
  BY <1>1
<1> HIDE DEF a, b, h, T
<1>7. /\ DOMAIN a = 1 .. n /\ DOMAIN b = 1 .. Len(h) - n /\ DOMAIN h = 1 .. Len(h)
      /\ Len(h) \in Nat
  BY <1>2, <1>6
<1>8. /\ CountCovers' /\ PushedBounded'
      /\ step' \in [QueueThreads -> Places] /\ \A d \in QueueThreads : step'[d] \in Steps(d)
      /\ \A d \in QueueThreads : step'[d] = IF d = Popper THEN "count" ELSE step[d]
  <2>1. message_count_' \in Int
    BY <1>2 DEF QueueInv, QueueTypeOK
  <2>2. message_count_' >= message_count_
           - (IF step[Timer] = "uncount" /\ step'[Timer] # "uncount" THEN 1 ELSE 0)
    BY <1>2 DEF QueueInv, QueueTypeOK
  <2>3. QueueInv /\ Popper \in {Popper, Timer} /\ UNCHANGED <<expired_, pushed>>
    BY <1>2
  <2> QED
    BY <1>2, <2>1, <2>2, <2>3, StillCovered
<1>9. hands' \in [QueueThreads -> Seq(1 .. pushed)]
  BY <1>s, <1>6, <1>t DEF QueueInv, QueueTypeOK
<1>10. QueueTypeOK'
  BY <1>2, <1>8, <1>9 DEF QueueInv, QueueTypeOK
<1>11. CalledAtFirst' /\ InPushOrder'
  BY <1>2 DEF QueueInv, CalledAtFirst, InPushOrder
<1>12. InHandsFirst'
  <2>1. \A i \in 1 .. Len(h) - n : n + i \in 1 .. Len(h) /\ b[i] = h[n + i]
    BY <1>6, <1>7
  <2>2. \A i, j \in 1 .. Len(h) - n : i < j => b[i] < b[j]
    BY <1>4, <1>7, <2>1
  <2>3. \A i \in 1 .. Len(h) - n, j \in DOMAIN messages_ : b[i] < messages_[j]
    BY <1>5, <1>7, <2>1
  <2> QED
    BY <1>2, <1>3, <1>7, <1>8, <2>2, <2>3 DEF InHandsFirst
<1>13. NoneForgotten'
  <2>1. {h[i] : i \in 1 .. n} = In(a)
    BY <1>6, <1>7 DEF In
  <2>2. In(h) \subseteq sent' \cup In(hands'[Popper])
    BY <1>3, <1>6, <1>s, <2>1
  <2>3. sent \subseteq sent'
    BY <1>s
  <2>4. \A m \in 1 .. pushed :
          \/ m \in In(messages_) \/ m \in sent \/ m \in let_go \/ m \in In(h)
          \/ called[m] > 0
    BY <1>t DEF QueueInv, NoneForgotten
  <2> QED
    BY <1>2, <2>2, <2>3, <2>4 DEF NoneForgotten
<1> QED
  BY <1>8, <1>10, <1>11, <1>12, <1>13 DEF QueueInv

\* What is left out leaves the hands from the front.
LEMMA LeaveOutKeeps ==
  ASSUME QueueInv, LeaveOut
  PROVE  QueueInv'
<1> DEFINE h == hands[Popper]
           T == 1 .. pushed
           to == IF Tail(h) = <<>> THEN "idle" ELSE "fill"
<1>1. /\ step[Popper] \in {"send", "fill"} /\ h # <<>>
      /\ step' = [step EXCEPT ![Popper] = to]
      /\ hands' = [hands EXCEPT ![Popper] = Tail(h)] /\ let_go' = let_go \cup {Head(h)}
      /\ UNCHANGED <<messages_, timed_messages_, message_count_, expired_, called, pushed, sent>>
      /\ Popper \in QueueThreads /\ Timer \in QueueThreads /\ to \in Steps(Popper)
      /\ h \in Seq(T)
  BY CountTypes DEF LeaveOut, Hold, Move, QueueInv, QueueTypeOK, Steps
<1>2. /\ \A i, j \in DOMAIN h : i < j => h[i] < h[j]
      /\ \A i \in DOMAIN h, j \in DOMAIN messages_ : h[i] < messages_[j]
  BY <1>1 DEF QueueInv, InHandsFirst
<1>t. T = 1 .. pushed /\ h = hands[Popper]
  OBVIOUS
<1>o. to \in {"idle", "fill"} /\ (to = "idle" => Tail(h) = <<>>)
  OBVIOUS
<1> HIDE DEF h, T, to
<1>3. /\ Tail(h) \in Seq(T) /\ Len(h) \in Nat /\ Len(h) > 0 /\ Head(h) = h[1]
      /\ DOMAIN h = 1 .. Len(h) /\ DOMAIN Tail(h) = 1 .. Len(h) - 1
      /\ \A i \in 1 .. Len(h) - 1 : Tail(h)[i] = h[i + 1]
  BY <1>1
<1>4. \A i \in 1 .. Len(h) - 1 : i + 1 \in 1 .. Len(h)
  BY <1>3
<1>5. In(h) \subseteq {Head(h)} \cup In(Tail(h))
  <2> SUFFICES ASSUME NEW i \in 1 .. Len(h)
               PROVE  h[i] \in {Head(h)} \cup In(Tail(h))
    BY <1>3 DEF In
  <2>1. CASE i = 1
    BY <1>3, <2>1
  <2>2. CASE i # 1
    <3>1. i - 1 \in 1 .. Len(h) - 1 /\ Tail(h)[i - 1] = h[i]
      BY <1>3, <2>2
    <3> QED
      BY <1>3, <3>1 DEF In
  <2> QED
    BY <2>1, <2>2
<1>6. /\ CountCovers' /\ PushedBounded'
      /\ step' \in [QueueThreads -> Places] /\ \A d \in QueueThreads : step'[d] \in Steps(d)
      /\ \A d \in QueueThreads : step'[d] = IF d = Popper THEN to ELSE step[d]
  <2>1. message_count_' \in Int /\ to # "uncount"
    BY <1>1, <1>o DEF QueueInv, QueueTypeOK
  <2>2. message_count_' >= message_count_
           - (IF step[Timer] = "uncount" /\ step'[Timer] # "uncount" THEN 1 ELSE 0)
    BY <1>1 DEF QueueInv, QueueTypeOK
  <2>3. QueueInv /\ Popper \in {Popper, Timer} /\ UNCHANGED <<expired_, pushed>>
    BY <1>1
  <2> QED
    BY <1>1, <2>1, <2>2, <2>3, StillCovered
<1>7. hands' \in [QueueThreads -> Seq(1 .. pushed)] /\ hands'[Popper] = Tail(h)
  BY <1>1, <1>3, <1>t DEF QueueInv, QueueTypeOK
<1>8. QueueTypeOK'
  BY <1>1, <1>6, <1>7 DEF QueueInv, QueueTypeOK
<1>9. CalledAtFirst' /\ InPushOrder'
  BY <1>1 DEF QueueInv, CalledAtFirst, InPushOrder
<1>10. InHandsFirst'
  <2>1. \A i, j \in 1 .. Len(h) - 1 : i < j => Tail(h)[i] < Tail(h)[j]
    BY <1>2, <1>3, <1>4
  <2>2. \A i \in 1 .. Len(h) - 1, j \in DOMAIN messages_ : Tail(h)[i] < messages_[j]
    BY <1>2, <1>3, <1>4
  <2>3. step'[Popper] = to
    BY <1>1, <1>6
  <2> QED
    BY <1>1, <1>3, <1>7, <1>o, <2>1, <2>2, <2>3 DEF InHandsFirst
<1>11. NoneForgotten'
  <2>1. \A m \in 1 .. pushed :
          \/ m \in In(messages_) \/ m \in sent \/ m \in let_go \/ m \in In(h)
          \/ called[m] > 0
    BY <1>t DEF QueueInv, NoneForgotten
  <2> QED
    BY <1>1, <1>5, <1>7, <2>1 DEF NoneForgotten
<1> QED
  BY <1>6, <1>8, <1>9, <1>10, <1>11 DEF QueueInv

\* Nobody does anything any more.
LEMMA ReadNullKeeps ==
  ASSUME QueueInv, ReadNull
  PROVE  QueueInv'
<1>1. /\ step' = [c \in QueueThreads |-> "dead"]
      /\ UNCHANGED <<messages_, timed_messages_, message_count_, expired_, called, pushed, hands,
                     sent, let_go>>
      /\ Popper \in QueueThreads /\ Timer \in QueueThreads /\ Adders \subseteq QueueThreads
  BY CountTypes DEF ReadNull, QueueInv
<1>2. /\ \A c \in QueueThreads : step'[c] = "dead" /\ "dead" \in Steps(c)
      /\ step' \in [QueueThreads -> Places]
  BY <1>1 DEF Steps, Places
<1>3. QueueTypeOK'
  BY <1>1, <1>2 DEF QueueInv, QueueTypeOK
<1>4. CalledAtFirst' /\ InPushOrder' /\ NoneForgotten' /\ InHandsFirst'
  BY <1>1, <1>2 DEF QueueInv, CalledAtFirst, InPushOrder, NoneForgotten, InHandsFirst
<1>5. AddersAt("push")' = {} /\ AddersAt("refuse")' = {} /\ Unexpired' = Unexpired
  BY <1>1, <1>2 DEF AddersAt, Unexpired
<1>6. /\ Cardinality(Unexpired) \in Nat
      /\ Cardinality(AddersAt("push")) \in Nat /\ Cardinality(AddersAt("push"))' = 0
      /\ Cardinality(AddersAt("refuse")) \in Nat /\ Cardinality(AddersAt("refuse"))' = 0
      /\ message_count_ \in Int
  BY <1>5, CountTypes, FS_EmptySet DEF QueueInv, QueueTypeOK
<1>7. CountCovers'
  BY <1>1, <1>2, <1>5, <1>6 DEF QueueInv, CountCovers
<1>8. PushedBounded'
  <2>1. Cardinality(Unexpired) + Cardinality(AddersAt("push")) < max_size_
    BY DEF QueueInv, PushedBounded, Unexpired, AddersAt
  <2>2. Cardinality(Unexpired)' + Cardinality(AddersAt("push"))' < max_size_
    BY <1>5, <1>6, <2>1, QueueAssumption
  <2> QED
    BY <2>2 DEF PushedBounded, Unexpired, AddersAt
<1> QED
  BY <1>3, <1>4, <1>7, <1>8 DEF QueueInv

\* What comes back is counted ...
LEMMA CountBackKeeps ==
  ASSUME QueueInv, CountBack
  PROVE  QueueInv'
<1>1. /\ step[Popper] = "count" /\ step' = [step EXCEPT ![Popper] = "insert"]
      /\ message_count_' = message_count_ + Len(hands[Popper])
      /\ UNCHANGED <<messages_, timed_messages_, expired_, called, pushed, hands, sent, let_go>>
      /\ Popper \in QueueThreads /\ Timer \in QueueThreads /\ "insert" \in Steps(Popper)
      /\ hands[Popper] \in Seq(1 .. pushed) /\ message_count_ \in Int
  BY CountTypes DEF CountBack, Move, QueueInv, QueueTypeOK, Steps
<1>2. Len(hands[Popper]) \in Nat
  BY <1>1, Elements
<1>3. /\ CountCovers' /\ PushedBounded'
      /\ step' \in [QueueThreads -> Places] /\ \A d \in QueueThreads : step'[d] \in Steps(d)
      /\ \A d \in QueueThreads : step'[d] = IF d = Popper THEN "insert" ELSE step[d]
  <2>1. /\ message_count_' \in Int /\ message_count_ \in Int
        /\ message_count_' >= message_count_
    BY <1>1, <1>2
  <2>2. message_count_' >= message_count_
           - (IF step[Timer] = "uncount" /\ step'[Timer] # "uncount" THEN 1 ELSE 0)
    BY <2>1
  <2>3. QueueInv /\ Popper \in {Popper, Timer} /\ UNCHANGED <<expired_, pushed>>
    BY <1>1
  <2> QED
    BY <1>1, <2>1, <2>2, <2>3, StillCovered
<1>4. QueueTypeOK'
  BY <1>1, <1>2, <1>3 DEF QueueInv, QueueTypeOK
<1>5. CalledAtFirst' /\ InPushOrder' /\ NoneForgotten'
  BY <1>1 DEF QueueInv, CalledAtFirst, InPushOrder, NoneForgotten
<1>6. InHandsFirst'
  BY <1>1, <1>3 DEF QueueInv, InHandsFirst
<1> QED
  BY <1>3, <1>4, <1>5, <1>6 DEF QueueInv

\* ... and put in front, where what is beyond the size drops out at the end.
LEMMA PushFrontKeeps ==
  ASSUME QueueInv, PushFront
  PROVE  QueueInv'
<1> DEFINE h == hands[Popper]
           T == 1 .. pushed
           all == h \o messages_
           n == IF max_size_ <= Len(all) THEN max_size_ ELSE Len(all)
           a == SubSeq(all, 1, n)
           b == SubSeq(all, n + 1, Len(all))
<1>1. /\ step[Popper] = "insert" /\ step' = [step EXCEPT ![Popper] = "expire"]
      /\ messages_' = SubSeq(all, 1, Min({max_size_, Len(all)}))
      /\ hands' = [hands EXCEPT ![Popper] = SubSeq(all, max_size_ + 1, Len(all))]
      /\ UNCHANGED <<timed_messages_, message_count_, expired_, called, pushed, sent, let_go>>
      /\ Popper \in QueueThreads /\ Timer \in QueueThreads /\ "expire" \in Steps(Popper)
      /\ h \in Seq(T) /\ messages_ \in Seq(T)
  BY CountTypes
     DEF PushFront, Inserted, EraseMessages, Hold, Move, QueueInv, QueueTypeOK, Steps
<1>2. /\ all \in Seq(T) /\ Len(all) = Len(h) + Len(messages_) /\ Len(all) \in Nat
      /\ \A i \in 1 .. Len(h) : all[i] = h[i]
      /\ \A i \in 1 .. Len(messages_) : all[Len(h) + i] = messages_[i]
      /\ DOMAIN h = 1 .. Len(h) /\ DOMAIN messages_ = 1 .. Len(messages_)
      /\ Len(h) \in Nat /\ Len(messages_) \in Nat /\ DOMAIN all = 1 .. Len(all)
  <2> HIDE DEF h, T
  <2> QED
    BY <1>1
<1>t. T = 1 .. pushed /\ h = hands[Popper]
  OBVIOUS
<1>o. \A i, j \in 1 .. Len(all) : i < j => all[i] < all[j]
  <2>1. \A i, j \in 1 .. Len(h) : i < j => h[i] < h[j]
    BY <1>1, <1>2 DEF QueueInv, InHandsFirst
  <2>2. \A i \in 1 .. Len(h), j \in 1 .. Len(messages_) : h[i] < messages_[j]
    BY <1>1, <1>2 DEF QueueInv, InHandsFirst
  <2>3. \A i, j \in 1 .. Len(messages_) : i < j => messages_[i] < messages_[j]
    BY <1>2 DEF QueueInv, InPushOrder
  <2> HIDE DEF h, T, all
  <2>4. SUFFICES ASSUME NEW i \in 1 .. Len(all), NEW j \in 1 .. Len(all), i < j
                 PROVE  all[i] < all[j]
    OBVIOUS
  <2>5. \A k \in 1 .. Len(all) : k > Len(h) =>
          k - Len(h) \in 1 .. Len(messages_) /\ all[k] = messages_[k - Len(h)]
    BY <1>2
  <2>6. CASE j <= Len(h)
    BY <1>2, <2>1, <2>4, <2>6
  <2>7. CASE i <= Len(h) /\ j > Len(h)
    BY <1>2, <2>2, <2>5, <2>7
  <2>8. CASE i > Len(h)
    <3>1. j > Len(h) /\ i - Len(h) < j - Len(h)
      BY <1>2, <2>4, <2>8
    <3> QED
      BY <2>3, <2>5, <2>8, <3>1
  <2> QED
    BY <1>2, <2>6, <2>7, <2>8
<1>i. In(all) = In(h) \cup In(messages_)
  <2> HIDE DEF h, T, all
  <2>1. \A k \in 1 .. Len(all) : k > Len(h) =>
          k - Len(h) \in 1 .. Len(messages_) /\ all[k] = messages_[k - Len(h)]
    BY <1>2
  <2>2. In(all) \subseteq In(h) \cup In(messages_)
    <3> SUFFICES ASSUME NEW k \in 1 .. Len(all)
                 PROVE  all[k] \in In(h) \cup In(messages_)
      BY <1>2 DEF In
    <3>1. CASE k <= Len(h)
      BY <1>2, <3>1 DEF In
    <3>2. CASE k > Len(h)
      BY <1>2, <2>1, <3>2 DEF In
    <3> QED
      BY <1>2, <3>1, <3>2
  <2>3. In(h) \subseteq In(all)
    <3>1. \A i \in 1 .. Len(h) : i \in 1 .. Len(all) /\ h[i] = all[i]
      BY <1>2
    <3> QED
      BY <1>2, <3>1 DEF In
  <2>4. In(messages_) \subseteq In(all)
    <3>1. \A i \in 1 .. Len(messages_) :
            Len(h) + i \in 1 .. Len(all) /\ messages_[i] = all[Len(h) + i]
      BY <1>2
    <3> QED
      BY <1>2, <3>1 DEF In
  <2> QED
    BY <2>2, <2>3, <2>4
<1>n. n \in 0 .. Len(all) /\ Len(all) \in Nat
  <2> HIDE DEF h, T, all
  <2> QED
    BY <1>2, QueueAssumption
<1>m. Min({max_size_, Len(all)}) = n
  <2> HIDE DEF h, T, all
  <2>1. n \in {max_size_, Len(all)} /\ \A y \in {max_size_, Len(all)} : n <= y
    BY <1>n, QueueAssumption
  <2>2. \A x \in {max_size_, Len(all)} :
          (\A y \in {max_size_, Len(all)} : x <= y) => x = n
    BY <1>n, QueueAssumption
  <2> HIDE DEF n
  <2> QED
    BY <2>1, <2>2 DEF Min
<1>b. SubSeq(all, max_size_ + 1, Len(all)) = b
  <2> HIDE DEF h, T, all
  <2>1. CASE max_size_ <= Len(all)
    BY <2>1
  <2>2. CASE ~(max_size_ <= Len(all))
    <3>1. n = Len(all) /\ max_size_ > Len(all)
      BY <1>n, <2>2, QueueAssumption
    <3>2. \A k \in Nat : k >= Len(all) => SubSeq(all, k + 1, Len(all)) = <<>>
      BY <1>2
    <3> HIDE DEF n
    <3> QED
      BY <3>1, <3>2, <1>n, QueueAssumption
  <2> QED
    BY <2>1, <2>2
<1>s. messages_' = a /\ hands' = [hands EXCEPT ![Popper] = b]
  BY <1>1, <1>m, <1>b
<1>6. /\ a \in Seq(T) /\ Len(a) = n /\ \A i \in 1 .. n : a[i] = all[i]
      /\ b \in Seq(T) /\ In(all) = In(a) \cup In(b)
  <2> HIDE DEF h, T, all, n
  <2> QED
    BY <1>2, <1>n, Cut
<1> HIDE DEF a, b, h, T, all, n
<1>7. DOMAIN a = 1 .. n
  BY <1>6, <1>n
<1>8. /\ CountCovers' /\ PushedBounded'
      /\ step' \in [QueueThreads -> Places] /\ \A d \in QueueThreads : step'[d] \in Steps(d)
      /\ \A d \in QueueThreads : step'[d] = IF d = Popper THEN "expire" ELSE step[d]
  <2>1. message_count_' \in Int
    BY <1>1 DEF QueueInv, QueueTypeOK
  <2>2. message_count_' >= message_count_
           - (IF step[Timer] = "uncount" /\ step'[Timer] # "uncount" THEN 1 ELSE 0)
    BY <1>1 DEF QueueInv, QueueTypeOK
  <2>3. QueueInv /\ Popper \in {Popper, Timer} /\ UNCHANGED <<expired_, pushed>>
    BY <1>1
  <2> QED
    BY <1>1, <2>1, <2>2, <2>3, StillCovered
<1>9. hands' \in [QueueThreads -> Seq(1 .. pushed)] /\ hands'[Popper] = b
  BY <1>s, <1>1, <1>6, <1>t DEF QueueInv, QueueTypeOK
<1>10. QueueTypeOK'
  BY <1>1, <1>s, <1>6, <1>t, <1>8, <1>9 DEF QueueInv, QueueTypeOK
<1>11. CalledAtFirst' /\ InPushOrder' /\ InHandsFirst'
  <2>1. \A i, j \in 1 .. n : i < j => a[i] < a[j]
    BY <1>6, <1>n, <1>o
  <2>2. CalledAtFirst'
    BY <1>1 DEF QueueInv, CalledAtFirst
  <2> QED
    BY <1>1, <1>s, <1>7, <1>8, <2>1, <2>2 DEF InPushOrder, InHandsFirst
<1>12. NoneForgotten'
  <2>1. \A m \in 1 .. pushed :
          \/ m \in In(messages_) \/ m \in sent \/ m \in let_go \/ m \in In(h)
          \/ called[m] > 0
    BY <1>t DEF QueueInv, NoneForgotten
  <2> QED
    BY <1>1, <1>s, <1>i, <1>6, <1>9, <2>1 DEF NoneForgotten
<1> QED
  BY <1>8, <1>10, <1>11, <1>12 DEF QueueInv

\* One message is expired: it counts as expired already, or the timer gives back
\* what it counted.
LEMMA ExpireKeeps ==
  ASSUME QueueInv, NEW c \in {Popper, Timer}, Expire(c)
  PROVE  QueueInv'
<1> DEFINE h == hands[c]
           T == 1 .. pushed
           m == Head(h)
           to == IF c = Timer /\ expired_[m] = 0 THEN "uncount" ELSE "expire"
<1>1. /\ step[c] = "expire" /\ h # <<>> /\ step' = [step EXCEPT ![c] = to]
      /\ expired_' = [expired_ EXCEPT ![m] = @ + 1]
      /\ called' = [called EXCEPT ![m] = @ + (IF expired_[m] = 0 THEN 1 ELSE 0)]
      /\ hands' = [hands EXCEPT ![c] = Tail(h)]
      /\ UNCHANGED <<messages_, timed_messages_, message_count_, pushed, sent, let_go>>
      /\ c \in QueueThreads /\ Popper \in QueueThreads /\ Timer \in QueueThreads
      /\ h \in Seq(T)
  BY CountTypes DEF Expire, Callback, Hold, Move, QueueInv, QueueTypeOK
<1>2. m \in T /\ Tail(h) \in Seq(T) /\ In(h) = {m} \cup In(Tail(h))
  <2> HIDE DEF h, T
  <2>1. m \in T /\ Tail(h) \in Seq(T)
    BY <1>1
  <2>2. /\ Len(h) \in Nat /\ Len(h) > 0 /\ m = h[1] /\ DOMAIN h = 1 .. Len(h)
        /\ DOMAIN Tail(h) = 1 .. Len(h) - 1
        /\ \A i \in 1 .. Len(h) - 1 : Tail(h)[i] = h[i + 1]
    BY <1>1
  <2>3. \A i \in 1 .. Len(h) : i # 1 => i - 1 \in 1 .. Len(h) - 1 /\ h[i] = Tail(h)[i - 1]
    BY <2>2
  <2>4. \A i \in 1 .. Len(h) - 1 : i + 1 \in 1 .. Len(h)
    BY <2>2
  <2>5. In(h) \subseteq {m} \cup In(Tail(h))
    <3> SUFFICES ASSUME NEW i \in 1 .. Len(h)
                 PROVE  h[i] \in {m} \cup In(Tail(h))
      BY <2>2 DEF In
    <3>1. CASE i = 1
      BY <2>2, <3>1
    <3>2. CASE i # 1
      BY <2>2, <2>3, <3>2 DEF In
    <3> QED
      BY <3>1, <3>2
  <2>6. {m} \cup In(Tail(h)) \subseteq In(h)
    BY <2>2, <2>4 DEF In
  <2> QED
    BY <2>1, <2>5, <2>6
<1>3. m \in Messages /\ m \in 1 .. pushed
  BY <1>2, QueueAssumption DEF QueueInv, QueueTypeOK, Messages
<1>t. to \in {"uncount", "expire"} /\ (to = "uncount" <=> c = Timer /\ expired_[m] = 0)
  OBVIOUS
<1>h. h = hands[c]
  OBVIOUS
<1> HIDE DEF h, m, to
<1>4. /\ \A x \in Messages : expired_'[x] = IF x = m THEN expired_[x] + 1 ELSE expired_[x]
      /\ expired_' \in [Messages -> Nat]
      /\ \A x \in Messages :
           called'[x] = IF x = m /\ expired_[x] = 0 THEN called[x] + 1 ELSE called[x]
      /\ called' \in [Messages -> Nat] /\ expired_[m] \in Nat
  <2>1. /\ expired_ \in [Messages -> Nat] /\ called \in [Messages -> Nat]
        /\ (IF expired_[m] = 0 THEN 1 ELSE 0) \in Nat
    BY DEF QueueInv, QueueTypeOK
  <2>2. expired_[m] \in Nat /\ called[m] \in Nat
    BY <1>3, <2>1
  <2> QED
    BY <1>1, <1>3, <2>1, <2>2
<1>5. /\ \A d \in QueueThreads : step'[d] = IF d = c THEN to ELSE step[d]
      /\ \A d \in QueueThreads : hands'[d] = IF d = c THEN Tail(h) ELSE hands[d]
  BY <1>1 DEF QueueInv, QueueTypeOK
<1>6. QueueTypeOK'
  <2>1. hands' \in [QueueThreads -> Seq(1 .. pushed)]
    BY <1>1, <1>2 DEF QueueInv, QueueTypeOK
  <2>2. to \in Places /\ to \in Steps(c)
    BY <1>t, QueueAssumption DEF Places, Steps
  <2>3. step' \in [QueueThreads -> Places] /\ \A d \in QueueThreads : step'[d] \in Steps(d)
    BY <1>1, <1>5, <2>2 DEF QueueInv, QueueTypeOK
  <2> QED
    BY <1>1, <1>4, <2>1, <2>3 DEF QueueInv, QueueTypeOK
<1>7. CalledAtFirst'
  BY <1>3, <1>4 DEF QueueInv, QueueTypeOK, CalledAtFirst
<1>8. InPushOrder'
  BY <1>1 DEF QueueInv, InPushOrder
<1>9. InHandsFirst'
  <2>1. CASE c = Popper
    BY <1>1, <1>5, <1>t, <2>1 DEF InHandsFirst
  <2>2. CASE c # Popper
    BY <1>1, <1>5, <2>2 DEF QueueInv, InHandsFirst
  <2> QED
    BY <2>1, <2>2
<1>10. NoneForgotten'
  <2>1. SUFFICES ASSUME NEW x \in 1 .. pushed
                 PROVE  \/ x \in In(messages_) \/ x \in sent \/ x \in let_go
                        \/ x \in In(hands'[Popper])
                        \/ called'[x] > 0
    BY <1>1 DEF NoneForgotten
  <2>2. x \in Messages
    BY QueueAssumption DEF QueueInv, QueueTypeOK, Messages
  <2>3. CASE x = m
    BY <1>4, <2>2, <2>3 DEF QueueInv, QueueTypeOK, CalledAtFirst
  <2>4. CASE x # m
    <3>1. called'[x] = called[x]
      BY <1>4, <2>2, <2>4
    <3>2. x \in In(hands[Popper]) => x \in In(hands'[Popper])
      BY <1>1, <1>2, <1>5, <1>h, <2>4
    <3> QED
      BY <3>1, <3>2 DEF QueueInv, NoneForgotten
  <2> QED
    BY <2>3, <2>4
<1>11. /\ Cardinality(Unexpired) \in Nat /\ Cardinality(AddersAt("push")) \in Nat
       /\ Cardinality(AddersAt("refuse")) \in Nat /\ message_count_ \in Int
       /\ IsFiniteSet(Unexpired)
  BY CountTypes DEF QueueInv, QueueTypeOK
<1>12. AddersAt("push")' = AddersAt("push") /\ AddersAt("refuse")' = AddersAt("refuse")
  BY <1>1, OthersMove DEF QueueInv
<1>13. Cardinality(Unexpired)'
         = IF expired_[m] = 0 THEN Cardinality(Unexpired) - 1 ELSE Cardinality(Unexpired)
  <2>1. Unexpired' = Unexpired \ {m}
    <3>1. \A x \in 1 .. pushed : x \in Messages /\ expired_[x] \in Nat
      BY QueueAssumption DEF QueueInv, QueueTypeOK, Messages
    <3>2. \A x \in 1 .. pushed : expired_'[x] = 0 <=> x # m /\ expired_[x] = 0
      BY <1>4, <3>1
    <3> QED
      BY <1>1, <3>2 DEF Unexpired
  <2>2. m \in Unexpired <=> expired_[m] = 0
    BY <1>3 DEF Unexpired
  <2>3. Cardinality(Unexpired \ {m})
          = IF m \in Unexpired THEN Cardinality(Unexpired) - 1 ELSE Cardinality(Unexpired)
    BY <1>11, FS_RemoveElement
  <2> QED
    BY <2>1, <2>2, <2>3
<1>14. CountCovers'
  <2>1. step'[Timer] = "uncount" <=>
          (c = Timer /\ expired_[m] = 0) \/ (c # Timer /\ step[Timer] = "uncount")
    BY <1>1, <1>5, <1>t
  <2> QED
    BY <1>1, <1>11, <1>12, <1>13, <2>1 DEF QueueInv, CountCovers
<1>15. PushedBounded'
  <2>1. Cardinality(Unexpired) + Cardinality(AddersAt("push")) < max_size_
    BY DEF QueueInv, PushedBounded, Unexpired, AddersAt
  <2>2. Cardinality(Unexpired)' + Cardinality(AddersAt("push"))' < max_size_
    BY <1>11, <1>12, <1>13, <2>1, QueueAssumption
  <2> QED
    BY <2>2 DEF PushedBounded, Unexpired, AddersAt
<1> QED
  BY <1>6, <1>7, <1>8, <1>9, <1>10, <1>14, <1>15 DEF QueueInv

\* When all of its messages are expired, the thread is done.
LEMMA ExpiredKeeps ==
  ASSUME QueueInv, NEW c \in {Popper, Timer}, Expired(c)
  PROVE  QueueInv'
<1>1. /\ step[c] = "expire" /\ hands[c] = <<>> /\ step' = [step EXCEPT ![c] = "idle"]
      /\ UNCHANGED <<messages_, timed_messages_, message_count_, expired_, called, pushed,
                     hands, sent, let_go>>
      /\ c \in QueueThreads /\ Popper \in QueueThreads /\ Timer \in QueueThreads
      /\ "idle" \in Steps(c)
  BY CountTypes DEF Expired, Move, QueueInv, Steps
<1>2. /\ CountCovers' /\ PushedBounded'
      /\ step' \in [QueueThreads -> Places] /\ \A d \in QueueThreads : step'[d] \in Steps(d)
      /\ \A d \in QueueThreads : step'[d] = IF d = c THEN "idle" ELSE step[d]
  <2>1. message_count_' \in Int /\ UNCHANGED <<expired_, pushed>>
    BY <1>1 DEF QueueInv, QueueTypeOK
  <2>2. message_count_' >= message_count_
           - (IF step[Timer] = "uncount" /\ step'[Timer] # "uncount" THEN 1 ELSE 0)
    BY <1>1 DEF QueueInv, QueueTypeOK
  <2> QED
    BY <1>1, <2>1, <2>2, StillCovered
<1>3. QueueTypeOK'
  BY <1>1, <1>2 DEF QueueInv, QueueTypeOK
<1>4. CalledAtFirst' /\ InPushOrder' /\ NoneForgotten'
  BY <1>1 DEF QueueInv, CalledAtFirst, InPushOrder, NoneForgotten
<1>5. InHandsFirst'
  BY <1>1, <1>2 DEF QueueInv, InHandsFirst
<1> QED
  BY <1>2, <1>3, <1>4, <1>5 DEF QueueInv

\* The timer takes messages that were pushed.
LEMMA ClearKeeps ==
  ASSUME QueueInv, ClearTimeouted \/ UncountExpired
  PROVE  QueueInv'
<1>1. /\ step[Timer] \in {"idle", "uncount"} /\ step' = [step EXCEPT ![Timer] = "expire"]
      /\ timed_messages_' \subseteq timed_messages_
      /\ message_count_' = IF step[Timer] = "idle" THEN message_count_ ELSE message_count_ - 1
      /\ UNCHANGED <<messages_, expired_, called, pushed, sent, let_go>>
  BY DEF ClearTimeouted, UncountExpired, Move
<1>2. \E ms \in Seq(1 .. pushed) : hands' = [hands EXCEPT ![Timer] = ms]
  <2>1. CASE UncountExpired
    <3>1. hands[Timer] \in Seq(1 .. pushed) /\ hands' = [hands EXCEPT ![Timer] = hands[Timer]]
      BY <2>1, CountTypes DEF UncountExpired, QueueInv, QueueTypeOK
    <3> QED
      BY <3>1
  <2>2. CASE ClearTimeouted
    <3>1. PICK due \in SUBSET timed_messages_ :
            \E ms \in SetToSeqs(due) : hands' = [hands EXCEPT ![Timer] = ms]
      BY <2>2 DEF ClearTimeouted, Hold
    <3>2. PICK ms \in SetToSeqs(due) : hands' = [hands EXCEPT ![Timer] = ms]
      BY <3>1
    <3>3. due \in SUBSET (1 .. pushed) /\ ms \in [1 .. Cardinality(due) -> due]
      BY <3>2 DEF SetToSeqs, QueueInv, QueueTypeOK
    <3>4. Cardinality(due) \in Nat
      <4>1. IsFiniteSet(1 .. pushed)
        BY FS_Interval DEF QueueInv, QueueTypeOK
      <4> QED
        BY <3>3, <4>1, FS_Subset, FS_CardinalityType
    <3>5. ms \in Seq(1 .. pushed)
      <4>1. ms \in [1 .. Cardinality(due) -> 1 .. pushed]
        BY <3>3
      <4>2. \A S : \A n \in Nat : [1 .. n -> S] \subseteq Seq(S)
        BY SeqDef
      <4> QED
        BY <3>4, <4>1, <4>2
    <3> QED
      BY <3>2, <3>5
  <2> QED
    BY <2>1, <2>2
<1>3. /\ hands' \in [QueueThreads -> Seq(1 .. pushed)] /\ hands'[Popper] = hands[Popper]
      /\ Popper \in QueueThreads /\ Timer \in QueueThreads /\ "expire" \in Steps(Timer)
  BY <1>2, CountTypes, QueueAssumption DEF QueueInv, QueueTypeOK, Steps
<1>4. /\ CountCovers' /\ PushedBounded'
      /\ step' \in [QueueThreads -> Places] /\ \A d \in QueueThreads : step'[d] \in Steps(d)
      /\ \A d \in QueueThreads : step'[d] = IF d = Timer THEN "expire" ELSE step[d]
  <2>1. message_count_' \in Int /\ message_count_ \in Int /\ UNCHANGED <<expired_, pushed>>
    BY <1>1 DEF QueueInv, QueueTypeOK
  <2>2. step'[Timer] = "expire"
    BY <1>1, <1>3 DEF QueueInv, QueueTypeOK
  <2>3. message_count_' >= message_count_
           - (IF step[Timer] = "uncount" /\ step'[Timer] # "uncount" THEN 1 ELSE 0)
    BY <1>1, <2>1, <2>2
  <2>4. Timer \in {Popper, Timer}
    OBVIOUS
  <2> QED
    BY <1>1, <1>3, <2>1, <2>3, <2>4, StillCovered
<1>5. QueueTypeOK'
  BY <1>1, <1>3, <1>4 DEF QueueInv, QueueTypeOK
<1>6. CalledAtFirst' /\ InPushOrder' /\ NoneForgotten'
  BY <1>1, <1>3 DEF QueueInv, CalledAtFirst, InPushOrder, NoneForgotten
<1>7. InHandsFirst'
  <2>1. step'[Popper] = step[Popper]
    BY <1>3, <1>4, QueueAssumption
  <2> QED
    BY <1>1, <1>3, <2>1 DEF QueueInv, InHandsFirst
<1> QED
  BY <1>4, <1>5, <1>6, <1>7 DEF QueueInv

\* For any adders and sizes: a message is called back at most once, the queue is in
\* the order of the pushes, it loses nothing but what write() lets go, and what
\* was pushed and has not expired is less than the queue is to hold.
THEOREM MessagesAreAccounted == QueueSpec => []MessagesAccounted
<1>1. QueueInv /\ [QueueNext]_queueVars => QueueInv'
  <2> SUFFICES ASSUME QueueInv, [QueueNext]_queueVars
               PROVE  QueueInv'
    OBVIOUS
  <2>1. ASSUME NEW a \in Adders, Add(a)
        PROVE  QueueInv'
    BY <2>1, AddKeeps, PushKeeps DEF Add
  <2>2. CASE Pops
    BY <2>2, PopKeeps, LeaveOutKeeps, ReadNullKeeps, SendKeeps, CountBackKeeps,
       PushFrontKeeps, ExpireKeeps, ExpiredKeeps DEF Pops
  <2>3. CASE Clear
    BY <2>3, ClearKeeps, ExpireKeeps, ExpiredKeeps DEF Clear
  <2>4. CASE UNCHANGED queueVars
    BY <2>4 DEF queueVars, QueueInv, QueueTypeOK, CalledAtFirst, InHandsFirst, InPushOrder,
                NoneForgotten, PushedBounded, CountCovers, Unexpired, AddersAt
  <2> QED
    BY <2>1, <2>2, <2>3, <2>4 DEF QueueNext
<1>2. QueueInv => MessagesAccounted
  <2>1. QueueInv => CallbackOnce
    BY DEF QueueInv, CalledAtFirst, CallbackOnce
  <2> QED
    BY <2>1 DEF QueueInv, MessagesAccounted
<1> QED
  BY <1>1, <1>2, QueueInvInit, PTL DEF QueueSpec
=============================================================================
