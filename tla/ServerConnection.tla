-------------------------- MODULE ServerConnection --------------------------
(***************************************************************************)
(* HashConnectionDescriptorHandler (src/Server/main.cpp) in the hands of a *)
(* poller thread: it reads lines, queues one response of ResponseSize bytes*)
(* for each, and sends what is queued with sendmsg().  handle_ keeps other *)
(* threads out of it (Poller.tla), so one thread at a time is modelled.    *)
(*                                                                         *)
(* Byte o of response n is the number (n - 1) * ResponseSize + o.  The     *)
(* socket and the peer are external: the kernel takes as much as it has    *)
(* room for, and the peer makes room by any amount.                        *)
(***************************************************************************)
EXTENDS Integers, FiniteSets, FiniteSetsExt, SequencesExt

CONSTANTS
  ResponseSize,       \* 8 in the source
  MSG_MAXIOVLEN,      \* 64 in the source
  READ_BLOCK_SIZE_, SHRINK_READ_SIZE_,  \* 128K and 64K in the source
  SendSpace,          \* room of the kernel's send buffer
  MayReset,           \* whether the peer may reset the connection
  MaxInput            \* bound on the bytes the peer sends

ASSUME ConnectionAssumption ==
  /\ {ResponseSize, MSG_MAXIOVLEN, READ_BLOCK_SIZE_, SendSpace} \subseteq Nat \ {0}
  /\ {SHRINK_READ_SIZE_, MaxInput} \subseteq Nat
  /\ MayReset \in BOOLEAN

VARIABLES
  input, sent_input, peer, sock_error, space,   \* the socket and its peer
  read_buf_,               \* the bytes before read_buf_pos_
  read_processed_buf_pos_,
  write_bufs_,             \* the numbers of the responses queued
  write_iovec_buf_,        \* what sendmsg() is given: [buf, base]
  first_write_buf_pos_,
  flags,                   \* of the holder
  pc,
  lines,       \* history: newlines taken from the socket
  answered,    \* history: responses queued so far
  delivered,   \* history: bytes given to the kernel
  in_order,    \* history: they were bytes 1, 2, 3 ...
  cut_twice    \* history: a response was cut by two sends

socketVars  == <<input, sent_input, peer, sock_error, space>>
readVars    == <<read_buf_, read_processed_buf_pos_>>
writeVars   == <<write_bufs_, write_iovec_buf_, first_write_buf_pos_>>
historyVars == <<lines, answered, delivered, in_order, cut_twice>>
vars == <<socketVars, readVars, writeVars, flags, pc, historyVars>>

Init ==
  /\ input = <<>> /\ sent_input = 0 /\ peer = "open" /\ sock_error = "none"
  /\ space = SendSpace
  /\ read_buf_ = <<>> /\ read_processed_buf_pos_ = 0
  /\ write_bufs_ = <<>> /\ write_iovec_buf_ = <<>> /\ first_write_buf_pos_ = 0
  /\ flags = [handle_read |-> TRUE, handle_write |-> TRUE,
              read_closed |-> FALSE, write_closed |-> FALSE]
  /\ pc = "armed"
  /\ lines = 0 /\ answered = 0 /\ delivered = 0
  /\ in_order = TRUE /\ cut_twice = FALSE

-----------------------------------------------------------------------------
(* The peer.                                                               *)

PeerSend ==
  /\ peer = "open" /\ sent_input < MaxInput
  /\ \E b \in {"byte", "newline"} : input' = Append(input, b)
  /\ sent_input' = sent_input + 1
  /\ UNCHANGED <<peer, sock_error, space, readVars, writeVars, flags, pc, historyVars>>

PeerClose ==
  /\ peer = "open"
  /\ peer' = "closed"
  /\ UNCHANGED <<input, sent_input, sock_error, space, readVars, writeVars,
                 flags, pc, historyVars>>

PeerReset ==
  /\ MayReset /\ peer # "reset"
  /\ peer' = "reset" /\ sock_error' = "pending"
  /\ UNCHANGED <<input, sent_input, space, readVars, writeVars, flags, pc,
                 historyVars>>

PeerReceive(room) ==
  /\ peer # "reset" /\ space < room
  /\ space' = room
  /\ UNCHANGED <<input, sent_input, peer, sock_error, readVars, writeVars,
                 flags, pc, historyVars>>

Peer == PeerSend \/ PeerClose \/ PeerReset
          \/ \E room \in 1 .. SendSpace : PeerReceive(room)

-----------------------------------------------------------------------------
(* The poller's part: delivery, and what is done with the results.         *)

ApplyStateModify(f, res) ==
  [handle_read  |-> f.handle_read /\ {"CLOSE_WRITE", "CLOSE_READ"} \cap res = {},
   handle_write |-> IF "CLOSE_WRITE" \in res
                    THEN f.handle_write
                    ELSE \/ "START_WRITE" \in res
                         \/ f.handle_write /\ "STOP_WRITE" \notin res,
   read_closed  |-> f.read_closed \/ "CLOSE_READ" \in res,
   write_closed |-> f.write_closed \/ "CLOSE_WRITE" \in res]

\* An armed descriptor is delivered on input if read is armed, on room if
\* write is, and always on EPOLLRDHUP.
Deliver ==
  /\ pc = "armed"
  /\ \/ flags.handle_read /\ input # <<>>
     \/ flags.handle_write /\ space > 0
     \/ peer # "open"
  /\ pc' = IF flags.handle_read THEN "read" ELSE "write"
  /\ UNCHANGED <<socketVars, readVars, writeVars, flags, historyVars>>

\* read() has returned res; write() follows.
ReadReturns(res) ==
  /\ flags' = ApplyStateModify(flags, res)
  /\ pc' = "write"

\* The end of the pass: removed when both sides are closed, else armed again.
PassEnds(f) == pc' = IF f.read_closed /\ f.write_closed THEN "removed" ELSE "armed"

WriteReturns(res) ==
  LET f == ApplyStateModify(flags, res) IN flags' = f /\ PassEnds(f)

WriteSkipped ==
  /\ pc = "write" /\ ~flags.handle_write
  /\ PassEnds(flags)
  /\ UNCHANGED <<socketVars, readVars, writeVars, flags, historyVars>>

-----------------------------------------------------------------------------
(* read()                                                                  *)

\* add_write_buf_, once for each of the responses first .. last.
QueueResponses(first, last) ==
  LET new == [i \in 1 .. last - first + 1 |-> first + i - 1]
  IN  /\ write_bufs_' = write_bufs_ \o new
      /\ write_iovec_buf_' = write_iovec_buf_ \o
                               [i \in DOMAIN new |-> [buf |-> new[i], base |-> 0]]
      /\ UNCHANGED first_write_buf_pos_

Newlines(s, from) == {i \in from + 1 .. Len(s) : s[i] = "newline"}

ShrunkPosKept(pos) == pos
ShrunkPos(pos) == 0

\* A block is read, its lines are answered, and the buffer is shrunk.
ReadBlock ==
  LET n    == Min({Len(input), READ_BLOCK_SIZE_})
      buf  == read_buf_ \o SubSeq(input, 1, n)
      ends == Newlines(buf, read_processed_buf_pos_)
      pos  == Max(ends \cup {read_processed_buf_pos_})
  IN /\ pc = "read" /\ input # <<>>
     /\ input' = SubSeq(input, n + 1, Len(input))
     /\ lines' = lines + Cardinality(Newlines(SubSeq(input, 1, n), 0))
     /\ answered' = answered + Cardinality(ends)
     /\ QueueResponses(answered + 1, answered')
     /\ IF pos > SHRINK_READ_SIZE_
        THEN /\ read_buf_' = SubSeq(buf, pos + 1, Len(buf))
             /\ read_processed_buf_pos_' = ShrunkPos(pos)
        ELSE read_buf_' = buf /\ read_processed_buf_pos_' = pos
     /\ UNCHANGED <<sent_input, peer, sock_error, space, flags, pc, delivered,
                    in_order, cut_twice>>

AgainResultStop == {"STOP_WRITE"}
AgainResult == IF write_bufs_ # <<>> THEN {"START_WRITE"} ELSE {"STOP_WRITE"}

ReadAgain ==
  /\ pc = "read" /\ input = <<>> /\ peer = "open"
  /\ ReadReturns(AgainResult)
  /\ UNCHANGED <<socketVars, readVars, writeVars, historyVars>>

EofResultClose == {"CLOSE_READ", "CLOSE_WRITE"}
EofResult == {"CLOSE_READ", IF write_bufs_ # <<>> THEN "START_WRITE" ELSE "CLOSE_WRITE"}

ReadEof ==
  /\ pc = "read" /\ input = <<>> /\ peer # "open" /\ sock_error # "pending"
  /\ ReadReturns(EofResult)
  /\ UNCHANGED <<socketVars, readVars, writeVars, historyVars>>

error_ == {"CLOSE_READ", "CLOSE_WRITE"}

\* ECONNRESET; the socket reports it once.
ReadError ==
  /\ pc = "read" /\ input = <<>> /\ sock_error = "pending"
  /\ sock_error' = "taken"
  /\ ReadReturns(error_)
  /\ UNCHANGED <<input, sent_input, peer, space, readVars, writeVars, historyVars>>

-----------------------------------------------------------------------------
(* write()                                                                 *)

InWrite == pc = "write" /\ flags.handle_write

WriteDone ==
  /\ InWrite /\ write_bufs_ = <<>>
  /\ WriteReturns({"STOP_WRITE"})
  /\ UNCHANGED <<socketVars, readVars, writeVars, historyVars>>

WriteAgain ==
  /\ InWrite /\ write_bufs_ # <<>> /\ space = 0 /\ peer # "reset"
  /\ WriteReturns({})
  /\ UNCHANGED <<socketVars, readVars, writeVars, historyVars>>

WriteError ==
  /\ InWrite /\ write_bufs_ # <<>> /\ sock_error = "pending"
  /\ sock_error' = "taken"
  /\ WriteReturns(error_)
  /\ UNCHANGED <<input, sent_input, peer, space, readVars, writeVars, historyVars>>

\* EPIPE comes with SIGPIPE, which nothing in the program blocks or handles.
WriteKilled ==
  /\ InWrite /\ write_bufs_ # <<>> /\ sock_error = "taken"
  /\ pc' = "killed"
  /\ UNCHANGED <<socketVars, readVars, writeVars, flags, historyVars>>

\* What write_msg_ refers to: the first MSG_MAXIOVLEN elements.
msg_iovlen == Min({Len(write_iovec_buf_), MSG_MAXIOVLEN})

IovBytes(v) == [o \in 1 .. ResponseSize - v.base |->
                  (v.buf - 1) * ResponseSize + v.base + o]

MessageBytes == FlattenSeq([i \in 1 .. msg_iovlen |-> IovBytes(write_iovec_buf_[i])])

\* reconfigure_write_bufs_: cur_size up to and with the first n queued buffers,
\* and what is done with the one that was sent in part.
CurSize(n) == IF n = 0 THEN 0 ELSE n * ResponseSize - first_write_buf_pos_

SentBufsStrict(size) == Cardinality({n \in 1 .. Len(write_bufs_) : CurSize(n) < size})
SentBufs(size) == Cardinality({n \in 1 .. Len(write_bufs_) : CurSize(n) <= size})

PositionKept(size, sent) == first_write_buf_pos_
NextPosition(size, sent) ==
  IF sent < Len(write_bufs_) /\ CurSize(sent) < size THEN size - CurSize(sent) ELSE 0

NotRebased(iov, pos) == iov
Rebased(iov, pos) == IF pos > 0 THEN [iov EXCEPT ![1].base = pos] ELSE iov

Reconfigure(size) ==
  LET sent == SentBufs(size)
      pos  == NextPosition(size, sent)
  IN  /\ write_bufs_' = SubSeq(write_bufs_, sent + 1, Len(write_bufs_))
      /\ first_write_buf_pos_' = pos
      /\ write_iovec_buf_' =
           Rebased(SubSeq(write_iovec_buf_, sent + 1, Len(write_iovec_buf_)), pos)

Send ==
  LET bytes == MessageBytes
      size  == Min({space, Len(bytes)})
  IN /\ InWrite /\ write_bufs_ # <<>> /\ space > 0 /\ peer # "reset"
     /\ space' = space - size
     /\ Reconfigure(size)
     /\ in_order' = (in_order /\ \A i \in 1 .. size : bytes[i] = delivered + i)
     /\ delivered' = IF in_order' THEN delivered + size ELSE delivered
     /\ cut_twice' = (cut_twice \/ (first_write_buf_pos_ > 0 /\ size < CurSize(1)))
     /\ UNCHANGED <<input, sent_input, peer, sock_error, readVars, flags, pc,
                    lines, answered>>

-----------------------------------------------------------------------------
ReadStep == ReadBlock \/ ReadAgain \/ ReadEof \/ ReadError
WriteStep == \/ WriteSkipped \/ WriteDone \/ WriteAgain \/ WriteError
             \/ WriteKilled \/ Send

Next == Peer \/ Deliver \/ ReadStep \/ WriteStep

Spec == Init /\ [][Next]_vars

\* The poller's threads run, and the peer receives what it is sent.
Fairness == /\ WF_vars(Deliver \/ ReadStep \/ WriteStep)
            /\ WF_vars(PeerReceive(SendSpace))

LiveSpec == Spec /\ Fairness

-----------------------------------------------------------------------------
TypeOK ==
  /\ input \in Seq({"byte", "newline"}) /\ sent_input \in 0 .. MaxInput
  /\ peer \in {"open", "closed", "reset"}
  /\ sock_error \in {"none", "pending", "taken"}
  /\ space \in 0 .. SendSpace
  /\ read_buf_ \in Seq({"byte", "newline"})
  /\ read_processed_buf_pos_ \in 0 .. Len(read_buf_)
  /\ write_bufs_ \in Seq(1 .. answered)
  /\ write_iovec_buf_ \in Seq([buf : 1 .. answered, base : 0 .. ResponseSize - 1])
  /\ first_write_buf_pos_ \in 0 .. ResponseSize - 1
  /\ flags \in [handle_read : BOOLEAN, handle_write : BOOLEAN,
                read_closed : BOOLEAN, write_closed : BOOLEAN]
  /\ pc \in {"armed", "read", "write", "removed", "killed"}
  /\ lines \in Nat /\ answered \in Nat /\ delivered \in Nat
  /\ in_order \in BOOLEAN /\ cut_twice \in BOOLEAN

\* Every line gets one response, however the reads and the shrinking cut it.
LineAnswered == answered = lines

\* "all next fields consistent and ready for sendmsg": the vector that
\* sendmsg() is given describes the queued buffers, the first from its position.
MessageConsistent ==
  /\ Len(write_iovec_buf_) = Len(write_bufs_)
  /\ \A i \in DOMAIN write_bufs_ :
       write_iovec_buf_[i] = [buf  |-> write_bufs_[i],
                              base |-> IF i = 1 THEN first_write_buf_pos_ ELSE 0]
  /\ write_bufs_ = <<>> => first_write_buf_pos_ = 0

\* The same, and the types.
QueueConsistent == TypeOK /\ MessageConsistent

\* "ready for sendmsg": the bytes that reach the kernel are the responses in
\* their order, none left out and none repeated.
ResponsesInOrder == in_order

\* The same, as long as no response is cut by two sends.
InOrderUnlessCutTwice == cut_twice \/ in_order

\* What is queued is never forgotten: a connection that waits in epoll with
\* responses to send is armed for output.
OutputArmed == pc = "armed" /\ write_bufs_ # <<>> => flags.handle_write

\* A peer that closes its side still gets every response it is owed: only an
\* error removes a connection with responses in the queue.
RemovedWhenSent == pc = "removed" /\ sock_error = "none" => write_bufs_ = <<>>

\* Responses are sent as long as the peer receives.
ResponsesSent == write_bufs_ # <<>> ~> write_bufs_ = <<>> \/ peer = "reset"

\* "connection closed" (read): when the peer closes, the connection goes.
ClosedIsRemoved == peer = "closed" ~> pc = "removed" \/ peer = "reset"
=============================================================================
