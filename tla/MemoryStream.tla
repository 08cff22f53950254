----------------------------- MODULE MemoryStream -----------------------------
(***************************************************************************)
(* Gears::OutputMemoryStream over the heap (std::allocator) or over one    *)
(* fixed buffer (OutputBufferStream with FixedBufferAllocator, Output-     *)
(* StackStream with StackAllocator), and Gears::InputMemoryStream.         *)
(* The output stream is compared with a file: text is what a file under    *)
(* the same puts and seeks holds, at the position at.                      *)
(***************************************************************************)
EXTENDS Integers, Sequences, FiniteSetsExt

CONSTANTS
  Chars,        \* characters that are put, not NUL
  FirstSize,    \* the least size the heap gives (4096 in the code)
  SIZE,         \* size of the fixed buffer
  TextLimit     \* bound of the model: characters of the file

VARIABLES
  kind,         \* "heap" or "fixed"
  cells,        \* the memory pbase points to
  epptr, pptr,  \* ends of the room and of what is filled, from pbase
  max_offset_, allocated_,
  bad,          \* fail() of the stream: its operations look at that first
  open,
  text, at,     \* the file
  gptr, got     \* the input stream over text: next position, what was read

streamVars == <<kind, cells, epptr, pptr, max_offset_, allocated_, bad, open, text, at, gptr, got>>

NUL == 0
Garbage == -1
Fresh(size) == [i \in 1 .. size |-> Garbage]

-----------------------------------------------------------------------------
(* Allocators.                                                             *)

\* BasicFixedBufferAllocator: one piece at a time, less than the buffer.
FixedAllocates(size) == ~allocated_ /\ size < SIZE

HeapInit ==
  /\ kind = "heap" /\ allocated_ = FALSE
  /\ \E initial_size \in {0, 1} : epptr = initial_size /\ cells = Fresh(initial_size)

\* The stream takes SIZE - 1 cells; the last cell of the buffer is NUL.
FixedInit ==
  /\ kind = "fixed" /\ cells = [Fresh(SIZE) EXCEPT ![SIZE] = NUL]
  /\ epptr = SIZE - 1 /\ allocated_ = TRUE

MemoryStreamInit ==
  /\ HeapInit \/ FixedInit
  /\ pptr = 0 /\ max_offset_ = 0 /\ bad = FALSE /\ open = TRUE
  /\ text = <<>> /\ at = 0 /\ gptr = 0 /\ got = <<>>

-----------------------------------------------------------------------------
NewSize(old_size) ==
  FirstSize * Min({2 ^ k : k \in {k \in 0 .. 10 : FirstSize * 2 ^ k > old_size}})

ExtendFilled(new_size) ==
  [i \in 1 .. new_size |-> IF i <= max_offset_ THEN cells[i] ELSE Garbage]

\* The cells after extend(): a new piece, with all of the old one copied.
Extended(new_size) ==
  [i \in 1 .. new_size |-> IF i <= epptr THEN cells[i] ELSE Garbage]

FilePut(c) == [i \in 1 .. Max({Len(text), at + 1}) |-> IF i = at + 1 THEN c ELSE text[i]]

\* sputc when there is room.
Put ==
  /\ open /\ ~bad /\ pptr < epptr /\ at < TextLimit
  /\ \E c \in Chars : cells' = [cells EXCEPT ![pptr + 1] = c] /\ text' = FilePut(c)
  /\ pptr' = pptr + 1 /\ at' = at + 1
  /\ UNCHANGED <<kind, epptr, max_offset_, allocated_, bad, open, gptr, got>>

overflow ==
  /\ open /\ ~bad /\ pptr = epptr /\ at < TextLimit /\ kind = "heap"
  /\ \E c \in Chars :
       /\ cells' = [Extended(NewSize(epptr)) EXCEPT ![pptr + 1] = c]
       /\ text' = FilePut(c)
  /\ epptr' = NewSize(epptr)
  /\ pptr' = pptr + 1 /\ at' = at + 1
  /\ UNCHANGED <<kind, max_offset_, allocated_, bad, open, gptr, got>>

\* The fixed buffer is allocated already and too small, or the heap is
\* exhausted: nothing is put and the stream is bad from then on.
OverflowFails ==
  /\ open /\ ~bad /\ pptr = epptr
  /\ kind = "fixed" => ~FixedAllocates(NewSize(epptr))
  /\ bad' = TRUE
  /\ UNCHANGED <<kind, cells, epptr, pptr, max_offset_, allocated_, open, text, at, gptr, got>>

SeekForgetful ==
  LET max == Max({max_offset_, 0})
  IN /\ open /\ ~bad
     /\ max_offset_' = max
     /\ \E off \in 0 .. max : pptr' = off /\ at' = off
     /\ UNCHANGED <<kind, cells, epptr, allocated_, bad, open, text, gptr, got>>

\* seekp, with seekoff and seekpos, to the position the offset and the way give:
\* within what was filled up to now, or they answer -1, on which basic_ostream
\* sets failbit.
Seek ==
  LET max == Max({pptr, max_offset_})
      current(way) == CASE way = "beg" -> 0 [] way = "cur" -> pptr [] way = "end" -> max
  IN /\ open /\ ~bad
     /\ max_offset_' = max
     /\ \E way \in {"beg", "cur", "end"} : \E off \in -TextLimit .. TextLimit + 1 :
          IF current(way) + off \in 0 .. max
          THEN pptr' = current(way) + off /\ at' = current(way) + off /\ UNCHANGED bad
          ELSE bad' = TRUE /\ UNCHANGED <<pptr, at>>
     /\ UNCHANGED <<kind, cells, epptr, allocated_, open, text, gptr, got>>

NotTerminated == UNCHANGED cells

\* ~OutputBufferStream puts a NUL, if there is room for it.
Terminated == cells' = IF ~bad /\ pptr < epptr THEN [cells EXCEPT ![pptr + 1] = NUL] ELSE cells

Close ==
  /\ open /\ open' = FALSE
  /\ IF kind = "fixed" THEN Terminated ELSE UNCHANGED cells
  /\ allocated_' = FALSE
  /\ UNCHANGED <<kind, epptr, pptr, max_offset_, bad, text, at, gptr, got>>

-----------------------------------------------------------------------------
(* An InputMemoryStream is opened over the text once the output is closed. *)

GetAgain == gptr < Len(text) /\ got' = Append(got, text[gptr + 1]) /\ gptr' \in {gptr, gptr + 1}

\* sgetc and sbumpc; underflow() gives eof at the end of the text.
GetNext == gptr < Len(text) /\ got' = Append(got, text[gptr + 1]) /\ gptr' = gptr + 1

Get ==
  /\ ~open /\ GetNext
  /\ UNCHANGED <<kind, cells, epptr, pptr, max_offset_, allocated_, bad, open, text, at>>

MemoryStreamNext == Put \/ overflow \/ OverflowFails \/ Seek \/ Close \/ Get

MemoryStreamSpec == MemoryStreamInit /\ [][MemoryStreamNext]_streamVars

-----------------------------------------------------------------------------
\* The position that seekoff answers for an offset of the input stream, -1 if
\* it refuses; the stream itself stays where it is.
InputSeekOff(off, way) ==
  LET pos == off + (CASE way = "beg" -> 0 [] way = "cur" -> gptr [] way = "end" -> Len(text))
  IN IF pos \in 0 .. Len(text) THEN pos ELSE -1

InputData == SubSeq(text, gptr + 1, Len(text))

-----------------------------------------------------------------------------
\* What was put is in the memory, through growth and seeks, as in a file, and
\* str() is the part of it before the position; the room is within the memory.
StreamIsFile ==
  open => /\ pptr = at /\ pptr <= epptr /\ max_offset_ <= epptr /\ epptr <= Len(cells)
          /\ Len(text) = Max({pptr, max_offset_}) /\ SubSeq(cells, 1, Len(text)) = text

\* A stream fails with room left when a seek was refused, and only then: the
\* destructor's NUL is not written, and the text runs on into what was there.
SeekRefused == bad /\ pptr < epptr

\* "No more than SIZE-1 chars are written size_to the buffer and buffer is
\* always zero terminated after the destruction of the stream"
\* (OutputMemoryStream.hpp:205): after the text, at the position of the stream,
\* unless a seek was refused; then only the NUL at the end of the buffer is there.
FixedTerminated ==
  kind = "fixed" =>
    /\ cells[SIZE] = NUL
    /\ ~open => /\ cells[at + 1] = NUL \/ SeekRefused
                /\ SubSeq(cells, 1, at) = SubSeq(text, 1, at)
                /\ \A i \in 1 .. at : cells[i] # NUL

\* "The pointer to data not read yet" (InputMemoryStream.hpp:41): read and not
\* read yet together are the text, and the position told is what was read.
InputInOrder ==
  ~open => /\ got \o InputData = text
           /\ InputSeekOff(0, "cur") = Len(got)
           /\ InputSeekOff(-Len(InputData), "end") = Len(got)
=============================================================================
