------------------------------- MODULE MCParts -------------------------------
(***************************************************************************)
(* The parts of the library that need no other part, on small instances,   *)
(* checked in one run: a behaviour is one of a single part, which is       *)
(* chosen at the start.                                                    *)
(***************************************************************************)
EXTENDS TimeArith, MessageQueue, ClientConnection, HandlerRegistry, PollerProxy

CONSTANTS
  LogThreads, Loggers, Levels, NoLogger,
  N, Objects, BufferThreads, StaticBuffers, HeapBuffers, NoBuffer,
  Chars, FirstSize, SIZE, TextLimit,
  Memories, SIZES,
  Starts, Stops, TimesOfDay, Formats, Overflows,
  Alphabets, TextBound

ASSUME PartsAssumption ==
  /\ N \in Nat \ {0}
  /\ IsFiniteSet(StaticBuffers) /\ StaticBuffers \cap HeapBuffers = {}
  /\ NoBuffer \notin StaticBuffers \cup HeapBuffers
  /\ 0 \notin Chars /\ SIZE \in Nat \ {0} /\ TextLimit \in Nat /\ FirstSize \in Nat
  /\ \E k \in 0 .. 10 : FirstSize * 2 ^ k > TextLimit
  /\ SIZES \in Nat
  /\ \A m \in Memories : m \in Seq(Nat) /\ Len(m) \in 1 .. SIZES /\ m[Len(m)] = 0

VARIABLES
  part,
  logger_, log_level_, level, lock_, BUFFER_, spot, mine, value, torn, overlapping,
  release_array_, unreleased_count_, free_candidates_, free_, pc, it, clear_list, destroyed,
  released_by, overlap,
  day, civil,
  memory, self, other,
  use, text,
  kind, cells, epptr, pptr, max_offset_, allocated_, bad, open, file, position, gptr, got,
  at, local, bufferKey, typeKey, pool, heap

-----------------------------------------------------------------------------
\* Times from -2 to 2 seconds of 5 microseconds, and numbers up to 3.
MCOperands == [tv_sec : -2 .. 2, tv_usec : 0 .. 4]
MCNumbers == -3 .. 3

\* From 1970, over the leap year 2000, and where 32 bits of seconds nearly end.
MCStarts ==
  {[day |-> 0, civil |-> [year |-> 1970, month |-> 1, mday |-> 1]],
   [day |-> 10926, civil |-> [year |-> 1999, month |-> 12, mday |-> 1]],
   [day |-> 24806, civil |-> [year |-> 2037, month |-> 12, mday |-> 1]]}

FormatOf(format, date, time_of_day, usec) ==
  [format |-> format, date |-> date, time |-> time_of_day, usec |-> usec]

MCFormats ==
  {FormatOf(<<"%Y", "-", "%m", "-", "%d">>, TRUE, FALSE, FALSE),
   FormatOf(<<"%Y", "-", "%m", "-", "%d", " ", "%H", ":", "%M", ":", "%S">>, TRUE, TRUE, FALSE),
   FormatOf(<<"%A", ",", " ", "%B", "%d", " ", "%Y", "%%", "%H", "%M", "%S", "%q">>,
            TRUE, TRUE, TRUE),
   FormatOf(<<"%a", " ", "%b", "%d", "%Y", "T", "%H", "%M", "%S", ".", "%q">>, TRUE, TRUE, TRUE)}

MCMemories == {<<1, 2, 1, 2, 1, 0>>, <<1, 1, 0, 1, 2, 0>>}

\* - a b c; tab, space, a; A B a and a letter beyond ASCII; signs and digits;
\* bytes of one and of two hexadecimal digits.
MCAlphabets ==
  [set |-> {45, 97, 98, 99}, spaced |-> {9, 32, 97}, words |-> {65, 66, 97, 200},
   number |-> {43, 45, 48, 49, 50, 53, 55, 56}, bytes |-> {0, 10, 160, 255}, copied |-> {97, 98}]

MCTextBound ==
  [set |-> 5, spaced |-> 6, words |-> 4, number |-> 4, bytes |-> 4, copied |-> 5]

Calendar == INSTANCE ExtendedTime

\* The number of a date from 1970 on, until the end of 2099: 2100 is no leap
\* year, which the code takes it for.
DayOf(date) ==
  (date.year - 1970) * 365 + (date.year - 1969) \div 4
    + Calendar!DAYS[IF date.year % 4 = 0 THEN 2 ELSE 1][date.month] + date.mday - 1

LastDay == DayOf([year |-> 2099, month |-> 12, mday |-> 31])

\* The calendar starts at dates of it, and is left before 2100.
ASSUME CalendarAssumption ==
  /\ \A s \in Starts :
       /\ s.civil \in [year : 1970 .. 2099, month : 1 .. 12, mday : 1 .. 31]
       /\ s.civil.mday <= Calendar!MonthLength(s.civil.year, s.civil.month)
       /\ s.day = DayOf(s.civil)
       /\ \E stop \in Stops : stop \in s.day .. LastDay
  /\ \A s \in TimesOfDay : s \in Nat /\ s < 86400
  /\ Overflows \subseteq Nat

Sub == INSTANCE SubString

\* A character is a byte; sets of characters and what is copied are C strings, in
\* which none is NUL.
ASSUME TextAssumption ==
  /\ DOMAIN Alphabets = {"set", "spaced", "words", "number", "bytes", "copied"}
  /\ \A u \in DOMAIN Alphabets : Alphabets[u] \subseteq 0 .. 255
  /\ 0 \notin Alphabets["set"] \cup Alphabets["copied"]
  /\ TextBound \in [DOMAIN Alphabets -> Nat]

Text == INSTANCE StringManip WITH IntegerMax <- 127, Sizes <- 1 .. 9

Stream == INSTANCE MemoryStream WITH text <- file, at <- position

Buffer == INSTANCE ThreadBuffer

Logging == INSTANCE LoggerHolder

Rounds == INSTANCE Cleaner WITH called <- released_by

-----------------------------------------------------------------------------
cleanerVars == <<release_array_, unreleased_count_, free_candidates_, free_, pc, it, clear_list,
                 destroyed, released_by, overlap>>
subVars == <<memory, self, other>>
streamVars == <<kind, cells, epptr, pptr, max_offset_, allocated_, bad, open, file, position,
                gptr, got>>
bufferVars == <<at, local, bufferKey, typeKey, pool, heap>>
loggerVars == <<logger_, log_level_, level, lock_, BUFFER_, spot, mine, value, torn,
                overlapping>>
aloneVars == <<timeVars, day, civil, subVars, use, text, streamVars>>
sharedVars == <<bufferVars, queueVars, connectionVars, cleanerVars>>
pollerVars == <<registryVars, proxyVars, loggerVars>>

\* The parts that are not chosen stay at one of their initial states.
PartsInit ==
  /\ part \in {"time", "calendar", "substring", "text", "stream", "buffer", "queue",
               "connection", "cleaner", "registry", "proxy", "logger"}
  /\ TimeInit /\ QueueInit /\ ConnectionInit /\ Buffer!ThreadBufferInit /\ Rounds!Init
  /\ RegistryInit /\ ProxyInit
  /\ Logging!LoggerInit
  /\ (part # "logger" => logger_ = NoLogger /\ \A l \in Loggers : level[l] = 1)
  /\ Calendar!CalendarInit /\ (part # "calendar" => day = 0)
  /\ Sub!SubStringInit /\ (part # "substring" => Len(memory) = 6 /\ memory[2] = 1)
  /\ Text!TextInit /\ (part # "text" => use = "set")
  /\ Stream!MemoryStreamInit /\ (part # "stream" => kind = "fixed")

AloneNext ==
  \/ /\ part = "time" /\ TimeNext
     /\ UNCHANGED <<day, civil, subVars, use, text, streamVars>>
  \/ /\ part = "calendar" /\ Calendar!NextDay
     /\ UNCHANGED <<timeVars, subVars, use, text, streamVars>>
  \/ /\ part = "substring" /\ Sub!SubStringNext
     /\ UNCHANGED <<timeVars, day, civil, use, text, streamVars>>
  \/ /\ part = "text" /\ Text!Write
     /\ UNCHANGED <<timeVars, day, civil, subVars, streamVars>>
  \/ /\ part = "stream" /\ Stream!MemoryStreamNext
     /\ UNCHANGED <<timeVars, day, civil, subVars, use, text>>

SharedNext ==
  \/ /\ part = "buffer" /\ Buffer!ThreadBufferNext
     /\ UNCHANGED <<queueVars, connectionVars, cleanerVars>>
  \/ /\ part = "queue" /\ QueueNext
     /\ UNCHANGED <<bufferVars, connectionVars, cleanerVars>>
  \/ /\ part = "connection" /\ ConnectionNext
     /\ UNCHANGED <<bufferVars, queueVars, cleanerVars>>
  \/ /\ part = "cleaner" /\ Rounds!Next
     /\ UNCHANGED <<bufferVars, queueVars, connectionVars>>

PollerNext ==
  \/ part = "registry" /\ RegistryNext /\ UNCHANGED <<proxyVars, loggerVars>>
  \/ part = "proxy" /\ ProxyNext /\ UNCHANGED <<registryVars, loggerVars>>
  \/ part = "logger" /\ Logging!LoggerNext /\ UNCHANGED <<registryVars, proxyVars>>

PartsNext ==
  /\ \/ AloneNext /\ UNCHANGED <<sharedVars, pollerVars>>
     \/ SharedNext /\ UNCHANGED <<aloneVars, pollerVars>>
     \/ PollerNext /\ UNCHANGED <<aloneVars, sharedVars>>
  /\ UNCHANGED part

\* The Fairness of Cleaner, for the behaviours of that part.
PartsSpec ==
  /\ PartsInit /\ [][PartsNext]_<<part, aloneVars, sharedVars, pollerVars>>
  /\ \A t \in Rounds!Threads : WF_cleanerVars(part = "cleaner" /\ Rounds!ReleaseStep(t))

-----------------------------------------------------------------------------
\* Fields and times are converted into each other by the calendar, dates with
\* too many days included, and times compare as their fields do.
CalendarRight ==
  part = "calendar" => /\ Calendar!CivilAgrees /\ Calendar!BackAgain /\ Calendar!Normalizes
                       /\ Calendar!FieldsOrdered

\* A substring stays within the memory it was taken from; the comparisons are
\* one order, and the searches find the first and the last occurrence.
SubStringRight ==
  part = "substring" => /\ Sub!InMemory /\ Sub!CompareIsOrder /\ Sub!CStringAgrees
                        /\ Sub!FindersAgree

\* Sets of characters are as written, comparison without case is an order, what
\* is printed is read back, and what is appended stays within its buffer.
TextRight ==
  part = "text" => /\ Text!TableAsWritten /\ Text!CaselessIsOrder /\ Text!NumbersReadBack
                   /\ Text!HexReadsBack /\ Text!BuffersHold

\* Words survive trim() and flatten(), and set() reads what format() prints.
TextKept ==
  /\ part = "text" => Text!TrimAndFlatten
  /\ part = "calendar" => Calendar!FormatParses

\* The output stream holds what a file would, a fixed one ends with a NUL, and
\* the input stream gives the text in its order.
StreamIsFile ==
  part = "stream" => Stream!StreamIsFile /\ Stream!FixedTerminated /\ Stream!InputInOrder

\* No buffer is two threads', or a thread's and free, lost, or given back twice.
BuffersKept == part = "buffer" => Buffer!BuffersApart /\ Buffer!BuffersKept

\* A pushed holder is in one place, the cleaner's counter agrees with its
\* entries, and while rounds do not overlap all have released what is destroyed.
HoldersAccounted == Rounds!HoldersAccounted

\* What is free is destroyed in the end.
FreeIsFreed == Rounds!FreeIsFreed

\* The holder's level is its logger's, but for overlapping changes, and the
\* lines of a log are whole.
LogRight == Logging!LogRight
=============================================================================
