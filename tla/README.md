# litemq in TLA+

TLA+ models of litemq, a small C++ library for messaging over non-blocking
sockets, of the thread primitives (`gears/`) it is built on, and of the example
server. They are checked with TLC on small instances; for some of them TLAPS
proofs hold for any size. Paths are relative to the repository.

## The system

The server (`src/Server/main.cpp`) builds a pool of 16 pollers with 4 threads
each. A poller owns one epoll descriptor. A listener accepts connections and adds
each to the pool; the poller's threads call `read()` and `write()` of the handler
whose descriptor is ready. The client (`src/Client/main.cpp`) sends messages
through a `Context`, `Connection`s with a pool of sockets each, and per-connection
`MessageQueue`s; a sender wakes a handler that waits with
`DescriptorHandler::rearm`.

| Component | State | Operations | What makes it correct |
|---|---|---|---|
| `DescriptorHandlerPoller` | map of holders; epoll set and its masks; per holder `handle_read/write`, `*_closed`, `handle_in_progress`, `handling_finished`; stop pipe | `add`, `process_`, `handle_`, `rearm`, `deactivate_object` | one thread in a handler; no event lost; no call after `stopped()`; a ready descriptor is served; all threads stop |
| `DescriptorHandlerCleaner` | `release_array_`, `unreleased_count_`, `free_candidates_`, `free_` | `push`, `release` | a holder is destroyed once, only after every thread released it, and eventually |
| `DescriptorHandlerPollerPool`, `Proxy` | pollers, round-robin position, the proxy's plain pointer | `add`, activate, `detach_` | pollers take turns; no proxy reaches a poller that is gone |
| `AcceptorDescriptorHandler` | listening socket | `read` (accept loop) | accepts until EAGAIN |
| `HashConnectionDescriptorHandler` | read buffer and positions; `write_bufs_`, `write_iovec_buf_`, `first_write_buf_pos_` | `read`, `write` | one response per line, in order, each byte once; a finished connection goes |
| `MessageQueue` | list, timeout index, count | `add`, `push_front`, `pop`, `clear_timeouted` | bounded, ordered, counted |
| `Connection` | descriptors, `opened_connections_`, `waiting_handlers_` | `send`, `write`, wakeup | a queued message is sent; at most `max_out_sockets_` sockets |
| `ThreadRunner` | `number_running_`, `start_semaphore_`, threads | `start`, `start_one`, `wait_for_completion` | all threads of a group run the job or none; waiting ends |
| `Semaphore` over `Condition` | `count_`, mutex, waiters | `acquire`, `try_acquire`, `timed_acquire`, `release` | an atomic count; no wakeup is lost |
| `ActiveObject`s | `active_state_`, `terminating_`, two mutexes, job, threads | activate, deactivate, wait | not active only when no thread works; an order to end is kept; waiting ends |
| `CompositeActiveObject` | `child_objects_`, `state_`, `cond_` | the same, on all; `add_child_object`, `clear_children` | children follow the state, stopped in reverse order; no caller sleeps for good; it is an active object itself |
| `Time`, `ExtendedTime` | seconds, microseconds; calendar fields | arithmetic, conversion, `format`, `set` | normal form; exact; the Gregorian calendar; what is printed is read back |
| Memory streams | buffer, put and end positions | write, seek, grow | the text is that of a file |
| `LoggerHolder`, stream loggers | logger, copy of its level; shared buffer | `log`, `log_level`, `logger` | levels agree; lines are whole |
| `ThreadBuffer` | pool of static buffers, two thread keys | `get_buffer`, end of a thread | a buffer is one thread's, and returns |
| `SubString`, `StringManip`, `AsciiStringManip` | pointer and length; tables of characters | searches, comparisons, conversions, copies | stays in its memory; one order; printing and reading agree |

Interactions: pollers call handlers; handlers answer with bits (`StateChange`)
that the poller applies to the holder; other threads reach a holder only through
its handler's list of links; the cleaner keeps a holder alive while a raw pointer
to it may be in some thread's events; active objects run `process_` in a loop on
threads that `ThreadRunner` starts, and are put
together by composites: a pool of its pollers, a poller of its workers, a context of
its pool; proxies lead from handlers to poller and pool.

Hard behaviour: re-arming a one-shot descriptor against a thread that is closing
it; the delegation counter; the cleaner's lock-free rounds; exceptions out of
handlers; half-closed connections; partial sends; failures in the middle of a
group of threads or of children; waits that overlap an activation; counts that are
read without a lock; addresses that are used again. `PROJECT.json` lists each hazard at its line.

## Modules

| Module | Models | Correspondence |
|---|---|---|
| `Poller` | `DescriptorHandlerPoller` with its threads, holders, kernel side and deactivation | A handler and its holder are one member of `Handlers`. `mask` is what epoll has armed, `ready` the conditions that hold; `batch[t]` the events thread `t` has from `epoll_wait`, `cur[t]`, `rearm_fd[t]`, `stop[t]` the locals of `handle_` and `process_`. `pc` has one label for each access that another thread can come between. `Read` and `Write` take any result a handler may return (`Reads`, `Writes`). `CleanerRelease` is the cleaner in one step. |
| `HandlerRegistry` | `handlers_` by address, `add()` of poller and pool, the end of `handle_` | A handler is its number; the allocator may give an address again as soon as nobody refers to the handler that had it. `EPOLL_CTL_ADD` may fail. |
| `PollerProxy` | `DescriptorHandlerPoller::Proxy` against the destructor | Readers hold the proxy's lock; the last reference runs the destructor. |
| `Cleaner` | `DescriptorHandlerCleaner`, one action per atomic access | `release_array_` and `unreleased_count_` as in the source; `called` records who has called `release` since a holder was pushed |
| `ServerConnection` | `HashConnectionDescriptorHandler` served by a poller thread | Responses are numbered, and so are their bytes, which tells repetition from loss. The socket has an input queue, room for output, and an error that is reported once. |
| `ClientConnection` | `LiteMQ::Connection`: the waiting handlers and the growth of the pool | One label per line of `send()` that another sender can come between; of the queue its length. `write()` may end in each of its ways: it takes messages off, finds none, or fails and has the handler closed (`error_()`). |
| `MessageQueue` | `LiteMQ::MessageQueue` | A message is its number; accesses to the count outside the lock are steps of their own. The popper goes on as `Connection`'s `write()` does (`LeaveOut`, `ReadNull`), or as a user of the queue who sends some and gives the rest back (`SendSome`, external: no caller in the repository gets so far). The timer is external too: `clear_timeouted()` has no caller. |
| `ThreadRunner` | `ThreadRunner` | The owner's calls step by step beside the threads; `start_one()` at any rest of the owner, also without a group. |
| `SemaphoreSpec` | what a semaphore promises | each call takes effect at one instant |
| `Semaphore` | `Semaphore` over a mutex and a condition variable | `Implements` is the refinement of `SemaphoreSpec`: a call is pending until its effect |
| `ActiveObjectSpec` | what an active object promises | state and work of one object |
| `ActiveObject` | `ActiveObjectCommonImpl` with the job of a delegate | both mutexes, and each access to the state that is made without `work_mutex_`; `Implements` refines `ActiveObjectSpec` |
| `CompositeActiveObject` | `CompositeActiveObject` over `SimpleActiveObject` | each call goes through its children one by one; children are those of `ActiveObjectSpec`; `Implements` shows that the composite is one too |
| `TimeArith` | the operators of `Time` | one `Time` under every operator, beside the exact number of microseconds |
| `ExtendedTime` | `gm_to_time`, `time_to_gm`, normalisation, `format()`, `set()` | the calendar runs day by day by the Gregorian rule; the code's formulas are compared with it |
| `SubString`, `StringManip` | `BasicSubString`; `Ascii` and `StringManip` | Texts are sequences of codes. The state machines write the texts, the operators are the code's loops as folds (`StringManip`) and least or greatest positions (`SubString`), and the properties compare them with plain definitions. |
| `MemoryStream` | output and input memory streams | beside a file under the same puts and seeks |
| `ThreadBuffer` | `ThreadBuffer` over two `ThreadKey`s | the first use in a thread and the destructor at its end |
| `LoggerHolder` | `LoggerHolder` over stream loggers | the level's copy, and the buffer under the logger's lock |
| `MCPoller`, `MCThreads`, `MCParts` | instances for TLC | `MCPoller`: the server's listener and connections, and a connection that senders wake. `MCThreads`: semaphore, runner and active object. `MCParts`: the components that need no other. In the last two a behaviour is one of a single part, chosen at the start. |
| `PollerProofs`, `ServerConnectionProofs`, `ClientProofs`, `ThreadsProofs`, `CompositeProofs`, `PartsProofs`, `TextProofs`, `TimeProofs` | theorems | `ClientProofs`: connection and queue. `ThreadsProofs`: semaphore, runner and active object. `PartsProofs`: cleaner, loggers, thread buffers, registry and proxy. `TextProofs`: substrings, streams and the texts of `StringManip`. `TimeProofs`: arithmetic and calendar. |

How the modules fit together: `Poller` models the release of the cleaner as one
step and `Cleaner` opens it up: what `Cleaner` shows to go wrong under overlap
comes on top of what `Poller` shows. `Poller` takes handlers for holders, and
`HandlerRegistry` opens the map up. `ServerConnection` fixes one thread, which
`HandlerExclusion` of `Poller` justifies. `ActiveObject` takes from `ThreadRunner`
that a start runs all threads or none and that a wait returns when none is left,
which that module's properties say; `ThreadRunner` takes from `SemaphoreSpec` an
atomic count, which `Semaphore` implements; `CompositeActiveObject` takes children
of `ActiveObjectSpec`, which `ActiveObject` and the composite itself implement.

External, modelled from its use: epoll (an armed descriptor is delivered as soon
as a condition of its mask holds, and the delivery disarms it), sockets and
peers, pthread mutexes, keys and condition variables with spurious wakeups, the
allocator.

## Runs

Passing:

| Run | Shows |
|---|---|
| `poller_server` | Server use, no re-arm from outside: each registered descriptor is armed or in exactly one thread's hands (`OneOwner`), armed for what its flags say, and no thread meets a destroyed or reset holder. The listener's `read()` or `write()`, which both accept, may throw; what that costs is exactly the listener and the rest of the batch, disarmed for good (`LostForGood`: a loss, stated so that a change of it is noticed). |
| `poller_wakeup` | With wakeups at any moment, what `handle_in_progress` protects holds: calls of a handler exclude each other, none comes after `stopped()`, which comes once (`CallsGuarded`), and no delegated event is forgotten. |
| `poller_live` | Work is served and deactivation ends every thread. |
| `connection` | Input cut anywhere, output taken in any portions, close and reset at any moment: every line is answered once, the vector for `sendmsg` describes the queue, the descriptor is armed for what is queued, and it is sent. |
| `composite` | Two callers on a composite of up to three children, of which one may fail to start and one to stop, children added at any time, synchronous or not: children follow the state (`ChildrenFollow`), start in order and stop in reverse order, also in the rollback (`StackOrder`), every call returns (`NobodyStuck`), and the composite implements `ActiveObjectSpec`. |
| `threads` | The semaphore of three threads is guarded, implements the abstract one and loses no wakeup (`WakeupsKept`); groups of up to three threads start all or none, with creation failing after the first, and nobody runs behind a gate that nobody opened, such as that of a `start_one()` at rest (`FailedStartRunsNothing`, `StartedThreadsRun`); three callers on an active object: it works only while active, the order to end is kept (`WorksWhileActive`), and it implements `ActiveObjectSpec`; whoever waits returns, for a group if its gate was opened (`WaitsEnd`). |
| `parts` | One property for each component that stands alone, below. |

The properties of `parts` are conjunctions; each conjunct has a change of the
code that breaks it.

| Property | Conjuncts |
|---|---|
| `ReadsAsNumber` | times are normal; every operator of `Time` gives the microseconds of arithmetic; order, difference, absolute value, printing and packing are those of the number |
| `CalendarRight` | fields and days agree with the calendar both ways; fields beyond their range are normalised; fields are ordered as times are |
| `SubStringRight` | substrings stay in memory; comparison is an order; comparison with C strings agrees, except of a substring with a proper beginning of it, and of equal texts under `operator<` with the C string on its left (below); all searches agree with their definition, texts being sought from positions within the length |
| `TextRight` | character tables are as written; caseless comparison is an order; integers and bytes are read back as printed; copies stay in their buffers and end with NUL |
| `TextKept` | trimming and flattening keep words, in either order; what a format prints is parsed to the same time |
| `StreamIsFile` | the stream's text is the file's; a fixed buffer is terminated at the position unless a seek was refused before (below), and at its end in any case; input comes in order |
| `BuffersKept` | no buffer has two users, or is lost, or returned twice |
| `MessagesAccounted` | a callback is called at most once, though timer and popper may both expire a message; messages stand in the order of their pushes, in the queue and in the popper's hands before it; each is in the queue, in hand, sent, called back, or one that `write()` let go (below); of those that are not expired fewer than `max_size_` were pushed |
| `PoolRight` | sockets that were ever opened stay below `max_out_sockets_`; the count is of what was ever opened, closed again or not, what failed, and what is under way; one sender wakes one handler |
| `HoldersAccounted`, `FreeIsFreed` | the cleaner's counter agrees with its entries, a holder is in one place, and as long as rounds do not overlap it is destroyed after all threads released it, and in the end |
| `RegistryRight` | epoll's pointers lead to holders that their own entries keep; every entry is accounted for; a handler is turned away only while an elder one at its address is being closed; pollers take turns |
| `NoneReachesGone` | no thread comes to a poller that is gone |
| `LogRight` | the copy of a level differs from the logger's only after overlapping changes; lines are whole |

Runs that find a property violated, each a disagreement of the code with what a
comment of it says (details in `PROJECT.json`, "findings"):

| Run | Property | What happens |
|---|---|---|
| `poller_freed_holder` | `BatchAlive` | After a wakeup, the release in the middle of a batch lets a holder be destroyed while an event for it waits in another thread. |
| `cleaner_early` | `FreedAfterAllReleased` | Overlapping rounds destroy a holder too early. |
| `runner_first_fails` | `FailedStartRunsNothing` | After a failure to create the first thread the gate stays open. |
| `connection_order` | `ResponsesInOrder` | A response cut by two sends repeats bytes. |
| `connection_half_closed` | `ClosedIsRemoved` | A peer that closes while responses are queued leaves a connection that is never removed. |

Seen while modelling, without a run of their own:

- Poller. After a wakeup, a thread that has left the handling loop may re-arm a
  holder that another thread has reset meanwhile (`Rearm` with phase `reset`, the
  fault `null_handler`), or one that has left the epoll set (`EPOLL_CTL_MOD` throws).
  `CLOSE_WRITE_HANDLE` clears `handle_read` in place of `handle_write`
  (`apply_state_modify_`): after an error of `read()` with responses queued,
  `write()` sends on the broken socket and SIGPIPE ends the process (`WriteKilled`).
  A poller that is activated again after a stop stops at once
  (`DescriptorHandlerPoller.cpp:274`). Overlapping resets of the cleaner take an entry
  below zero, and then no round finishes any more; `FreeIsFreed` excludes the overlap.
- Registry. A handler at a reused address is turned away silently, while `add()`
  answers true (`DescriptorHandlerPoller.cpp:639`); one whose registration fails
  keeps its entry for good (`:926`).
- Proxy. Between the last reference and `detach_()`, `shared_from_this()` throws out
  of a function that must not throw (`:461`). The pool's proxy is never detached;
  the server's `main` makes that good by waiting for the threads first.
- Semaphore. `release` signals without the mutex that the comment of
  `Conditional::signal` asks for. The passing run shows that nothing is lost by it.
- Thread runner. `start_one()` on a runner at rest, which nothing in it refuses
  (`ThreadRunner.cpp:227`), creates a thread at the closed gate. `start()` opens the gate,
  `start_one()` does not; `wait_for_completion()` and the destructor then wait for that
  thread for ever. `WaitReturns` speaks of groups whose gate was opened, and
  `NonePassesClosedGate` says what holds of the others.
- Active objects. `wait_object()` beside `activate_object()`, which
  `ActiveObject.hpp:181` leaves open, may take back an order to end or leave threads at
  work behind `not_active` (`WaitBesideActivate`). `clear_children()` leaves callers of
  `wait_object()` asleep (`CompositeActiveObject.hpp:308`). When a child fails to start and
  another fails to stop in the rollback, the composite counts as not active beside a
  child that is active, and can only be cleared by hand; the run has the same child
  fail both ways, which excludes it.
- Logger. Levels of holder and logger differ after overlapping changes
  (`Logger.cpp:76`).
- Time. From March 2100 the four-year rule leaves the Gregorian calendar
  (`Time.hpp:465`, `:473`). `%e` prints a space that parsing does not take; `%F`, `%T`,
  `%k` and `%z` are printed and not parsed.
- SubString. `compare` with a C string that is a proper prefix answers -1
  (`SubString.tpp:343`), where `SubString.hpp:337` says that the greater text is greater; `rfind` of a pointer ignores its count; `find("", pos)` answers
  0; `operator<` of a pointer and an equal substring is true. `find` of a text from a
  position beyond the length subtracts below zero and searches beyond the end
  (`SubString.tpp:505`, `:512`).
- StringManip. `append` of an integer answers one less than it wrote, so that
  `concat` drops the last digit; the least integer cannot be printed.
- Memory streams. Seeking the input by position answers the position without moving;
  `str()` and `size()` end at the current position. A refused seek of the output makes
  `seekp` set the failbit; later puts are dropped, and so is the NUL that the destructor
  puts (`OutputMemoryStream.tpp:250`), although a fixed buffer is "always zero terminated
  after the destruction of the stream" (`OutputMemoryStream.hpp:205`): the text then runs
  on into what was in the buffer before, up to the NUL at its end.
- MessageQueue. `message_count_` starts uninitialised (0 in the model) and `pop()`
  never lowers it; `pop()` of a queue with less than it asks for runs past the end
  (`MessageQueue.hpp:340`). `write()` of a connection, the one caller of `pop()`, keeps
  no promise of the queue: `need_to_send()` is inverted (`MessageQueue.hpp:143`), so it
  leaves out every message that has not expired, and when none is left to send it
  pops on and forgets them (`LeaveOut`); the first that has expired it reads through
  `partly_sent_message_`, which is null until something was sent (`Connection.cpp:268`,
  `ReadNull`). So `sendmsg` is never reached, nor what comes after it: giving back only
  what need not be sent (`:330`), and the conversion of a failed `sendmsg` to a huge
  unsigned count (`:295`), by which everything popped would count as sent.
- Client connection. The sources do not build as they are (a message buffer that
  cannot be copied, a constructor that does not match). `send()` ignores a
  refusal of the queue; a handler that was woken never waits again; with
  `max_out_sockets_ = 1` no socket opens; the count of opened sockets never falls, neither
  after a failure to open nor when `error_()` has a handler closed, which may stay in
  `waiting_handlers_` and take a later wakeup with it.

## Bounds

- Poller: two threads, the stop pipe, the listener and a connection. Every
  argument in `handle_` is between a thread in the loop and one other; a third
  handler only lengthens batches. One or two arrivals and one wakeup let a
  descriptor be re-armed, delivered and closed under a second thread's hands. The
  theorems below remove these bounds for the properties they name. The threads
  are symmetric in the safety runs; runs with liveness use no symmetry.
- Cleaner: three threads, so that two can overlap a third's reset; one holder is
  enough since the lists are sets that move as a whole. An entry stops falling at
  -2, because an entry below zero never returns to zero.
- ThreadRunner: three jobs and two starts, so that the state a first start leaves
  meets a second. `FirstMayFail` is false in the passing run, because the failure
  of the very first thread is the finding.
- Semaphore: three threads; the count stops at 2 by a guard on starting
  `release`, so that an excess of units over waiters is reached.
- ServerConnection: responses of 3 bytes, two per `sendmsg`, room for 4, reads of
  2 bytes, shrinking after 1, up to 5 bytes of input. 3 is the least size at which a
  response can be cut twice; `InOrderUnlessCutTwice` says that the order is right
  in every other case.
- ActiveObject: three callers, so that a wait, a deactivation and an activation
  meet; two threads; three activations. CompositeActiveObject: two callers, three
  children, of which `x` may fail, so that there is one before it and one after it;
  two activations.
- HandlerRegistry: two addresses, two pollers, two adders, four handlers, so that
  an address is used again in another poller and in the same one.
- PollerProxy: three users beside the owner.
- ClientConnection: three senders, a limit of three (two sockets), a failure.
  MessageQueue: two adders, a popper, a timer, at most three messages waiting.
- Time: 5 microseconds a second and 32-bit packing shrunk to 6, so that carries,
  borrows and both signs occur among few values; `TimeProofs` is for every
  `USEC_MAX`, date and time of day. The calendar runs over 1970 to 1974, from the end of 1999 over the
  leap day of 2000 and in December 2037, where 32 bits of seconds nearly end. Of texts, four
  formats are tried (`MCFormats`), which have `%Y %m %d %H %M %S %q %a %A %b %B %%` between them
  and none of `%e %F %h %k %s %T %z`.
- Texts: up to six characters over small alphabets, one for each use; integers of
  8 bits; buffers of up to 9 bytes. The folds treat each character as the one
  before, so that a longer text repeats a case.
- Streams: five characters over a buffer that starts at two and grows.
  ThreadBuffer: three threads, two static buffers and one of the heap, so that one
  thread runs out. LoggerHolder: two threads, two loggers, two levels.

Runs with `CHECK_DEADLOCK FALSE` are those where the bounds let everything stop:
the poller's threads exit, the starts are used up, the connection is removed, the
texts have their full length.

## Fairness

- `Poller`: each worker is an operating system thread and runs (weak fairness of
  its next step); `deactivate_object`, once begun, tells every worker.
- `Cleaner`: every thread calls `release` again and again, at the latest when the
  clean period of `epoll_wait` ends (`process_`).
- `ThreadRunner`: threads and the owner's calls run, and jobs end. The last is
  the callers' business: the owner waits after it has told jobs to end.
- `Semaphore`: threads run, and a mutex that is free again and again is not
  refused for ever (strong fairness of `Lock`). No fairness for timeouts,
  spurious wakeups or the start of calls.
- `ActiveObject`, `CompositeActiveObject`: a job that was told to end does; a caller
  inside a call is not refused a mutex for ever (strong fairness of its step). None
  for the start of calls. `NobodyStuck` and `WaitsEnd` assume of the callers only
  what they say in their left sides.
- `ServerConnection`: the peer goes on receiving everything it is sent, and the
  poller's thread runs. Nothing is assumed of input, close or reset.

`MCThreads` and `MCParts` state these assumptions again for the behaviours of each
part; a part that was not chosen does nothing.

## Proofs

Eight modules hold theorems, each from the assumptions that its component states on
its constants (`ConstantsAssumption`, `SemaphoreAssumption`, `ThreadsAssumption`,
`PartsAssumption`, `CalendarAssumption`, `CompositeAssumption` and the like), and for every value of them.
Conditions beyond these are hypotheses of the theorem, named below. Every safety
property of the passing runs has its theorem, but for `TextKept`, at the end of this
section.

`PollerProofs`, for any threads, handlers, handler results, listeners that throw out of
`read()` or `write()`,
arrivals and wakeups: `TypeCorrect` (in particular `handle_in_progress` is never
negative, which the assertions of `handle_` say), `Exclusion` (one thread in the
handling loop of a handler), `CallsRegistered` and `StopsOnce` (calls only before
`stopped()`, and that at most once), all four in `CallsAreGuarded`, and
`DelegationKept` (a delegated event is followed by a pass). Exclusion is not inductive:
a thread that enters finds the counter at zero, and what must be known is that a
thread in the loop keeps it above zero. `IndInv` adds `LoopCounted` (a thread in the
loop counts), `FinishedCounted` (the counter of a removed handler never returns to
zero, because the loop is left without the decrement), `CounterOwned` (a counter
above zero has a thread in the loop, a removed handler or an exception behind it),
`PhaseOfStep` (each label fixes the holder's phase) and `PassToCome` (a delegated
event shows in the counter or in a read to come).

Four more are for `MaxWakeups = 0`, the use the server makes of the poller:
`TokenHasOneOwner`, `ArmsAsWanted`, `NeverFails` and `LostStaysLost`. With wakeups they
are false, which `poller_freed_holder` shows. A one-shot descriptor is a token: it is
armed, or its one event is in the batch or the hands of one thread, or an exception
lost it. `TokenInv` says so (`HeldByOne`, `HeldApart`, `NeverNowhere`), that what is lost
stays disarmed (`LostDisarmed`), and what a thread's locals tell of its token
(`LocalsOfStep`): after a `handle_` that did not remove the handler the re-arm finds
flags that nobody else has written.

`ServerConnectionProofs`, for any size of responses, vector, blocks and socket buffer
and any input: `MessageStaysReady`, `EachLineAnswered`, `SentInOrder`, `ArmedWithOutput` and
`QueueSentBeforeRemoval`. The queue is a run of response numbers up to the last
answered (`QueueNumbers`), so that what the kernel has taken is a number of bytes that
the queue and `first_write_buf_pos_` determine (`DeliveredSoFar`), until a response is
cut twice; `FlowInv` relates the flags to the queue. What the pop of sent buffers
computes is shown by a least counterexample (`LeastNatural`).

`ClientProofs`. For any finite set of senders and any limit, `PoolIsRight`: the count of
sockets is raised before it is compared, so that it is never below what was opened or
is being opened, whatever a sender read long before; a handler that `error_()` closes
stays in it. For any adders and
bound, `MessagesAreAccounted`: a message is counted before it is in the list and taken off
the count only after it timed out, so that the count covers the messages that did not
(`CountCovers`), and what
the popper has in its hands was pushed before all that is queued (`InHandsFirst`).

`ThreadsProofs`.

- Semaphore, for any set of threads and any first count: `TypeCorrect`, `Guarded` (one
  thread at a time between lock and unlock), `WakeupsAreKept` and `Refinement`: `Spec`
  implements `SemaphoreSpec`. The step that takes, gives or gives up maps to the abstract
  step; locking, blocking, waking and signalling map to a stutter. `IndInv` adds
  `HolderInside` (the threads that hold the mutex are those whose label is inside)
  and `CallOfLabel` (a label tells which calls the thread may be in), which the mapping
  needs: a thread that takes a unit has a pending acquire.
- Active object, for any callers, threads and activations: `ObjectWorksWhileActive` and
  `ObjectImplements`, the refinement of `ActiveObjectSpec`, if `~WaitBesideActivate`.
  Otherwise a wait takes back the order of a later activation, which
  `ActiveObject.hpp:181` leaves open. `ObjectInv` says who owns which mutex, and that past the
  wait for completion none works.
- Runner, for any numbers of threads and starts: `NothingRunsAfterFailure` and
  `AllRunAfterStart`, if `~FirstMayFail`; without it they are false (`runner_first_fails`).
  `GroupInv`: one unit of the gate is with the owner or one thread, the threads that
  exist are the first of the group, none has the unit while `start()` creates them, and
  none is beyond a closed gate, whoever began the group.

`CompositeProofs`, for any callers, children and activations: `ChildrenFollowState`,
`ChildrenAreAStack` (both orders) and `CompositeIsActiveObject`, the refinement of
`ActiveObjectSpec`. `IInv` describes what the holder of the lock knows, for each of its
places: the children before or behind its position that are active, told to stop
or ended (`Activating`, `Stopping`, `Joining`, `StateOf`); for a caller of `wait_object()`, which
has no lock, that the object stays inactive and which children it need not wait for
any more (`WaiterInv`); and that while nobody holds the lock, or only a child is added,
children are as the state says (`AsState`). The mapping follows `AbstractState`: the first
child that starts is the activation, a rollback is a deactivation, the child that
is waited for last ends it. `Assumed` states two conditions. `WaitBeside = {}`: no
activation or clearing beside a wait, as above. And no child may fail to stop in the rollback
that another child caused: there `activate_object_` says not active beside a child
that works, against "any time all object that it own must be active or not active".

`PartsProofs`, for any threads, loggers, buffers, holders, pollers and handlers.

- `LoggingIsRight`: `LoggerInv` has the owner of each logger's lock and buffer, and that a
  change that overlaps no other agrees with the holder.
- `BuffersAreKept`: `KeysTell` (the two keys of a thread tell what it has and of which kind) and
  `OneHome` (each buffer is in the pool, with one thread, or free).
- `HoldersAreAccounted`: the counter is the number of entries of one plus the threads
  under way (`CountConsistent`), a holder is in one place (`Placed`), and what was free
  when a round began was released by all threads that have marked it since
  (`InRound`). `FreeIsFreed`, the liveness part, stays with TLC.
- `RegistryIsRight`, for any addresses, pollers, threads and number of handlers. What must
  be known besides is the age of handlers: `Younger`, no handler has the address of an
  elder one that somebody refers to. So an entry in the way of a new handler is of one
  that nobody refers to any more, which is one that is being closed. `MapExact` says that
  the entries are exactly of the handlers that are in the map (`InMap`), and `Turns` that
  the pollers before the position of the pool had one turn more than the rest.
- `GoneIsUnreachable`, for any threads: the pointer is cleared before the poller goes,
  under the lock that readers hold.

`TextProofs`, for any memories, any characters and sizes of streams, any alphabets of bytes and
any bound of the texts (`Alphabets`, `TextBound`, `TextAssumption`).

- `TextIsAFile`: `StreamInv` says which cells can be filled (`RoomInv`: all but the last
  of a fixed buffer), that the memory agrees with the file up to the greatest
  position left by a seek or the present one (`FilledInv`), and what a closed stream leaves
  (`ClosedInv`): the NUL at the position, but after a refused seek only that at the
  end of the buffer. The model doubles the heap at most ten times, which
  `PartsAssumption` asks to be enough for `TextLimit`; that the new size exceeds
  the old one is `RoomGrows`, by `LeastNatural`.
- `SubStringsAreRight`, for any memories of numbers that end with a zero, of any length. The
  state is a part of a memory and so is `other`; what the operators return is shown
  for every such pair. Two texts are compared by the first place at which they differ
  (`LeastNatural`), which the code's loops stop at, so that `compare` is antisymmetric
  and transitive, and zero just for equal texts; the C string ends at the first zero of its
  memory. A finder returns the least or the greatest position with what it seeks, or
  `npos` if there is none.
- `TextsAreRight`. That a fold over a text exists at all, and has the value of its last
  step, is shown by a least counterexample (`UpTo`, `FoldExists`), since induction over
  data is out of reach; after that each loop has an invariant over the characters it
  has passed. Sets of characters: what the scan has in its set and whether it is in a
  range (`TablesAreAsWritten`). Comparison: the first place where the words differ in
  lower case, as for substrings, with signed characters (`CaselessOrders`). Numbers: the
  value so far is the number of the digits so far as long as that is one of the type's,
  and the least number has one digit fewer to give (`ReadsNumber`, `ReadsText`), and what is
  written has the digits of the number (`WritesNumber`). Hexadecimal: the text has a closed
  form, character by character (`HexesAreReadBack`). Buffers: what `append` leaves is a
  buffer that begins with the concatenation, or is full and ends with a NUL
  (`HoldsFirst`, `FilledWith`, `Cut`). The texts grow to
  `TextBound`, whatever it is, over any sets of bytes; what stays fixed is the 8-bit number type
  and the buffers of one to nine characters.

`TimeProofs`, for any `USEC_MAX` and operands: `TimeIsExact` (normal form and the exact
result of every operator), `OrderIsExact` and `TimeReadsAsNumber` (order, difference,
printing and packing are those of the number of microseconds; `USEC_MAX` fits the 32 bits it
is packed in). Division is by `USEC_MAX`, a constant and not a number, so that each product
and remainder has a lemma of its own.

`TimeProofs` has the calendar as well: `CalendarIsRight`, for any first dates from 1970 on, stops
before 2100, times of day and days beyond the end of a month. `CalendarInv` is the
statement that the date which runs by the Gregorian rule has the number `DayOf`, a sum
over years, months and days; the formulas of `gm_to_time` and `time_to_gm` are compared
with that. Each number of a day is a cycle of four years, a year in the cycle, a month
and a day in one way only (`Days`, `InMonth`, `Before`), which makes the two conversions
inverse to each other and both increasing. The bound is the code's: its four-year rule is
wrong from March 2100 on.

Only model-checked:

- Liveness, since fairness and ENABLED are out of the prover's reach: `Served`,
  `ShutdownCompletes`, `ResponsesSent`, `NobodyStuck`, `WaitsEnd`, `FreeIsFreed`.
- `TextKept`: flattening is recursive over the rest of the text, and the words that it keeps
  are what the library's `SelectSeq` leaves, which the prover has no definition of; what a
  format prints and parses are folds over strings that the instance gives.
- The properties that runs find violated.

## Not modelled

- Programs and `Context`: `main()` and constructors; their parameters are the constants
  here. The accept loop of the listener: its results are inputs of `Poller`.
- Allocation failures, tracing and error texts; callbacks of active objects, which
  only report.
- Poller: an activation after a stop, and exceptions of `stopped()`. The descriptor
  and its bytes on the client side, since `write()` there has no defined behaviour to
  model.
- Time zones, the case of names of months and days, `GeneralTimer`; overflow of
  `time_t` and `size_t`.
- Formatters of loggers and the other holders of loggers, which pass text on; base64,
  MIME and CRC; `Optional` and exceptions, which keep no state.
- An exception out of a child's `wait_object()`; read-write and spin locks, which
  appear as critical sections of one step.

## Plan

1. Proofs: what `flatten()` keeps of a text, by least counterexamples as for the other
   loops of `StringManip`.
2. `Poller`: an activation after a stop.
3. The accept loop of the listener, and a pool whose pollers serve it.
