# A TLA+ model of clwServer

clwServer is a multi-threaded TCP server in the style of muduo: a main thread
accepts connections, a pool of IO threads, each with its own epoll loop, serves
them, and a logging library hands log lines to a background thread.  This
directory holds a model of its concurrency: TLA+ modules translated from the
source, TLC configurations that check them on small instances, and TLAPS proofs
of what holds for every value of the constants.

All source paths below are relative to `src/clwServer/`.

## 1. The system

| component | files | state | operations |
|---|---|---|---|
| EventLoop | net/EventLoop.{h,cc} | `looping_`, `quit_`, `isPendingFunctor_`, `pendingFunctors` (under `mutex_`), `ActiveChannels_`, an eventfd | `loop`, `quit`, `runInLoop`, `queueInLoop`, `wakeup`, `handleRead`, `doPendingFunctors`, add/mod/removeChannel |
| EventLoopThread, Thread | net/EventLoopThread.{h,cc}, base/Thread.{h,cc} | `loop_`, a mutex and a condition variable, the pthread | `startLoop`, `ThreadFunc`, destructor (quit and join) |
| EventLoopThreadPool | net/EventLoopThreadPool.{h,cc} | `loops_`, `next_` | `start`, `getNextLoop` |
| Epoll, Channel | net/Epoll.{h,cc}, net/Channel.{h,cc} | the epoll set, `ChannelMap`, `ActiveEvents`, the global `MAXEVENTS`; `events_`, `revents_` | `epoll_add`, `epoll_mod`, `epoll_del`, `epoll_wait`; `handleEvent` |
| Acceptor, Socket | net/Acceptor.{h,cc}, net/Socket.{h,cc} | the listening socket | `listen`, `handleRead`, `accept`, `bind` |
| TcpServer | net/TcpServer.{h,cc} | `ConnectionMap` | `start`, `newConnection`, `removeConnection`, destructor |
| TcpConnection | net/TcpConnection.{h,cc} | the fd, its channel, the references of `shared_ptr` | `connectEstablished`, `handleRead`, `handleClose`, `handleError`, `connectDestroyed` |
| application | server.cc | none | `onMessage` (upper-cases, sleeps, writes back) |
| AsyncLogging, CountDownLatch | base/AsyncLogging.{h,cc}, base/CountDownLatch.{h,cc} | two front buffers, a queue of full ones, `running_` | `append`, `threadFunc`, destructor |
| LogFile | base/LogFile.{h,cc} | counters of bytes, appends and time | `append`, `rollFile`, `flush` |
| LogStream, Logging | base/LogStream.{h,cc}, base/Logging.{h,cc} | a fixed buffer per statement, the cached second and its text per thread, the `struct tm` of libc | `operator<<`, `convert`, the Logger's constructor and destructor |
| http | http/* | - | unfinished, not in the makefile |

How they interact.  The main thread owns the base loop, the acceptor, the pool
and the server.  Each IO thread owns an EventLoop on its stack.  The main
thread hands a new connection to an IO loop by `runInLoop(connectEstablished)`,
which goes through the loop's queue and its eventfd.  From then on the IO
thread calls back: epoll to `Channel::handleEvent`, to
`TcpConnection::handleRead`, to the application or to
`TcpServer::removeConnection`, which changes the main thread's `ConnectionMap`
from the IO thread.  A connection lives as long as somebody holds a
`shared_ptr` to it; its destructor closes the descriptor, whose number the next
accept may reuse.

What is hard, and what makes each part correct:

* **EventLoop**: any thread may queue a functor at any moment while the loop
  goes to sleep, wakes up, empties its eventfd or swaps its vectors.  No wakeup
  may be lost; functors run once each and in order; functors that queue
  functors must not starve the descriptors; `quit` must end a running loop.
* **EventLoopThread**: the pointer to a loop on another thread's stack must be
  live whenever it is used; the destructor must end the thread and must not
  finish before it.
* **TcpServer and its connections**: object lifetime against events, functors
  and descriptor reuse; edge triggering (an edge missed is a client never
  served); read errors, resets, failing accepts.
* **AsyncLogging**: buffers change hands between threads that log and one that
  writes; lines must stay in order and be written once; under overload buffers
  are dropped and the spares must still be found; the destructor signals without
  the mutex.
* **LogFile**: rolling and flushing are decided by a clock that is read twice and
  goes on in between.
* **LogStream and Logging**: numbers are written before their length is known, so
  the room kept for them must be enough, terminating zero included; the digits
  of the smallest integer must be right; what is dropped must have had no room;
  the time of a line must be the one its statement read.

The hazards are listed line by line in `PROJECT.json`.

## 2. The modules

| module | models | extends / instantiates |
|---|---|---|
| `TaskQueue` | what a loop promises: a FIFO of functors, run one at a time | |
| `EventLoop` | net/EventLoop.cc with its eventfd and epoll's edges | refines `TaskQueue` |
| `EventLoopProofs` | proofs about `EventLoop` | `EventLoop`, TLAPS |
| `EventLoopThread` | net/EventLoopThread.cc, base/Thread.cc around one `EventLoop` | extends `EventLoop` |
| `EventLoopThreadProofs` | proofs about `EventLoopThread` | `EventLoopThread`, `EventLoopProofs` |
| `TcpServer` | start-up, accept, round robin, connection life cycle, epoll sets, the application callback | |
| `TcpServerProofs` | proofs about `TcpServer` | `TcpServer`, TLAPS |
| `LogQueue` | what the asynchronous log promises: lines saved once and in order, or a notice in their place | |
| `CountDownLatch` | base/CountDownLatch.cc | |
| `AsyncLogging` | base/AsyncLogging.cc, with base/condition.h and FixedBuffer as far as it uses them | extends `CountDownLatch`, refines `LogQueue` |
| `AsyncLoggingProofs` | proofs about the pointers of `AsyncLogging` and about `CountDownLatch` | `AsyncLogging`, TLAPS |
| `AsyncLoggingOrderProofs` | proofs about the lines of `AsyncLogging`: its invariant, the losses, the refinement | `AsyncLoggingProofs`, `SequenceLemmas` |
| `LogFile` | base/LogFile.cc | |
| `LogFileProofs` | proofs about `LogFile` | `LogFile`, TLAPS |
| `LogStream` | base/LogStream.{h,cc}: the fixed buffer, `convert`, the operators `<<` | |
| `Logging` | base/Logging.cc: log statements of several threads | extends `LogStream` |
| `LoggingProofs` | proofs about `Logging` and `LogStream` | `Logging`, `SequenceLemmas` |
| `SequenceLemmas` | induction over a set of numbers; concatenation, `FlattenSeq`, ranges, sums over the indices of a sequence | TLAPS and the library's theorems |
| `MCEventLoop`, `MCEventLoopThread`, `MCTcpServer`, `MCAsyncLogging`, `MCLogFile`, `MCLogging` | instances for TLC | |

Definitions whose name starts with `X_` are faulty variants of the operator
that follows them.  No specification uses them; they show, one for each
property, that the property would notice a plausible mistake in the code.

### EventLoop

`pc` is the position of the loop thread in `loop()`: `start` (constructed),
`reset` (between `looping_ = true` and `quit_ = false`: a `quit()` that comes here is
erased like one that comes before), `test` (`while (!quit_)`), `wait` (in `epoll_wait`), `dispatch` (going through
`ActiveChannels_`), `callback` (inside a channel's callback), `run` and
`functor` (in `doPendingFunctors`, between functors and inside one), `stopped`.
The critical sections under `mutex_` are one step each.  What is not atomic in
the code is not atomic here: the push of `queueInLoop` and the write to the
eventfd are two steps of the caller, with the caller in `waking` in between; so
are `quit_ = true` and its wakeup.  The eventfd is a flag (its counter is zero
or not); `ready` is epoll's list of edges, and every write to the eventfd is a
new edge, because every registration adds `EPOLLET`.  `epoll_wait` reports what
is on the list and readable, and consumes the edges.  It fails only with a
signal while there is nothing to report, as the system call does.

User code, in callbacks and functors, may call `queueInLoop`, `runInLoop` (which
nests: `callStack`) and `quit` any number of times.  A functor object may be
queued again once nobody holds it, so behaviours are infinite and no bound on
the number of steps is needed.

### EventLoopThread

`owner` is the position of the thread that starts and destroys the object, and
`thread` that of the new one.  `pthread_create` may fail, the condition
variable may wake up spuriously, `loop_` is read without the lock where the
code does so.  In the repository nobody but the destructor calls `quit`, and
the model allows no other call; the loop itself is the whole module `EventLoop`
with the owner as its only caller.  After `EndScope` the EventLoop object is
gone: a wakeup between the two steps of `quit()` (`QuitLoop`, `QuitWakesUp`) may then
come too late and uses a destroyed object.  In the model that step still sets the
flag, which nobody reads any more; what the program does is undefined.

### TcpServer

The main thread first constructs the acceptor, for a port or for an address,
listens, starts the loops of the pool one by one and enters its own loop (`base`:
`construct`, `listen`, `pool`, `wait`).  `bind` and `listen` may fail, which the code
logs and ignores; the `bind` that takes an address never calls the system call,
so the socket ends up on a port of the kernel's choice.  `address` says where the
socket is; a client finds it only at the port the server was given, and may
connect from `listen` on, long before anybody accepts.

One object per client, and a few objects (`Failed`) for accepts that fail.  The
references that keep an object alive are listed in `Held`: the `ConnectionMap`,
the local variable of `newConnection`, the queued functors, and the
`shared_from_this()` of the callbacks.  An object outside `Held` is destroyed,
its descriptor closed and free for the next accept, which takes the lowest free
one.  An accept may fail at any time, not only for want of descriptors, and its
client stays in the backlog.  `Acceptor::handleRead` distinguishes `EAGAIN` and
`EINTR` from other errors, but only after `inet_ntop`, which was given room for a
single character and has overwritten `errno`; so every failing accept ends in the callback with
descriptor -1.  Sockets keep what the code can tell apart: unread messages, end of file,
reset, pending error.  `read`, `write`, `getsockopt` and the readiness that epoll
reports follow Linux: a reset leaves received data readable and an error
pending, the first read or write reports and clears the error, the next read
returns 0 and the next write raises SIGPIPE.  `EPOLLHUP` never comes without
`EPOLLIN` on these sockets, so the first branch of `Channel::handleEvent` and its
close callback are not reachable and not modelled.

A loop's pass is `wait`, `dispatch`, (`reading`, `message`, `remove`, `destroy` in
the handler of one connection), `functors`.  How a functor reaches a sleeping
loop is not repeated here: a loop with a queued functor wakes up, which is what
`EventLoop` establishes.  A process that follows the null pointer left in a
destroyed connection is dead (`process`); so is one that gets SIGPIPE.  If the
freed memory is reused first, the program may do something else instead; the
model takes the usual outcome.  So it is with the constructor of TcpConnection, which
has `inet_ntop` write through a pointer nobody has initialised (net/TcpConnection.cc:22;
the size is that of the pointer, so only an address of at most seven
characters is written) and logs what it points to: `ConstructConnection` may kill the
process, whatever the descriptor.  If it does not, the pointer is taken to
stay readable for the later logs of the same object; a write that hits other
memory of the process is not followed further.  A functor's reference is dropped when it has
run, a little earlier than the end of the vector; nothing runs in between that
could tell.

### AsyncLogging

`back` is the position of the background thread in `threadFunc()` (`lock`:
before the mutex; `check`: holding it, about to wait; `waiting`, `woken`: in
`timedwait`; `swapped`, `write`: writing without the lock), `main` that of the
thread that calls `start()` and the destructor.  A critical section is one step,
except that the test of `buffers_` and the wait are two, because the destructor
signals without the mutex.  A `unique_ptr` is `NULL` or the sequence of lines in
the buffer it owns; ownership by a single pointer is what the C++ type gives, so
what is checked is that no pointer followed is empty.  A line takes one unit of
a buffer's `Size`; lines longer than a large buffer cannot come out of a Logger,
whose own buffer is smaller.  The environment logs only while the object is not
being destroyed, and destroys it only after `start()`.  The output is what was given
to `LogFile::append` and how much of it an explicit flush has covered.

### LogFile

Every method holds `mutex_`, so one caller is enough; the clock is the other
actor.  `append()` is one step unless it rolls: then the clock may go on before
`rollFile()` reads it again for the name and `startTime_`.  `flushed` counts the
lines that a flush or the closing of a file has covered; stdio may have written
more.  The clock does not run backwards and the disk does not fail.  The numbers
in `kRollPerSeconds` are constants, and `RollUnit` is the expression that the
preprocessor makes of it.

### LogStream and Logging

A stream is a record: the pieces it kept, each with the digits it was converted to,
`length()`, the end of the bytes written last (`end`, which counts the terminating
zeros that `length` does not), and the set of items that found no room.  A text is
its length, a `size_t`, which `FixedBuffer::append` casts to int for its test and not
for its copy: `AsInt` is that cast, and `IntMax` the largest int, so that a text longer than
`IntMax` may pass the test and run past the buffer.  The buffer is on the stack
of its thread and the copy of two gigabytes or more, so that the process is dead
then (`Crashed`).  `Convert` is `convert` digit by digit, with the truncating `/` and `%`
of C++ (`Quotient`, `Remainder`) and the table indexed from its middle; TLC's
integers are those of a 32-bit int, and the wider types differ in their width
only.  The length of a double's `%.12g` is any up to `kMaxNumericSize - 1`, which is
an assumption on the constants; for integers TLC checks it (`IntAssumption`).  An
`operator<<(long double)` passes its argument to a format for double, which is
undefined; the model takes it to print some number.

A statement of a thread is `idle`, then `localtime`, `filling`, `strftime` if the
second is not the cached one, then `header`, `items`, `output`.  `::localtime` fills the
one `struct tm` of the process under a lock of libc, but field by field as seen by
`strftime`, which reads it without one: while a thread is `filling`, `tm` is `Garbled`
unless it already held that second.  A second stands for its text.

## 3. What is checked

| run | shows |
|---|---|
| `event_loop` | two callers, two functors, one descriptor: types, `NoLostWakeup`, its inductive strengthening, refinement of `TaskQueue`; a queued functor runs unless the loop is told to quit, a `quit` that `loop()` does not erase ends it, descriptors are not starved |
| `loop_thread` | the pointer handed out is live; the object outlives its thread; `startLoop` returns once the thread exists; a `quit` that comes when `loop()` has set `quit_` to false is followed by the join |
| `tcp_server_safety` | two clients, two loops, two descriptors, two accepts that fail for any reason, a constructor that may kill the process, from start-up on: `DispatchSafe`, `WatchedIsOwned`, `RoundRobin`, `EpollConfined` |
| `tcp_server_liveness` | two clients with two messages each on one loop, which may connect while the pool is being started, no accept failing: `BacklogAccepted`, `Served`, `ClosedIsRemoved` |
| `async_logging` | two threads of three lines each, buffers of two lines, three buffers already an overload: `BuffersSuffice`, `LatchSafe`, `LossIsReported`, the invariant `LinesInv` of the proofs (which has their other one, `Inductive`, in it), refinement of `LogQueue`; `start()` and the destructor return, a full buffer is taken without a timeout, every line reaches the disk or a notice |
| `log_file` | four lines over several units of the clock: `FilesInOrder`, `OneFilePerUnit`, `UnflushedIsRecent` |
| `logging` | one thread, a buffer of 104 bytes, up to three items after the header, texts that fit, that are one byte too long, or that leave 1, 31 or 32 bytes, or whose length the cast to int makes negative or small, and the integers around zero, ten and the ends of their range: `NeverOverruns`, `NumbersReadBack`, `DroppedForWantOfRoom`, `TimeIsItsOwn` |

Bounds.  Two callers are the first number at which a wakeup of one can be
mistaken for that of another; two functors allow one to run while the other is
in the batch or in the queue (three were checked as well, to no other effect).
Two clients and two descriptors let a descriptor be reused while the other is in
use and let accept fail; two messages are needed for the second to be left
behind by a handler that stops early; two loops are needed to confuse loops.
`MaxSends` also keeps a client from holding its loop in `handleRead` for ever:
without it the other clients of the loop would starve, and so they do in the
code.  Six lines in buffers of two fill three buffers between two swaps, which
is one more than `DropAbove`, and leave lines for a further pass.  A buffer of
104 bytes is just large enough for a header and three items to run into its end
in every way: by a text that is too long by a byte or more, by a number on either
side of `kMaxNumericSize`, by the newline; the proofs cover every other size.  An
int of at most 127 there stands for one of at most 2^31 - 1: lengths 130 and 300
are cast to -126 and 44, one below zero and one that fits an empty buffer.  The
check of deadlock is off in that run because the process may really be dead.  Three
seconds of the clock let a cached second
be used, replaced and used again.  In `log_file`
a unit is four seconds, more than twice the flush interval, and the clock starts
at any phase of the first.

Fairness.  Threads that can run do run; user code returns, though it may call
into the loop any number of times (strong fairness of the returns, one per
functor).  Nothing is assumed of clients, of new input, of signals, of spurious
wakeups, or of the owner's decision to start, use or destroy a loop.  `WF` on a
whole loop thread of `TcpServer` is enough because each pass of the thread is
finite.

### Where the code does not do what its comments say

| run | what happens |
|---|---|
| `loop_thread_lost_quit` | a destructor that runs before the new thread has got to the second line of `loop()`, `quit_ = false`, loses its `quit`; the join never returns |
| `tcp_server_use_after_free` | after `read` returns 0 `handleRead` continues with a destroyed connection |
| `tcp_server_reset_leaks` | a reset reported by epoll is logged and nothing else; the connection and its descriptor stay |
| `log_file_rolls_by_minute` | `kRollPerSeconds` has no parentheses: the file rolls every minute, not every day |
| `logging_two_threads` | `::localtime` shares one `struct tm`: of two threads that log in two seconds one may read the other's time, and keeps its text for the rest of its second |

server.cc destroys an `EventLoopThread` only if its main loop ended, which nobody
makes it do; the `loop_thread` findings are about the class and its comments.  It does not
set up AsyncLogging either; the modules of the asynchronous log are about the
library.  Every thread of server.cc logs through `Logging`.

Other steps of the models with an outcome that nobody wants, which no run is
about and which are listed as hazards instead: `pthread_create` fails and `startLoop` or `start` waits for
ever; functors queued after the last swap are destroyed uncalled; with
`numThread = 0` the main thread stays in a blocking `accept` (`Served` fails with
`NumThreads = 0`); an accept that fails, for whatever reason, makes a connection of
descriptor -1, which nothing ever removes, and is tried again at once;
the constructor of a connection writes and reads through an uninitialised pointer;
a text of 2^31 bytes or more may be copied past the end of its buffer; a `quit()` from
another thread may find its EventLoop destroyed when it comes to the wakeup;
lines that the background thread has not taken when the destructor clears
`running_` are never written; a server given an address listens elsewhere.

## 4. What is proved

`EventLoopProofs`, for any sets of threads, descriptors and functors, assuming
only that the loop thread is not one of the callers and the eventfd not one of
the other descriptors:

* `InductiveInvariant`: `Spec => []Inductive`.  `NoLostWakeup` alone is not
  inductive, since it speaks only of a loop that already sleeps.  The
  strengthening says what holds on the way there: a functor in the queue always
  has a wakeup coming (an unread eventfd with its edge, or a thread about to
  write), except between the return of `epoll_wait` and the swap, where the swap
  itself will pick it up.  That exception is why emptying the eventfd before the
  swap is right and emptying it after would be wrong.
* `TypeCorrect`, `NoWakeupLost`: its consequences.
* `Refinement`: `Spec => ImplementsTaskQueue`, the queue being
  `tempFunctors \o pendingFunctors`.  Steps map to steps or stutters; the two
  sequence lemmas `ConcatAppend` and `HeadTailConcat` carry the argument.

`EventLoopThreadProofs`:

* `OwnedLoop`: a loop inside an `EventLoopThread` is an `EventLoop`, so the above
  holds of it.
* `HandleLive`, `OutlivesThread`: from the invariant `ThreadInv`, whose core is
  that only the destructor sets `quit_` and only `quit_` ends the loop.
  `ThreadTyped`: its types.

`TcpServerProofs`, for any number of IO threads (none included), any clients,
descriptors and failing accepts:

* `Invariance`: `Spec => []Inv`.  `DispatchSafe` is far from inductive: that a channel
  found under a descriptor is the right one depends on the descriptor not having
  been closed and reused, hence on who holds a `shared_ptr`.  `Inv` says it in named
  parts: what exists has a loop and a descriptor (`CreatedInv`), and what does not
  is nowhere; a socket counts its messages (`InboxInv`); the local pointer of
  `newConnection` (`ConnInv`), the entries of `ConnectionMap` (`MapInv`), the connection a
  loop is handling (`CurInv`) and the queued functors (`QueuesInv`, `QueuedInv`) each say
  how far along its life a connection is; live objects have different descriptors
  (`FdsInv`); what is watched is in the map under its own descriptor unless its loop
  is taking it down (`WatchedInv`); what a loop is about to dispatch is watched by it
  (`ActiveInv`).  The lemmas on `Held` say which steps may make an object die.
* `DispatchIsSafe`, `WatchedAreOwned`, `EpollIsConfined`, `TypeCorrect`: its consequences.
* `RobinIsFair`: the counts of the loops before `next_` are one ahead of the others,
  or all are equal (`RobinInv`), with the library's theorems on cardinality.

`AsyncLoggingProofs`, for any finite set of threads, number of lines, size of a
buffer above one and overload limit above one:

* `LatchIsSafe`: a latch of any count and with any waiters.
* `InductiveInvariant`, and from it `BuffersAlwaysSuffice` and `TypeCorrect`.
  That `append()` never finds `currentBuffer_` empty depends on the spares of the
  background thread, and that these can be refilled depends on `nextBuffer_` being
  empty only while `buffers_` is not: whenever two spares are handed out, two
  buffers come back.  `Placed` adds where `written` and `start()` stand.

`AsyncLoggingOrderProofs`, from the same assumptions:

* `LinesInvariant`: `Spec => []LinesInv`.  Neither the refinement nor the count of the
  losses follows from `Inductive`, which knows the buffers and not what is in them.  A
  spare must be empty (`SparesAreEmpty`), or its old lines are written twice.  A
  buffer must hold a line and no more than fits (`BuffersAreFilled`), or a notice of
  n buffers says nothing of the number of lines lost, and dropping empty buffers
  would not be a `GiveUp` of the queue; the exception, a current buffer that is empty
  when nothing else is queued, is why the swap after a timeout is harmless: a single
  buffer is never dropped.  A line must not be in two places, and none may
  be ahead of its thread (`LinesAreInPlace`), or the loss of a line could be hidden by
  another copy of it.
* Each step of the program is one of four for the lines: it leaves them (`Stays`),
  adds one at the end (`Logs`), moves some from the front to the file (`Saves`), or
  cuts a stretch out and leaves a notice (`GivesUp`).  Both theorems below follow
  from that.
* `LogIsQueue`: `Spec => ImplementsLogQueue`, the queue being `Unsaved`: what is left of
  `buffersToWrite`, then `buffers_`, then `currentBuffer_`.
* `EveryLossIsReported`: `Spec => []LossIsReported`, by counting: the lines
  that are nowhere any more grow by exactly those in the dropped buffers.

That there are finitely many threads is a fact of every program; it is assumed because
the losses are counted.  That the author of the notices is not one of the threads
that log is how the model tells a notice from a line; the code
writes it to the file directly and not through `append()`.

`LogFileProofs`, for any units of the clock and any flush interval:

* `InductiveInvariant`: the open file is the youngest, `startTime_` is the unit of
  its name, unflushed lines are no older than `lastFlush_`, and a file about to be
  rolled belongs to an older unit than the clock (which stays true as the clock
  goes on: `RollUnitIsInjective`, `UnitGrows`).
* `AlwaysInOrder`, `NeverTwoFilesPerUnit`, `AppendBoundsUnflushed`, `LogFileTyped`: its
  consequences.

`LoggingProofs`, for buffers and items of any size, an `IntMax` of any value that is not
below the size of the buffer, and names in the header that are no longer than `IntMax`,
assuming that a number fits into `kMaxNumericSize - 1` characters:

* `StreamsAreFine`, and from it `BufferIsSafe` and `OnlyFullStreamsDrop`.  The invariant
  of a stream is about each operator in turn (`KeepIsFine`, `DropIsFine`,
  `InsertIsFine`): what found no room never finds any later, because a stream only
  grows.  A stream may be overrun, but only one that kept a text longer than an int
  can tell (`TooLong`): up to `IntMax` the cast of a length is the length
  (`AsIntIs`), and the test of `append` is what it seems.  `TypeCorrect`: the types.
* `ShortTextsNeverOverrun`: hence, if every text of the program is at most `IntMax` long,
  no stream is ever overrun.  Nothing in the code checks that assumption.
* `ConvertReadsBack`: for every integer, of whatever width, the characters that `convert`
  makes of it read as that integer, sign included.  The induction is over the
  absolute value: a truncating division brings it closer to zero on either side, so
  that the step never negates and the smallest integer needs no case of its own.
* `NumbersAlwaysReadBack`: hence every number in a stream does, since the pieces of a
  stream are exactly what the operators made of their arguments (`PiecesInv`).
* `LoneThreadTellsItsTime`: with a single thread `TimeIsItsOwn` holds; the run
  `logging_two_threads` shows that the restriction is needed.

`SequenceLemmas` carries the inductions.  The induction theorems of the library take a
predicate as a parameter, which the provers cannot instantiate; `SetInduction` says the
same of a set of numbers, and follows from the least element of what is missing
from it (`LeastElement`, from the well-foundedness of `<` on the naturals).  Recursive
functions (`LeastFirst`, `Number`, and those inside `FlattenSeq` and `FoldSeq`) are
`CHOOSE` expressions to the provers: `LeastFirstIs`, `NumberIs`, `FlattenIs` and
`SumsUnfold` first show that a function with the given equations exists, and only
then unfold it.  A fold over a sequence picks its indices in any order;
`SumsRemove` shows that a sum does not depend on it.

Every invariant that the passing runs check, and both refinements, are theorems
above.  Model-checked only, because fairness and ENABLED are out of the prover's
reach: `QueuedFunctorRuns`, `QuitTakesEffect`, `ChannelsNotStarved`; `StartLoopReturns`,
`QuitWhileLoopingJoins`; `BacklogAccepted`, `Served`, `ClosedIsRemoved`; `StartReturns`,
`FullBufferIsTaken`, `LineReachesDisk`, `DestructorReturns`.  What the runs that end in a
violation show is a counterexample each, and nothing to prove.  That the digits of an
int fit into `kMaxNumericSize - 1` characters stays an assumption that TLC evaluates: it
is about the widest type, which is a constant.

## 5. What could follow

* The destructors of `TcpServer`, `Acceptor` and the pool, on top of
  `EventLoopThread`, once the program has a way to end its main loop.
* The output side of `onMessage`, with a socket buffer that fills up, once the code
  looks at the result of `write`.
* `AsyncLogging` on top of `LogFile`, with a disk that fails, once the code has a path
  for it.
* The event arrays of two Epolls that share the global `MAXEVENTS`.

## 6. What is not modelled

* base/Mutex.h, base/condition.h: wrappers of pthread; they appear as critical
  sections and waits where they are used.
* `~TcpServer`, `~Acceptor`, `~EventLoopThreadPool`: reached only when the main loop
  ends, and no code calls its `quit()`.
* `epoll_mod`, `modChannel`, `Channel`'s write callback, `TcpConnection::handleWrite`,
  `Socket::connect`, `AsyncLogging::stop`, `LogStream::append` (`Logging.cc` uses the
  operators): never called, or never defined.
* `setsockopt`: the options change nothing that the program's own state depends on.
* What a write through the uninitialised `peerIp_` of a connection does to other
  memory, beyond the death of the process.
* The growth of `ActiveEvents`: `epoll_wait` of the model reports any number of events;
  1024 at once are needed for the arrays to matter, and what two Epolls then do
  to each other's bounds is undefined behaviour.
* The data race on `ConnectionMap`: each access is one step of the model.
* Failing disks and short writes; the wording of log lines, the layout of times.
* http/: unfinished and not built; setters of a request that nothing parses into.
* client.cc: a blocking test client; clients are the environment of `TcpServer`.
