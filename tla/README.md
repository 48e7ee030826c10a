# Linux_OS: a verification project

`src/` is a collection of C++ systems programs. Its largest piece is `muduo/`, a
one-loop-per-thread TCP server library with an echo and an HTTP server on top; beside it
are two thread-caching memory allocators, three object pools, bounded queues, thread
pools, a process pool, and many small demonstrations of system calls. This directory
holds TLA+ modules for the network library, the HTTP server, the allocators, the queues
and the pools, the TLC configurations that check them, and TLAPS proofs of their main
invariants.

    tlc -workers 2 -config TimerWheel.cfg MCTimerWheel.tla     # any run below
    tlapm TimerWheelProofs.tla                                 # any *Proofs module

## 1. Inventory

All line numbers are those of `src/muduo/server.hpp` unless another file is named.

### The network library (`src/muduo`)

| part | state | operations | interacts with |
|---|---|---|---|
| `Buffer` (53-240) | vector of chars, `_read_idx`, `_write_idx` | write, read, pop, line reading, swap, clear; grows or moves its contents | filled and drained by `Connection` and the message callback |
| `TimerTask`, `TimerWheel` (665-778) | 60 slots of lists of `shared_ptr<TimerTask>`, the hand, `_timers_record` of `weak_ptr`s | set, refresh, remove, tick; a task runs in its destructor | ticked by the loop's timerfd; tasks release connections |
| `EventLoop` (782-994) | `_pending` under a mutex, eventfd, timerfd, `_active_channel` | `RunInLoop`, `QueueInLoop`, `Loop` = poll, handlers, pending tasks | every other thread hands tasks over |
| `Channel`, `Poll` (443-660, 996-1027) | events asked for, events reported, `_care_fd` | enable, disable, remove, `HandleEvents` | epoll; raw pointers to channels |
| `Connection` (1133-1453) | status, two buffers, channel, socket, timer id | handlers of read, write, close, any event; in-loop tasks established, send, shut down, release, inactivity timer | its own loop, and the server's table through `_server_close_cb` |
| `Acceptor`, `LoopThreadPool`, `TcpServer` (1457-1507, 1550-1697) | `_conns`, round-robin index, id counters | accept, choose a loop, insert, remove | main loop and sub loops |
| `LoopThread` (1510-1546) | loop pointer, mutex, condition variable | start a thread, wait for its loop | `LoopThreadPool` |
| `EchoServer` | none | `OnMessage` | run inside `HandleRead`, and again inside `ShutDownInLoop` |
| `HttpServer`, `HttpContext`, `HttpRequest`, `HttpResponse` (`http/httpserver.hpp`) | per connection a context: status, response code, the request so far; route tables, `_base_dir` | `OnMessage`: request line, headers, body, route, answer, keep alive or shut down | as `EchoServer`; the file system |

*Hard behaviour.* Threads hand tasks over while the loop polls, drains its eventfd
and swaps the queue. The lifetime of a connection depends on `shared_ptr`s held
by the server's table (another thread's), by queued tasks and by handlers, while
epoll and `_active_channel` hold raw pointers. Expiry of a timer is the
destruction of the last `shared_ptr` in a wheel, and a destructor calls back into
the connection and the wheel. Peers close, reset, and read slowly at any point. A
request arrives in pieces, several in one; the parser's state outlives each call of
`OnMessage`, and `OnMessage` calls itself through `ShutDown`. A thread starts before
the members it uses are constructed.

*What makes it correct.* A task handed over is run, once, in order. A timer fires
once, when its last refresh says. The buffer is a queue of bytes whatever it moves
or grows. EPOLLOUT is asked for while there is output. A connection is released
once, leaves the server's table, and is freed only when nothing refers to it. A
client cannot end the process. Pending output is sent before a shut-down. The answers
are those to the requests in the client's text, however it was cut into reads; a file
is served from below the base directory only.

### The allocators (`src/ConcurrentMemoryPool`, `src/Pool`, `src/Fixed_Memory_Pool`)

| part | state | operations | interacts with |
|---|---|---|---|
| `SizeClass` (ConcurrentMemoryPool/Common.h 157-276, Pool/Common.h 80-174) | none | round a request up, index of its free list, how many blocks and pages are moved at once | every part below |
| `ThreadCache` | a free list per class with `_max_size`, thread-local | allocate, free, fetch, return when too long | central cache |
| `CentralCache` | per class a list of spans and a mutex | hand out a range of blocks, carve a new span, return blocks | page cache, with its list unlocked |
| `PageCache` | lists of spans by length, the page map, one mutex | cut, merge, take memory from the system; look up a page without the mutex | the system |
| `ObjectPool` (three of them) | the rest of a chunk, a free list in the objects | `New`, `Delete` | holds the allocators' own objects; the system |

*Hard behaviour.* Blocks are freed by other threads than allocated them; the central cache
drops a list's lock to call the page cache, on both paths; `_use_count`, `_is_used` and
the page map are what a merge and a free decide by, and are written under different locks.
An object pool compares, cuts and asks for sizes that differ, and sets its state before it
knows that the system gave memory.
*What makes it correct.* No block is handed out twice and none overlaps another; spans
tile the memory the system gave; a span in use is never merged; a block goes back to the
list and the span it came from.

### The queues and pools

| part | state | operations | correct when |
|---|---|---|---|
| `BlockQueue` (`Test_11_27_Block_CP`, and `os/thread/BlockingQueue.h`) | queue, mutex, two condition variables | `Push`, `Pop` | FIFO, bounded, nobody sleeps beside an item or a room |
| `CircularQueue` (`Test_11_28_.../semph`) | ring, two suffixes, two semaphores, two mutexes | `Push`, `Pop` | the same; a producer and a consumer are never in one slot |
| `ThreadPool` (`Test_11_29_pool_log`, `os/thread`, `Test_11_28_.../ThreadPool`) | task queue, mutex, condition variable, count of sleepers; a lazy single instance | `GetSingleInstance`, `Start`, `Enqueue`, `HandlerTask`, `Stop` | an accepted task is run once, before `Stop` returns, and `Stop` returns |
| `ProcessPool` (`Test_11_14_proc_pool`) | a pipe per child, the descriptors each process inherited | create, hand out in turn, close and wait | every task number is executed once; closing the pipes ends every child |

*Hard behaviour.* Signals that wake one of several, wake-ups without a signal, counts of
sleepers that include threads already awake, a pointer published before the object is
initialised, write ends of pipes that later children inherit.

### The other programs

| part | what it is | correct when |
|---|---|---|
| `Test_11_17_IPC_*`, `Test_11_9_file_redir/mystdio` | named pipe, shared memory, a buffered `FILE` | end of file ends the reader; a flush writes every byte once |
| shells, signals, processes, strings, `shared_ptr`, singletons, progress bars | demonstrations of one call or one class each | - |
| `C++笔记`, `Linux系统笔记`, `cmake-build-*`, `build` | notes, generated files | - |

## 2. Modules

| module | role |
|---|---|
| `Timers` | what the connections expect of timers: a timer per id, no wheel |
| `TimerWheel` | the wheel, its slots, records and task objects; implements `Timers` |
| `ByteQueue` | a queue of bytes and what a reader got |
| `Buffer` | the vector with two indices; implements `ByteQueue` |
| `Mailbox` | tasks are queued and run once each, in order |
| `EventLoop` | threads, mutex-protected queue, eventfd, timerfd, one loop; implements `Mailbox` |
| `LoopThread` | the main thread and the threads that make its sub loops |
| `Reactor` | loops, connections, channels, epoll, acceptor and server together, with their clients |
| `HttpRoutes` | who answers a request, as functions of the request |
| `HttpExchange` | what a client sees: a text, cut into requests and refusals by the text alone |
| `Http` | one connection of HttpServer: buffer, context, nested calls of `OnMessage`; implements `HttpExchange` |
| `Heap` | what a caller of malloc and free expects |
| `MemoryPool` | threads, caches, central cache and page cache of either allocator; implements `Heap` |
| `ObjectPool` | the three object pools; implements `Heap` |
| `SizeClass` | rounding, indices and batch sizes of both allocators, for every request size |
| `HandOff` | what a queue or pool promises: each task taken by one worker, done once, in its lane's order, and an end when nothing is left |
| `BlockQueue`, `CircularQueue`, `ThreadPool`, `ProcessPool` | the queues and pools; each implements `HandOff` |
| `TimerWheelProofs`, `BufferProofs`, `ReactorProofs`, `SizeClassProofs`, `HttpProofs` | theorems about these components |
| `MemoryPoolProofs` | the invariant of the two allocators, and that they implement `Heap` |
| `ObjectPoolProofs` | theorems about the object pools, and that both kinds implement `Heap`, as `MCMemory` puts them together |
| `HandOffProofs` | theorems about the event loop and the four queues and pools, as `MCHandOff` puts them together |
| `MCTimerWheel`, `MCReactor`, `MCMemoryPool`, `MCHttp` | symmetry sets and values for TLC |
| `PoolScenarios` | the size classes and uses of the allocators that two of these share |
| `MCMemory`, `MCHandOff` | several programs of one kind, one after the other, in one run |

`Reactor` is the composition: of the components below it, it uses what their runs
and proofs establish. Its task queues are `Mailbox`es, its timers count down as
those of `Timers` do, its buffers are byte counts because `Buffer` is a queue. `Http` looks
into one connection of it, whose handlers are those of `Reactor`, at what `OnMessage` does with
the bytes.

`MCMemory` and `MCHandOff` hold several programs that have nothing to do with each other.
The variable `program` says which one runs; the variables of the others keep their initial
values, so the reachable states are those of each program, side by side, and a property
of one of them says nothing of the rest.

### Correspondence

**TimerWheel.** `tick`, `wheels`, `record` are `_tick`, `_wheels`, `_timers_record`;
`task` is the heap: `None`, or the fields of the `TimerTask` at that address. A slot
is a set, since a task pushed twice into one list dies with that list either way.
Actions are `SetTimerTask`, `RefreshTimerTask`, `RemoveTimerTask` and `Tick(nums)`, whole:
`Tick` clears its slots, and every task whose last slot goes runs its destructor
(`Destroy`): the timer function unless cancelled, then `RemoveFromTimerWheel`. `fired`
records the functions run in a step. `ReuseIds` says whether an id may be set while
a removed task of the same id still sits in a slot. TcpServer takes a new id per
connection, so this happens only to a user of `CancelInactiveRelease`.

**Buffer.** `data`, `rd`, `wr` are the vector and the two indices. Each public member that
changes state is an action; the string and `Buffer` overloads are the same action.
`assert` failures set `aborted`. Bytes are a NUL, a newline and a letter: `GetLine` tells
newlines from others, growing the vector fills it with NULs.

**EventLoop.** `pending`, `batch` are `_pending` and the local vector of `DoPendingTask`;
`at` is where the loop's thread is in `Loop`; `active` the ready descriptors it has
still to handle. `RunInLoop` from another thread is two actions, the push under the
lock and the write of the eventfd, with everything else in between allowed.
The eventfd counter is bounded and a write to a full one fails, as the code accepts.
`Polling(TRUE)` is epoll_wait interrupted by a signal. A task may call `QueueInLoop`
in the loop's own thread, which wakes nothing.

**LoopThread.** `InitPool` makes one `LoopThread` after the other and waits for its loop.
`_thread` (1540) is constructed before `_mtx` and `_cond`, so `ThreadEntry` may run first: it
then locks whatever the memory held (`mtx` starts as any value), and `ConstructMembers`
makes the mutex a free one even if the thread has locked it; or the memory looks like a
locked mutex and the thread goes to sleep (`BlockEarly`), which the constructor does not
undo. `early` records that either has happened.

**Reactor.** `conn[c]` is the `Connection` with its `Channel`, `Socket` and peer. A
handler is an operator from a connection to the set of connections it may leave behind, so
that `HandleEvents`, `HandleRead`, `ShutDownInLoop`, `ReleaseInLoop` and the message
callback nest as the calls do. One step of a loop is one handler or one task: they touch
only what their thread owns and the task queues. `AcceptCallback` is three steps
(`HandleListenRead`, `AcceptEnable`, `AcceptInsert`), because a sub loop can run
`Established` before the main loop has stored the connection in `_conns`. `Freed(c)` is
the end of the last `shared_ptr`. The ways to end the process are values of `down`: `exit`
(epoll_ctl fails, 594), `abort` (an assertion), `killed` (SIGPIPE, which nothing handles),
`dangling` (a handler is called through a freed channel). The client and the kernel are
the external part: `Connect`, `ClientSend`, `ClientFin`, `ClientReset`, `ClientRead`, and
what epoll reports of a socket (`Revents`).

**Http, HttpRoutes, HttpExchange.** A stream is a sequence of short texts: a request line, a
header, any other text, or a newline; `inb` is what `_in_buffer` holds of it. `HandleRead`
takes any piece of what the client has sent and calls `OnMessage`; `at` is where the
innermost call is, `calls` is the stack, because `ShutDown` in the loop's thread runs
`ShutDownInLoop` at once, which calls `OnMessage` again if the buffer is not empty
(`HandleEof` does the same when the client has closed its side). `ctx` is the
`HttpContext`. `RecvReqLine`, `RecvReqHead` and `RecvHttpBody` are the three cases of
`RecvHttpRequest`'s switch, each falling into the next as the code does; `HandleError`,
`NotOver` and `HandleRequest` are the ways on. A call of std::stoi on a value that is no
number throws, nobody catches it, and the process ends (`aborted`). `HttpRoutes` computes
`IsValidPath`, `BuildFilePath`, `FileHandler` and `Dispatcher` on paths that are sequences of
slashes and names, over a small file system; `FileHandler` stats the file twice and the
answers it may give are those of either outcome. `HttpExchange` knows neither parser, nor
context, nor reads: where the stream's next request ends, what it says, and whether
it must be refused are defined on the text. Which answers a request may get is not its
concern: `Http` gives it the operator `Routed`.

**MemoryPool.** `heap` is the page cache: the `Span` objects, which of them are in a list
(the list is the span's length), the page map, the memory the system gave. `central`,
`cache`, `maxSize` are the lists of `CentralCache` and `ThreadCache`; `at` is what a
thread still has to do with which span and blocks; `lock` is a list's mutex while
`ReleaseListToSpans` holds it. The page cache's operators (`NewSpan`,
`ReleaseSpanToPageCache` with its two merging loops) map a heap to what it may become, and
are used whole in a step, as they run under `_page_mutex`. An allocation is
`AllocateCached`, or `FetchFromCentralCache`, `FetchRangeObj`, and when no span has a free
block `GetSpan`, `Carve`, `PushSpan`; a free is `DeAllocate`, and when the list is too
long `LockList`, a `ReturnBlock` for each block, and `ReturnSpan` between the locks for
each span that got its last block. `MallocPages` and `DeletePages` are requests above
`MAX_BYTES`, which only ConcurrentMemoryPool has. `heap.wild` says that `Erase` was called
on a span that is in no list: its links are null or stale, and the model stops there.
`config.lib` tells the two allocators apart in three places: when a span is marked as used
(`MarkedEarly`), when a list is too long (`TooLong`), and how much is asked of the system
(`Taken`).

**ObjectPool.** `memory`, `remain`, `freeList` are `_memory`, `_remain_size`, `_free_list`;
`pool` is which of the three it is, and `sizeof(T)`. `New` is one of `NewFromList`,
`NewFromChunk`, `NewFromSystem` and `NewRefused`, the last when malloc or mmap fails. What the
three compare (`Short`), cut (`CutSize`) and ask for (`BlockSize`) differs and is kept so.

**SizeClass.** The functions of the two classes of that name, on the real numbers: 256 KB
of request sizes, 208 lists or 209, pages of 8 KB. `RoundUp` and `_Index` (`Step`) are the
same in both; `Index` belongs to ConcurrentMemoryPool and takes off where a group starts,
`PoolIndex` does not. `NumMoveSize`, `NumMovePage` are ConcurrentMemoryPool's,
`NumsFromCentralCache`, `NumsFronPageCache` Pool's. `request` goes through the sizes one
by one.

**BlockQueue.** A step is what happens between the lock, or the return of a wait, and the
next wait or unlock. `condP`, `condC` are the threads that wait; a signal takes one of them
out, whichever, and `SpuriousWakeUp` one that nobody signalled. What was popped is run
outside of the lock.

**CircularQueue.** Every call and every statement is a step: nothing but the two semaphores
keeps a producer and a consumer apart.

**ThreadPool.** `lib` says which of the three pools it is: they differ in the single instance
(not in "plain"), in whether `Enqueue` looks at the count of sleeping threads before it
signals ("log"), and in whether `Stop` does before it broadcasts ("os").
`GetSingleInstance` is several steps, because the pointer is visible before `Init` and
`Start` have run; an `Enqueue` in that window finds `_is_running` false and does nothing.
The caller that made the pool enqueues its tasks and stops it.

**ProcessPool.** `writers` says which processes hold the write end of each pipe: a child
inherits those of all earlier pipes and closes its own only. `times` is the
argument of `AllocTask`, 0 for the endless loop. The parent may be killed at any point.

## 3. Runs

| run | configuration | what it shows |
|---|---|---|
| `timer_wheel` | 2 ids, 3 task objects, 4 slots, timeouts 1, 3, 4, up to 5 ticks in one read | `ImplementsTimers`: a timer fires once and on time, also when one read reports more expirations than there are slots; `PendingFound` and `WheelSound` (`LivesInWheel`, `RecordSound`): id and task object find each other, a task lives while a slot holds it |
| `memory` | *Buffer*: a vector of 2 bytes that grows, 3 byte values, 4 inputs, contents up to 3. *SizeClass*: every request size from 1 to 262144 bytes. *MemoryPool*: Pool with 2 threads, 2 size classes, spans up to 3 pages, memory of one region (2 threads) or two (1 thread); ConcurrentMemoryPool with 2 threads, blocks and 2-page requests, or 1 thread and requests longer than any kept span. *ObjectPool*: the three pools with objects of 1 to 7 words, pointers of 2 and chunks of 6 | `ImplementsByteQueue`, `WritesNeverAbort`, `PopsOneLine`; `RequestFits`, `BlockFoundAgain`, `RequestServed`, `ListsSeparate`; `PagesSound` (spans tile the memory and the map names them), `BlocksSound` (each block is in one place, the counts agree, caches stay bounded), `PoolMergesOnlyReturned`; `SuitedObjectsInside`; `ImplementHeaps` for allocators and object pools |
| `reactor` | 2 clients; an EchoServer with 2 sub loops and 2 bytes from each client, which may close, reset and read slowly; or an HttpServer without sub loops, with inactivity timers and another thread that sends | `BytesConserved`, `ServerStays`, `ClosedOnce`, `FreedIsUnused`, `ChannelsSound` (epoll watches the live connections and nothing else, EPOLLOUT follows the output, a released connection has no timer) |
| `reactor_live` | 1 sub loop, 1 client that does everything, with and without inactivity timers, another thread that shuts down | `ReleasedIsForgotten`, `ResetIsReleased`, `OutIsSent`, `IdleIsReleased`, `OrderlyShutDownCompletes`, `ReleasedWhenFlushed` |
| `http` | pairs of 12 texts that are requests, odd ones or none, triples of the 4 good ones, cut into reads in every way; and one request for every path of up to four slashes and names, and some longer ones, by three methods; files in the base directory, around it and in a directory whose name begins like the base's | `ImplementsExchange`: answers depend on the text alone; `NothingLeftUnanswered`, `AnsweredByTheRightHandler`, `ShutDownCompletes` |
| `hand_off` | *EventLoop*: 2 threads with 2 tasks each, 1 task of the loop, an eventfd that is full after one write. *Queues*: 2 producers of 2 tasks each, 2 consumers, 2 slots. *ThreadPool*: 2 callers of 2 tasks, 2 threads. *ProcessPool*: 3 children, pipes of one task number, 4 tasks. *LoopThread*: 2 sub loops | `NoLostWakeup`, `ImplementsMailbox`, `HandedOverRuns`, `OwnTasksRun`; `ImplementHandOff` for the four queues and pools, `SlotsApart`, `AllPassed`, `StopReturns`, `NobodyStays`; `LoopsHandedOver` |

Six more runs end in a counterexample; they state what a comment of the code
promises and the code does not do.

| run | promise | what happens |
|---|---|---|
| `reactor_half_close` | `ShutDown` closes when all is dealt with (1358) | after a FIN the socket stays readable, `HandleEvents` handles EPOLLIN and returns, so EPOLLOUT is never handled: the loop spins, the output stays, the connection never closes |
| `reactor_write_error` | a write error closes the connection (1172) | `HandleWrite` releases it, then calls `DisableWrite`: epoll_ctl fails on the closed descriptor and the process exits |
| `reactor_timer_batch` | `_active_channel` holds channels with events (983) | a timer handled earlier in the batch releases the connection, the main loop drops the last reference, and the next handler is called through a freed channel |
| `memory_pool_early_merge` | merging stops at a span in use that has not been returned (ConcurrentMemoryPool/PageCache.cpp:155) | `_is_used` is set after `_page_mutex` is dropped (CentralCache.cpp:42-47): another thread's release merges the span that was just handed out, and calls `Erase` on it although it is in no list. Pool sets the flag under the lock |
| `memory_pool_odd_size` | the rounded size is what the caller gets (ConcurrentMemoryPool/Common.h:160) | the carving loop (CentralCache.cpp:59) lets the last block begin in the span and end behind it: 24-byte blocks in 16384 bytes |
| `object_pool` | `_remain_size` is what is left (Pool/ObjectPool.h:55) | `New` asks for 8 KB whatever the object's size: an object that is longer, as Pool's `CentralCache` is (209 lists with a mutex each), ends behind the chunk, and the negative rest counts as a huge one |

### What the properties leave out

Some properties carry a condition that names behaviour met while modelling, with no run of
its own.

*Reactor.* A partial send loses the rest of what was popped (1169-1171, the condition
`~lost`); `ShutDownInLoop` does not look whether the connection is released already
(1241), nor does `HandleWrite` when the inactivity timer has released it earlier in the
batch (`ClosedOnce` and `ServerStays` are about servers without these timers); the
inactivity timer drops unsent output (`timer = 1` in `ReleasedWhenFlushed`);
`EnableInactiveRelease` queued for a sub loop may run after the release and arm a timer for
a dead connection (`ReleasedHasNoTimer` is about servers without sub loops).

*TimerWheel.* A timeout above the wheel's capacity fires a turn early (739, `Timeouts` in
`TimerWheel.cfg` end at the capacity). `RemoveTimerTask` leaves the cancelled task in its
slot, and its destructor (694) erases the record of the same id: if the id has been set
again by then, the newer timer can be neither refreshed nor removed (`ReuseIds` is FALSE).

*Http.* What `HttpExchange` promises is what the code does; a reader should know that
- after a refusal the context is not reset, and until the connection is gone every further
  piece of text gets one more refusal (`HttpExchange!Refuse`);
- a refusal of an HTTP/1.1 text may say keep-alive although the server shuts down;
- requests pipelined behind one that says `Connection: close` are still answered, by the
  `OnMessage` that `ShutDownInLoop` calls;
- a `Content-Length` that std::stoi does not take ends the process (`aborted`), and a
  negative one counts as no body;
- `BuildFilePath` (739) glues a path without a slash in front to the last name of
  `_base_dir`, and `IsValidPath` (291) accepts such a path, so that a file outside of the
  base directory is served if there is one of that name. `MCHttp` has such files, and the
  run serves them: `AnsweredByTheRightHandler` promises a file below the base directory for
  paths that begin with a slash, and for the others only one below the directory around it,
  since such a path may go up again by the glued name;
- the 403 of `FileHandler` cannot happen, since `IsFileHandler` has tested the path before.

*MemoryPool.* The invariants say nothing of what follows a merge of a span in use
(`~heap.wild`), and the size classes divide their spans, except in the run that is about
those that do not.

*SizeClass.* Pool's `Index` (Pool/Common.h:121-147) counts the steps of a group from 0 and
not from where the group starts. Lists are left out at each start (size 128 has list 15,
size 129 list 24), and a request above 204800 bytes gets index 209 to 215 of 209 lists: an
access behind the end of `_free_lists` and `_span_lists`. A request above 253952 bytes
rounds up to 262144, and `NumsFromCentralCache` asserts that a size is less (151).
`RequestServed` states both limits as they are (`PoolServed`), so that a change of either
shows; nothing in the repository asks Pool for so much. Above 256 KB Pool's `RoundUp`
gives 0, and `Index` -1; ConcurrentMemoryPool's `Index` asserts. `SizeClass` ends there.

*ObjectPool.* Fixed's and Pool's set `_remain_size` before they know that malloc has
succeeded, so that after a failure the next `New` cuts objects off a chunk that is not there;
Pool's objects that are shorter than a pointer overlap when they are deleted
(`SuitedObjectsInside` and `AsHeld` leave these out).

*Queues and pools.* `open` of `HandOff` says when a task counts as handed over: an `Enqueue`
between the publication of `_tp_ptr` and `Init`, or after `Stop`, silently drops it.
`main` of the process pool calls `AllocTask(channels)` without a count although a comment says
five times, so `CompleteAndQuit` is never reached from there; `Times` has both.
*LoopThread.* A thread that gets to `_mtx` before it is constructed may sleep for ever, or
its notify may come between the test and the wait of `GetLoopPtr`; `LoopsHandedOver` is
about the executions where none does (`early`).

### Bounds

Every bound is a constant. *TimerWheel*: four slots are enough for a timeout that lies
within, at and around the turn of the hand, and three task objects for a pending one
beside a removed one of the same id and one of another id. *Buffer*: `MaxLen` bounds the
contents; from a vector of two bytes, writes of up to three fit at the end, after a move,
and only after growing. *EventLoop*: two threads are needed for a wake-up consumed on
behalf of another's push; `MaxTasks`, `MaxOwn` bound the tasks, `EventFdMax` the counter.
*Reactor*: `sends` bytes per client, one call of each kind per connection from another
thread, `closed` counts to two. The interplay of two connections is in `_conns`, the batch
and the round robin, which two clients on two loops exercise; a third adds no kind of
step. How a server is set up and used is a record of `Scenarios`, chosen in the initial
state; `MCReactor` lists those of each run. *Http*: `MaxLine` is two texts, so that a line
of three is too long; three requests are enough for a context that is used, reset and used
again, and paths of four parts for every mix of parameters, directories and `..` that the
small file system tells apart. *MemoryPool*: `pages` bounds the system's memory, `held` the
blocks in use; pages have two words and spans at most three pages, so that a new region is
cut, a free span is taken whole, neighbours are merged on both sides and the limit
`MaxSpan` stops a merge; two classes with spans of one and two pages; `NumMoveSize` of two
lets `_max_size` go through its range and lists get too long with two blocks in them.
*ObjectPool*: types shorter than a pointer, as long, longer without dividing the
chunk, and longer than a chunk; three chunks and four objects. *SizeClass* has no bound: its
range is that of the code. *Queues*: `MaxPushes` bounds the tasks; two of each kind of
thread are needed for a signal that reaches the wrong one. *ThreadPool*: with two callers one
finds the instance half made, with two threads one sleeps while the other runs. *ProcessPool*:
three children, so that one inherits two write ends and one of them from a child in between;
a pipe of one number makes the parent wait. *LoopThread*: `ThreadsSize` of two, since the main
thread waits for one at a time.

Deadlock is not checked where the program may stop: `aborted` ends a Buffer's, a merge that
goes `wild` an allocator's program, the sizes end, the queues' threads and the pools come to
their end, and a Reactor's or Http's clients send a finite text. For the queues and pools
`AllPassed`, `StopReturns` and `NobodyStays` say that they do not stop too early.
`TimerWheel.cfg` and `Reactor.cfg` use symmetry, for safety properties only.

### Fairness

`EventLoop!FairSpec`: the loop's thread takes a step when it is not blocked in
epoll_wait, and a thread that has pushed goes on to write the eventfd; both are
threads the scheduler runs. Nothing is assumed of the timer, of signals, or of tasks
arriving; `OwnTasksRun` names its own assumption, that the periodic timerfd expires again and
again (SetTimer arms it with an interval of one second). `Reactor!FairSpec`: each
loop's thread runs, a client that reads slowly does go on reading, and the clock goes on. No
client is assumed to send, close or reset. `Http!FairSpec`: the loop's thread goes on in a
handler and handles a writable socket. `MCSpec` of `MCHandOff`: each thread and process of the
program that runs goes on when it can (weak fairness); nothing is assumed of spurious
wake-ups or of a parent being killed. `LoopThread` has strong fairness for the main thread and
the new one: spurious wake-ups can make the main thread take the mutex again and again, and a
thread that asks for it is assumed to get it in one of the times it is free.

## 4. Proofs

The eight modules `TimerWheelProofs`, `BufferProofs`, `ReactorProofs`, `HttpProofs`,
`SizeClassProofs`, `ObjectPoolProofs`, `MemoryPoolProofs` and `HandOffProofs` are checked by TLAPS to the last
leaf, for every value of the constants that satisfies the named assumptions of the modules
and, where a theorem has any, its own hypotheses. TLC evaluates the assumptions in the runs.

| theorem | statement | argument |
|---|---|---|
| `WheelTypeCorrect` | `Spec => []TypeOK` | inductive by itself; `Tick` needs that a remainder is a slot |
| `WheelRecordSound` | `Spec => []WheelSound` | `LivesInWheel` and `RecordSound` are inductive together: a record names a live task because only `Destroy` ends a task and it clears every record of that task's id; it ends exactly the tasks no slot is left to hold |
| `FreshIdsPendingFound` | for `~ReuseIds`, `Spec => []PendingFound` | strengthened by `OneTaskPerId`, at most one task object per id: an id is set only when no task of it is left, so no destructor can erase another task's record |
| `WheelImplementsTimers` | for `~ReuseIds` and timeouts of 1 to `Capacity`, `Spec => ImplementsTimers` | strengthened by `InTime`: the slot that holds a pending task lies ahead of the hand, at most its timeout away, and what is left to wait is the distance to the farthest of its slots; the four operations and each length of `Tick` are one lemma each (`SetRefines`, `RefreshRefines`, `RemoveRefines`, `TickRefines`) |
| `BufferTypeCorrect` | `Spec => []TypeOK` | the indices stay ordered and inside the vector through move, growth and pop |
| `WriteNeverAborts` | `Spec => WritesNeverAbort` | `EnsureAmpleWriteableSpace` leaves `size` bytes behind `_write_idx` in each of its three branches |
| `BufferImplementsByteQueue` | `Spec => ImplementsByteQueue` | move and growth keep `Contents`; lemmas on `SubSeq` give what write and pop do to it |
| `LinePopped` | `Spec => PopsOneLine` | `LineLength` is the place of the first `'\n'` in `Contents`, wherever the line lies in the vector |
| `LoopTypeCorrect` | `Spec => []TypeOK` | inductive by itself |
| `WakeupNeverLost` | `Spec => []NoLostWakeup` | the invariant is strengthened to every place of the loop: a handed-over task is pending only if the eventfd is readable, its thread is about to write it, or the loop is between its read and its swap |
| `LoopImplementsMailbox` | `Spec => ImplementsMailbox` | `batch \o pending` is the mailbox: a push appends to it, the swap leaves it alone, a run takes its head |
| `EveryRequestFits` | `RequestSpec => []RequestFits` | per group of sizes: the next multiple of the alignment (`AlignedIsNext`), which is a multiple of 8, and the least size of the group bounds the waste |
| `EveryBlockFoundAgain` | `RequestSpec => []BlockFoundAgain` | rounding up does not leave the group (`RoundUpAgain`); the index follows by `ListsAreSizes` |
| `EveryRequestServed` | `RequestSpec => []RequestServed` | `SizeServed`, of ConcurrentMemoryPool: the numbers of lists of the groups add up to `NFREE_LISTS`; `PoolServesTo200KB`: the 26th list of the last group is behind the end of Pool's; in both, what is moved at once stays below the longest kept span (`SpanHoldsBatch`) |
| `ListsAreSeparate` | `RequestSpec => ListsSeparate` | from one size to the next the rounded size stays or goes to the next multiple, and with it the index (`ListsAreSizes`; of Pool, `PoolListsAreOrdered`) |
| `ListsAreSizes` | `Index(m) = Index(n) <=> RoundUp(m) = RoundUp(n)`, and likewise for `<` | the block's size is a linear function of the list's number in each group (`BlockOfList`), and the groups' ranges do not meet |
| `NewStaysInside` | `PoolSpec => []SuitedObjectsInside` | strengthened by what `New` may find: deleted objects are inside, too (`DeletedInside`), `_memory` and `_remain_size` describe the end of one chunk (`RestKnown`), and in Fixed's pool, which compares with `sizeof(T)` and cuts a pointer's size, what is left is a multiple of a pointer (`PointersLeft`, hence the assumption on `ChunkSize`) |
| `AllocPagesSound` | `AllocSpec => []PagesSound` | from `AllocInv`, below |
| `AllocBlocksSound` | `AllocSpec => []BlocksSound` | from `AllocInv`: the owners of a block in it are disjoint, and its count is that of the blocks that are out |
| `AllocMergesReturned` | `AllocSpec => []PoolMergesOnlyReturned` | from `AllocInv`: in Pool every span outside of the lists is marked, so that each span `CanMerge` admits is in a list |
| `AllocBlocksApart` | for size classes that divide their spans, `AllocSpec => []BlocksDisjoint` | with `Fit`, below, every block in use lies in a span, and blocks carved from one span are a block apart |
| `AllocRefinesHeap` | for the same classes, `AllocSpec => AllocImplementsHeap` | a step changes the blocks in use by none or one (`HeldStep`), and those after a step share no word (`DisjointStep`) |
| `ObjectPoolsImplementHeap` | `PoolSpec => ImplementsHeap` | strengthened by `OnceOnly`, an object is in use or in `_free_list` once, and `CutApart`, what was cut off a chunk is `CutSize` apart and `_memory` is behind all of it; holds when chunks are refused, too |
| `AllImplementHeaps` | for size classes that divide their spans, `MCSpec => ImplementHeaps` | the two theorems before |
| `ChannelsStaySound` | `Spec => []ChannelsSound` | from `IInv`, below |
| `FreedStaysUnused` | `Spec => []FreedIsUnused` | from `IInv`: a freed connection has no task queued and is not in `_conns`, so it was closed, or never established |
| `BytesStayConserved` | if no other thread sends on an echo connection, `Spec => []BytesConserved` | with `IInv`, each handler moves bytes from the socket to `_in_buffer`, from there to `_out_buffer` and to the client, and the sum stays what the client has sent |
| `ClosedStaysOnce` | if without inactivity timers no other thread calls `ShutDown`, `Spec => []ClosedOnce` | with `IInv`, each release calls `_closed_cb` once (`OnceClosed`), and no handler runs on a connection that is released |
| `ReleasedOnlyWhenFlushed` | `Spec => ReleasedWhenFlushed` | a step property of each handler (`Lawful`), given `IInv` |
| `ServerStaysUp` | if without inactivity timers the server is an EchoServer or no other thread calls `ShutDown`, `Spec => []ServerStays` | with `IInv`, the conditions under which each assertion and each epoll_ctl succeed (`OnceInv`, `WriteInv`, `EmptyInv`), and `FateInv`: what has ended the process is a reset |
| `HttpImplementsExchange` | `Spec => ImplementsExchange` | from `HttpInv`, below: a call of `OnMessage` that answers does so with a head, a body and a place that `HttpExchange` reads off the text |
| `HttpAnswersAll` | `Spec => []NothingLeftUnanswered` | from `HttpInv`: a context that waits has no complete request and no refusal before it (`WaitingHasNothing`) |
| `SlotsStayApart` | `MCSpec => []SlotsApart` | `CircCounts`: what the two semaphores hold and the threads that are between a P and a V add up to `Slots`, and `_p_suffix` is as many slots ahead of `_c_suffix` as there are tasks counted; a writer and a reader in one slot would be 0 or `Slots` apart, which the sum excludes |
| `QueuesAndPoolsHandOver` | `MCSpec => ImplementHandOff` | one invariant for each program, below |

**The Reactor's invariant.** `IInv` is what its six theorems share. `TypeInv`: the types.
`ConnInv`: between two steps every connection is in one of four phases, waiting to be accepted,
accepted, established and released, each of which says what its socket, its channel, its events
and its buffers are (`InPhase`). `QueueInv`, `ActiveInv`: what a loop has queued, or still to
handle, fits the phase of its connection. `AcceptInv`: `AcceptCallback` keeps the main loop from
its other channels, and an open connection is in `_conns` or about to be put there. Handlers
nest, so their effect is proved bottom-up, on one connection (`Sequel`, `Outcome`): what
`HandleEvents` may leave behind follows from what `HandleRead`, `ShutDownInLoop` and
`ReleaseInLoop` may, and only then are there lemmas about steps of loops and queues.

The hypotheses of the three conditional theorems name behaviour of the code. Another
thread's `Send` adds bytes that the client has not sent. A `ShutDown` of another thread is a
queued task, and `ShutDownInLoop` does not look whether the connection is released already
(1241): it tells of the release again, and in an HttpServer it hands input that was left
over to `OnMessage`, whose answer asks for EPOLLOUT on a closed channel, which ends the process.

**The queues and pools.** All four proofs count the same things: `Typed`, `Held`, `InLanes`,
`Once` speak of lanes of items and workers that hold one, whatever the program, and
`Submitted`, `Taken`, `Done` say what happens to them when an item is appended, taken or
done. `BlockInv` (BlockQueue), `CircTasks`, `PoolTasks` and `ProcTasks` say with them that every
task is in one place, and that each caller has handed over its first ones. `CircularQueue`
needs more: its abstract queue is read off the ring, from `_c_suffix` on, and `CircTasks` says
that the slots there hold exactly the tasks not yet read, `CircCounts` that they are less
than a turn, so that the next write is behind them. `PoolSteps` relates the callers of
`ThreadPool` to its workers: `Stop` joins only workers that leave, and a worker leaves only
when nothing runs and nothing is queued. `ProcSteps` does so for `ProcessPool`: a child leaves
only after its pipe is empty and its last write end is closed, and the parent waits
for each of them. `HandOffAssumption` asks of the constants that the sets of threads be finite
and disjoint, a queue have a slot, and a pool a thread or process.

`WheelImplementsTimers` leaves out what §3 says of timeouts above the capacity and of ids
that are used again; a timeout of 0 lands in the slot of the hand and fires a whole turn later.

**The allocators' invariant.** The three theorems about `MemoryPool` share `AllocInv`; none of
their properties is inductive alone, for the pages are kept by what is true of the blocks and the
other way round. It says, while nothing is `wild`:
- *pages* (`PagesKept`): `Tiled`, the live spans are not empty, lie apart and fill the memory
  below `brk`; `ListsKept`, a listed span is not marked as used and is no longer than `MaxSpan`;
  `MapTrue`, the map has the ends of a listed span and every page of another, and nothing else;
- *spans* (`SpansOwned`, `FreeOwned`, `OutUsed`): the spans in the central lists, and those that
  a thread carves, pushes or returns, are out of the page cache's lists and have one owner; only
  a span in a central list, or about to be pushed into one, has free blocks; and Pool has
  marked every span that is out;
- *blocks* (`BlocksTaken`, `BlocksOnce`, `BlocksCounted`): what a cache, a thread or the
  program has was carved from a span in the central list of its class and is not free there, or
  is a large block, the first of a span of its own; two owners have no block in common; and
  each block that is not free in its span has an owner, and is counted;
- *threads* (`InHand`): where a thread is says which blocks it has in hand, and the list of the
  class it fetches is empty;
- *caches* (`CachesSized`), also when `wild`: no list is longer than `_max_size`.

The page cache is proved about first, as operators from heap to heap: what `CutSpan`, `Popped`
and `Grown` give (`GivesOut`), what a round of merging absorbs (`MergedInto`) and what
`ReleaseSpanToPageCache` leaves (`TakesBack`). There is always a `Span` object left for a cut,
since live spans start on different pages (`NewObject` is total). The merging loops are rounds
of a recursive function; a statement about every round is proved from its least
counterexample. Then each action has one lemma, with a step for each conjunct of `Kept`.
`AllocTypeOK` and `CachesSized` alone survive a merge gone `wild`, which in ConcurrentMemoryPool
happens (`memory_pool_early_merge`); `AllocMergesReturned` shows that in Pool it does not.

That no block reaches into another needs lengths besides. `Fit` says that a span in a central
list, or about to be, has the `MovePages` pages of its class, and that a large block fills its
span; and the theorems have a hypothesis, `DividesSpans`: the blocks of each class divide its
spans. `Memory.cfg` has such classes, not all of the code's are: the loop that carves
(CentralCache.cpp:59) takes every block that begins in the span, even one that ends behind it
(`memory_pool_odd_size`), so that without the hypothesis the statement is false.

**The HTTP connection's invariant.** `HttpExchange` has no parser, so its steps say nothing of
how far `HttpContext` has come; `HttpInv` does. `TextInv`: how much of the stream has arrived
and how much is answered. `Unanswered`: of the text `s` that has arrived since the last
answer, `p` texts are in the context and the buffer holds the others (`InBuffer`). What the
context holds of them is one of `Begun` (nothing), `InHead` (so many whole lines, each `Taken`,
and the headers are those of these lines), `InBody` (a whole head and part of its body),
`Over` (a whole request) and `Failing` (the code of a refusal that `s` has); and when `OnMessage`
is about to return or has, it is `Waiting`: nothing in `s` can be answered or refused.
Behind a refusal (`Silent`) the context keeps its code, and whatever arrives is refused with
it. Two things make this inductive. More text changes nothing about the lines that were
whole (`LinesStay`, `PieceOfMore`), so a cut between two reads does not show; and a step that
answers leaves the rest of the buffer as the whole text of the next request, with a context
that has `Begun`, so that the call that `OnMessage` makes or returns to, be it its own loop, the
nested one of `ShutDownInLoop` or the next read, is right to start afresh. One lemma covers each
of `RecvReqLine` (`LineStep`), `RecvReqHead` (`HeadStep`) and `RecvHttpBody` (`BodyStep`), another
a line that has not arrived as a whole (`IncompleteStep`). `HttpAssumption` asks that streams
be made of the four kinds of text, numbers be integers, and `MaxLine` leave no room for more
than a text and its newline: a line of more texts stands for one the code finds too long.

**Only model-checked.** `Http`'s `AnsweredByTheRightHandler`, and `LoopThread`. What
`IsValidPath`, `BuildFilePath` and `FileHandler` compute is a fold over a path: the library's
induction theorems take an operator as a parameter, which these provers cannot instantiate, so
each fold would need an argument of its own by least counterexample, as the rounds of the
allocators have in `MemoryPoolProofs`; that argument is not written for paths, and TLC checks
the property over the paths of `MCHttp`. Liveness under fairness and ENABLED
are outside what TLAPS 1.4.5 proves with the provers used here; the liveness properties
therefore stay with TLC. No module uses RECURSIVE.

## 5. Not modelled

*The network library.* Descriptor numbers (so a number reused between a `close` and a later
`epoll_ctl`, 583, is not seen); failures of `accept` (1473: the process ends) and of
`epoll_wait`; memory exhaustion, and the growth of the wheel by a node for each refresh
(750); the text of messages and logs; `Any`; the address behind the pointer that `Send` keeps
in its task (1352); a `_conn_cb` that shuts its connection down (1612); and
`CancelInactiveRelease` and `Upgrade` on connections (nothing in the repository calls them; the
wheel's `RemoveTimerTask` behind the former is modelled).

*HTTP.* Query strings, url decoding, MIME types and the text of a response: the properties do
not depend on them.

*The allocators.* The system running out of memory (`bad_alloc` leaves `_page_mutex` locked,
PageCache.cpp:93), the end of a thread (its cache is lost), a free before a thread's first
allocation (ConCurrent.h:59 asserts), requests between 256 and 512 KB (ConcurrentMemoryPool
asserts), the 4 KB alignment of `mmap` (PageCache.cpp:95), the insides of the radix tree,
and the memory order of the unlocked look-up.

*The other programs.* The named pipe, the shared memory, `mystdio` and the shells are input
and output of one process at a time; the remaining directories demonstrate one call or one
class each. `os/thread/RingQueue.h` does not compile when it is instantiated (line 45 applies
`%=` to a semaphore), nor does `operator=` of `my_shared_ptr`. The notes and the generated
build trees, which hold more lines than the programs, are no code of this repository.

## 6. Plan

Done: 1 timer wheel, 2 buffer, 3 event loop, 4 reactor, 5 allocators, 6 HTTP, 7 queues and
pools, 8 loop threads and object pools. Proofs: the wheel, the buffer, the event loop,
the reactor, HTTP, size classes and object pools, the allocators, the queues and pools. What
is left is `AnsweredByTheRightHandler`.
