# A TLA+ project for tools-cxx

tools-cxx is a small C++ library for Linux servers: a thread pool, a timer
scheduler, stackful coroutines, an event loop over poll and epoll, a logger with
rolling files, sockets, a configuration reader. This directory holds TLA+
modules that model its concurrent and stateful parts, configurations that check
them with TLC, and proofs that TLAPS checks.

    tlc -config <run>.cfg <MC module>      model-check (the table of runs below)
    tlapm <Module>Proofs.tla               check the proofs

Two conventions. Names follow the source without its `m_` and with camel case
(`m_pendingFunctors` is `pendingFunctors`, `handle_event` is `HandleEvent`).
A definition beside a mapped one that nothing in a specification uses
(`TakeNewest` beside `TakeOldest`, `LeavesWhenEmpty` beside `LeavesAtOnce`) is a
bug the code does not have: put in the other's place it must violate the property
PROJECT.json names, which shows that the property can fail.

## Inventory

| Part (src/tools) | State | Operations | What is hard |
|---|---|---|---|
| threadpool/ThreadPool | task queue, `m_stop`, `m_runningNum`, handles, a mutex and a condition | start, call, stop, thread_func | wake-ups against tests of the queue and of `m_stop`; start and stop against workers |
| base/CountDownLatch | a counter, a mutex and a condition | wait, count_down, get_count | notification against the test of wait() |
| timer/TimerScheduler, Timer, TimerId | two sets of timers, a batch of expired ones, ids being cancelled, pending functors, timerfd, eventfd | run_at, run_after, run_every, cancel, quit, the loop | object lifetime with ids that outlive it, cancel inside callbacks, wake-up of a sleeping loop, arming one descriptor for many timers |
| timer/TimerSchedulerThread, coroutine/CoSchedulerThread | pointer to a scheduler on another thread's stack | start, destructor, thread_func | publication; quit before the loop begins |
| coroutine/CoScheduler, Coroutine | map of coroutines, the current one, pending tasks | create_coroutine, yield, start, quit | a map scanned while it changes; tasks from other threads |
| poller/Channel, PollPoller, EPollPoller | map fd to channel, the pollfd array or the kernel's list, list of active channels | update_channel, remove_channel, poll, handle_event | two books of the same thing; channels removed and deleted while a batch is handled; a full event list |
| log/Log | threshold, output and flush functions | a log statement, set_level | FATAL flushes and aborts while other threads log; the errno of a failed system call is handed to %s |
| log/LogFile | stream, counters, time of the last flush, day | append, flush, roll_file | what a crash loses; rolls by size and by day; file names by the second |
| log/LogPrint, LogBuffer | a fixed buffer | printf, append | conversion and truncation |
| socket/ConnSocket, SocketGuard | a shared descriptor with a count | copy, assign, destroy, read, write | the count is a plain int, copies live in two threads |
| socket/SocketsOps, ServerSocket | the listening descriptor | accept, accept_nonblocking, read, write, close | resets, a full table of descriptors, a connection gone before accept |
| socket/InetAddress, Endian | none of their own | conversions | |
| examples/echo: EchoServer, _select, _poll, _epoll | a pool of ConnSockets and a list of what to wait for, in one thread | accept, echo, drop a connection | two books of the same connections, changed while they are gone through; short writes; SIGPIPE |
| examples/echo: EchoServer_coroutine, _poller | as above, over CoSchedulerThread and over a Poller | | a ConnSocket shared by two threads; a channel that deletes itself |
| config/ConfigFile | a map of items | load, get | a second load, after the file was edited |
| base/Singleton, Timestamp, CurrentThread, ProcessInfo, Exception | little | | |

They meet like this. A program owns a ThreadPool and calls it from any thread;
the pool waits for its workers with a CountDownLatch. A TimerScheduler and
EchoServer_poller own a Poller and Channels and run a loop `poll(); handle_event()...`
in one thread; other threads reach the TimerScheduler by a vector of functors
under a mutex and an eventfd. The `...Thread` wrappers put a scheduler on the
stack of a thread and hand out its address. The other echo servers wait
in select, poll, epoll_wait or a blocking call themselves, and keep their connections alive by the ConnSockets in a
pool; EchoServer_coroutine gives one to each coroutine. Every part logs; a program
may set the logger's output to a LogFile.

What makes each correct: the pool serves each task once, in order, never leaves
a task waiting beside a sleeping worker, and stops; the timer scheduler runs
timers when due, never touches a deleted one, never resurrects a cancelled one,
and never sleeps through a request; the coroutine scheduler runs one at a time,
forgets none and skips none; a poller watches what the channels ask for and
reports only channels that exist; a descriptor is open exactly while a
ConnSocket stands for it; an echo server answers every connection, to the one
that asked, and starves none; the log loses and reorders nothing, and a
crash loses little.

## Modules

| Module | Models | Used by |
|---|---|---|
| CountDownLatch | the latch; one action per critical section | ThreadPool (INSTANCE) |
| ThreadPool | the pool; one action per access to shared state outside the mutex, several inside it where another thread can look without it | MCThreadPool |
| TaskQueue | abstract: tasks taken in order, each once, one at most after closing | ThreadPool (refinement) |
| TimerScheduler | the loop thread, its callbacks, other threads, the heap | MCTimerScheduler |
| CoScheduler | the scan, switches, tasks | CoSchedulerThread |
| CoSchedulerThread | the owner and the thread around a CoScheduler | MCCoSchedulerThread |
| Channel | Channel objects and the members of class Poller | both pollers |
| PollPoller, EPollPoller | the two implementations | EventLoop |
| EventLoop | a program in the shape of examples/echo/EchoServer_poller.cpp around either poller, and the kernel | MCEventLoop |
| Poller | abstract: interest, reports of registered channels only, one at a time | EventLoop (refinement) |
| LogFile | append, flush, roll, and what is on the disk | Log |
| Log | log statements of several threads | MCLog |
| Sockets | clients, connections and the calls of SocketsOps and ServerSocket on them | ConnSocket |
| ConnSocket | the count of each SocketGuard and what copies, assignments and ends do to it | EchoLoop |
| EchoLoop | what the echo servers share: the pool, accept, read and write | the four servers |
| EchoSelect, EchoPoll, EchoEPoll, EchoBlocking | EchoServer_select, _poll, _epoll.cpp and EchoServer.cpp | EchoServer |
| EchoServer | one of the four servers with its clients | MCEchoServer |
| Echo | abstract: what an echo server promises a client | EchoServer (refinement) |
| EchoCoroutine | EchoServer_coroutine.cpp: copies of a ConnSocket in two threads, over CoSchedulerThread | MCEchoCoroutine |
| LogBuffer | append and append_char on a buffer of fixed size | LogPrint |
| LogPrint | printf: the directives, number conversion, rounding; and the reference text | MCLogPrint |
| ConfigFile | load() with its parsing, and an edit of the file | MCConfigFile |
| ThreadPoolProofs, TimerSchedulerProofs, CoSchedulerProofs, PollerProofs, LogProofs, LogPrintProofs, EchoServerProofs | theorems | |
| EchoPromiseProofs | the theorem that the four servers implement Echo, over EchoServerProofs | |

### ThreadPool and CountDownLatch
`pc[w]` is where worker w is in thread_func: `lock`, the loop test (`test`), the
latch (`latch`, `countDown`), `sleep` and `waiting`, the second look at m_stop
(`decide`), `pop`, then without the mutex `taken`, `running`. `mutex` names the
worker that holds m_mutex across steps; a client's push under the mutex is one step, the
signal and the busy check after it are steps of their own. m_stop is set and read without the
mutex, as in the code. Condition variables wake spuriously. `threads` starts with
the null handles the constructor makes; joining one is undefined behaviour, and
`NullJoinOutcomes` lists what may follow: an error return or the end of the process.
`start()` and `stop()` are called once, `stop()` any time after start()'s creation
loop; clients call any time, before start() as well.

### TimerScheduler
`pc` is where the loop thread is: `setup` before start(), then `check`, `poll`,
`dispatch`, `callbacks` between two callbacks and `callback` inside one, `swap`, `functors`; `dead`
after the loop has ended and the scheduler is destroyed. The program's calls in the
loop thread (LoopUser) happen in `setup` and `callback`; those of other threads
(ThreadUser) in steps that end at each unlock and system call. `heap` gives each address
a cell that stays readable after `delete` (live = FALSE) until `new` reuses
it, so stale ids and pointers are visible. Time is a counter in ticks of 100us,
the shortest delay the code arms.

### CoScheduler and CoSchedulerThread
`loopPc` is the scheduler thread, `pos` the iterator of the scan, `curCo` is
m_curCo, which keeps its value when a coroutine yields, as in the code. Inside a coroutine
(`coroutine`) the thread may create, quit, yield or return. Erasing keeps the
iterator on the next element.

### Poller
`usePoll` picks the class as create_poller does. `index` is each channel's m_index.
`activeChannels` is the copy the loop iterates over, `handling` and `calls` the
handle_event in progress. The program may do anything legal in a callback:
remove channels that are still in the batch, delete any channel it has removed, reuse descriptors (lowest
first) and addresses. What it deletes may still be in the batch, or be the channel whose handle_event runs, as in on_message of
EchoServer_poller.cpp (lines 32-33); such a channel is `dead` as long as the loop has its address. When the loop goes on to read it, in
the next handle_event or behind the callback (Channel.cpp:39-57), the program is `undefined` and the model stops; only behind m_closeCallback
nothing is read. A failing poll, epoll_wait or epoll_ctl ends in the same way: LOG_SYSERR and LOG_SYSFATAL do not survive their errno
(`SystemCallFails`). The kernel picks any subset that fits the event list, in any order.

### Log and LogFile
append and flush hold the mutex throughout, so each is one action. `buffered` are the
lines in the ofstream; the stream may write out any prefix at any append. The old stream is
destroyed after the new file is opened. A file is the second in its name, and
opening an existing one appends. A line has a number, a length and a time. `LogMacro` is a statement by one of the seven macros; three of them test
the threshold, which set_level may set to any level. LOG_SYSERR and LOG_SYSFATAL save errno. If it is not 0, log() passes the number to %s
(log.cpp:55) and printf takes the length of the string at that address: `ErrnoAsString`, the end of what the model knows of the process. If it is
0 they are LOG_ERR and LOG_FATAL.

### Sockets, ConnSocket and the echo servers
A connection is its client. `inbox` and `outbox` count the bytes under way in each
direction: TCP keeps their order, and no server looks at their values except by
strlen, for which a client is in `Binary` or not. `peer` is the life of the
connection: up, shut by a client that still reads, closed by the client, reset, and a reset already reported, since
the next write then raises SIGPIPE (`killed`). `limit` is RLIMIT_NOFILE. accept
fails where no descriptor is left, where no connection is, and now and then without a reason the model knows (ECONNABORTED, ENFILE, ENOMEM);
then sockets::accept calls LOG_SYSERR or LOG_SYSFATAL, which hand the errno to %s, and the server is `undefined`: it does not come to the exception
that ServerSocket would throw (`AcceptFails`). FD_SET beyond FD_SETSIZE is undefined as well, and excluded: the server over select runs under limits
no higher than that (SelectAssumption). A SocketGuard is named
by its descriptor, which no other guard has while it lives; `count` is its m_count,
and `CountsBecome` closes what no handle holds any more.

One variable `server` says which of the four programs runs, so that one run checks all of
them against one set of properties. `pc` is where its loop is: `wait` in
select, poll, epoll_wait or accept; `accept` and `store` around the birth of a
connection; `scan` at an entry the loop has to look at; `erase` inside
vector::erase, which assigns ConnSockets one by one; `read` and `write` in the
blocking server. `iter` and `nready` are the loop's own.
Entries the loop skips without effect are skipped at once (`Resume`); a read and
the write behind it are one step where neither can block, for no step of a client
between them could tell; what a round leaves in rfds, revents,
iter and nready is dropped where the next one sets it before reading it, but not the
event list of the epoll server, which is read past the events reported. There
it may meet a descriptor no longer in the pool and dereference
end(): `undefined` again, after which nothing is known, as after `killed`.

In Echo a client is `done` when it sends no more and has `left` when it does not read either; a connection is released when its client is
done and has been answered.

EchoCoroutine puts a CoSchedulerThread under EchoServer_coroutine.cpp. A copy constructor
loads m_count and stores it; a destructor loads, stores and loads it again for the test. `ops` is
what the current call of each thread still has to copy and destroy: the main thread destroys three
of its four copies after the task is visible to the other thread (the fourth is the
task), which copies it into a Coroutine and into the call of echo(). `living` counts the objects that exist.

### LogPrint and LogBuffer
A format is a sequence of directives, each with its argument; a call of printf is one action, since a
LogPrint belongs to one thread. `Convert` has one case per conversion of the code's switch and appends piece by piece,
as the code does; `Rendered` is the text by positional notation, with a double scaled and
rounded as a whole. An int has 8 bits and a long long 16 here, a double is a number of eighths, so
that nothing but the code rounds. `WellFormed` is what a caller may pass: an argument of the type the directive reads, a double whose whole
part fits the integer it is cast to, and at most MaxFrac digits after the point, a bound (the code casts the scaled fraction to a uint64_t,
which 19 digits fit and 20 do not). `FormatsAssumption` asks it of all Formats. One caller in the library breaks it: log.cpp:55 passes an int where `%s` reads a pointer, and
nothing where `%d` reads an int. That call is ErrnoAsString of module Log, and no theorem here is about it. Carrying into the whole part never overflows: a double that
large has no fraction. A format that ends in a lone `%` is not an input: the code then reads past its end.
Log abstracts a line to its length, which LogPrint bounds. `%.0f` does print one zero after the point, and the model's reference
follows the code in this; so does a width of 256 or more, kept modulo 256 (`width` is a uint8_t).

### ConfigFile
`load` is one action: it reads the whole file in one thread. A line is a sequence of characters, so that `trim_space`, the
comments and the first `=` do what the code does. The map is a function, and map::insert is `@@`, which keeps
what is there. `Edit` is the user; load() of a file that cannot be opened throws and changes nothing.

## Runs

| Run | Instance | Question | Properties |
|---|---|---|---|
| threadpool | 2 workers, 1 client, 2 tasks; 130k states | do wake-ups, signals and stop race safely; do tasks, start() and stop() come to an end | TypeOK, WorkConserving, NoThreadSurvivesStop, ServesInOrder, TaskServed, StartReturns, StopReturnsUnlessDozing |
| threadpool_stop_hangs | as above | violated: stop() returns | StopTerminates |
| timer | 2 addresses, 1 other thread, 2 timers, one-shot and repeating; 690k states | are sets, heap, alarm and eventfd consistent; do timers expire and quit() end the loop | TypeOK, SetsAgree, NoDangling, AlarmCovers, WakeupNotLost, CancelStands, DeletedForAReason, TimerExpires, QuitEndsLoop |
| timer_id | as above, two functors may be pending, no fairness | violated: the id returned is the timer's | IdNamesItsTimer |
| coroutine | 3 coroutines, an owner; 11k states | is each coroutine run, once, and the thread joined | TypeOK, ScanServesAll, TasksConserved, QueuedRuns, YieldedResumes, RunningLoopIsJoined |
| thread_quit_lost | as above | violated: the destructor returns | DestructorReturns |
| poller | 2 channels, 2 descriptors, event list of 1, both pollers; 728k states | do the books agree, whatever a callback deletes, and is every event handled | TypeOK, AssertsHold, KernelSeesInterest, NoDanglingChannel, PollerPromise, ReadyIsHandled |
| log | 2 threads, 4 lines of 1 or 2 bytes, rollSize 3, a check at 3 lines, days of 2 seconds, every macro; 1.08M states | is anything lost, reordered, stale or misplaced | TypeOK, NothingLost, FilesBounded, FatalOnDisk, NothingStale |
| logprint | 12 bytes, two calls with every kind of directive; 5k states | is the text right, and cut off where the buffer ends | TextAsAsked |
| echo | 4 servers, 2 clients, one with zeros in its bytes, 2 descriptors and one or both of them allowed, a buffer of 2 bytes, 3 bytes under way to the server and 1 back, an event list of 1; 542k states | do counts and descriptors agree, do the two lists of a server, is every client answered as promised and none starved | TypeOK, OpenWhileHeld, BooksAgree, FreshEventsFind, EchoPromise, NobodyStarves |
| config_reload | files of two lines, edited between calls of load() | violated: loading the edited file takes effect | ReloadTakesEffect |
| shared_socket | 1 connection, 2 threads | violated: a descriptor lives as long as its handles | LivesAsLongAsHeld |

Why the bounds are enough. Pool: two workers and two tasks let
one worker run, sleep or be on its way while the other takes, and a signal meet each of these; the safety
properties of this run are also proved for every size, and so are three that no run checks (PopHasTask, BusyMeansAllBusy, LatchWakeNotLost). Timers: two addresses and
two timers let a stale id meet a reused address within MaxTimers and two timers share a
batch; one pending functor lets a cancel come between an insertion and the end of its round, and the safety properties of this
run are proved for any number; the clock begins at 1, and at MaxTime a one-shot timer made at the start is due and a
repeating one for the second time, and no timer is made from then on; past it the clock
only runs on for a timer already due by then, so that the bound hides no expiry. Coroutines: three
are enough to erase one, create one and have one suspended in one scan. Poller: with two entries a removal
swaps or pops, and one event-list slot for two descriptors makes the list full and
double. LogPrint: twelve bytes are less than most pairs of directives, so that each piece of each directive meets the end; the arguments are the ends of the types and their neighbours. Log: four lines roll by size and by count, four seconds span two days and let two rolls share a second.
Echo: two clients over two descriptors let a descriptor and a guard be used again while the loop still goes
through its lists, and vector::erase assign; three bytes fill the buffer of two and leave one; one byte of room
makes a write short and fills the connection; a list of one event doubles and then has an end that is stale; with one descriptor
allowed accept fails while a client is served. In shared_socket one connection is enough: its two threads share one count.
ConfigFile: an item edited between two loads needs one line; the second holds comments and items twice in one file.
CHECK_DEADLOCK is off where the system may stop: a pool after stop(), a loop after quit(),
a thread after its end, a process after abort() or undefined behaviour, or a bound reached.

Symmetry is used for runs without liveness properties only; the values concerned are compared
for equality only.

### Fairness
ThreadPool: weak fairness of each worker, of start() and of stop(): the system's
threads run and m_mutex is granted in the end. No call has to be
made, tasks end. Nothing is assumed of spurious wake-ups, so
no property leans on them. TimerScheduler: the loop, the calls in progress
and the clock go on; that poll's time-out of ten seconds would rescue a sleeping
loop is not used. CoSchedulerThread: both threads run, a coroutine yields or
returns in the end (the code is cooperative and cannot progress otherwise).
EventLoop: the loop runs, callbacks return, and ReadyIsHandled speaks of a program that does not run into undefined behaviour; the kernel may prefer the same
descriptor again and again as far as the list's size allows. EchoServer: the server's thread runs; nothing makes a
client connect, send, receive or leave, so NobodyStarves holds against clients that never do. It is about a server as long as it lives.

## What the code does not keep
1. **stop() can hang** (StopTerminates). m_stop is set and the broadcast sent without m_mutex,
   between a worker's test and its sleep. StopReturnsUnlessDozing is what remains true.
2. **add_timer reads a timer it no longer owns** (IdNamesItsTimer).
3. **quit() before start() is forgotten** (DestructorReturns), so ~CoSchedulerThread
   right after its start() may wait for ever; RunningLoopIsJoined is what remains true. TimerSchedulerThread has the same code.
4. **Two threads count the handles of one socket with a plain int** (LivesAsLongAsHeld), so
   that the descriptor of a connection of EchoServer_coroutine.cpp may be closed under its coroutine. One connection is enough: it
   takes one lost update.
5. **load() never replaces an item** (ReloadTakesEffect): map::insert keeps what is there, so that a configuration
   file that is edited and loaded again, as tools/config/README.md:8 proposes, changes no item it had.

Not a contradiction of anything written, but worth knowing:
- **No program survives a failing system call.** LOG_SYSERR and LOG_SYSFATAL save errno, and log() formats it with
  `" %s (errno = %d)"` and the int as its only argument (log.cpp:55): LogPrint takes strlen at the address errno (LogPrint.cpp:196-197). So an
  accept that fails for want of a descriptor, meant to be thrown and caught by the loops, ends the server and every connection it has
  (`AcceptFails`), and so do failing calls of the pollers (`SystemCallFails`) and of the timer scheduler (TimerScheduler.cpp:19, 28, 55, 63, 275, 283). A
  LOG_SYSFATAL line never gets to the flush that FatalOnDisk is about. EchoServer_coroutine.cpp accepts in a loop on a socket that does not block, so that it
  meets this as soon as no connection waits.
- **EchoServer_poller.cpp uses a channel after it deleted it.** on_message deletes the channel whose handle_event called it, and handle_event goes on
  to test m_revents and may call m_writeCallback or m_closeCallback (Channel.cpp:39-57). NoDanglingChannel says that nothing but such a deletion in the batch in hand leaves the loop a pointer
  without an object; what follows is `undefined`.
- A timer cancelled from the callback of another one that expired in the same batch still runs once, since
  handle_event does not look at m_cancelingTimers. CancelStands says what a cancel does achieve: the timer is not scheduled again.
- `m_threads(numThreads)` already has numThreads null handles before start() appends the real ones, and stop()
  joins them first (ThreadPool.cpp:14). The runs let that return an error or end the process (`NullJoinOutcomes`);
  StopReturnsUnlessDozing and NoThreadSurvivesStop are what holds either way.
- EchoServer_select.cpp sets maxfd to the newest descriptor, not the largest: after a low descriptor
  is used again, connections above it are not seen by select (`Overlooked`).
- EchoServer_epoll.cpp goes through all of its event list, not the first nready entries, and
  dereferences end() on what an earlier call left there. FreshEventsFind says that this is the only way to do so, and that beside it only a failing accept ends a server in undefined behaviour: one of a connection that is there, but for the
  blocking server, which waits in accept.
- NothingStale is about lines at the end of an append. Without another line the last ones stay in the stream until the LogFile is destroyed.
- EchoServer.cpp and EchoServer_poll.cpp answer with strlen of the buffer: an answer ends at a zero byte,
  and runs past a buffer that is full of text. All servers ignore what write returns, and none ignores SIGPIPE. Echo, the abstract
  specification, grants each server exactly this (`exact`, `waits`, Answers).
- pd.revents in EchoServer_poll.cpp is pushed without ever being set (`pdRevents`).
- ConnSocket::set_no_delay calls set_keep_alive (ConnSocket.cpp:70).
- LogFile looks at the day only when it looks at the clock, every checkEveryN lines: up to that many lines of
  a new day are in the old day's file.

## Proofs
All theorems are about the modules as TLC checks them, for every value of the constants
under the assumptions the modules name: finite sets of workers and clients
(PoolAssumption); finite descriptors, NoFd no descriptor, a positive event list size
(FdsAssumption, WantedAssumption, SizeAssumption); natural sizes and intervals,
positive where the code divides or counts (LogFileAssumption); for the server over select no limit beyond FD_SETSIZE (SelectAssumption); positive delays and interval,
NoAlarm no point of time (TimerAssumption); a longest line, since a LogBuffer has an end (LogFileAssumption);
a buffer of a positive size and formats whose directives have arguments of their type (CapacityAssumption, FormatsAssumption); a finite table of descriptors above the listening one (SocketsAssumption,
LoopAssumption).

**ThreadPoolProofs.** `Inv` says what a worker knows at each point of thread_func: who holds
the mutex between `test` and `pop` (MutexInv), that a worker about to sleep has seen an empty queue that
nobody could fill since (DozeInv), that the latch's count was not zero (CountInv), that after the
loop there is a stop or a task (DecideInv). PopHasTask alone is
not inductive: the second look at m_stop is not protected by the mutex, but m_stop never falls and the queue is.
From Invariance: TypeCorrect (with RunningInv, m_runningNum
is the number of running workers), BusyWarningTrue, LatchAlwaysWakes, WorkIsConserved (the
balance of tasks against signals and free workers, action by action), StopJoinsAll (with JoinInv, handles
joined so far are of exited threads and every created thread has a handle) and PoolServesInOrder (each step is a step of
TaskQueue or a stutter).

**TimerSchedulerProofs.** For any addresses, threads and delays. TypeInv stands alone: a thread that has queued an insertion remembers
its timer (MadeInv). HeapInv gives each live timer one place, the sets, the expired batch or a queued insertion (PlaceInv), each
insertion being queued once (OnceInv). It also says which ids a cancel has stopped: none that waits for its insertion, and of
the batch exactly those m_cancelingTimers holds (StoppedInv); no sequence number is ahead of
Timer::m_sNumCreated (SeqInv), so that a new timer on an old address is a new id. SetsAgree, NoDangling and CancelStands are inductive only together with these: an
insertion that ran twice, or a timer in the batch and in m_timers at once, would break them several steps
later. WakeupNotLost and AlarmCovers speak of the loop at its poll; WakeInv and AlarmInv say what holds at every other point. From
TimerInvariance: TimerTypes, BothSetsAgree, NothingDangles, CancelsStand, NoWakeupIsLost, AlarmIsSet and EachDeathHasAReason (DeletedForAReason, action by action).

**PollerProofs.** `IInv`: a channel is stored under its own descriptor exactly when its mark
is not kNew, and no two objects share a descriptor (StoreInv, IndexInv, FdInv). PollInv ties marks to
places in the array in both directions, which is what makes the swap in remove_channel right; EPollInv ties
the kernel's list to the map. From it: AssertsNeverFail,
KernelKnowsInterest, BatchIsAlive, PollerTypes, and BothPollersPromise (each step of either poller is
one of the abstract Poller or a stutter). BatchIsAlive is the whole of NoDanglingChannel: with deletions of any removed channel at any time, what the
loop still points to exists or is in `dead`, which only such a deletion adds to.

**LogProofs.** `IInv` adds Recent to the types and LossBounded: every buffered line was written
at or after m_lastFlush, which is not ahead of the clock. This is where a monotone clock is
needed. From it CrashLosesFew (LossBounded, which no run checks), AppendLeavesNothingStale and LogTypeCorrect.
FatalReachesDisk (FatalOnDisk) needs two facts more: every number up to `written` is on the disk or in the stream (KeptInv), and a
thread's FATAL line has been written (FatalInv). MacroStep reduces the seven macros to a move of one thread; then the flush between output and abort puts all of them on the disk, and nothing takes a line off it.

LinesInOrder (NothingLost) and FilesStayBounded (FilesBounded) are about sums over sequences, which a proof cannot unfold to their
end. OrderInv therefore names, for each file, how many lines come before it: the counts add up, each file goes on where the one
before it ends, and so does the stream after the open file, which has the latest name. NothingLost follows from it, but is not inductive: it does
not say that the open file is the last one, and a flush into an earlier file would reorder what NothingLost
reads. BytesInv says of the open file what FilesBounded says of the closed ones, and more: its latest opening has used writenBytes and no
more, so that the next line may be the one that goes beyond rollSize. The lemmas on FlattenSeq and Bytes take one element at a
time and are proved from the least counterexample: the lengths at which one fails would have a least element (LeastExists), and
the step before it gives the contradiction. This is how the project does induction over data without an induction rule.

**LogPrintProofs.** TextIsAsAsked, for any capacity, any well formed formats and any number of calls. The invariant is TextAsAsked
itself; the work is in what one directive does. CutAppends is the core: appending to a cut text and cutting is cutting the longer text. It
holds because append takes what fits of a piece, and what is full takes nothing. From it, each conversion is shown to append its
text (PrintsNumeral, IntegerIs, PointerIs, FloatIs, PrefixFolds, DirectiveIs), then a format (DirectiveFolds), then a call (StepText). On the
way: NumStringIs, the division loops of printf_num write the digits of positional notation (a least number spelled otherwise would have
a rest spelled otherwise); IntegerValue, negating the least number gives its magnitude; Scales, the whole and the rounded fraction with its
carry are quotient and remainder of the double scaled as a whole. The widths of the integers (8 and 16 bits) and MaxFrac are definitions,
so that the theorem is about these.

**CoSchedulerProofs.** For any set of tasks. `IInv` adds to the three properties what they lean on: a coroutine is RUNNING exactly
when the thread is inside it and FINISHED only between its return and its erasure (StatusInv);
the iterator points into the map or to its end, and to the current coroutine while one runs (PosInv); every number below the
iterator has been switched to (ScanInv), which is the inductive form of ScanServesAll. Moving the iterator keeps ScanInv
because After is the least number above (AfterIsNext), and a least number exists because the naturals are well-founded.
From Invariance: CoroutineTypes, ScanReachesAll, NoTaskIsLost and CurrentIsInMap (the
asserts of yield() and schedule()).

**EchoServerProofs.** For any clients, descriptors, limits and buffer sizes. `Inv` has the counts and handles (HeldInv, with NewInv: a descriptor
just accepted is in no handle, because an open one has a count), no descriptor twice in a pool (DistinctInv), and for each
server what ties its list to the pool. During vector::erase both are broken on purpose: one position is a hole
that repeats its neighbour or holds what is to go, and SelectInv speaks of the others (Solid), while OpenWhileHeld counts the hole
too; this is why the count survives every assignment. FreshInv says that what epoll_wait has just
reported and the loop has not yet reached is still waited for. From EchoInvariance: EchoTypesKept, HandlesAreCounted, ListsAgree and ReportedEventsFind. The
last needs HeardInv besides: between the call that reported the listening socket and the accept the queue does not become empty, since only the server takes from it.

**EchoPromiseProofs.** EchoServersPromise: each step of a server or of a client is a step of Echo or a stutter. It needs two facts beyond `Inv`.
LineInv says where a client is: at most once in the listening queue (QueueInv), otherwise behind at most one descriptor (FileInv), and what was
under way to a client that has left is gone (GoneInv); without it an accept might serve a client twice, which Echo has no step for. EraseInv is about
vector::erase, whose assignments copy handles over each other: the only handle that a copy may close is
that of the connection to be erased, and its client is at its end. An assignment that closes nothing is a stutter. The lemmas before it state each kind of Echo's step once
(WelcomesClient, ReleasesClient, AnswersClient, ServesClient, ContinuesAnswer, ReadsAnswer), and each action of the servers cites one.

One remark on the prover. tlapm 1.4.5 tells Z3 that Len of every value is a natural number n and that 1 .. n is then its domain, which is false of a
function on 0 .. n: an obligation that knows of such a function and of sequences may be proved by that contradiction. Z3's obligations of all eight
modules were therefore run a second time with this axiom weakened to sequences; none depends on the stronger one.

Only model-checked: the ten liveness properties (TaskServed, StartReturns, StopReturnsUnlessDozing, TimerExpires, QuitEndsLoop, QueuedRuns,
YieldedResumes, RunningLoopIsJoined, ReadyIsHandled, NobodyStarves), because fairness and ENABLED are out of the prover's reach. Every invariant,
action property and refinement of the passing runs is a theorem.

## Not modelled, and why
System-call failures other than those of accept, read and write on a connection, and of the pollers: those of the timer scheduler and of the
set-up of a socket end in the same log call (see above). Socket
options, readv, addresses (InetAddress, Endian): no state a property could tell apart. The words of log lines (LogPrint has their
conversion). TimerSchedulerThread (same text as CoSchedulerThread). Exception, CurrentThread, ProcessInfo: no state of their
own. Singleton: one pthread_once. What ConfigFile::get makes of an item's text. The clock stepping back; time zones. EchoClient.cpp is one of the clients Sockets allows. quit()
writing the eventfd of a scheduler that has gone: an object used after its end, after which a model has nothing to say. A descriptor of FD_SETSIZE or more in an fd_set. The
overflow of the number of coroutines, which is in Nat here.
A second concurrent stop(); the call of stop() while start() still appends to m_threads (a data race on the vector);
a cancel in the loop thread of a timer whose insertion is still queued, which finds nothing to cancel.

## Plan
1. Done: pool, timers, coroutines, pollers, log, printf, configuration file, sockets and five echo servers; proofs of every
   safety property and of all three refinements.
2. ConfigFile: an invariant of load() worth a run of its own, then its theorem; so far its one run shows a disagreement.
3. What EchoCoroutine keeps when only one thread touches a socket at a time.
