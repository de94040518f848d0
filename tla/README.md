# Verification of linux_work

A TLA+ project beside the `linux_work` repository (`src/`): modules that model
its concurrent and stateful programs, TLC configurations that check them on
small instances, and theorems that TLAPS proves for every instance.

`src/` is one person's collection of Linux programs in C and C++, each in a
directory of its own; most are services or libraries of one to three hundred
lines. Vendored code (`Lib/`, `Httplib/httplib.h`, `Httplib/bundle.*`, the
copies of them in `Cloud/Config`) and data make up most of the tree and are
not modelled. There is no documentation apart from comments; where a model
disagrees with a comment, the comment is quoted.

## 1. Inventory

### 1.1 Backup server: `Cloud/Config`

The largest program. `code.cpp` starts two threads over one `DataManager`: the
HTTP server (a pool of handler threads) and the hot-file manager.

| part | state | operations |
|---|---|---|
| `util.hpp` FileUtil | files on disk: content, size, access and modification time | SetContent truncates and writes, GetContent, compare (pack), uncompare, Remove, DirectoryFile |
| `data_text.hpp` BackupInfo, DataManager | tables `file_info` and `ownership` behind one MySQL connection, a rwlock always taken for writing | Insert, Updata, GetOneByURL, GetOneByRealPath, Select, GetAll |
| `hot.hpp` HotManager | none of its own | RunModule: every file of back_dir not accessed for hot_time is packed and removed |
| `server.hpp` Server | none of its own | Upload, Download, ListShow, index, Login |
| `usr.hpp` | tables of users and cookies, the same MySQL connection without the rwlock | verify, get_cookie, cookie_verify |
| `sql.h`, `config.hpp` | two lazily created singletons | GetInstance |

Interaction: shared files and shared tables. A file's row says whether it is
packed (`pack_flag`), the disk says where its content is; the two are changed
in separate steps by handlers and by the hot-file manager, and only single
table operations are under a lock. Hard: every interleaving of Upload,
Download and RunModule on one file; what is done after a step that failed; a
crash between a file operation and the table update that goes with it. Correct
means: what was uploaded can be downloaded, a row never points at a file that
is not there when nothing is under way, and a download never returns anything
that was not uploaded.

### 1.2 Threads: `thread/`

* `semaphore/sem.hpp` Ring_queue: a ring of slots, two semaphores, two
  mutexes. Correct: no slot is used by two threads at a time; a bounded FIFO.
* `bloackQueue/BloackQueue.hpp`: a std::queue, one mutex, two condition
  variables, two watermarks. Waits are guarded by `if`. Correct: never do all
  threads wait, and a side that waits as a whole is woken. (Never popped when
  empty and never above its capacity it is not: see section 4.)
* `threadPool/ThreadPool.hpp` (and its copy in `socket/TCP`): a task queue, a
  mutex, a condition variable, N workers, a lazily created singleton. Correct:
  every task runs once, in the order of the pushes; one pool exists.
* `threadPool/paper.hpp`, the `thread/*` lock and pthread samples: demos.

### 1.3 Reactor: `my_muduo/source`, `tech_muduo/timeout`

* `Buffer.hpp`: a vector with a read and a write index. Correct: a FIFO of
  bytes whatever the growth and compaction.
* `Channel.hpp`, `Poller.hpp`, `Socket.hpp`, `text.cpp`: one event loop over
  epoll, channels with callbacks. Correct: whatever is ready is reported, and
  a reported channel was accepted and has its callback. (That it is handled
  soon, once, or that a closed one is removed does not hold.)
* `timewheel.hpp`: a wheel of 60 lists of shared pointers, a map of weak
  pointers; a task runs in its destructor. Correct: a timer fires once, when
  its delay is over, later when refreshed, never when cancelled.
* `Any.hpp`, the regex and HTTP samples: value types, demos.

### 1.4 Network programs: `protocol`, `socket`, `poll`, `HttpServer`

* `protocol`: a calculator over TCP with `len\ncontent\n` frames, a process
  for each connection. Correct: an answer belongs to the request it answers,
  however the bytes arrive.
* `socket/TCP`: an echo/dictionary server on the thread pool, a client that
  reconnects. `socket/UDP`: a chat relay with a table of users.
* `poll`: the same echo server over select, poll and epoll, single-threaded
  over blocking sockets, with a table of descriptors that is scanned after each
  wait. Correct: everyone in the table is listened to, the scan never blocks,
  and who hangs up leaves the table. `HttpServer`: a thread per connection.

### 1.5 Processes: `pipe_use`, `System_V`, `signal`, `shells`

Process pools over pipes, FIFO chat, message queues, shared memory, shells.

### 1.6 Libraries and samples

`myfile/file/Mstdio.c` (buffered output), `random_iterator` and
`stack_queue_priority` (containers), `word/app.py` (a Flask service over JSON
files), `MySQL`, `com`, `Colors`, `GDB_text`, `PCB`, `process_bar`, `compile`,
`makefile`.


## 2. Plan

Order: first what has the most to lose (files of the backup server) and what
is hardest to test (threads), then the reactor, then the network programs.

| stage | modules | state |
|---|---|---|
| 1 | `RingQueue` implements `BoundedFifo`; `RingQueueProofs` | done |
| 1 | `CloudStore` implements `BackupStore` | done |
| 1 | `BlockQueue`; `BlockQueueProofs` | done |
| 1 | `ThreadPool`; `ThreadPoolProofs` | done |
| 1 | `Buffer` implements `ByteStream`; `BufferProofs` | done |
| 1 | `TimeWheel` implements `Timers`; `TimeWheelProofs` | done |
| 1 | `Reactor`: channels, poller, loop and clients | done |
| 2 | `FdServer`: the select and the poll server, one module; `FdServerProofs` | done |
| 2 | `Calculator`: frames over a stream that arrives in pieces | done |
| 3 | theorems: `ReactorProofs`, `CloudStoreProofs`, the refinements of `RingQueue` and `TimeWheel`, order of the pool's tasks, growth of `Buffer` | done |
| 4 | theorems: the backup server with overlapping requests | done |
| 5 | theorems: the backup server file by file, with kills and any number of handlers; no deadlock in `RingQueue` | done |

What was considered and is left out, with the reasons, is in section 6.

## 3. Modules

In every module one step is what no other actor can interrupt: a section
between lock and unlock, a semaphore operation, a system call, a table
operation, a callback of a single-threaded loop. What is printed or logged is
left out. Definitions whose comment starts with "Mutant" are deliberate errors,
used by no specification; they show that a property notices such an error.

### 3.1 `BoundedFifo`, `RingQueue`, `RingQueueProofs`, `MCRingQueue`

`RingQueue` is `Ring_queue` of `thread/semaphore/sem.hpp`. State: the ring,
the two indices, the values of `pro_sem_` and `com_sem_`, the owners of the two
mutexes, and for each thread where it is in `push` or `pop`. Each access to
shared state is a step: wait, lock, store or fetch, advance the index, unlock,
post. `BoundedFifo` is what callers are told: a value goes in once, comes out
once, in order. The refinement maps the abstract sequence to the slots from
`data_pos` to `space_pos`, without the one a consumer has just read.

### 3.2 `BackupStore`, `CloudStore`, `CloudStoreProofs`, `MCCloudStore`

`CloudStore` is the backup server. State: the content of every path of
`back_dir` and of the archive directory, whether a file's access time is older
than `hot_time`, the rows of `file_info`, and the program counter and locals of
each handler and of the hot-file manager. Upload (open with truncation, write,
stat, insert), Download (row; for a packed file the archive is read, the file
opened, written, the archive removed, the row updated; then the file is read)
and RunModule (list; for each cold file row, read, archive, remove, update) take
one step for each system call and table operation. Reading is four of them, as
in `GetContent` and `GetPosLen`: stat, open (`...Begin`), stat again and
`resize` (`...Check`), read. A file removed while somebody has it open for
reading is still read (`kept`); one truncated after the second stat fails to be
read and leaves as many zeros as it was long, which `Download`, who looks at no
result, sends as an answer (`Zeros`); and with both stats failed `resize` throws
and the HTTP library answers 500 (`Fail`).

Two things are told of a version: what it is, and what an ETag can say of it.
`GetETag` is the name, the size and the second of the last write: `ETags[v]` is
the set of sizes and seconds version `v` may be stored with, and two versions
may have some in common. Contents themselves have one size or are empty.
`Serial` runs
requests and the manager's files one at a time; `Prompt` says that no file
turns cold while a request for it is served; `DiskMayFail` lets opening and
writing fail; `CrashLabels` says where the process may be killed (all threads
lose their locals, disk and table stay). `BackupStore` promises that a
download, which overlaps no upload of its file, answers with the last version
uploaded; packing does not show.

### 3.3 `BlockQueue`, `BlockQueueProofs`, `MCBlockQueue`

`BlockQueue` of `thread/bloackQueue/BloackQueue.hpp`. A call of `push` or `pop`
is one step, or two when it waits. A signal takes one waiting thread at random
out of the wait; it then competes for the mutex, and does not look at the queue
again, because the code waits under `if`. A wait may also return without a
signal, at any time. So a consumer may find an empty queue. `front()` and
`pop()` are then undefined, and the model follows libstdc++: `front()` reads
what memory holds (`Garbage`), `pop()` moves the front past the back, so that
`size()` wraps to a huge number and the next push only brings the back up to the
front again (`missing` counts by how much); or, at the edge of a block of
memory, the process ends (`PopBreaks`). A producer that was woken may push
beyond `max_`, after which `size() == max_` stops nobody.

### 3.4 `ThreadPool`, `ThreadPoolProofs`, `MCThreadPool`

The pool of `socket/TCP` (the same as in `thread/threadPool`) with its server:
`Start` (a worker thread begins), `Accept` (accept and Push with its signal),
`Sleep`, `Take`, `SpuriousWakeup` of `Handle_Task`, `Echo` and `Leave` of
`task::run`, `Send` and `HangUp` of clients.

### 3.5 `ByteStream`, `Buffer`, `BufferProofs`, `MCBuffer`

`Buffer` of `my_muduo/source/Buffer.hpp`: the vector, the two positions, and
one action for each public operation that changes them; all lengths the
code's asserts allow, also for `MoveWriteOffset` beyond what was written, which
commits what the vector happens to hold. `staged` is a history variable: what was written and not
yet committed by `MoveWriteOffset`. `ByteStream` is a sequence to which bytes
are appended and from whose front they are taken.

### 3.6 `Timers`, `TimeWheel`, `TimeWheelProofs`, `MCTimeWheel`

`TimeWheel` of `my_muduo/source/timewheel.hpp`: slots with the shared pointers
they hold, `tick`, the map of weak pointers, the tasks' cancel flags; the
destructor runs when the last slot that holds a task is cleared. Where the code
increments an iterator it has just erased, the model chooses between going on
(`RunTimeTask`) and the end of the process (`RunTimeTaskBreaks`): `clear()`
destroys the tasks of a slot one after the other, each callback followed by its
`Remove`, so that any of the tasks that are due, but at least one, have run by
then. `Timers` counts down the ticks of each timer, and says when the process
may end: in a tick that has run a timer, and in the refresh of one that is not
armed.

### 3.7 `Reactor`, `ReactorProofs`, `MCReactor`

The loop of `my_muduo/source/text.cpp` over `Channel.hpp` and `Poller.hpp`,
with a model of epoll's interest list and of the clients. `Poll` and
`PollInterrupted` are the two returns of `Poller::Poll`, `Listen` and `ReadCb`
the callbacks that `HandleEvent` runs, `Adopt` the setters `Listen` calls on a
new channel; `Connect`, `Send` and `Close` are what clients do. Readiness is
level-triggered and follows from the clients and from what is read. The read of
an accepted descriptor blocks: `ReadCb` is enabled only when there is something
to read. `accept` may fail although a client waits, as `ReadCb` closes nothing
and descriptors run out; `epoll_wait` reports at most `EventsMax` at a time. `actives`, which the loop never clears, grows up to `MaxActive`.

### 3.8 `FdServer`, `FdServerProofs`, `MCFdServer`

`SelectServer.hpp` and `PollServer.hpp` of `poll/`. The two have the same
table, `link`, `Recver` and scan, and differ in what they ask the kernel for and
where they find its answer: `api` says which one runs. State: the table, the
kernel's answer, the slot the scan is at, who is behind each descriptor, the
backlog, what clients sent. `Wait` is select or poll, `Link` an accept with the
search for a free slot, `Recver` a read with its three outcomes; `Connect`,
`Send` and `Hangup` are the clients. Linux gives out the lowest free
descriptor. Where the two servers go wrong at their limits the model follows:
with the table full the accepted descriptor is neither stored nor closed, and
with all descriptors in use accept fails and the process exits
(`socket.hpp:82`).

### 3.9 `Calculator`, `MCCalculator`

`protocol/`: the loop of the client, the loop of the process the server forks
for a connection, and the frames between them, character by character, as the
properties are about pieces of texts: `Encode`, `Decode`, `Response` and the
texts of requests are translated as operators, with `atoi` and `to_string`
as far as they use them. A read of the server returns any prefix of what is
on its way. `torn` is a history variable: the request was read in pieces.

## 4. Runs

| run | configuration | expected | what it shows |
|---|---|---|---|
| `ring_queue` | `MCRingQueue.cfg`, 2 producers, 2 consumers, 2 values, 2 slots | pass | types; the semaphores conserve slots; no two threads in a slot; the positions agree with the counts; a bounded FIFO; every value leaves |
| `cloud_serial` | `MCCloudSerial.cfg`, 1 handler, 2 files, 3 versions, one thing at a time | pass | types; a 206 answer is a version that the ETag of its If-Range fits; implements `BackupStore` |
| `cloud_downloads` | `MCCloudDownloads.cfg`, 2 handlers and the manager, 1 file, concurrent | pass | after the upload no interleaving of downloads and packing loses the content; rows tell where; a cold file is packed in the end |
| `cloud_crash` | `MCCloudCrash.cfg`, 1 handler, 2 versions, a kill anywhere but in the two restoring or packing writes | pass | an announced version survives on disk |
| `cloud_upload` | `MCCloudUpload.cfg`, 1 handler, 2 versions, failing disk | violation | "Upload success!" of a content that is nowhere |
| `block_queue` | `MCBlockQueue.cfg`, 2 producers, 3 consumers, the default macros, wakeups without a signal at any time | pass | types; never all waiting; when all consumers wait, or all producers, one is woken in the end |
| `thread_pool` | `MCThreadPool.cfg`, 2 workers, 3 connections, spurious wakeups | pass | types; no wakeup is lost; one owner for each connection; tasks begin in order; when clients leave every connection is served |
| `buffer` | `MCBuffer.cfg`, initial size 2, writes up to 2, size up to 4 | pass | types; staged bytes stay; implements `ByteStream`; grows only when moving makes no room |
| `time_wheel` | `MCTimeWheel.cfg`, 3 slots, 2 ids, 3 tasks, timeouts 1 to 3 | pass | types; a pending timer is found; a task lives as long as a slot holds it; implements `Timers`, the end of the process included |
| `reactor` | `MCReactor.cfg`, 2 clients, 9 entries in `actives` | pass | types; epoll_wait never sleeps on work; whoever is in the vector was accepted and has its callback and event (when its turn comes is not said) |
| `fd_servers` | `MCFdServer.cfg`, both servers, 3 clients, 2 descriptors for them | pass | types; select is asked about everyone in the table; the scan never blocks; who hangs up leaves the table |
| `calculator` | `MCCalculator.cfg`, operands 7, 12 and 0, 3, 34, six operators, requests in any pieces | pass | types; an answer is never that of another request; only a torn request goes unanswered |

The violation is a disagreement between the code and its own message; the text
is quoted in `PROJECT.json` under `findings`. It needs no failing disk: with
`DiskMayFail = FALSE` an upload that meets the hot-file manager on the same
file ends in the same state (the upload truncates and writes while the manager
is between reading the old content and removing the file).

Known not to hold, and claimed by nothing in the repository:

* `CloudStore`: `NeverLost` with `Prompt = FALSE` (a file packed again while a
  slow download is about to read its archive) and with `DiskMayFail = TRUE`
  (`server.hpp:189` removes the archive although unpacking failed), or when two
  uploads of one file overlap; `Durable`
  with a kill inside the write of the restored file or of the archive, or with a
  kill while two threads work on one file (`NeverOffDiskPerFile`: otherwise it
  holds); `PartialFitsETag` and `ImplementsStore` with kills. A 206 need not
  carry the version the client has part of: one of the same size uploaded within
  the same second has the same ETag (`PartialIsSameVersion` is proved for when
  there is none). A 200 may carry nothing, or zeros, when the file is packed or
  restored as it is read.
* `BlockQueue`: that it is a bounded FIFO. With several threads on a side, as in
  `text.cpp` with its five consumers and three producers, or with wakeups
  without a signal, who is woken does not look at the queue again: a producer
  exceeds `max_`, and a consumer pops from an empty queue, gets `Garbage` and
  breaks the queue, so that later values are lost. Nor is one consumer beside
  others ever sure to be served: those may take each value before the queue
  passes the high watermark.
* `Reactor`: that the loop never waits in `read`. A channel of an earlier round
  is handled again with its old `_revent`, and when nobody wrote to that
  descriptor since the loop stands still for all clients, those in the vector
  after it included. Of the setters no program
  calls, `DisableAll` does not reach epoll, `SetwriteCb` assigns `_read_cb`, and
  an error runs `_event_cb` twice and `_error_cb` never.
* `FdServer`: that the process stays, and that a connection is served: see 3.8.
* `Calculator`: `RightAnswer` with `TornAnswers = TRUE` (an answer that reaches
  the client in pieces is misread) and for a client that sends ahead; that a
  request which arrives in pieces is answered: the server replaces what it has
  read by what it answers, the piece is gone, and both sides wait.

### Bounds, and why they are enough

* `RingQueue`: two threads on each side are the fewest that compete for a
  mutex; two slots are the fewest that are full, empty and between. Safety and
  the refinement are proved for every number of threads and slots.
* `CloudStore`: two handlers and the manager are every pair of actors that can
  meet on one file (for any number of handlers the safety of `cloud_downloads`
  is proved), and one file suffices as no step touches two (the theorems about
  files one by one are proved for any number of them); `cloud_serial`
  has two files so that the manager's listing has more than one entry. Each
  version is uploaded once: three show that an old one never comes back. Two of
  the three (`MCETags`) are of one second and share an ETag, the third has
  another. Zeros come up in `cloud_downloads`; status 500, which needs a path
  that is missing at both stats and there when it is opened, only with
  `Prompt = FALSE`.
* `BlockQueue`: max_, low and high level are computed as the code does with
  `NUM` of 5; two producers and three consumers, so that a woken thread is
  overtaken by one of its side while another waits. `Limit` = 7 lets the queue
  pass `max_` by two and `MissingLimit` = 2 lets two pops go past its end; both
  are bounds of the model. No property tells values apart, and one is enough.
  `NotAllWaiting` is proved for all numbers of threads and all levels with
  1 <= low <= max and high < max.
* `ThreadPool`: fewer workers than connections, so that the queue fills.
* `Buffer`: `MaxSize` of 4 with writes of 2 reaches each of the three ways to
  make room and growth twice. Safety and refinement are proved for all sizes.
* `TimeWheel`: `Cap` of 3 with timeouts up to `Cap` wraps; three tasks let a
  cancelled task, its successor and another live together.
* `Reactor`: two clients and the listener are what a batch needs to have an
  order; nine entries in `actives` are several rounds of the loop.
* `FdServer`: `Listen` = 1 and `FdLimit` = 4 leave two descriptors to three
  clients, so that a descriptor is given out again and accept fails; select's
  table has a slot for every descriptor and poll's has fewer, as with the 1024
  and 64 of the code. A client connects once and has at most one line unread
  (`MaxUnread`). The safety properties are proved for all sizes.
* `Calculator`: one and two digits on each side, so that a piece of a request
  may itself read as a request; a divisor of 0, results below 0 and of up to
  three characters, an operator it does not know. One connection: they share
  nothing. Answers reach the client whole (`TornAnswers = FALSE`).

### Fairness

* `RingQueue`, `BlockQueue`: weak fairness of each thread's steps: the
  scheduler runs every thread that can run. A thread whose semaphore or mutex is
  again and again taken by others is not promised anything, and the properties
  speak of values, or of all the consumers or producers together.
* `CloudStore`: weak fairness of the manager's thread. That files turn cold is
  not assumed: `ColdFilesArePacked` speaks of files that are and stay cold.
* `ThreadPool`: weak fairness of the start and of each worker.
  `PoliteSpec` adds `ClientsLeave`, that each client leaves in the end; the code
  does not enforce it, and without it as many silent clients as workers stop the
  server. `EveryConnectionServed` is a statement under that assumption.
* `FdServer`: weak fairness of the one thread; clients owe nothing.
* `Calculator`: weak fairness of each step of the client and of the server
  process. That of `Serve` is written out with its enabling condition, that the
  process is in its inner loop.
* `Buffer`, `TimeWheel` and `Reactor` have no liveness property and
  state no fairness.

`CHECK_DEADLOCK` is off where the program may stop: `MCTimeWheel.cfg` (the
process ends), `MCBlockQueue.cfg` (likewise), `MCReactor.cfg` (epoll_wait sleeps when all clients are idle,
and the loop stops at `MaxActive`), `MCFdServer.cfg` (select and poll sleep, and
the process may exit).

## 5. Proofs

All hold for every value of the constants that satisfies the named
assumptions (`CapAssumption`, `ThreadsAssumption`, ... beside the constants).
Each module proves one inductive invariant as `Invariance`, by a lemma for the
initial states and one for each action, and reads the others off it. A
hypothesis beyond the assumptions is in the theorem, as ASSUME.

| module | theorem | property | the argument |
|---|---|---|---|
| `RingQueueProofs` | `TypeCorrect`, `SlotsConserved`, `PositionsAlwaysAgree`, `Exclusion`, `NoRace` | `TypeOK`, `Conservation`, `PositionsAgree`, mutual exclusion, `NoSlotRace` | `IInv` adds who owns the mutexes. The threads between wait and post are counted (`Cardinality`): free slots + filled slots + those under way = `Cap`, which bounds the distance of the positions, and equal slots at different positions would be `Cap` apart |
| | `IsFifo` | safety part of `ImplementsFifo` | `Stored`: a producer that is about to advance has its value in the slot. Advancing is then a Put and fetching a Get; the slot of a store under way is outside the mapped sequence |
| | `NoDeadlock` | some thread can go on (`SomeoneRuns`) | with a thread on each side. Who owns a mutex runs; a mutex without an owner (`MutexOwners`) is taken by who wants it; when all are in `sem_wait` no slot is under way and the two semaphores add up to `Cap`. The run checks it as the absence of deadlock |
| `CloudStoreProofs` | `TypeCorrect` | `TypeOK` | in any interleaving, with failures and kills: what may lie under which path, and that the manager writes archives only and handlers never do |
| | `NeverOffDiskPerFile` | `Durable` | any number of handlers, requests and passes that overlap and take as long as they like, kills: under `SafeDisk` (a disk that works, no kill inside a restoring or packing write) for as long as `FilesApart` holds (no two threads on one file). `Orderly`: a file nobody works on is `Settled` (its announced version is in `back_dir` or in its archive), and `WorkAt` says what the thread that works on a file knows at each of its steps. A step on one file leaves all that is said of the others (`Undisturbed`) |
| | `RowsRightPerFile`, `PartialFitsPerFile`, `IsStorePerFile` | `RowTellsWhere`, `PartialFitsETag`, `ImplementsStore` | besides, no kills: then `pack_flag` agrees with the disk whenever a file is settled, and every answer is that of `BackupStore` |
| | `NeverOffDisk`, `NothingLost`, `RowsRight`, `PartialFits`, `IsStore` | `Durable`, `NeverLost`, `RowTellsWhere`, `PartialFitsETag`, `ImplementsStore` | under `OneAtATime` (one request or hot file at a time, and `SafeDisk`). There `FilesApart` is no hypothesis: with `Serial` one thread is at work at all (`OneWorks`, `SerialApart`) |
| | `PartialIsSameVersion` | a 206 is the client's version | besides, `ETagsDiffer`: no two versions of one size and second. Then the ETag a body fits names it |
| | `NothingLostWhenApart`, `RowsRightWhenApart` | `NeverLost`, `RowTellsWhere` | requests and passes overlap, under `PromptService` (a working disk, no kills, no file turns cold while it is served), as long as `UploadsApart`: an upload has its file to itself. `FilesRight` says for each file which of three things is going on: it is `Unannounced` (being uploaded), in the manager's hands (`Packing`: downloads have then found it in `back_dir`, or not looked yet) or in those of downloads (`Shared`: several may restore it at once; the archive, while it is there, is right, and the file is missing only while the archive is there). A step of one thread leaves to the others what they rely on (`RestoresAt`, `ServesAt`), and what a removed file held for its readers is right because who has a file open for writing is about to write it (`Writes`) |
| | `AnswersTrueWhenApart` | answers | likewise: an answer carries the version announced, or nothing, or zeros, when the file was being packed or restored as it was read |
| | `NothingLostOneUpload`, `RowsRightOneUpload` | `NeverLost`, `RowTellsWhere` | with one version `UploadsApart` is an invariant (`OneUpload`): this is `cloud_downloads` for any number of handlers |
| `BlockQueueProofs` | `TypeCorrect`, `NobodyStranded` | `TypeOK`, `NotAllWaiting` | `Watermarks`: all producers wait only while the queue is not below `low_level`, all consumers only while it is not above `high_level`; the pop or push that passes a watermark signals one of them, and the last thread of the other side waits only when the queue is empty, or full, on the far side |
| `ThreadPoolProofs` | `TypeCorrect`, `WakeupsSuffice`, `Ownership`, `InOrder` | `TypeOK`, `NoLostWakeup`, `OneOwner`, `TasksInOrder` | `QueuedOnce`: a connection is queued once and not while it is owned; so the queue is shorter than the number of connections, by an injection |
| `BufferProofs` | `TypeCorrect`, `StagedStays`, `Refinement`, `GrowsOnlyWhenFull` | `TypeOK`, `StagedInPlace`, `ImplementsByteStream`, `GrowsWhenFull` | the bytes behind the write position are those `staged` remembers; a lemma for each way to make room says that the readable bytes do not change |
| `TimeWheelProofs` | `TypeCorrect`, `Reachable`, `Lifetimes` | `TypeOK`, `Findable`, `HeldBySlots` | `EntriesLive`: the map's entries point at live tasks of their id or are expired |
| | `IsTimers` | `ImplementsTimers` | `Timed`: of the slots that hold a task one is the latest, and it is no further than the timeout. So a refresh decides when the task runs, and the task goes exactly when its latest slot is the one under the hand. A tick in which the process ends has run some of the timers due |
| `ReactorProofs` | `TypeCorrect`, `RecordsAgree`, `Awake`, `NothingDropped` | `TypeOK`, agreement of the four records, `NeverSleepsOnWork`, `NoEventDropped` | the events asked for, the callbacks, `_channels` and epoll's interest list are kept by three classes and are all the listener and the accepted clients |
| `FdServerProofs` | `TypeCorrect`, `SlotsInStep`, `SelectHearsAll`, `TriggerNeverBlocks` | `TypeOK`, slots and descriptors in step, `AllAskedFor`, `NeverBlocks` | the code never says it, but slot i holds descriptor `Listen` + i or nothing: the lowest free slot and the lowest free descriptor always meet. That is why the odd way in which select's `max_fd` is computed starves nobody |

Only model-checked: liveness (`EveryValueLeaves`, `ConsumersServed`,
`ProducersServed`, `EveryConnectionServed`, `ColdFilesArePacked`, `GoneAreFreed`, `Answered`),
which is out of the prover's reach, and with it the fairness conjunct of
`BoundedFifo`; and all of `Calculator` (`TypeOK`, `RightAnswer`), whose texts
are computed by recursive functions over digits and words, about which nothing
can be proved without induction.

`UploadsApart` and `FilesApart` are hypotheses about clients and about when the
hot-file manager passes, not about the server, which does nothing to enforce
them. `UploadsApart` is needed: with two versions TLC finds `NeverLost`
violated by two uploads of one file that write in one order and insert their
rows in the other, and what an upload that meets a packing pass ends in is
described in section 4.
Downloads of a file that has no row yet do not count, as they touch nothing.

## 6. Not modelled

Of the modelled components: bytes of file contents, names, HTML and JSON
(`CloudStore` has versions); the `ownership` table, failing queries, the pages
that only list; the destructor of `BlockQueue` and of the pool, which no program
reaches; descriptors of 1024 and more, which overflow the set select is given
(`FdServer` is about processes that may have at most 1024 open); a buffer written into itself; timeouts outside 1 .. capacity; the
setters, `Remove` and events of `Channel` no program calls; failing `epoll_ctl`.

Components left out, with the reason (`PROJECT.json` lists them all):

* login, cookies and the shared MySQL connection: what two threads inside one
  connection do to each other is the client library's undefined behaviour.
* configuration: read once, before there is a second thread.
* singletons (`Get_pointer`, `Config`, `sql.h`): the double-checked pointers are
  read without synchronisation, a data race on one word whose outcome the
  compiler decides; `sql::GetInstance` returns with its mutex locked, which one
  reads off the function.
* epoll server: it accepts and never reads; `Recver` is not called.
* TCP client: after five failed attempts it reads an uninitialised descriptor;
  before that one thread does one thing after another.
* UDP chat: one thread, one table of users that only grows; a datagram is
  handled to its end before the next is received.
* HTTP server: a thread for each connection, no shared state.
* process pools: the write ends of the pipes are inherited and never closed, and
  what would wait for the children is commented out; what is left is a loop.
* chats over FIFO and message queues, shared memory, shells: plain input and
  output, no synchronisation in the code to speak of.
* buffered output (`Mstdio.c`): `_fwrite` stores at the index of the descriptor
  and advances the descriptor, so there is no behaviour to specify.
* containers: sequential, within reach of unit tests.
* word service: Python beside the C++ programs. Its three routes load a JSON
  file, change the list and save it without a lock; two at a time lose an update
  (listed as a hazard).
* vendored libraries (bundle, cpp-httplib and their copies); samples without
  state; `paper.hpp`, which does not compile.
