# Specifications of ReactorHttp-Cpp

TLA+ models of the server in `src/ReactorHttp-Cpp/`, the TLC runs that check them on small
instances, and proofs about them for every value of their constants. File and line references
are to `src/ReactorHttp-Cpp/` unless they say otherwise.

- [The system](#the-system)
- [Modules and how they correspond to the code](#modules-and-how-they-correspond-to-the-code)
- [Runs](#runs)
- [What the code does otherwise than it says](#what-the-code-does-otherwise-than-it-says)
- [Bounds](#bounds)
- [Fairness and atomicity](#fairness-and-atomicity)
- [Proofs](#proofs)
- [Not modelled, and the plan](#not-modelled-and-the-plan)

## The system

A HTTP/1.1 file server for Linux. One **main thread** runs an event loop that accepts
connections and watches the signal pipe; **worker threads** run an event loop each and serve the
connections given to them; a **manager thread** shrinks the pool of workers when the load is low.
A connection stays with one loop until it is destroyed by that loop's thread.

| Component | State | Operations | Talks to |
|---|---|---|---|
| `EventLoop` | two task queues (`m_taskQ` for channels, `m_taskFnQ` for closures) under `m_mutex`, `m_isQuit`, the wake-up socket pair, `m_channelMap`, `m_connectionCount` | `run`, `addTask`, `queueInLoop`, `requestStop`, `processTaskQ`, `processTimeouts`, `eventActive`, `add/remove/modify/freeChannel` | any thread posts tasks; the loop calls the callbacks of channels and the dispatcher |
| `Dispatcher`, `EpollDispatcher` | the epoll set, the batch of ready records | `add`, `remove`, `modify`, `dispatch` | called by its loop; `remove` calls the channel's `destroyCallback` |
| `WorkerThread` | thread, `m_evLoop`, `m_draining` | `run`, `stop`, `running` | owned by the pool |
| `ThreadPool` | `m_workerThreads`, `m_lowLoadSeconds`, `m_stopping`, all under `m_mutex` | `run`, `takeWorkerEventLoop` (main thread), `managerLoop` (manager), `stop` | reads the loops' connection counts, reports gauges to `ServerMetrics` |
| `TcpServer` | the listen socket, the registry `m_connections` under `m_connMutex`, the shutdown flags | `acceptConnection`, `registerConnection`, `unregisterConnection`, `handleSignal`, `handleSignalPipe`, `beginShutdown`, `shutdownTick` | pool, connections, main loop |
| `TcpConnection` | read and write buffer, open file with what is left of it, `m_closeAfterWrite`, `m_requestsServed`, `m_lastActivity`, `m_draining` | `processRead`, `processWrite`, `sendPendingFile`, `checkTimeout`, `destroy`, `beginShutdown`, `forceClose` | its loop, the parser, the registry, the metrics |
| `HttpRequest` | parse state, headers, body | `parseHttpRequest` and the parsers of line, headers and body, `reset`; `processHttpRequest`: routes, static files with ranges, `PATCH` and `DELETE` of files | file system |
| `HttpResponse`, `Buffer` | the answer; bytes with a read and a write position | `prepareMsg`; `socketRead`, `sendData`, `findCRLF`, `extendRoom` | |
| `ServerMetrics` | atomic counters | one increment or decrement each, `toJson` | everybody |
| `Config`, `Log`, `main` | | | read at start; output |

What makes it hard:

- **Two-step posts.** A thread pushes a task, then writes into the loop's pipe; the loop reads the
  pipe 256 bytes at a time and drains its queue at other moments. A pipe that is full blocks the poster.
- **Nesting.** `addTask` on the loop's own thread runs the queue inside the caller's frame, so a
  connection may be destroyed inside its own callback.
- **Hand-over.** A connection is given to its worker, counted and registered in four separate steps
  of the main thread; from the first of them on the worker may serve and destroy it.
- **Counters as truth.** Scaling, reclaiming and the connection cap are decided on counters that
  other threads change without the mutex.
- **Pipelining over a stream.** Requests arrive in any fragmentation, several at once; answers are
  buffers and files that leave when the client lets them; an idle timeout runs beside.
- **The file system as shared state** between the workers that handle uploads of the same file, and the
  ones that send it meanwhile under a size they have asked for before.
- **Numbers for objects.** Loops and the kernel know a connection by its descriptor, which another
  thread gets again as soon as it is closed, while records and tasks of its former owner are pending.
- **Buffers** whose bytes are moved, enlarged and started again under a parser that stops anywhere.
- **Stopping**: of a loop that may not yet run, of the pool while it scales, of the server with
  answers under way.

What makes each component correct is what the properties below state; the list of hazards with
their lines is in `PROJECT.json`.

## Modules and how they correspond to the code

| Module | Models | Actions |
|---|---|---|
| `TaskService` | what a loop promises to those who post: a queue of nodes and one of closures, each executed once, in order, closures only when no node waits; what was accepted is executed in the end | `SubmitNode`, `SubmitClosure`, `Execute`, `Close` |
| `EventLoop` | one loop and its posters; refines `TaskService` | posters: `AddTask`, `QueueInLoop`, `RequestStop`, `TaskWakeup`; the loop: one action per line of `run()` and per pass of `processTaskQ` |
| `ThreadPool` | pool, manager, workers, the counts of connections | `Run`, `Take…`, `OpenConnection`, `Stop`, `JoinManager`, `RequestStop`, `JoinWorker`; `Reclaim`, `Balance`, `Manager…`; `WorkerRuns`, `WorkerReturns`, `CloseConnection` |
| `TcpConnection` | one connection, its socket, its client and the file it sends | `Epoll…` (one record), `SocketRead…`, `Parse…`, `SendData`, `SendFile…`, `Write…`, `Sweep`, `CheckTimeout`; environment `Client…`, `FileShrinks`, `Tick` |
| `TcpServer` | accepting, counting, registering and destroying connections, the start of a shutdown | `Accept`, `Reject`, `Drop`, `AcceptReturns`, `OpenOnLoop`, `PostAdd`, `CountOpened`, `Register`, `HandleSignalPipe`; the destructor statement by statement: `Unregister`, `CountClosed`, `LeaveLoop`, `FreeChannel` |
| `SharedFile` | what the workers promise each other about an uploaded file: nobody truncates it | `Create`, `Lengthen`, `Unlink` |
| `FileUpload` | `PATCH` and `DELETE` of one file by several workers; refines `SharedFile` | one action per call into the file system, and one per failure of it (`…Fails`) |
| `FileServe` | one connection's `GET`, `HEAD` and `OPTIONS`: route, range, answer, file sent; other workers act on the file as `SharedFile` allows | `Start…`; `Exists`, `Index`, `Regular`, `FileSize` (one per question to the file system, which may also fail); `PrepareMsg`, `Open…`, `SendHead`, `SendFile…`, `Finish`, `IdleTimeout`, `NextRequest`; `Others…` |
| `HttpParser` | `parseHttpRequest` over a byte stream in any fragmentation, called by `processRead` as long as that goes on parsing | `Receive`, `FileDone` of the caller; `LineMissing`, `ParseRequestLine`, `ParseHeader`, `ParseHeadersEnd`, `ParseBody`, `RequestDone` and the failures |
| `Buffer` | `Buffer` as operators on a record: memory, read and write position | `ExtendRoom`, `AppendString`, `SocketRead`, `ReadPosIncrease`, `Sent` |
| `BufferedParser` | `HttpParser` between two instances of `Buffer`: the bytes it parses are those the read buffer holds, its answers go through the write buffer | `ReceiveBytes`, `ParseBytes`, `SendBytes`, `SendFile` |
| `ByteRange` | `parseDecimal`, `parseRangeHeader` and the answer made of them, as operators; below them what they should compute | used by `FileServe` |
| `Descriptors` | descriptor table, epoll sets, `m_channelMap`, batches of records and tasks of several loops; the accepting thread; the manager deleting a loop | `Accept`; `EpollWait`, `NextRecord`, `OnError`, `EventActive`, `Callback…`, `RunTask`, `DrainReturn`, `Expire`; `StopLoop`, `CloseMap`, `ClosePair0`, `ClosePair1` |
| `…Proofs` | theorems | |
| `MC…` | constants for TLC | |

Three compositions: `BufferedParser` puts the parser and the buffers together; `FileServe` runs the
serving of a file against the uploads in the form of `SharedFile`, which `FileUpload` implements
(a run and a proof show it); `ThreadPool` and `TcpServer` use of a loop what `EventLoop` establishes.
Beyond that each module states at its edge what the others
do to it, at a grain that includes their interference. `ThreadPool` keeps of a loop the quit flag and
the count; `TcpServer` keeps of a connection its life from accept to `freeChannel`; `TcpConnection`
keeps of its loop the order of one round. `EventLoop` is what justifies the step "the worker executes the posted ADD" of `TcpServer`.

Abstractions that a reader should know:

- **EventLoop.** A task is a value; its body is reduced to the `addTask` a closure may end with
  and to the calls a callback may make. Each call is a value of its own, used once. The wake-up
  pipe is a number of bytes. A loop is a worker's or the main one (`isMain`, fixed at the start): to the main one no other
  thread posts, and its idle callback stops it (`TcpServer.cpp:285`).
- **ThreadPool.** Workers are numbered by creation. The main thread follows `TcpServer.cpp:150` and
  takes a loop only below the connection cap. A call on a deleted loop is undefined: the model stops the
  main thread there and `HeldLoopAlive` reports it. `Timely` says that the main thread does not need
  longer than the manager's wait between taking a loop and counting the connection on it; the manager
  passes once a second, the two lines are next to each other. With `Timely = FALSE` the run `pool` finds `ReclaimedIdle` and `HeldLoopAlive`
  violated. The cap is compared with the sum of the loops' counts, in the code with the active counter of `ServerMetrics`, which `TcpServer` has.
- **TcpConnection.** A request arrives in two pieces, so it can be incomplete in the buffer or half
  inside the parser. An answer is one item, a file as many items as `sendfile` calls are worth; the socket
  takes a few. `Epoll…` delivers any record the socket's state allows, also a stale one.
- **TcpServer.** The destructor runs on the worker's thread, one statement per step, interleaved with the
  statements of the constructor on the main thread. The counter has the width `Wrap`.
- **FileUpload.** All uploads are pieces of one content, so only the size of the file and the
  positions never written matter. The client is any sequence of requests, hence also retries. `write`
  takes any part of what is left, or fails; `exists`, `file_size`, `open` and `remove` fail as well at any time, on a file that is there or not. `deleted` is a history variable: most of what can be promised
  of the file ends with its first `DELETE`.
- **HttpParser.** A byte is CR, LF or text; a line is a kind, a name, a value and its length; the text
  of a line is looked up at the place of its first byte. Where a line ends is found in the bytes, as `findCRLF` does.
  The caller is in one of the places of `Labels`. Whether an answer is a file or the last one is left open (`TcpConnection` has these), so after each request `processRead` goes on, stops
  at its limit, for a file, or for good (`TcpConnection.cpp:105-107`); while it does not parse it still reads. Bytes it has left are parsed after the next read only, as finding 2 says.
  So the two properties about waiting speak of the place `"wait"`, where `parseHttpRequest` has asked for more or the buffer is used up, and say nothing of a caller that holds bytes back (`"held"`, `"file"`, `"closed"`).
- **Buffer.** Memory is a sequence, a byte of an answer is marked with the number of the answer. `realloc`
  does not fail; `memcpy` of overlapping parts is a move.
- **ByteRange.** Digits in base `Base`, integers up to `WordMax`, one character that is no digit.
- **FileServe.** A path is what it leads to (`Targets`); a text, a listing and an error page are bodies of
  `TextSize` bytes; a file is its size. A file that is open and deleted lives on under `fd`, and may
  still be written by an upload that had it open. The client takes everything; one that does not is `TcpConnection`'s.
  Each question to the file system, `open` and `sendfile` may fail whatever the file is; `failed` notes that `file_size`, `open` or `sendfile` has failed on a file that is there; a failure of the earlier questions only changes the answer.
- **Descriptors.** A callback of a connection is its calls of `addTask`: some `MODIFY`s, then perhaps the `DELETE`.
  `epoll_ctl` succeeds or fails by what is open and registered under the number, and a failure ends the process.
  `strays` notes calls of a connection because of a record of another one. Files' descriptors take numbers too and are left
  out: they are in no epoll set and only the loop that has opened one closes it.

## Runs

| Run | Module, cfg | Checks | States |
|---|---|---|---|
| `loop` | `MCEventLoop`, `Loop.cfg` | no lost wake-up, refinement of `TaskService` (each task once, in order, closures only when no node waits, in the end), stop ends `run()`, posters return | 80,363 |
| `pool` | `MCThreadPool`, `Pool.cfg` | bounds, held loop alive, reclaimed ones idle, gauges, scale-up, draining ends, `stop()` returns once workers run | 31,478 |
| `connection` | `MCTcpConnection`, `Connection.cfg` | answers in order and whole, write interest, flush before close, nothing after a close; the connection ends if time passes, buffered answers leave if the client reads | 82,707 |
| `server` | `MCTcpServer`, `Server.cfg` | cap, exact admission, load figures, registry; every connection ends and gives everything back | 55,767 |
| `upload` | `MCFileUpload`, `Upload.cfg` | no holes and answers backed by the file until it is deleted, an answered piece is stored, refinement of `SharedFile` | 2,135,727 |
| `parser` | `MCBufferedParser`, `Parser.cfg` | verdict and framing independent of fragmentation, the parser asks for more only within an incomplete request, limits; bytes in order through both buffers, which grow only if full | 587,094 |
| `serve` | `MCFileServe`, `Serve.cfg` | answers as long as announced, no upload cuts one, ranges exact, every request ends | 541,662 |
| `descriptors` | `MCDescriptors`, `Descriptors.cfg` | connections are found and watched under numbers used again, `epoll_ctl` fails only after a loop's destructor has cut a connection, stray calls are harmless | 1,744,481 |
| `pool_stop_race`, `connection_stall`, `server_shutdown`, `reclaim_closes` | | one statement of a document, comment or test each, which the code violates | |

Type invariants are not among the runs' properties: those of `EventLoop`, `ThreadPool`, `TcpServer` and `TcpConnection` are theorems of their own, the others are
parts of the inductive invariants.

`CHECK_DEADLOCK FALSE` stands only where the modelled part ends: a stopped loop or pool, a destroyed
connection, an aborted process, a stream read to its end.

For every property of a passing run `PROJECT.json` names a faulty variant of one operator (the `Broken…`
definitions) under which TLC finds that property violated.

## What the code does otherwise than it says

Each of these is a run whose one property TLC finds violated:

1. **`stop()` may never return** (`pool_stop_race`). `EventLoop::run` clears `m_isQuit` when it starts
   (`EventLoop.cpp:68`); a `requestStop` that came before is lost, and `join` waits for ever. A worker is published
   before it runs (`WorkerThread.cpp:7-13`). The unit test calls `pool.stop()` right after workers
   were added (`tests/http_request_test.cpp:539`). `StopReturnsOnceRunning` shows that this is the only obstacle.
2. **A pipelined request behind a file is not answered** until the client sends more (`connection_stall`),
   against the comment at `TcpConnection.cpp:205`: `processRead` parses only after a read that brought data.
   The server behaves so: two requests in one segment, a file first, get one answer.
3. **SIGTERM aborts the process** (`server_shutdown`), against `deploy/DEPLOY.md:83`: the listen channel has no
   `destroyCallback` and `EpollDispatcher.cpp:47` calls it. The built server ends with
   `std::bad_function_call` and SIGABRT.
4. **Deleting a worker may close a new connection** (`reclaim_closes`), against `TESTING.md:41`. `~EventLoop` closes
   `m_socketPair[1]` in line 57, because the wake-up channel is in `m_channelMap`, and again in line 62. A connection accepted between the two may have got
   the number; it is closed before its worker has added it, `epoll_ctl` fails and the server exits with status 0. `OnlyCutsFail` shows
   that this is the only way to a failing `epoll_ctl`.

Observations made while modelling, which no run states:

- A connection that closes before the accepting thread has counted it makes the active counter wrap, and `/metrics`, answered by
  another worker in that moment, shows 2^64-1 (`ServerMetrics.cpp:20`). No decision is made on such a value: `AdmissionExact` is proved.
- A record may reach a new connection that has the number of its former owner; it is then a write event, and the connection
  has nothing to write yet (`StraysHarmless`; `EpollDispatcher.cpp:83`).
- The branch of `sendPendingFile` for other systems takes the end of the file for the end of the answer (`TcpConnection.cpp:267-271`) and keeps the
  connection: there a file that shrinks breaks the framing that `AnswerFramed` states of the Linux branch.
- A file that cannot be opened (`TcpConnection.cpp:131-141`: no permission, no descriptor left) or whose `sendfile` fails (`TcpConnection.cpp:225-238`) has its answer cut after the head
  with 200 and the full Content-Length; the connection is closed then (`failed` in `FileServe`).
- `fs::file_size` of a file deleted just before is taken for 2^64-1 (`HttpRequest.cpp:1114`); the answer then has that length, and the connection is closed.
- A worker may be reclaimed between being taken and getting its connection, against `TESTING.md:41`, if the main
  thread is held up for seconds between two adjacent lines (`Timely` excludes it).
- A connection destroyed before `registerConnection` runs (`TcpServer.cpp:153`) stays in `m_connections` for ever,
  against the comment at `TcpServer.cpp:248`; only the shutdown walks the registry. `RegistryComplete` is the direction that holds.
- The size in an upload's answer (`HttpRequest.cpp:1046`, `TESTING.md:36`) is computed from the size read before the write, and another worker may have
  extended the file since. It is never too large (`ReplyBacked`), so a client that goes on from it only repeats bytes.
- With a `DELETE` between `file_size` and `open` (`HttpRequest.cpp:990-1019`) a piece is stored past the end of a new file and answered 200, although its
  offset does not match (`TESTING.md:53`). `NoHoles` therefore speaks of files that have never been deleted.
- A client that half-closes after its request loses the answer (`TcpConnection.cpp:166-169`).
- A line of exactly `MaxRequestLineSize` or `MaxHeaderLineSize` bytes is refused if a read ends between its CR and its LF,
  and accepted otherwise (`HttpRequest.cpp:664, 704`; the exception is spelt out in `VerdictExact`).
- A range whose first byte is past the end is answered 416 even if its last byte is before its first (`HttpRequest.cpp:302-305`).
- A file that shrinks while it is sent leaves the write event on, so the loop spins on it until the idle timeout ends
  the connection (`TcpConnection.cpp:240`).

## Bounds

| Constant | In TLC | In the code | Why it is enough |
|---|---|---|---|
| `MsgBytes`, `ReadBytes`, `PipeCap` | 2, 3, 4 | 36, 256, socket buffer | one read takes several messages or a part of one, the pipe can be full: both occur |
| `Posters`, `Nodes`, `Closures` | 2, 2, 2 | any | two posters race with each other and with the loop; a closure posts a node; queues hold two |
| `MinThreads`, `MaxThreads`, `MaxWorkerId` | 1, 3, 4 | configuration | a worker is drained, reclaimed and another created after it |
| `ScaleUp`, `ScaleDown`, `ScaleDownDelay` | 2, 1, 2 | 64, 8, 30 | the thresholds are crossed in both directions, the delay is more than one pass |
| `MaxConnections` (pool) | 5 | configuration | fills two workers and starts a third |
| `MaxPipelined`, `MaxRequests`, `ReadMax`, `SendCap` | 2, 3, 4, 2 | 16, configuration, buffer, socket buffer | every limit is reached; a file is longer than the socket's room |
| `IdleTimeout` | 2 | configuration | a timeout during and between answers |
| `MaxConnections` (server), clients, workers | 1, 3, 2 | configuration | the cap is reached while others close; both workers destroy at once |
| `Wrap` | 16 | 2^64 | larger than the number of clients, so that a wrapped value is unmistakable |
| `FullSize`, `Handlers` | 2, 2 | any | pieces of two bytes, so overlaps, repeats and short writes; a stale offset of 1 or 2 leaves a gap. The proofs cover every size and any number of handlers |
| `MaxLine`, `MaxHeaders`, `MaxBody` | 4, 2, 2 | 8192, 100, 64 MB | one line, header and body at each limit and one over |
| `MaxPipelined` (parser) | 2 | 16 | the streams have up to four requests, so the caller stops at its limit with some left |
| `Base`, `WordMax`, texts | 3, 7, eleven | 10, 2^64-1, any | the texts are none, no number, small numbers, one with leading zeros, the largest word and the two numbers after it, so that overflow falls inside a digit and behind one |
| `MaxSize`, `TextSize` | 3, 1 | any | an empty file, one shorter and one longer than the ranges ask for; a file made anew is longer or shorter than the one announced. The proofs cover every size |
| `BufferSize`, `TempSize` | 5, 3 | 10240, 40960 | a read fits, fits after compaction, or needs memory; answers of three and five bytes do the same to the write buffer |
| `Connections`, `Loops` (descriptors) | 3, 2 | any | two numbers change hands on two loops, a third connection comes while a loop is deleted; with symmetry |

## Fairness and atomicity

Fairness is that of an operating system that runs every runnable thread, and no more:

- `EventLoop`: weak fairness of the loop's thread and of a poster inside `taskWakeup`. `epoll_wait`
  has a timeout, so its step is always possible. Nobody must post.
- `ThreadPool`: weak fairness of the main thread once it has taken a loop or is stopping, of the manager (its wait has a timeout), of
  each worker, and of the end of each connection; connections do end, as `ConnectionEnds` shows.
- `TcpConnection`: weak fairness of the loop only; the client may fall silent at any point. That time passes is the premise of
  `ConnectionEnds`, that the client keeps reading the premise of `AnswersLeave` and `BufferedAnswered`.
- `TcpServer`: weak fairness of the main thread and of a destructor that has begun; strong fairness per client
  of being accepted (the listen queue is served in order, and accepting is interrupted again and again by other
  work of the same thread) and per connection of being run by its loop.
- `FileServe`: weak fairness of the connection's work, in which the idle timeout takes its turn when nothing can be sent; the errors of `sendfile` need not happen. No request must come, and
  the other workers need not do anything.

Atomic in the models, and why: a critical section of one mutex (the manager's is cut in two, since connections
come and go without the mutex during it); the two scans of `takeWorkerEventLoop` (only its own thread raises counts, so a
count can only get lower between them); a batch of `epoll_wait` as single records in all modules but `Descriptors` (a connection has one record per batch);
a round of `accept`, the constructor and the post of `ADD` in `Descriptors` (`TcpServer` takes them apart);
`exists` and `is_directory` of one path (the path is not a directory); an interrupted system call is an empty batch or is repeated.

## Proofs

Each `…Proofs` module proves invariants of the specification of its module for every value of the constants
that satisfies the module's named assumptions. All invariants and action properties that the runs check are proved; what
is left to TLC is named at the end of this section. The theorems are listed in `PROJECT.json`; the arguments are these.

- **EventLoopProofs.** `TypeCorrect`. `WakeupNeverLost`: `NoLostWakeup` speaks only of a sleeping
  loop and is not inductive; `WakeupInv` adds that a queue that is not empty when no activation of `processTaskQ` is on the stack is announced
  (`WorkAnnounced`), that a stop is (`SleepAnnounced`), and where activations can be (`StackInv`). `LoopRefinesService`: every step of the loop is a step of
  `TaskService` or leaves its variables alone. `TasksRunOnce` is then proved from the abstract steps alone.
- **ThreadPoolProofs.** `TypeCorrect` and `PoolStaysInBounds`, for any number of workers. `Shape` says what
  the identifiers of workers, draining ones and reclaimed ones have to do with each other; the bounds are cardinalities, kept by the guards of
  `Take`, `Reclaim` and `Balance`. `GaugesStayCurrent`: each critical section that changes the pool ends with new gauges.
  `HeldLoopStaysAlive` and `ReclaimedStayIdle` assume `Timely`. `Places` says that a worker is in one of the pool, the manager's hands and those of `stop()`;
  `HeldInPool` that the worker held is in the pool, and if it has become a draining one then a pass has ended meanwhile, so that the next pass, which
  could reclaim it, does not come. `ScaleUpIsHonored` rests on arithmetic that the code leaves implicit: a worker is marked when the *average* load of the
  others would still be low, so as the least loaded one it has less than `ScaleDown` connections (`LeastOfLow`, from `TotalAtLeast`, a lower bound on the sum over any set of
  workers), may get one more from the main thread (`DrainedLow`), and is therefore below `ScaleUp` when it is put back to work.
- **TcpServerProofs.** `LimitKept`, `AdmissionDecided`, `SocketsBounded`: `CounterInv` says that the counter is the number of connections
  counted, one lower (modulo `Wrap`) while the main thread is between posting and counting; `ConstructionInv` says which connection that is. `OneByOne`
  says that a worker destroys one connection at a time, so the sockets above the cap are at most the workers.
  `RegistryMissesNone` from `RegistryInv`. `LoadStaysExact`: the count of a loop is the cardinality of the connections `On` it; each step of constructor and destructor moves one
  connection in or out of one such set. The assumption is that there are finitely many connections and workers and that `Wrap` exceeds the
  connections.
- **TcpConnectionProofs.** `AnswersStayInOrder` for any script and any sizes: `Produced` is what is in the socket, in `m_writeBuf` and left of the
  file, one after the other (`out` is all the client has been sent); a step appends the next answer to it or moves an item from one part to the next. `FileInv` says what is known while a file is open: it belongs to the last
  request answered, and what is in front of it leaves first. `WriteInv` adds to `WriteInterest` the points inside `processWrite` where the event may be on with nothing left (`InterestMatches`); `CloseInv`, that a connection
  not to be closed has room for one more request (`CloseStaysFinal`). The lemmas before them are about `FlattenSeq` and about the items of an answer.
- **FileUploadProofs.** `UploadsLeaveNoHole` and `AnswersAreBacked`. `IInv` is `Clean` until the first `DELETE`, and says nothing after it; in `Clean`, `Accepted` says that the size a handler has read is still
  not more than the file's, and that what it is going to write begins inside the file.
  `PiecesAreStored` and `UploadIsSharedFile` need only the types of offsets: a write ends behind its offset, and nothing but `Remove` takes away.
- **FileServeProofs.** `AnswersAreFramed` and `UploadsCutNoAnswer`, from `FInv`. `Types` alone is inductive. `Frame` follows a request: while a file is sent, what is delivered and what
  remains are together what was announced; this needs no knowledge of the file. `Uncut` says that without a `DELETE` and without an error of `file_size`, `open` or `sendfile` the file has everything that was announced, because
  `SharedFile` only makes it longer, and the answer takes no position past the size asked for.
  `RangesStayExact` goes from the text of the header to the positions the client gets, in two halves: `RangeAnswerExact`, by cases over numbers; and `DecimalIs`, that
  `ParseDecimal`, a recursive function with a test for overflow at each digit, yields the number that the digits denote if a word can hold it. `RInv` carries the answer from where it is made to where it is sent.
- **BufferedParserProofs.** In three parts. *The stream*: where the lines and requests of a script are in its bytes. *The parser*: `ParserIsBounded` from `IInv` (`Places`, `Sizes`), which
  does not describe the stream; then `EInv`, which does. `Standing` says for each state of the parser which line of which request it stands at and what the lines before have left in
  `headers`; `Honest`, that the stream is that of a script and there are no more verdicts than requests; `Waiting`, that when the parser has asked for more, the end of the request has not been received; that a caller which stops for a file or at its limit does so between two requests (in `Places`) is what carries it over `FileDone`. `VerdictsStayExact`, `FramingStays` and
  `WaitsForTheRest` follow, for every script of `Requests`, every fragmentation and all limits. *The buffers*: `BuffersKeepOrder` and `BuffersGrowOnlyIfFull`. First what each operator
  of `Buffer` does to `Contents` (`ExtendRoom` nothing, `AppendString` and `SocketRead` append, `ReadPosIncrease` and `Sent` drop a prefix), then the composition, where
  `BInv` adds to the property that both records are buffers. `BuffersHideNothing`: the composition implements the parser, so that its theorems hold behind the buffers.
- **DescriptorsProofs.** `CutsAloneFail`, `AddedStayFound` and `StraysStayHarmless` for any connections, loops and numbers, from one invariant `Good`: until a destructor
  has closed another connection's socket (`cut`), `Held` ties together what the code keeps in four places. `TableInv`, `MapInv` and `EpollInv` say that the table of descriptors, the loop's map and its epoll set agree on a number except for a connection
  whose `ADD` is queued; `QueueInv` says which tasks can be queued together and that none is of a former owner; `LoopInv`, that the records not yet taken up are of connections still there, and
  that the one being worked off leads to another connection only with its write event, and then to a new one; `PhaseInv`, what is over in which part of a round.

What a recursive function computes is proved by induction inside a set: the numbers for which a fact holds contain 0 and with every number the next one, so they are
all (`NatSet`, from the well-foundedness of `<`). That serves `ParseDecimal`, `FlattenSeq` and the sum in `Total`, for which it is also shown that a function with the equation of the definition exists.

Assumptions on constants are named where the constants are declared, and TLC evaluates them on every run. They are bounds (`Nat`, not empty, ordered as the code's constants and its
configuration are), the distinctness of names, and these two: `ScriptAssumption` says that a client's stream consists of requests that, where they are to be taken, end where their headers say
(a body of another length makes the bytes behind it the next request, of which the exactness of the verdict would be meaningless); `Timely`, a hypothesis of two theorems, is explained above.

Only model-checked:

- liveness, which needs fairness and is out of the prover's reach: the second half of `ImplementsService` (what was accepted is executed in the end), `StopEnds`, `PostersReturn`, `DrainingEnds`,
  `StopReturnsOnceRunning`, `ConnectionEnds`, `AnswersLeave`, `ConnectionsEnd`, `RequestEnds`;
- the four violations below `What the code does otherwise than it says`, which are facts about single behaviours.

## Not modelled, and the plan

Done, in this order: `EventLoop` with `TaskService`, `ThreadPool`, `TcpConnection`, `TcpServer`, `FileUpload`, `HttpParser`,
`ByteRange`; `Buffer` and `BufferedParser`, `SharedFile`, `FileServe`, `Descriptors`; and the proofs above. Next:

1. **Shutdown**, for the day the abort is repaired: `shutdownTick`, `forceClose`, and `m_draining` in `TcpConnection`, as
   a module that composes registry, loops and connections. Today nothing after the first task of `beginShutdown` can happen (finding 3), so a model of it
   would be of a program that does not exist. Questions for then: does a closure reach a destroyed connection, does the lock held while posting deadlock
   (`TcpServer.cpp:249`), does draining end.

Left out for good: the poll and select dispatchers (on Linux nothing constructs them), `Config` (read before any thread starts; its values are
constants of the models), `Log`, `main` (start-up), percent-decoding, the text of listings and of headers and the MIME tables (string operations without state, their
outcomes are inputs of `FileServe`), the branch of `sendPendingFile` for other systems.
