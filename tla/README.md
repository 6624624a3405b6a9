# TLA+ models of the web server

The repository holds a small C++ server framework (`src/webserver/network`, `src/webserver/thread`), a TCP
service built on it (`src/webserver/service/tcpserver`), an unfinished FastCGI gateway
(`src/webserver/service/fastcgi`), libfcgi with its `cgi-fcgi` bridge (in the tree twice), and vendored jsoncpp and
spawn-fcgi. The project here models the service from its sockets to its shutdown, the FastCGI request library with
its stdio layer, the bridge, and the operating system layers under both.

## The system

One process, two threads, each running a `CPollThread`: an epoll loop that calls the handlers of its units.

    client --TCP--> listen thread                                   work thread
                    CTcpListener, CTcpConnection
                      OnPacket: new CTask --- m_incoming_pipe --->  CWorkProcess::TaskNotify
                      SendPacket, delete  <-- m_return_pipe ------  (sets the response, replies)

| component | state | operations | interacts with |
|---|---|---|---|
| `CPipeQueue` (`service/include/pipequeue.h`) | writer's buffer with offset, end, volume and EPOLLOUT interest; the kernel pipe; reader's array | `Push`, `OutputNotify` (writer's thread); `InputNotify`, `Pop`, `TaskNotify` (reader's) | both loops, kernel |
| task path (`dispatcher.h`, `taskpipe.h`, `task.cc`, `client_process.cc`, `work_process.cc`, `tcp_connection.cc`) | `CTask` with connection pointer, response, list of reply dispatchers | `OnPacket`, `TaskNotify`, `ReplyNotify`, `delete` | connections, two pipes |
| event loop (`pollpool.cc`, `pollunit.cc`) | `m_poll_units`, epoll set, batch of events | `AttachUnit`, `DetachUnit`, `ModifyEvent`, `EpollProcess`, `UnInit` | every unit, which its handlers may delete |
| connections, listener (`connection.cc`, `listener.cc`) | send and receive buffers, interest, `m_connections` | `Accept`, `InputNotify`, `OutputNotify`, `SendPacket`, deletion | loop, task path, codec |
| buffers, codec (`buffers.cc`, `request_packet.cc`, `response_packet.cc`) | list of byte blocks, total length | `PushBack`, `GetData`, `EraseFront`, `Decode`, `Encode` | connections |
| thread library, poll thread (`thread_base.cc`, `poll_thread.cc`) | state, stop flag, start mutex, suspend flag and condition | `Start`, `RunningThread`, `Interrupt`, `Join`, `Run`; `Suspend`, `Active` | main |
| service main (`tcpserver/main.cc`) | stop flags, pid file, global objects | `InitThread`, `DaemonWait`, `Destroy`, `catch_signal` | all |
| FastCGI gateway (`service/fastcgi`) | client units, bounded request queue | connect, reconnect, dispatch, close | poll thread |
| libfcgi (`public/src/fcgi/fcgiapp.c`, `os_unix.c`) | connection, reader with buffer and record position, two writers with theirs, request, `shutdownPending` | `FCGX_Accept_r`, `FillBuffProc`, `FCGX_GetStr`, `FCGX_PutStr`, `EmptyBuffProc`, `FCGX_FFlush`, `FCGX_FClose`, `FCGX_Finish_r`, `OS_Accept`, SIGUSR1 | web server, application |
| fcgi_stdio (`public/src/fcgi/fcgi_stdio.c`) | the table of stdin, stdout and stderr, `environ`, `acceptCalled` | `FCGI_Accept`, `FCGI_Finish`, the C library's calls on files under other names | application, libfcgi |
| asynchronous I/O (`os_unix.c`) | table of operations, posted descriptors, what `select` found | `OS_AsyncRead`, `OS_AsyncWrite`, `OS_Close`, `OS_CloseRead`, `OS_DoIo` | its client's callbacks |
| cgi-fcgi (`public/src/fcgi/cgi-fcgi.c`) | options; two buffers, record being read, posted I/O | `ParseArgs`, `FCGI_Start`; `ScheduleIo`, the three handlers | web server, application, other cgi-fcgi |
| os_win32 (`public/src/fcgi/os_win32.c`) | descriptors, completion ports, the standard input thread; mutex, shutdown event, pipe instance | `OS_Async...`, `OS_Close`, `OS_DoIo`; `OS_Accept`, `OS_IpcClose` | Windows, other processes on the listener |
| configuration, log, jsoncpp, spawn-fcgi | - | - | - |

libfcgi and the bridge are processes of their own: an application linked with the one talks FastCGI records over a
socket with a web server, or with the other.

    web server --stdin, stdout--> cgi-fcgi --FastCGI records--> application: FCGX_Accept_r ... FCGX_Finish_r
    web server ------------------ FastCGI records ------------> application

What is hard about it, and hence what the properties are about: an element crosses three buffers owned by two
threads and the kernel; writes may be refused or partial; connections disappear while their requests are with the
other thread and allocators reuse their addresses; handlers delete the units the loop is iterating over; shutdown
races with start; byte streams arrive in pieces that respect no boundary; peers go away in the middle of anything;
a single-threaded bridge must never wait for one side while the other waits for it; callbacks change the tables that
are being gone through; an application may use its output files in any order, and a signal cuts what it writes;
several processes start servers, and share listeners, at once. `PROJECT.json` lists these hazards line by line.

## Modules

| module | models | state and actions |
|---|---|---|
| `Channel` | what one direction of a `CTaskPipe` promises | abstract: `queue`; `Push`, `Deliver` |
| `PipeQueue` | `CPipeQueue<T>` with the kernel pipe between its halves | the fields of reader and writer by name (`rbuf` is what is left of the reader's `m_buf`), `pipe`; one action per handler: `Push`, `PushRefused` (realloc fails), `OutputNotify`, `InputNotify`, `TaskNotify` (one `Pop` and the call with its result), `PopNull` |
| `Service` | what the server promises to the clients of its connections | abstract: open connections, requests asked and answered |
| `TaskPath` | a `CTask` from `OnPacket` to `delete`, over two `Channel`s | connections by address (`conn`), tasks, both pipes, what `SendPacket` appended; `Accept`, `Delete`, `OnPacket`, `WorkNotify`, `ReturnNotify` |
| `EventLoop` | the listen thread's `CPollPool` with listener, connections and the reader of the return pipe | `m_poll_units`, `m_connections`, the epoll set, descriptors (`sock`), live objects (`conn`), the rest of the batch; one action per handler: `EpollWait`, `ConnectionEvent` (hangup, output, input), `CalledInputNotify`, `ListenerEvent`, `ReturnEvent`; clients and the work thread around it |
| `Codec` | one connection's byte streams: `CBuffers`, decoder, encoder | the bytes in the socket, `m_recv_buffers`, packets, `m_send_buffers`, the wire; `InputNotify(n)`, `InputEnd`, `SendPacket`, `OutputNotify(n)`, `OutputError` |
| `PollThread` | `CThreadBase` and `CPollThread` | where the thread is, `m_threadstate`, `m_stop`, the start mutex, the SIGINT on its way; the thread's own steps and its owner's operations |
| `TcpService` | main of tcpservice, with two `PollThread`s | where main is, the units of each pool, flags, pid file; one action per function of the way up and down, `CatchSignal`, `CatchInterrupt` |
| `FcgiRecord` | a FastCGI record on the wire | operators only |
| `FcgxStream` | the reader of libfcgi: `FillBuffProc`, `ProcessHeader` and the reads nested in it | the connection's bytes, `FCGX_Stream` and its data (`in`), what a nested read has taken; one action per branch of the loop |
| `FcgxRequest` | an application's loop over `FCGX_Accept_r` and `FCGX_Finish_r`, and the web server | `fd`, where the application is, writers, `shutdownPending`, what it has read; accept, begin, parameters, reads, writes, closes, `Sigusr1`, `Send`, `Leave` |
| `FcgxWriter` | an output stream of libfcgi, byte for byte | operators: each operation on a stream and its connection is the set of its outcomes (`PutStr`, `FFlush`, `FClose`, `WriteCloseRecords`, `write_it_all`) |
| `FcgiStdio` | an application on `fcgi_stdio`, over `FcgxWriter` | the table (`file`), `environ`, streams, `nWriters` and `appStatus`, what the web server reads out of the bytes (`server`); `FCGI_Accept`, `FCGI_Finish` and what they call, and one action per call that changes a file |
| `CgiFcgi` | the bridge with `OS_DoIo` under it | `fromWS`, `fromAS`, the record being read, posted and ready I/O; `Connect`, `Select`, one action per handler and branch, the two peers |
| `UnixIo` | `OS_DoIo` with any client | the posted sets, the table's size, what `select` found and where the loop is; posting, closing and opening before, between and within callbacks |
| `CgiStart` | several `cgi-fcgi` up to their connection | options, where each process is, the path, listening sockets, servers; `OS_FcgiConnect`, `Create`, `Bind`, `Listen`, `Access`, `OS_SpawnChild`, `OS_Close`, servers that accept, answer and crash |
| `Win32Io` | descriptors and asynchronous I/O of os_win32 | `fdTable`, open handles, pending operations, two completion ports, the thread of standard input |
| `Win32Accept` | several processes on one listener of os_win32 | mutex, event, where each process is in `OS_Accept`, clients, the pipe instance |
| `Win32` | os_win32 as a whole: `OS_LibInit` decides which of the two a process is | both, and `listening` |
| `Tasks` | `CTaskPipe` at its two levels: `TaskPath` over channels, or one `PipeQueue` | both, and `onPath` |
| `Server` | the process around its loop: `TcpService`, or one connection's `Codec` | both, and `connected` |
| `MCTaskPath`, `MCEventLoop`, `MCServer`, `MCFcgx`, `MCCgiFcgi`, `MCCgiStart`, `MCFcgiStdio` | modules TLC is started on, with streams, scripts, arguments and answers | - |
| `SequenceLemmas` | lemmas on sequences and lists of them | - |
| `TaskPathProofs` (with `PipeQueue`), `EventLoopProofs` (with `TcpService`), `CodecProofs`, `FcgxRequestProofs`, `FcgiStdioProofs`, `CgiFcgiProofs`, `OsProofs` (`UnixIo`, `Win32`) | theorems | - |

`PipeQueue` implements `Channel` (refinement mapping: `queue` is reader's rest, pipe, writer's buffer, in this
order), `TaskPath` uses two `Channel`s and implements `Service`. `TcpService` extends `PollThread`; `FcgxRequest`
extends `FcgxStream` and `FcgiStdio` extends `FcgxWriter`, which with `CgiFcgi` share `FcgiRecord`; `Win32` is made of
instances of the other two, and `Tasks` and `Server` extend two modules each: a behaviour of these three is one of
either of their parts, which have nothing to say to each other beyond the promise of `Channel`, and are checked at
once. `FcgxRequest` follows what is read exactly and counts what is written, `FcgiStdio` follows what is written
exactly and accepts requests whole. `TypeOK` (`PipeTypeOK`, `ServiceTypeOK`, `UnixTypeOK`) says what the variables
range over; it is in no run, and is proved of the modules that are proved about but for `FcgxRequest`'s. Operators
whose comment begins with "Mutant" are plausible bugs; nothing else refers to them. They show that a property can
fail.

### Abstractions

* Sizes are counted in elements of the pipe. All sizes the code computes are multiples of `sizeof(T)` as long as
  reads and writes are, and Linux splits a write only at page boundaries, which are multiples of `sizeof(T)`. The
  scale `W` remains where it matters: `m_buf + m_data_size_offset` in `OutputNotify` multiplies a byte offset by it.
* An element is the number of the `Push` that accepted it. Reading memory beyond the data gives `Stray`, read as a
  NULL pointer: the most harmless thing it can be. After a partial write (`torn`) order is not claimed.
* `write(2)` on a non-blocking pipe is as `pipe(7)` says: all or EAGAIN up to `PIPE_BUF`, anything that fits above.
  EPOLLOUT is reported when a page is free.
* `TaskPath` takes the pipes as channels, which is proved for at most `PipeCap` elements under way (8,192 pointers in
  a 64 KiB pipe). `Tasks.cfg` has loads on both sides of it, and shows what is left beyond.
* A read that decodes several packets is several `OnPacket` steps: between them the listen thread runs nothing else,
  and the work thread does not touch connections.
* Replying through a freed connection is undefined behaviour; the model records it in `dangling` and lets the service
  go on. If the address is in use again the reply goes to the new connection, as it does in the program.
* `EventLoop` counts responses instead of bytes. `writev` takes any number of whole responses up to the room in the
  socket, none included; what a client has sent is there or not, and one `read` takes it all. It decodes to any
  number of packets, or to an error. `accept`, `fcntl` and `EPOLL_CTL_ADD` may fail at any time.
* `EpollWait` takes a snapshot of every ready unit; the order in which the loop goes through it is any. All replies
  in the return pipe are handled by one `ReturnEvent`; the batch limit and replies to connections that are gone are
  in `PipeQueue` and `TaskPath`. `EPOLLERR` and `EPOLLHUP` stand for a reset; nobody asks for `EPOLLRDHUP`.
* A handler that goes on to call `InputNotify` is two steps, because the client or the network may act between two
  system calls. When that call meets a deleted connection the behaviour is undefined: `crashed` is set, the model
  stops, and nothing is claimed afterwards.

* `Codec`: a byte is known by its packet and position, so a decoder in the wrong place finds no header; header fields
  are numbers as a little-endian host reads them before `ntohs`. A `CBuffers` keeps its length beside the list as in
  the code, modulo 16 instead of 2^64. The descriptor's failures are `InputEnd` and `OutputError`.
* `TcpService`: an allocation does not fail; a step that can fail may always fail. A pool is its set of units;
  what they do is `EventLoop`'s. `EpollProcess` is one step with a beginning and an end (`epoll`, `test`). Which
  signal it is matters only for `gs_stop` and `gs_delete_pidfile`. A failing `daemon` or `signal` is left out.
* `FcgiRecord`: as in `Codec`, a byte is known by its record. Sizes of headers and bodies are 2 instead of 8, so that
  records are cut inside headers and bodies; a pair of the environment is 2 bytes.
* `FcgxRequest`: the web server sends the exchanges of a script, one after the other or pipelined, and may close its
  end at any time, with what is under way lost or not. The kernel takes whatever the application writes (a web
  server that does not read while it writes can block libfcgi's blocking `write`; see below); content written is
  counted. SIGUSR1 has an effect only where the code waits in a system call or tests the flag, so it comes only
  there. What happens between `FCGX_Finish_r` and the next `FCGX_Accept_r` is not modelled.
* `CgiFcgi`: the request up to the end of PARAMS is one blocking write, as it is in main. What the web server reads of
  standard output it takes at once. A read that ends within a header, or within the body of END_REQUEST, leaves the
  process in `undefined`, which is the pointer error listed below, and a buffer overrun in `overrun`; nothing is
  claimed afterwards. A header's version is not modelled; a wrong one ends the process as a wrong id does. Of the
  writes before the loop all but the last end the process when they fail, as in the model; the result of
  `FCGX_FClose(paramsStream)` (`cgi-fcgi.c:824`) is not looked at, and the process goes on into its loop with a socket
  that fails. In the model the last write succeeds.
* `FcgxStream`: skipped content that ends with the buffer empty and `eorStop` set, without padding, ends the read at
  once (`fcgiapp.c:1656-1684`); the model first reads on. Content is skipped in exchanges that upset the reader
  (`Upsets`) only.
* `FcgxRequest`: `accept` fails for SIGUSR1 only. With another error (`os_unix.c:1172-1185`) `FCGX_Accept_r` returns
  -1 and the application ends, as `AcceptFails` of `FcgiStdio` has it.

* `FcgiStdio`: a byte of output is known by its stream and number, one of a header by its record; buffers have a
  header and two bytes, and one call writes no more than a buffer holds. A write is taken whole, or refused because
  the web server has gone, or cut: SIGUSR1 ends a write that waits, and only its second one ends the loop of
  `write_it_all` after a part was taken. Signals elsewhere matter to the next `OS_Accept` only, and come there; the
  web server's leaving shows in a write or at the next accept. A formatted output is two pieces, as `FCGX_VFPrintF`
  writes the text between conversions and each conversion. A read that fails, and `FCGI_StartFilterData` out of turn,
  are one action. A stream that was closed is no longer used by the application, nor one of a freed request: the
  library gives no meaning to either. An exit within a request is `FCGI_Finish` and then the exit. `asked` remembers
  what the current request's application last said of its status and whether that call reached the request. The
  table's entries that `FCGI_fopen` makes are the C library's files and are left out.
* `UnixIo`: what is read or written is left out; an operation that is ready stays ready until it is done or closed.
  The entry that `OS_Close` looks at for a descriptor without one may lie outside the table and then is not there.
* `CgiStart`: an argument is a word of a small set; a connection name is a port or a path. A socket is known by the
  process that made it. `connect` to a backlog succeeds as long as anybody has the listener open. The servers take one
  connection at a time.
* `Win32Io`, `Win32Accept`: handles and descriptors are numbers, so that one can be the other, as in the code. Windows
  completes pending operations in any order and gives up the mutex of a process that ends. Of a pipe there is one
  instance, which all processes share: who closes his connection disconnects whichever client it is connected to.
  `select` or `WSAAccept` may fail at any time, and need not. A thread of standard input that a failed read has ended
  keeps the operation in its hands (`stdinOp`), where `OnePlace` still finds it.

## Runs

| run | bounds | what it shows |
|---|---|---|
| `tasks` | 3 connections on 2 addresses, 4 tasks, slack 1; or array 3, page 4, pipe 6, 14 pushes, at most 6 under way, or all | one place per task, every client gets its own answers in order, strays only before them, backlog worked off; in a pipe with the first load a channel - whole writes, order, refinement, progress above `K - 1` elements - and with the second growth, compaction, failing realloc, refused and partial writes - order until the first partial write, no overflow, the writer always drains |
| `event_loop` | 2 descriptors, pool of 2, 2 connections, 2 requests, 1 reset, room for 1 response per socket, 2 per `writev` | registries, epoll set, descriptors and objects agree; no event reaches another unit; responses balance; connections whose client is gone are deleted; responses are flushed while the client reads |
| `server` | headers of 2 bytes, reads of up to 5, bodies of 0 to 2, streams of 2 or 3 packets, 2 buffers per `writev`, length modulo 16; or both threads, 3 signals, a port below 32768 with an inherited socket of the same port, another or none, every step failing | the packets decoded are those of the stream, however it is cut; a bad one in front ends the connection; responses leave whole; no pool is shared; the service ends when told to |
| `fcgx_request` | headers, bodies, pairs and buffers of writers 2 bytes, reads of up to 3, one byte of output, 8 scripts with 15 connections | the application reads its own records; answers well formed; connections closed for a cause; everything answered; SIGUSR1 ends the process |
| `fcgi_app` | buffers of a header and 2 bytes, 2 requests, 3 bytes and 2 other calls, 2 signals | output arrives whole and in order until a write fails; a connection on which one has failed is not kept; a request ends with the status it set last, if that call came while an output stream was open and found stdin open |
| `cgi_fcgi` | headers and bodies of 2, buffer 5, room for 3 bytes in the socket, 8 answers (one empty), 0 to 5 bytes of input | output and input whole however content and padding are cut; the process ends |
| `unix_io` | 3 descriptors, a table of 2 entries, 4 operations | only what is ready is done; what is ready is done, unless an event was closed between `select` and its turn |
| `cgi_start` | 3 processes, 4 argument lists, up to 2 servers each, 1 crash, port or path, stale or not | whatever they remove and fail to bind, one process that may start servers is answered |
| `win32` | 2 descriptors besides the standard ones, 3 handles, 2 operations; or 2 processes, 2 clients, 1 descriptor each | each operation in one place and called back at most once, on its own handle, and called back if it completes on an open descriptor; one process accepts, shutdown ends them, clients are served |
| `task_path_reply` | 2 connections on 1 address, 3 tasks | violated: a reply may go through a deleted connection |
| `fcgi_status` | as `fcgi_app`, with 1 byte, 3 other calls and no signals | violated: a request may end with another status than the one its application set last |
| `win32_close` | as `win32` | violated: an operation is called back after its descriptor was closed |

The bounds are small but not trivial: 14 pushes fill the reader's array and wrap the batch limit of `2 * K` twice;
under the second load of a pipe the buffer is doubled and compacted; three connections on two addresses make a
reuse of an address by a connection with its own requests possible while an older task is under way. With two
descriptors and connections, one closed by a handler and accepted again by another of the same batch, an event may
wait for a descriptor that is used again; room for one response makes `writev` partial when two are pending. The
service may stop where all clients are idle or a call went to a deleted connection, hence no deadlock check there.

In `server` a read can end inside a header, inside a body, at and after a packet's end, with a good, bad or empty
packet behind it, and `m_data_length` of the send buffers wraps around. Three signals are enough for one before, one
after and one in `pause`. The scripts of `fcgx_request` are a kept connection with two requests, an environment in
several records, GET_VALUES before and inside a request, records of another request, malformed records of each kind, a
filter, records that upset the reader, and pipelined requests; the reads of 3 bytes cut each of them in every way, and
every byte may be the last before the web server goes. In `cgi_fcgi` the input is longer than the socket has room for
and longer than the buffer minus a header, so writes are partial and input is read more than once. All these processes
may stop where their peers are silent; hence no deadlock check.

In `fcgi_app` three bytes fill a buffer and start another, and can be divided over both streams; two other calls are
enough to close one stream and use the other, to close and clear, or to set the status on either side of a close; two
signals are one inside and one after a partial write. In `unix_io` four operations on three descriptors double the
table and reuse a number. In `cgi_start` three processes are what it takes for one to unlink the path of a second
while a third connects. In `win32` the table can be full, and with one descriptor per process so can `OS_Accept`'s.

The slack of `K - 1` is tight: with `K - 2` TLC finds the behaviour in which `InputNotify` stops in the middle of a
batch and the rest waits in the reader's array, invisible to epoll, until something else is pushed. With the code's
constants up to 31 requests may wait for the next one.

### Fairness

`PipeQueue`: weak fairness of `OutputNotify` and of the reader's steps. Both are handlers of epoll loops which are
level-triggered: as long as EPOLLOUT is asked for and the pipe has room, or the pipe has data, the loop calls them.
No fairness of `Push`. `TaskPath`: weak fairness of delivery from each pipe while it holds more than the slack,
which is what `Channel!Progress` gives; none of `Accept`, `Delete` and `OnPacket`, which the clients decide.
`EventLoop`: weak fairness of the loop as a whole, not of its single handlers - the thread runs `EpollProcess` over
and over, and a batch is worked off before the next `epoll_wait` - and of the work thread's answers. None of the
clients and the network. `Flushed` is stated for connections whose client makes room again and again.
`Codec`: weak fairness of a `writev` that takes something while EPOLLOUT is asked for. `TcpService`: weak fairness of
main's own steps and of each thread's; `EpollProcess` ends because it has a timeout. None of signals or failures.
`FcgxRequest`: weak fairness of the library (which runs whenever it is not waiting in a read or accept) and of the
application, none of the web server and of signals. `CgiFcgi`: weak fairness of the bridge and of the application's
reads - for the end of the input only; an application that does not read stops it, and `Progress` says no more.
`UnixIo`: weak fairness of `OS_DoIo`, which its client calls again and again, and whose callbacks return. `CgiStart`:
weak fairness of each process and of an answer, strong fairness of a server's accept, because the kernel's backlog is
a queue. `Win32`: weak fairness of `OS_DoIo`, of the standard input thread and of the thread that waits for the
shutdown event; strong fairness of each process's loop, because a mutex is given to those who wait for it in turn.
`FcgiStdio` has none: its properties are about what a step may do.
The composed modules restate the fairness of their parts, each under the condition that its part runs; a call of
`WSAAccept` that fails is not one that has to.

## Proofs

The theorems hold for all values of the constants, under the assumptions that the modules name. Each safety property
is proved from an inductive invariant, as few of them are inductive; a module proves first what its invariant says
initially, then that each action keeps it, and at the end what follows from it. Some modules of proofs are about two
components, whose names therefore do not clash: hence `PipeSpec`, `ServiceSpec` and `UnixSpec`, with their `Init`,
`Next` and variables named alike.

`TaskPathProofs` proves of `PipeQueue`, under `PipeQueueAssumption` (the reader's array fits in `PIPE_BUF`, which fits
in the pipe):

* `TypeCorrect`, `VolumeRespected`: from `Bounded` (`PipeTypeOK`, `WithinVolume`, a positive volume). The offset never
  exceeds the end, because a write takes at most what is pending, and compaction leaves room for one element.
* `InterestCorrect`: inductive with `Bounded`.
* `DeliveredInOrder`: from `Ordered`: until a write is partial the offset is zero. So the wrong address and the wrong
  reset of the offset have no effect, and delivered, reader, pipe and writer together are 1, 2, ..., `pushed`. Each
  action moves a prefix from one of these sequences to the end of the one before it; `SequenceLemmas` has the
  facts on concatenation.
* `WritesStayWhole`: from `Regular`, the same with `Len(m_buf) < K`: if at most `PipeCap` elements are under way, the
  write that `Push` makes when the K-th element arrives is at most `PIPE_BUF` long and always fits.
* `PipeIsChannel`: with `Regular` every step is a `Push` or a `Deliver` of the channel, or stutters.

`EventLoopProofs` proves of `EventLoop`, under `EventLoopAssumption` (at least one response per
`writev` and per socket, names of units are not descriptors):

* `LoopTypeCorrect`, `RegistriesStayEqual`, `EventsDelivered`: from `Registered`. `EventsReachTheirUnit` alone is not
  inductive: it needs `RegistriesAgree`, because a deletion removes what is registered under the connection's
  descriptor and only then leaves the units of the other events alone; `CallNotInBatch`, for the deletion in a call
  that follows an event; and `Numbered`, so that an accepted connection is a new one. An event that waits keeps its
  descriptor open, so `accept` cannot return it. `Touches` is what a handler of one connection may do to the
  registries; one lemma per handler shows it, and one lemma per action carries `Registered` over.
* `OutputInterest`, `ResponsesKept`: from `Accounted`, with `Registered`; `NoneAhead` says that a number that is not
  accepted yet has no requests.

and of `TcpService`, under `TcpServiceAssumption` (there are two threads; any port and number of signals):

* `ServiceTypeCorrect`, `PoolsAreNotShared`: from `Inv`. `PoolNotShared` is about the few steps in which main uses a
  pool; `Handed` extends it to all of them, for each thread: until main has released it or interrupted it the thread
  is parked and its mutex locked; a thread that was not made, or not started, is nowhere; its stop flag is clear until
  Interrupt; and once Interrupt has returned it has ended, unless it was skipped. `idle` of `ServiceTypeOK` is what
  makes `Interrupt`'s test of `m_threadstate` mean something.

It proves of `TaskPath`, under `TaskPathAssumption` (any number of connections and tasks, any slack):

* `TaskTypeCorrect`, `TasksInOnePlace`, `StraysComeFirst`: from `Inv`. The two pipes together are one queue, because
  the work thread moves the oldest task of the incoming pipe behind the youngest one of the return pipe: the
  identities in them are consecutive (`Queued`), and what a task still has to go through is what lies ahead of its
  pipe. Hence a task is in one place, and is not used after its deletion. Addresses are used again, so a reply's
  address says little; but a connection's address has only tasks of it and of older ones, the older ones first
  (`Ordered`), and what was sent through it is no younger than what is still to come. `Owed` says of a connection that
  exists that every request without an answer has its task, in order.
* `KeepsThePromise`: what a connection was asked is `decoded`, what it was answered are its own responses behind the
  strays. With `Inv` each step is a step of `Service`, or stutters.

`CodecProofs` proves under `CodecAssumption` (sizes are positive) and `StreamsAssumption` (no client sends 2^64 bytes;
`Word` is any number otherwise):

* First what `CBuffers` computes for every list of buffers: `GetData` the first bytes of the content, `EraseFront` the
  rest of them, `PushBack` both together, whatever buffers the bytes are divided into.
* `PacketsAsSent`: from `RecvInv`: as many packets were decoded as the bytes read allow, the receive buffers hold what
  was read after them, and the socket what was not read. `LastOf` says where the decoder stops: at the first packet
  that is empty, bad or incomplete. As the content is shorter than `Word`, the length kept beside it is the length.
* `BadHeaderDeletes`, an action property: a read that finds a bad header in front deletes the connection.
* `ResponsesAsSent`: `SendInv`; what `writev` took and the send buffers hold together are the responses, whatever the
  length kept beside them has come to.
* `CodecTypeCorrect`: from both.

`CgiFcgiProofs` proves under `CgiFcgiAssumption` (the buffer is longer than a header; any requests, answers and room
in the socket):

* `InputArrivesWhole`: from `InputInv`. What was sent or waits is the bytes of whole records, which are those of the
  request and a `Chain` of pieces of the input; `GoesOn` says where the input goes on behind the last one, and
  `Posted` that standard input is not posted while a piece waits to be written. This is why the bridge never
  overwrites what it has not written.
* `OutputArrivesWhole`: from `OutputInv`. A number of records has been taken apart and a part of the next one
  (`Reads`); what was written is the content of the ones and of that part (`Writes`); what can still be read is the
  answer from exactly there (`Pos`) up to where a reset has cut it off (`Unread`). One lemma per branch of
  `AppServerReadHandler` carries it over; all of them leave by `undefined` where the code goes wrong.
* `BridgeTypeCorrect`: from both.

`FcgxRequestProofs` proves under `FcgxRequestAssumption`, `ScriptsAssumption` and the assumptions of the modules it
extends (sizes are positive, a writer's buffer is a multiple of the alignment):

* `AnswersAreWellFormed`: from `AnswerInv`. `Formed` says of each record which ones may come before it, since the last
  END_REQUEST; `Now` is what has come since then of one stream. `Written` relates it to the writers: a stream has its
  closing record exactly if its writer was closed with something to say, and of a writer that is open there is none.
  `nWriters` counts the open ones, so that END_REQUEST is written with the last of them and never twice. The records
  of answers to management records in between belong to no stream. Of a connection whose web server has gone only
  `Formed` remains: nothing is added to what it was sent. No assumption on the scripts is used.
* `QuietRecordsAreRead`: from `ReadInv`, with `AnswerInv`. What the web server has sent on the connection is one
  sequence of bytes (`Sent`), each with its record, so that all are different. The reader is at byte `p` of it: what
  it has ahead, in its buffer and on the way, is the bytes behind `p` up to `q`, which is all that was sent unless the
  connection was lost (`Position`). In a quiet exchange the fields of the reader belong to `p` (`Tracks`): what is
  left of content and padding ends where a header starts, its bytes are the stream's own exactly if the reader is to
  deliver them, and the caller has what the stream has before `p` (`Chosen`). There are two ways out of that: a stream
  that was closed (`Closed`; the whole content if there was no error) and an error that passed for the end of the
  environment, after which a reader without content is amid a record whose version it will not know (`Astray`).
  BEGIN_REQUEST is read by a stream of its own, whose body `BodyIn` follows until `serving` is that exchange. Each
  branch of `FillBuffProc` is shown to pass some bytes (`Moved`) whose meaning the header gives (`HeaderSkips`,
  `HeaderBegins`, `HeaderValues`, `HeaderFails`, or one of its stream); requests that are not quiet keep the position
  only. What the web server promises is `ScriptsAssumption`: a BEGIN_REQUEST comes before the streams of its request,
  these come one after the other and nothing follows the empty record of one, a request is complete before the next
  exchange starts (the last one need not be, unless it is a filter's), and a record knows its place. This is the
  FastCGI protocol's order of a request; everything else - lengths, padding, ids, roles, management records, requests
  of other ids in between, bad records, how much is sent before an answer - is free.

`FcgiStdioProofs` proves under `FcgiStdioAssumption` and `FcgxWriterAssumption` (statuses are natural numbers, 0 is
one; a buffer is longer than a header, and both are multiples of the alignment):

* `OutputOfStdioArrives`, `RequestEndsWithStatus`, `ConnectionsAreKeptInStep`: from `Inv`. Three layers lead to it.
  First the web server, byte by byte (`IsPath`): from the end of a record (`Resting`) it takes apart the bytes of a
  header (`Reading`), of content and padding (`Past`), and is at the end of a record again, having seen just that
  record - for content, if the bytes are a run (`IsRun`) that starts with the next one it expects of that stream.
  Second the streams: every operation keeps what was an error an error and what was closed closed (`Keeps`); without
  an error the stream has put out whole records - of what it held and what was added, cut anywhere (`Splits`) - and
  holds the rest (`Holds`, or `HoldsRaw` once a close adds records to it); the last close writes END_REQUEST with
  `appStatus`. Third both together (`Agrees`): what the server has of a stream and what the stream holds make up what
  was put into it (`HoldsRest`), an open stream is not at its end for the server, a closed one is if it had anything
  to say (`OpenAt`, `ClosedAt`), `nWriters` is the number of open streams, and the request has ended exactly when it
  is zero. The status is what the last call set as long as an output stream is open, which is why `EndsWithStatus`
  leaves out the calls that come later or do not find the request. One stream's operation leaves the other's part as
  it is (`Moves`). `Inv` holds this as long as nothing has failed (`Exact`), that a failure is the error of a stream
  until `FCGX_Finish_r` has closed it and remembers (`Noticed`), and that between two requests a kept connection's
  server is at the end of an answer (`Between`).

`OsProofs` proves of `UnixIo`, under `UnixIoAssumption` (any number of descriptors, from 0 on, and of operations):

* `UnixTypes`, `UnixOnlyReady`: from `UnixInv`. What is left of the list that `select` found is ready and its
  descriptor is open, whatever callbacks did in between, because `OS_Close` and `OS_CloseRead` take a descriptor out
  of both sets. A counter of posted events is at least the number of those in the list (`Count`), which is why it does
  not fall below zero although a close leaves it too high.

It proves of `Win32`, under `Win32IoAssumption` and `Win32AcceptAssumption` (more than three descriptors; handles are
not 0; at least one descriptor per process):

* `OneProcessAccepts`: from `AcceptInv`: who is in the accept cycle has the mutex if there is one, and who serves a
  client uses a descriptor for it.
* `OperationsInOnePlace`, `CompletionsMatch`: from `IoInv`. The pending operations, the two completion ports and the
  thread of standard input have no operation in common (`Apart`), no number is posted twice or was called back and is
  posted (`Numbered`), descriptors in use have open handles of their own (`Table`), and as long as its descriptor was
  not closed an operation is on its handle (`OnHandle`).
* `Win32TypeCorrect`: a process keeps to the half that `OS_LibInit` chose; the other half stays as it was.

`SequenceLemmas` has the facts on concatenation, parts, prefixes and lists of sequences that these share. Where they
need an induction, over the length of a list or the pieces of a stream, it is over a set of numbers (`LeastIn`,
`Induct`), with each list a function of how far one has got; so `FlattenSeq`, whose definition is a recursive
function, is characterised once (`FlattenSeqDef`) and used by its steps.

`TypeCorrect`, `InterestCorrect`, `LoopTypeCorrect`, `OutputInterest`, `ServiceTypeCorrect`, `TaskTypeCorrect`,
`CodecTypeCorrect`, `BridgeTypeCorrect`, `UnixTypes` and `Win32TypeCorrect` are proved and in no run; the statements
of the others are also checked by the runs of their modules.

Model-checked only:

* `ChannelProgress`, `WriterDrains`, `BacklogShrinks`, `GoneIsDeleted`, `Flushed`, `StopEnds`, `Served`,
  `ShutdownEnds`, `Progress`, `Dispatched`, `OneGetsThrough`, `Answered` and `ClientsAccepted`: liveness, out of the
  prover's reach.
* `ClosedForCause` of `FcgxRequest`: which exchanges count as bad is marked in the scripts (`bad`) and not derived
  from their records, and records behind the end of a request's input, which `FCGX_Free` drops with the buffer, may
  upset the next one. For all scripts it would need assumptions that say much of what it is to show; the run has the
  interesting ones.
* `ReplyHasConnection`, `StatusOfItsOwn` and `NoCallbackAfterClose` are violated.

## Found

* `CClientReply::ReplyNotify` tests its task's connection for NULL, but nothing makes it NULL when the connection is
  deleted (`task_path_reply`).
* In `OutputNotify` the address after a partial write is wrong, and in `Push` the offset is reset without moving the
  data; both are out of reach below 8,193 elements under way, as `NeverTorn` shows.
* `EpollProcess` calls `InputNotify` on a connection that `OutputNotify` has just deleted; it takes a reset between
  `epoll_wait` and `writev` (end of file, errors of decoding and refused connections do not lead to `crashed`).
* The branch of `EpollProcess` for an unknown descriptor, which would close a descriptor that may be in use, is never
  taken (`EventsReachTheirUnit`).
* The batch limit of `InputNotify` may delay tasks indefinitely (see the slack above).
* A response carries the request's magic and command in host order, its length in network order (`task.cc:35`).
* A packet with an empty body is taken for an incomplete one for ever; a bad packet behind a good one is only seen
  with the next read, which deletes the connection at the latest (`DecodesTheStream`, `BadFrontDeletes`).
* `Encode` does not add to `m_data_length`, which wraps around; nothing on the way out reads it (`ResponsesWhole`).
* `Interrupt` takes a thread that has not yet set its state for one that has ended (the exception of `PoolNotShared`).
* A stop signal between the test of `gs_stop` and `pause` is slept over, and a listener on an inherited socket makes
  `UnInit` loop for ever, because `InitListenServer` has closed the socket (the exceptions of `StopEnds`).
* libfcgi: an empty record of another request makes the reader skip the next record, and the content of an unknown
  management record reaches the application (`Upsets`); GET_VALUES without padding is answered late (`ReadsOn`); an
  error between two pairs passes for the end of the environment (`ReadsAstray`); requests sent ahead are lost with
  the reader's buffer (`Lost`); a signal while a connection is being rejected makes `OS_Accept` spin.
* cgi-fcgi: a read that cuts a header, or the body of END_REQUEST, is put together at the wrong address
  (`cgi-fcgi.c:254`; exit `undefined`), and input that fills the buffer leaves no room for the end-of-stream header
  (exit `overrun`).
* The status of a request (`fcgi_status`): the comments of `FCGI_SetExitStatus` and `FCGX_SetExitStatus` promise that
  the last call before the request ends determines the status of the current request. A call after stdin was closed
  does nothing; one after both output streams were closed, and before `FCGI_Accept`, comes too late, because
  END_REQUEST went out with the second close; and a request without a call ends with the status of an earlier one,
  because `appStatus` is never reset. `EndsWithStatus` is what holds.
* `FCGI_clearerr` on a stream whose write was cut takes away the only reason for `FCGX_Finish_r` to close the
  connection (the exception of `KeptInStep`).
* `FCGI_freopen` leaves the table with the C library's file, which the next `FCGI_Accept` overwrites without closing
  it; a failed `FCGI_Accept` leaves the streams of the request it has freed.
* `OS_Close` and `OS_CloseRead` do not count out an event that `select` has found; from then on `OS_DoIo` takes it to
  be left from a prior call and does nothing (the exception of `Dispatched`).
* cgi-fcgi's start: a process unlinks the path of servers that another has just started, which then run unreachable
  (`os_unix.c:353`); `-start -bind` is accepted, although not in the usage, and does nothing (`cgi-fcgi.c:663`).
* os_win32: the comments promise no callback for a descriptor that is not valid any more; its instance never changes,
  so that an operation is called back after its descriptor was closed (`win32_close`, `:1498`); `OS_FcgiConnect` takes
  a successful `connect` for a failure (`:852`); a pipe whose client one process serves is accepted by the next
  (`:1588`); the thread of standard input ends without reporting a failed read (`:255`), of which no property says
  anything.
* Not in a model: a web server and libfcgi that write to each other without reading block for ever
  (`fcgiapp.c:1367`, a blocking `write`).

The tree does not compile as it is: `poll_thread.cc:108` calls `GetThreadName.c_str()`, without parentheses,
and `CPollPool::AttachPreUnit` (`pollpool.cc:70`) is not declared in `pollpool.h`. The models take the first for a log
message and leave out the second.

## Not modelled

* The FastCGI gateway. It is not a program at this commit: `fastcgi/main.cc:212` is an `if` without a condition,
  `tcp_client_unit.cc` calls `Suspend` and `Active` on a type that has neither, `OutputNotify` of the client is
  empty and nothing takes requests from the queue. Which behaviour is meant is not in the code. `Suspend` and `Active`
  of `CPollThread` go with it.
* `src/fcgi`: libfcgi, cgi-fcgi and os_win32 once more, the same code but for one comment: what is said of one copy
  holds for the other. jsoncpp (headers only) and spawn-fcgi are third party. These, the headers and the gateway are
  more than half of the lines of the tree.
* libfcgi's `FCGX_VFPrintF` beyond its pieces: wording of numbers. Pushback, the data stream of filters, `fcgio.cpp`
  (a C++ streambuf over the same calls), set-up of the listening socket. cgi-fcgi's file of `-f` and encoding of the
  environment: sequential code without state that outlives it. os_win32's `OS_SpawnChild` and synchronous I/O.
* Configuration and log: file input and formatted output. `_write_log_` changes files at midnight without a lock
  (`log.cc:154`): a line that another thread writes meanwhile goes to the file of the day before.
* `CListener::Listen` and the setters, the scheduling attributes of `CThreadBase`, which nobody calls.

## Plan

1. Done: all modules of the table above; the theorems above.
2. Proofs: `ClosedForCause` of `FcgxRequest`.
3. The application of `FcgxRequest` and the bridge of `CgiFcgi` on one socket, in place of their free peers.
