# Verification of the Retro-Terminal backend

TLA+ models of the backend in `src/src`, TLC runs on small instances of them and
TLAPS proofs about them. All source paths below are relative to the repository.

## 1. Inventory

| Component | State | Operations | Interacts with | What is hard |
|---|---|---|---|---|
| Block store (`backend/file_access.cpp`, the `/stream` handler in `backend/CrowStream.cpp`) | files of the dictionary directory; per request: stream, LZ4 context, two 64 KB arrays, `wr_off` | `write_block_on_my_end`, `get_block_on_my_end`, `if_exists` | called by Crow's worker threads, one request per worker at a time | files written in place at their final name, concurrent writers and readers, crash or full disk in the middle, frames longer than the buffer |
| Server lifecycle (`backend/main.cpp` 158-183, `crow/app.h`, `crow/http_server.h`) | `running`, `server_`, io_contexts, threads, signal handlers | start, accept, signal, stop, join | main, the server thread, worker threads, the accepting thread, signals | start and stop race; two owners of the same signals; a fixed 500 ms sleep |
| HTTP connections (`crow/http_connection.h`, `crow/parser.h`, `crow/task_timer.h`) | socket, parser, `close_connection_`, `task_id_`; the worker's timer: `tasks_`, `highest_id_` | `start`, `do_read`, `handle_url`, `handle`, `complete_request`, `schedule`, `cancel`, the tick | the accepting thread, the io_context of one worker, the routes `/version` and `/stream`, clients | requests in pieces or several at once; a timer whose identifiers start again; clients that leave or do not read |
| Websocket connection (`crow/websocket.h`) | frame reader, write queues, close flags | `do_read`, `handle_fragment`, `do_write`, `close`, `check_destroy` | the `/stream` handler, the peer, the io_context of one worker | the object deletes itself; close handshake with writes in flight |
| Subprocess execution (`helper/execute.cpp`, called by `helper/backtrace.cpp`) | global `pipes`, the descriptor table, the child | `exec_command_` | called from the backtrace of an error on any thread | one global array for all threads, bounded pipes, early returns |
| Start-up and settings (`backend/main.cpp` 85-162) | verbosity, colour, port, host | argument, configuration and environment processing | argument parser, configuration, colour cache | the order of overrides |
| Argument parser (`helper/arg_parser.cpp`) | list of arguments | constructor | start-up | options that need a value, bare arguments |
| Configuration (`core/configuration.cpp`, `core/g_global_config_t.*`) | sections, keys, values | constructor, `get` | every component | repeated keys, missing keys, narrowing of numbers |
| Colour decision (`helper/color.cpp`) | `g_no_color`, `is_no_color_cache` | `is_no_color` | everything that prints, every error | the first to ask decides for the whole run |
| Unit test runner (`utest/main.cpp`, `utest/test.cpp`) | counters, the test thread | selection, run, verdict | the tests | "two designed to fail" |
| Logger (`helper/log.h`, `backend/CrowLog.cpp`) | header flag, caller width | `log`, `log_with_caller` | every component | flags shared by all threads, under a mutex |
| Worker thread helper (`helper/WorkerThread.h`) | `running`, the thread | `start`, `stop`, destructor | nothing | a template nobody instantiates |
| Backtrace (`helper/backtrace.cpp`) | none | `backtrace` | subprocess execution | runs in the constructor of an error |
| Checksums, hex (`core/crc64sum.cpp`, `core/bin2hex.cpp`) | the running CRC | `update`, `get_checksum_str` | block store | a table built bit by bit, used byte by byte |
| Compression tools (`utils/*.c`) | none | read, convert, write | nothing | frames across reads |

Empty in this commit: `client/main.cpp`, `core/cache.cpp`, `backend/service.cpp`,
`backend/dictionary.cpp`, `backend/CrowResourceAccess.cpp`. Vendored: Crow, ASIO,
JSON, base64, LZ4/xxHash, SQLiteCpp and SQLite, libpng, CImg, the picture viewer.

What makes each component correct:

- *Block store*: what was acknowledged stays readable; what is returned is what was
  stored; a read nobody disturbs succeeds; requests are answered.
- *Lifecycle*: a signal ends the program; no thread survives main; a stop once begun
  completes.
- *HTTP*: each request gets its own answer, in order; a read has a deadline; every connection
  ends or becomes a websocket.
- *Websocket*: no completion runs on a deleted object; the application hears of every end;
  messages arrive whole, replies leave in order; every connection is released.
- *Execution*: a call returns what its own child wrote, all of it; it ends; it leaves
  nothing open.
- *Settings*: arguments, file and environment mean what their documentation says; a
  documented override wins; nothing is guessed.
- *Colours*: the decision is made after the settings are known.
- *Unit tests*: the counts are true whatever the threads do; success is earned.
- *Checksums*: the sum is that of the generator polynomial; near blocks have different names.

`PROJECT.json` lists every hazard at its line with the properties that cover it.

## 2. Modules and plan

| Module | What it is | State |
|---|---|---|
| `BlockStore`, `BlockStoreProofs` | the dictionary's files, writers and readers, crashes | checked, proved |
| `BlockRegister`, `BlockStoreRegister` | abstract: what the store promises, a register for each name; how `BlockStore` implements it | refinement checked, proved |
| `ServerLifecycle`, `ServerLifecycleProofs` | start, signals, stop | checked, safety proved |
| `HttpConnections`, `HttpConnectionsProofs` | the HTTP connections of a worker and its timer | checked, safety proved |
| `WebSocketSession`, `WebSocketSessionProofs` | one connection | checked, safety proved |
| `AnswerChannel` | abstract: what a connection promises; `WebSocketSession` implements it | refinement checked, proved |
| `Execute`, `ExecuteProofs` | `exec_command_`, its threads and children | checked, safety proved |
| `CommandCall` | abstract: what a call of `exec_command_` promises; `Execute` implements it (`ExecuteProofs`) | refinement checked, proved |
| `Startup`, `StartupProofs` | arguments, file, settings, colours | checked, proved |
| `UnitTests`, `UnitTestsProofs` | the runner of the unit tests | checked, proved |
| `Checksum`, `ChecksumProofs` | CRC-64 and its hexadecimal name, for words of any width | checked, proved |
| `MC*` | instances for TLC; `MCParts` puts the smaller parts side by side | |

Left, in this order:

1. The choice of a worker for a connection in `ServerLifecycle`.
2. The composition of `HttpConnections` with `WebSocketSession`: the upgrade hands over what the
   read left in the socket.

## 3. BlockStore

### Correspondence

A block is its CRC-64 name; it has `N` units (a unit is a share of the 64 KB). Its file
is an LZ4 frame of `PayLen[b] + 3` units: frame header, block header, payload, end mark.
`Raw` are the blocks LZ4 cannot shrink, stored as they are with `PayLen[b] = N`; their
frame is longer than the reader's buffer, as 65536 + 15 bytes is longer than 65536.
All writers of a name write the same bytes, so a file is a length and the set of
positions that hold the frame's unit; the other positions are holes (zeros).

| Model | Code |
|---|---|
| `files`, `len`, `has` | the dictionary directory |
| `pc`, `arg` | where a worker thread is in the handler, its request's name |
| `handed`, `off`, `bad` | the `ofstream`: what `write` got, what write(2) wrote, badbit |
| `pos`, `seen`, `eof` | the `ifstream` and what it delivered |
| `fed`, `wr`, `out` | consumed input, `wr_off`, the array `out` |
| `DumpBlock`, `QueryBlock`, `Reply` | `onmessage` (CrowStream.cpp 43-98) |
| `Create` ... `Close` | `write_block_on_my_end` (file_access.cpp 63-86) |
| `Open` ... `Finish` | `get_block_on_my_end` (file_access.cpp 16-61) |
| `Crash` | the process dies and is started again |

`acked`, `damaged`, `contended` and `quiet` are history variables; no guard reads them.

### Abstractions

- A crash is a crash of the process, not of the machine: what write(2) took is kept.
- The stream may write any part of what it was given at any time before `Close`; that
  covers every buffer size of the library.
- A failed write leaves a prefix and the stream bad for ever.
- An assertion that fails after the truncation (`CompressFails`: no compression context, or a refused update)
  leaves the file truncated, as the code does; `AckedIntact` counts such a writer as abandoned.
- A damaged compressed payload either fails to decode or gives *some* other block
  (`Garbled`); a raw one gives zeros where it has holes. Frames carry no checksum
  (`LZ4F_compressBegin` gets no preferences).
- A name stands for its block; `Checksum` says which blocks cannot have the same name. What happens to two blocks
  that do have the same one is not modelled.
- Leaks of LZ4 contexts, malformed requests and base64 are left out:
  a request that does not parse is answered before it touches a file.

### Runs

| Run | Instance | Shows |
|---|---|---|
| `BlockStore_blocks` | 2 workers; a compressible block with a frame of 5 units or a raw one of 6, buffer of 3; workers fair | `TypeOK`, `AckedIntact`, `FoundIsWhole`, `QuietReadFinds`, `LostOnlyToRewrite`, `IsRegister`, `RequestsAnswered` |
| `BlockStore_readback` | 1 worker, raw block | **violated** `FoundIsStored` |

Blocks do not interact (each action touches the file of its own name), so a behaviour is
about one block (`focus`), shrunk or raw. Two workers are enough for a reader to meet a hole
left by a truncation: one truncates the file the other is filling, ends its own write and
reads while the other still fills; the theorems below hold for any number. Three units let a frame fall into two fills at every place that matters: headers, payload, end mark.

Fairness: each worker is an operating system thread running straight-line code, so its
handler's steps as a whole are weakly fair. New requests, failures and crashes are not.

### The register

`BlockRegister` is the store as a client sees it: `held`, the names whose block can be found, and of each
client's request its phase. A dump changes `held` while it is under way and is answered once its name is
held; a query is answered with what the register was at some moment since it was made. Names are void
when two dumps have had the file open at once, and raw blocks are from the start. What the code
does not promise is in it as well: a dump that met a full disk (`unwritten`) is answered "Success" too, and an
open the system refuses, or an assertion that fails, is an error that says nothing about the block.

`BlockStoreRegister` adds two history variables to `BlockStore` and the mapping. `was` keeps, for a reader, what
`Held` said of its block in every state since the request; `refused` says whose open or assertion failed. `Remember` gives
them one next value in every step and no action reads them, so they exclude no behaviour of `BlockStore`.
`Held` are the files from which a reader who starts now gets the whole payload; the end mark may still be
missing, as the decoder needs none. `IsRegister` is the specification of the register under this mapping.

A dump of a block that is there truncates its file first: a query meanwhile may truthfully find nothing.
Hence "at some moment", and hence a block that a crash leaves truncated although it was acknowledged before:
the register too was unset by a dump that never came to its end.

### Findings

- `BlockStore_readback`: `file_access.cpp:48` copies the decoded bytes into `in` and
  returns `out`. One call decodes a compressed block, so the defect stays hidden until a
  block is incompressible: then the second call overwrites the first bytes of `out`. The
  assertion on `wr_off` holds all the same.
- Met while reading, without a run: `dictionary_block_limit` (`example.config:15`) is
  never read, so the number of blocks has no bound.

`FoundIsWhole` leaves out raw blocks (that finding) and names two writers ever had open
at once: there a hole inside a payload may decode to another block, which the frame,
without a checksum, does not reveal.

### Proofs (`BlockStoreProofs`)

For any set of workers and blocks, any `PayLen` and any `N >= 3` (assumption
`BlockStoreAssumption`):

| Theorem | Statement |
|---|---|
| `TypeCorrect` | `Spec => []TypeOK` |
| `AckedSafe` | `Spec => []AckedIntact` |
| `FoundSafe` | `Spec => []FoundIsWhole` |
| `QuietSafe` | `Spec => []QuietReadFinds` |
| `LossIsRewrite` | `Spec => LostOnlyToRewrite` |
| `ImplementsRegister` | `RegisterSpec => IsRegister` |

`TypeOK` alone is not inductive: `wr_off <= N` needs that `wr` is what the decoder makes
of the first `fed` units (`ReaderInv`, `Decoded`), that a file never outgrows its frame
(`FileInv`) and that a writer has handed over what its place in the code says
(`WriterInv`). Their conjunction `Basic` is inductive (`BasicHolds`). On top of it:

- `Covered`: unless a writer was abandoned, each position of a file holds its unit or will
  be written by a writer still at work. With no writer left the file is entire: `AckedSafe`.
- `Uncontended` and `ReadExact`: with one writer at a time a file is a prefix of its
  frame, and a reader has seen no hole unless it was overtaken by a truncation that kept
  it from the end of the payload. Hence `FoundSafe`.
- `QuietInv`: an undisturbed reader has seen all it has read, up to the end of the frame:
  `QuietSafe`.

`ImplementsRegister` needs what a reader knows of the past (`WasInv`): `was` has the moment at hand; it has a
moment at which the block was held once the reader is past the payload, and one at which it was not once the
reader has met the end of the file before that. Both hold when they come about, because a file without holes
is held exactly when it is as long as its payload (`HeldByLength`), and no later change of the file can
undo them. With `LoopInv`, that the loop ends at the end of the frame or of the file, the length check of
`Finish` decides between the two. Each action is then one abstract step or none, with a lemma of its own:
`Changes` for the steps that touch a file, `Ends` for those that settle an answer, `Silent` for the rest,
`VoidStep` for what happens to void names; a second writer's truncation is the overlap (`CreateStep`).

`RequestsAnswered` (liveness) is model-checked only.

## 4. ServerLifecycle

### Correspondence

| Model | Code |
|---|---|
| `main`, `running` | `main()` 158-192, the flag and `int_signal_handler` |
| `server`, `assigned` | the thread "Crow": `App::run`, `Server::run`; `server_` |
| `handler` | whose function each signal has: nobody's, asio's, main's |
| `pipe`, `waiting` | asio's signal pipe, `signals_.async_wait` |
| `pool`, `worker`, `stopped` | `io_context_pool_`, the worker threads, `io_context::stop` |
| `io`, `ioStopped` | the thread that runs `io_context_`, its stop |
| `shutting`, `conns` | `shutting_down_`, workers that serve connections |
| `sent`, `asked` | history: signals sent, and sent after main's message |

`timely`, chosen once, says whether the server accepts (or has failed) when main wakes up after its
500 ms; a server that is not timely may be later or not. `MaxSignals` bounds the signals a run sends. A worker that
answers a request is in `write` (`BeginWrite`): `do_write_sync` (`http_connection.h:549`) blocks the thread
until the kernel has taken the answer, for which the client must read, or until the client has gone. A stop of
the io_context does not interrupt it.

Left out: which worker gets a connection (any may), the close frames `App::stop` posts
to the websockets in its list (nothing calls `add_websocket`, so the list is always
empty), the tick function (never set), the
default action of SIGTSTP before main takes it over (it only suspends the process).
`server_` and `io_context_pool_` are read by `stop` without synchronisation; the model
lets it see any part of a pool that is still growing.

### Runs

| Run | Instance | Shows |
|---|---|---|
| `ServerLifecycle_stops` | 2 workers, 3 signals, server timely or late | `TypeOK`, `ExitIsClean`, `MainOwnsSignals`, `SignalShutsDown`, `StopIsCarriedThrough` |
| `ServerLifecycle_late` | the same | **violated** `SignalHeeded` |

Two workers are enough for a stop to reach one and miss the other; three signals let one
come in each of the phases default, Crow's, main's. The process ends, so deadlock is not
an error here; that nobody hangs is what the two liveness properties say.

Fairness: one weak fairness condition for each operating system thread (main, the server
thread, the accepting thread, each worker). Connections, requests and signals are not fair, and
neither is the end of a synchronous write (`EndWrite`), which is up to the client. The liveness properties
are therefore conditional on `NoneHeld`: no worker stays in such a write for ever. When one does, nothing in
the code gets it out, `Server::run` waits for it, main waits for `Server::run`, and the shutdown that
`main.cpp:170` announces does not happen.

`StopIsCarriedThrough` is about every stop of a complete pool, main's or that of Crow's own handler, and also
one that a late server meets between the start of its workers and that of the accepting thread.
`SignalShutsDown` is `SignalHeeded` for a timely server.

### Finding

`ServerLifecycle_late`: `main.cpp:165` sleeps 500 ms instead of waiting for the server.
If the server is later, Crow registers SIGINT and SIGTERM over main's handlers, or
`App::stop` finds no `server_` or a part of the pool; the program then does not end, with no worker held.

Without a run: a port that is taken ends the process from the server thread (`app.h:531`); `ExitIsClean` speaks of
a return of main only.

### Proofs (`ServerLifecycleProofs`)

For any finite set of workers and any number of signals (assumption `ServerLifecycleAssumption`):

| Theorem | Statement |
|---|---|
| `TypeCorrect` | `Spec => []TypeOK` |
| `ExitSafe` | `Spec => []ExitIsClean` |
| `OwnsSafe` | `Spec => []MainOwnsSignals` |

`ExitIsClean` holds because of how far the threads are at each place of `Server::run` (`Threads`): a
worker is only started late, and `reap` is only passed when all are over. It does not ask for a timely server: one
that is late, like a worker that is held, makes the program hang, never leave a thread behind. `MainOwnsSignals`
does: once main has woken, a timely server is past its own registrations (`Taken`).

## 5. HttpConnections

### Correspondence

The connections that one worker thread serves, with the timer they share. Everything the thread does
it takes from its io_context in order (`ready`): a connection that the accepting thread posted, a read that is
done, a tick. A buffer is worked on (`work`) without anything else of the thread in between.

| Model | Code |
|---|---|
| `conn[c].state`, `.read`, `.data` | the `Connection` and its socket; the `async_read_some` in flight, `buffer_` |
| `conn[c].task`, `.close` | `task_id_`, `close_connection_` |
| `tasks`, `highest` | `tasks_`, `highest_id_` of the `task_timer` |
| `Connect`, `StartConnection` | `do_accept`'s post, `Connection::start` |
| `ReadDone`, `AfterFeed` | the completion of `do_read`, before and after `parser_.feed` |
| `RouteUrl`, `HandleRequest`, `WriteAnswer` | the callbacks `handle_url` and `handle`; `complete_request` with `do_write_sync` |
| `Tick` | `process_tasks`; a due task closes its socket, which aborts the read |
| `Reads`, `Fails`, `Freed` | `start_deadline` and `do_read`; the error path; the destructor |
| `Cancels`, `Restarts`, `Erase` | `cancel_deadline_timer`, `start_deadline`, `task_timer::cancel` |
| `client`, `unsent`, `inbox`, `unread` | external: the client, and what the kernel holds in either direction |

`cut` and `robbed` are history. The requests (`Kinds`) are those that the two routes, `/version` and
`/stream`, and their absence tell apart.

### Abstractions

- A request is three units: its URL up to somewhere, the rest of the URL, the rest of the request. A read
  brings what has arrived, so a URL may come in two reads, and several requests in one. What has come of a URL is
  routed as if it were whole; a first piece may happen to be a route (`/version` of `/version?x`), and then the
  parser goes on.
- `Timeout` counts ticks, but a task may be due at any tick: a worker that was held up finds it so.
- What the kernel has done is noticed between two handlers; `reset` means that it knows of the client's
  reset, and then a read brings nothing more and `remote_endpoint` throws.
- A client that does not read leaves room for `Room` answers.
- Left out: bodies, `Expect`, HEAD and OPTIONS, static files and streamed answers, which the two routes do
  not use; the answer 405 for a method a route does not have is taken for the 404 of a missing route, which
  `handle_url` writes at the same place. What a websocket does with the
  socket is `WebSocketSession`.

### Runs

| Run | Instance | Shows |
|---|---|---|
| `Parts_small` | two connections; two requests on one, the first of six kinds, the second for either route or for none, or one `/version` on each of two; deadlines of one tick or two; room for one answer | `HttpTypeOK`, `AnswersRight`, `GuardedOrRobbed`, `IdleEnds` |
| `HttpConnections_deadline` | two connections, one request | **violated** `Deadlined` |

Two connections are needed for one to cancel the other's deadline; two requests on one connection for a
second in the same buffer, after a close, after a 404 or behind half a URL. With more than one request on two
connections the state space is out of reach of a run of some minutes; the theorems below have no such bound. A worker that has nothing to do waits, so
deadlock is not an error.

Fairness: the thread runs what is ready, the kernel completes reads, the clock ticks. Clients need do
nothing. `IdleEnds` has two exceptions. A client that does not read holds the thread in
`do_write_sync` (`Blocked`), and with it every connection of the worker. A connection that lost its deadline
to another one (`robbed`) waits for its client for ever; that is the finding. And `IdleEnds` is about clients of at
most `MaxRequests` requests: each read restarts the deadline, so a client that goes on sending is served for ever.
`GuardedOrRobbed` excepts an answer 404: a missing route is answered with the read's deadline still set
(`http_connection.h` 110-119). A worker serves on after an
exception (`http_server.h:136`), and the connection it was thrown for is freed.

### Finding

`HttpConnections_deadline`: `task_timer.h:143` starts the identifiers again at 0 when no task is left, but
the connection whose task has just run cancels its old identifier later, when its aborted read is handled.
A connection started in between has the same identifier, and loses its deadline.

Met while modelling, without a run:

- A URL that comes in two pieces is routed at the first one (`parser.h:37`); unless that happens to be a route,
  it is answered 404, and the connection ends; `http_parser_merged.h:71` says that a callback may get a few characters at a time.
  `AnswersRight` names this as its exception (`cut`).
- A request that asks for the end of the connection and is followed by another in the same buffer does not end
  it: `handle` overwrites `close_connection_` (`http_connection.h:152`).
- An upgrade at `/version` is not answered: its connection is closed.
- The queue lengths by which a worker is chosen (`http_server.h` 229-249) only grow for connections that
  were accepted.

### Proofs (`HttpConnectionsProofs`)

For any number of connections, any of the seven kinds of requests, any number of them on every connection,
any deadline and any room of a client (assumption `HttpConnectionsAssumption`):

| Theorem | Statement |
|---|---|
| `TypeCorrect` | `HttpSpec => []HttpTypeOK` |
| `GuardedSafe` | `HttpSpec => []GuardedOrRobbed` |
| `AnswersSafe` | `HttpSpec => []AnswersRight` |

The types need to know where a connection may be: `Slots` says that each is in one place only, waiting in
`ready`, reading or being worked on, and nothing is queued twice (`Distinct`). `Guards` adds, for each
connection and each task, that a task belongs to the connection that still has its identifier, which is
open and reads (`Owner`), and that a read without its task was robbed; the theft of the finding is a step
like any other, which sets `robbed`. Together these are `Base`.

`AnswersRight` compares requests with answers, and between the two is one stream of units: answered, held by
the parser, arrived, not sent yet. `Flow` says that the units still to come are the next ones of that
stream, unit by unit; `Answering` adds that what is answered has its own code, and that an answer that waits
to be written is for the next request, or is the 404 of a cut URL.  A first piece that is a route leaves its request in the middle of the URL
(`Onward`), any other ends the stream (`Refused`). The invariant `Serial` is `Answering` of
each connection. One lemma says what each unit does to the parser, and one of each action that it keeps
`Serial`. The composition of the two requests on both connections, which is out of TLC's reach, is covered
by the theorems. `IdleEnds` is liveness and stays with TLC.

## 6. WebSocketSession

### Correspondence

The connection object is one record `c`, with a field per member that matters, and each
member function is a function on it: `DoWrite`, `CheckDestroy`, `Close`, `DoRead` call each
other as in `websocket.h`. Every action is the completion of one asynchronous operation, or
a step of the kernel or the peer.

| Model | Code |
|---|---|
| `c.state`, `c.isReading`, `c.remaining` | `state_` (one `len` for Len16 and Len64), `is_reading`, `remaining_length_` |
| `c.fragment`, `c.message` | `fragment_`, `message_`, as the pieces of the frames they hold |
| `c.queue`, `c.sending`, `c.write` | `write_buffers_`, `sending_buffers_`, the `async_write` in flight |
| `c.sentClose` ... `c.closeCalled` | `has_sent_close_`, `has_recv_close_`, `close_connection_`, `is_close_handler_called_` |
| `posted` | what `send_data` posted to the io_context |
| `Start` | `start()`, with the handshake and `onopen` |
| `ReadHeader` ... `ReadSome` | the completions of `do_read` before the end of a payload |
| `ReadPart`, `ReadMessage`, `ReadPing`, `ReadPong`, `ReadClose` | the last one, with `handle_fragment` |
| `RunPosted`, `WriteSucceeds`, `WriteFails` | `send_data_impl`, `do_write`'s completion |

`Outcomes` is what `onmessage` does with a message: it answers, does nothing (`read` and
`write` are empty), closes, or lets an exception out. `tx` is what the kernel accepted;
`sent`, `handled`, `owed` and `c.closes` are history. `peer` says whether the peer is there, has shut
its end down (`fin`: the kernel goes on taking what is written to it) or has reset the connection, which the kernel
knows (`reset`: writes fail). `Becomes` lets the kernel accept a
write the moment it is started, which matters when the same handler closes the socket.

The order of completions is free but for one thing the io_context guarantees: what
`onmessage` posted was queued before the next read could complete, so it runs first.

Left out: the upgrade request and the subprotocols (before the object lives), unmasking,
the difference of text and binary (`is_binary_` is passed through), and the limit on a
message's length, which nothing sets. `close` is called only from the object's own thread,
where `dispatch` runs it at once.

### Runs

| Run | Instance | Shows |
|---|---|---|
| `WebSocketSession_session` | three frames of six kinds, fair, debug logging | `TypeOK`, `RepliesInOrder`, `MessagesWhole`, `OncloseBounded`, `Reclaimed`, `Answered`, `IsChannel` |
| `WebSocketSession_split` | two frames, headers may be split | `NoLateCompletion`, `OncloseTold` |
| `WebSocketSession_header` | two frames, headers may be split | **violated** `MessagesWhole` |
| `WebSocketSession_open` | one frame, debug logging | **violated** `NoLateCompletion` |

Three frames let a message of two fragments be interrupted by a ping, or be followed by a
close frame, with an answer in flight, one queued and one posted. A payload of two pieces is read
in one or two reads. Every behaviour ends (the peer sends a bounded number of frames and the
object goes or waits), so deadlock is not an error.

Fairness: the io_context thread runs whatever is complete, so starts, reads, posted answers
and write completions are weakly fair. The peer and the kernel are not; `Answered` is
conditional on a peer that reads (`PeerReads`). Like that of the io_context thread it takes for granted that no
HTTP connection of the same worker holds the thread in `do_write_sync` for ever (section 5).

### Refinement

`AnswerChannel` is what the application and the client may rely on: a channel that delivers
what was asked to be sent, in that order and each frame once, while it is live; then it is
cut, then over for good. The mapping takes `owed` for what was asked, `tx` for what was
delivered, and reads the life of the channel off the object and the peer (`Life`). The three
queues, the completions and the close handshake are what implements it; `IsChannel` is its
specification under that mapping, a property of `WebSocketSession_session`. A completion may
ask for several frames (a close after an answer), start the write of all that waits and end
the connection in one step, so a step of the channel may do all of these.

### Findings

- `WebSocketSession_header`: `async_read_some` of two bytes may return one
  (`websocket.h:373`); the code relies on two and checks it in debug builds only.
- `WebSocketSession_open`: with debug logging `onopen` can throw inside the constructor,
  which frees the object while its first write is in flight (`websocket.h:344`).

`OncloseBounded` is about the calls of `onclose`: `check_destroy` (line 759) calls it without noting that it has, so
the application may hear of one end several times. The property bounds how often, and says that while the peer is there
it does not hear of an end before the server's own close frame.

Two comments of `websocket.h` say other than the model shows, without a run of their own:
`onclose` is told of an unclean end after the server's own close frame (line 757: "we did
not receive a close packet (or send one)"), and a closed connection is not destroyed once
the close frame is sent (line 258), but when the peer answers or goes. A peer that stays
silent keeps the object; no timer watches a websocket.

`Reclaimed` has one exception, `Abandoned`: an exception out of `onmessage` (the answer to
a request that is not UTF-8 cannot be dumped) leaves an open connection nobody reads.

### Proofs (`WebSocketSessionProofs`)

For any frames, outcomes and number of frames (assumption `WebSocketSessionAssumption`):

| Theorem | Statement |
|---|---|
| `TypeCorrect` | `Spec => []TypeOK` |
| `CompletionsSafe` | `~DebugLog => (Spec => []NoLateCompletion)` |
| `OncloseSafe` | `~DebugLog => (Spec => []OncloseTold)` |
| `OncloseBoundedSafe` | `Spec => []OncloseBounded` |
| `RepliesSafe` | `Spec => []RepliesInOrder` |
| `ImplementsChannel` | `Spec => IsChannel` |
| `MessagesSafe` | `~SplitHeaders => (Spec => []MessagesWhole)` |

The condition `~DebugLog` is what the finding `WebSocketSession_open` violates. The
invariant `Inv` adds to the types what each member function relies on: a read is in flight
only while the close handshake is not over (`Sound`), and answers are posted only while a
read is in flight, which is why `check_destroy` cannot delete the object under them. One
lemma says of each member function that it keeps a good object good (`DoWriteGood`,
`CheckDestroyGood`, ...), one of each action what it does (`ReadCloseStep`, ...).

`RepliesSafe` and `ImplementsChannel` rest on `Queued`: the kernel has a prefix of what was asked for, and
while the connection is up `sending_buffers_`, `write_buffers_` and what was posted hold the rest, in that
order. Each member function either moves a frame along (`Carries`) or asks for one more (`Sends`), and for
each action `SendStep` says what it may do to what is sent; a step of the channel follows from that alone.

`OncloseBoundedSafe` counts calls against the writes still to come (`Calls`): as long as no close handler was noted
(`Early`) each write in flight or posted may call once more; after it (`Noted`) none may.

`MessagesSafe` needs what the peer has said at each number of frames. `said` keeps it, one entry a frame, as
history: a fold over the frames would say the same, but the provers have no induction over it. `Heard`: the
frames in `wire` are those not consumed yet; `handled` is what was said by the frames consumed
(`Record`); and while the object reads, `fragment_`, `remaining_length_` and what is left of a payload agree
with the frame it is in (`Place`, `At`). Where a header may come in two reads this breaks at the first frame,
which is the finding `WebSocketSession_header`; hence the condition `~SplitHeaders`, and no other.

## 7. Execute

### Correspondence

`pipes` is the global array of six descriptors and `table` the descriptors of the process.
Every close, read and write of the code goes through the array, by the macros of
`execute.cpp` 26-32, and so does every action: which end of which pipe it meets is looked up
when it happens. `Call` is the one caller, `backtrace_level_2` (`backtrace.cpp` 113-117),
which an error runs on whatever thread makes it.

| Model | Code |
|---|---|
| `pc`, `step` | where a call is in `exec_command_`; the iteration of its loops |
| `MakePipe`, `PipeFails` | `pipe` for each of the three, 43-51 |
| `Fork`, `ForkFails`, `CloseChildEnd` | 53-65, 112-115 |
| `Exec` | the child from `fork` to `execv`, 67-108, on its copies of array and descriptors |
| `Write`, `WriteBreaks`, `WriteFails`, `CloseInput` | 120-158 |
| `CallReadAll`, `Read`, `ReadEof`, `ReadFails` | `read_all`, once for each stream, 160-190; `fd` is its argument |
| `CloseRead`, `Wait` | 192-230 |
| `left`, `got`, `result` | `total_written`, `status` |
| `buf`, `child`, `killed` | external: what the pipes hold, the child process, SIGPIPE |

`alone` is history: no other thread was in `exec_command_` during the call. What a pipe does is
pipe(7): a reader gets what is there or, once nobody can write, the end of file; a writer
waits for room or, once nobody can read, gets EPIPE or SIGPIPE. asio ignores SIGPIPE from the
first `io_context` on (`asio/io_context.hpp:486`); before that it ends the process, so both are
possible. A command reads a unit, writes a unit to either stream, exits with either result, or
is killed at any time. No call is interrupted by a signal: the handlers the program installs (`std::signal`, asio's)
restart it. Bytes are units: 4096 and 65536 are `Capacity`, a write of several units
is several steps.

### Runs

| Run | Instance | Shows |
|---|---|---|
| `Execute_calls` | two calls, two threads, eight descriptors, pipes of one unit, input of two, commands that answer before they have read all and that fill standard error | `TypeOK`, `ResultWhole`, `NothingHeld`, `IsCommandCall`, `CallEnds` |
| `Execute_shared` | two calls, two threads, enough descriptors | **violated** `OutputsOwn` |

Two calls may overlap, or follow each other after a failure that left descriptors open; eight
descriptors are two more than one call needs, so that the second may find too few. Pipes of one
unit and two units to write are the smallest in which a writer must wait. A process that has
nothing left to do stops: deadlock is not an error, `CallEnds` says who may hang.

Fairness: a thread that is in `exec_command_` runs, and so does a child that can do its next
step. That pipe or fork fail, and deaths, are not fair.

`ResultWhole`, `NothingHeld` and `IsCommandCall` are promises to calls that no other overlaps:
the finding is what happens to the others. `CallEnds` names the two ways the parent and the
child wait for each other (`CrossWait`): the child fills standard error while the parent drains
standard output, and the child fills its output while the parent still writes its input. No text
of the repository says that they cannot happen, and `addr2line`, the one command, writes little.
`NothingHeld` is about calls that waited or could not fork; every other early return leaves
descriptors and a zombie behind (145, 157, 181, 189). No property detects that leak; later calls must not take
what it left for their own, which is part of `ResultWhole`.

`CommandCall` is the abstract call: running, ended, returned with all that was written and with
success only if the command had it, or failed; void once it is overlapped. `IsCommandCall` is its
specification for each call under the mapping `Phase`, `Answer`, `Output`.

### Finding

`Execute_shared`: `execute.cpp:19` is one array for all threads, and two threads that make errors at
backtrace level 2 are in `exec_command_` at once. One then reads the pipe of the other.

### Proofs (`ExecuteProofs`)

For any calls, threads, descriptors, pipe size, input and commands
(assumption `ExecuteAssumption`; that the kernel's pipes and processes are as in `Execute` is part
of the model):

| Theorem | Statement |
|---|---|
| `TypeCorrect` | `Spec => []TypeOK` |
| `ResultSafe` | `Spec => []ResultWhole` |
| `HeldSafe` | `Spec => []NothingHeld` |
| `Implements` | `Spec => IsCommandCall` |

`ResultWhole` and `NothingHeld` speak of a call that is done; what makes them true is spread over
the call, its child, the table of the process and what earlier calls left. The invariant `IInv`
adds it, for a call no other overlaps and that has not failed (`AloneInv`): at each place the ends of
its pipes that are open are those of the array the code has not closed yet (`HasR`, `HasW`, `OwnTable`); its child has
all six before `execv` and three streams after it (`OwnChild`); output read and output still in the
pipe make up what the child wrote (`Streams`); and no child of another call, such as one that a
failed call never waited for, holds an end of its pipes (`HoldsNot`), so that the end of
file means that its own child has exited (`ReadEofAlone`). Failed calls need no invariant of their own:
they only keep descriptors, which the kernel then does not give again.

One lemma of each action says that it keeps `AloneInv` for its own call; three say so of the steps
of others (`OtherParent`, `OtherChild`, `CallAlone`), which cannot run in `exec_command_` while the
call is there. For `Implements` each action is one abstract step or none: `WaitSeen` is the return and
needs `IInv`, `EndSeen` the end of the command, `CallSeen` the overlap that makes a call void.

## 8. Startup

`Startup` is `main` from its arguments to the bind, with `arg_parser`, `configuration`,
`g_global_config_t::get`, `true_false_helper` and `is_no_color`. One action is one turn of the loop
over `argv` (`NextArg`), one line of the file (`NextLine`) or one line of `main` (`ReadVerbose` ...
`Bind`); every refusal of the code is a place of `at`. Asking for a colour is part of each action
that prints or makes an error (`AskColour`), as the first to ask settles the cache.

Characters are abstracted: an argument is its dashes and a word, a line is a sequence of words and of
`[ ] = #`, blanks are gone and case is lower. `LongSpan`, `IntSpan` and `PortSpan` are the widths of `long long`, of `int` and
of a port; `NoWord` is the empty word. What the regular expressions match is in `SectionOf`, `KeyOf` and `ValueOf`: a head is alone
on its line, a key is what stands before the first `=`, and a comment begins at the first `#`,
wherever it stands.

| Property | Says |
|---|---|
| `StartupTypeOK` | types; the port the server gets is one |
| `ArgsAsGiven` | what the arguments mean, said of the whole command line instead of turn by turn; only faulty ones are refused, and none is obeyed but those that ask for help |
| `ConfigAsWritten` | what the file means, said of all its lines; refused are exactly files with a value before the first head |
| `Overridden` | `example.config` 3-9: the server runs with what the environment or else the file says; the verbosity unless only `-V` asked for it |
| `ColourAsSet` | nothing decides about colours before the settings are known |
| `NeverGuesses` | the server never runs with a setting given twice, or with a number that is none or beyond a `long long` |

`ColourAsSet` holds because an error made earlier, whose text is coloured, always ends the program,
and because the message that would come earlier (main.cpp:118) is never printed: `debug::verbose` is
still false there.

Where code and text differ, without a run:

- The switch `-V` ("Enable verbose output", main.cpp:19) has no effect: the file's setting replaces it
  (main.cpp:129). `Overridden` leaves that verbosity out, rather than state either.
- Help is not first when another argument is faulty: main.cpp:100 promises to process it "first if it appears and
  ignore all other arguments", and the parser, called earlier, refuses the line. `ArgsAsGiven` leaves faulty lines
  that ask for help open.
- COLOR can switch colours on only with `always` (`example.config:9`).
- A port out of range is cut to 16 bits.

### Proofs (`StartupProofs`)

For any arguments, files and environments, of any length (assumption `StartupAssumption`: numerals stand for
integers, the span of an int is even, that of a `long long` no smaller, and that of a port not zero, so that all have values to
be cut to):

| Theorem | Statement |
|---|---|
| `TypeSafe` | `StartupSpec => []StartupTypeOK` |
| `ArgumentsSafe` | `StartupSpec => []ArgsAsGiven` |
| `ConfigurationSafe` | `StartupSpec => []ConfigAsWritten` |
| `OverridesSafe` | `StartupSpec => []Overridden` |
| `ColourSafe` | `StartupSpec => []ColourAsSet` |
| `GuessesSafe` | `StartupSpec => []NeverGuesses` |

The invariant `StartupInv` has four parts. `Typed` are the types. `Parsed` says of the arguments so far what
`ArgsAsGiven` says of all: what leads is all but what is bare, no option is faulty, and `current` is the
parameter of the last option when that one waits for its value. Appending one argument changes what is said
of at most the last two positions (`LongerArgs`, `GivenNext`), which is all that a turn of the loop looks at.
`Written` says the same of the file: `section` is that of the last head, and the values of a key are those of
its lines (`LinesOf`), each at the place that its line has among them. `Settled` says of each place of `main`
which globals hold what the file or the environment says, and that nothing has asked for colours
before `main` is past the last setting they depend on; from it follow the last three theorems, with `Written`
for the lines that give a setting twice.

## 9. UnitTests

The thread of a test stores its result, then sets a flag; `main` polls the flag, joins, reads the
result and counts. Each of these is a step, the result is "unset" until it is stored, as the code
leaves it uninitialised, and an unset result may read as either. An exception that leaves a test ends
the process. `CountsTrue`: the counts are those of the tests that ran, and the tests that ran are the
selected ones, each once and in the table's order (`InTurn`).
`SuccessEarned`: what the program returns as success. When all tests run, each of the table ran and exactly two
failed; when some are named, each name is one test's, each named test ran once, and all returned true.

Two things differ from the text. The runner succeeds whenever exactly two tests failed (utest/main.cpp:162), also for
named tests, although line 157 colours a selective run as good only without a failure and line 165 then prints that all
passed: `SuccessEarned` leaves such selections out, and no property is about them. And the
table has three tests that fail by design, two dummies and the terminal's (`test.cpp` 193-195), so a run of
all tests fails although line 159 says "2 DESIGNED TO FAIL".

### Proofs (`UnitTestsProofs`)

`CountsSafe` (`TestsSpec => []CountsTrue`) and `SuccessSafe` (`TestsSpec => []SuccessEarned`) hold for any table of
different tests and any names, however the thread's two stores and `main`'s reads interleave (assumption
`UnitTestsAssumption`: the table is a sequence without duplicates, as the names of a C++ map's entries are). The
invariant `TestsInv`: a flag that is seen means that the result is the verdict (`Phases`); the counts are those
of the tests that returned but for the one that is pending (`Counted`); these are the selected ones
of those `main` has passed (`Ordered`). That as many names were found as were given means that each was found
once, by counting: a map onto a set of the same size is one-to-one.

## 10. Checksum

Two blocks are summed side by side, byte by byte, by the code's table and update. A word is the set of its
bits that are one: XOR is the symmetric difference (`SymDiff`), `crc >> n` moves the set down (`Down`), `& 0xFF`
is an intersection. A hexadecimal digit has `DigitBits` bits instead of 4, a word `WordBytes` bytes instead of 8.

`IsRemainder` compares with the definition of a CRC: each bit of the block counts with the power of x of its
place, modulo the generator, found one bit at a time (`Power`); a bit of the sum is one if an odd number of them
has it. `NamesApart`: blocks that differ within one stretch of `Width` bits have different names, of one line; that
is what the block store may rely on when it takes a name for a block. TLC compares all pairs of blocks of up to
four bytes, with words of six bits and bytes of two: each byte then moves through every place of the word and out of it.

`get_checksum_str`, the name the store uses, leaves out the complement that `crc64sum.cpp:44` says
ECMA-182 requires, and gives the bytes lowest first; as names, these are as good.

### Proofs (`ChecksumProofs`)

`RemainderSafe` (`ChecksumSpec => []IsRemainder`) and `NamesSafe` (`ChecksumSpec => []NamesApart`) hold for digits
and words of any width, blocks of any length and any generator whose highest bit is set, as that of
`0xC96C5795D7870F42` is (`ChecksumAssumption`; the code's values are `DigitBits = 4`, `WordBytes = 8`).

- One turn of the loop, `Shift`, is linear (`ShiftXor`), and nothing but zero becomes zero (`ShiftZero`): the highest
  bit of the result tells whether the generator was added. Several turns are a recursive function; that it exists and
  does what it says (`StepsExist`, `ShiftedNext`), and all that follows for any number of turns, is shown by
  induction as the least element of a set of counterexamples (`Least`, `Induction`).
- `Updated`: one look in the table and a move by a byte are the turns of a byte, for high bits only move
  (`ShiftedHigh`).
- `Sum(D, m)` is the sum of the bits in `D` after `m` of them. A place that an odd number of bits count for stays so
  through a turn because parity is linear too (`OddXor`, `SumNext`); as many turns as a word is wide take their bits in
  as if at once (`SumMoved`). So the sum of a block and one byte more is the update of its sum (`RemainderNext`), which
  makes the invariant `CInv` inductive; `IsRemainder` alone lacks the types.
- Blocks whose differences lie within a word have the same sums up to the first of them, sums that differ at the end
  of that word, since there the difference itself was taken in at once (`NearApart`), and ever after, since no turn
  brings two sums together (`Differ`). A name tells every bit of its sum (`NameTells`).

### The run

`Parts_small` checks sections 8 to 10, and the HTTP connections of section 5: a behaviour is one of the four. Four arguments of seven, three
lines of eleven and three environments are enough for an option, its value and a fault after it; for a
head, a setting and the same setting again; for each override, absent, true and false. Three tests, each
with three possible ends, can fail twice and once more. A part that is done stops, so deadlock is not an
error.

## 11. Only model-checked, and not modelled

Liveness stays with TLC: the provers have neither ENABLED nor fairness. Every invariant and every action
property of a passing run is stated by a theorem, the three refinements among them; the instances of TLC then
show that the theorems are about states that occur.

Not modelled, with the reasons in `PROJECT.json`: what is vendored beyond the parts of Crow and LZ4 named
above; the empty files; the tests' bodies; formatting (log, backtrace, help). Nearly all of the
repository's lines are vendored or generated: SQLite, CImg, libpng, JSON, ASIO, and pictures as arrays. The
program's own code that keeps state is modelled but for `WorkerThread.h`, which nothing instantiates, and the
row in a demonstration database.
