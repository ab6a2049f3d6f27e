# A TLA+ verification of DistBuildSys

DistBuildSys distributes C++ compilations. A wrapper that stands in for the
compiler hands each call to a client daemon over a Unix socket. The daemon picks
a build server from UDP advertisements, opens a TCP session with it, uploads the
source file and headers the server does not have yet, and receives the object
file, or falls back to a local compilation. The server keeps one view per client
of the files it has, and a thread pool that runs the compilers.

All paths below are relative to the repository; the C++ code is in `src/src/`.

## 1. Inventory

| Component | State | Operations | Talks to |
|---|---|---|---|
| `CompilerManager` (server) | deque of requests, mutex, condition variable, atomic count of active jobs, stop flag, worker threads | `add_compilation_request`, `invalidate_requests_for_session` (no lock), `_worker_loop`, `_compile_src`, destructor | sessions (raw pointer), broadcaster |
| `ClientView` (server, one per client) | file states by client path, sessions by UUID, created directories | `add_session` (register, preprocess, scan, confirm, sweep), `update_file_state`, `remove_session`, `try_compile_for_active_sessions` | sessions, disk |
| `ServerSession` (server, one per TCP connection) | required files, `_are_args_ready`, `_is_compiler_running`, transfer states, write queue | `handle_server_session`, `process_file_chunk`, `try_request_src_compilation`, `publish_compilation_results`, `terminate_server_session` | client, view, pool |
| `Server`, `ClientViewsStorage` | acceptor, views by client UUID | accept, first message, `add_client_view` | view |
| `ResourceBroadcaster` (server) | number of free jobs | datagram every 100 ms | pool, listeners |
| `ResourceListener` (client) | last advertisement of each server | receive loop, clean-up every 2 s, `pick_compilation_server` | daemon |
| `Client` (daemon) | sessions and compiler calls by UUID | `_handle_ipc_request`, `connect_to_server`, `remove_client_session` | wrapper, sessions, listener |
| `ClientSession` (daemon, one per connection) | files to send, object file, channel of one response, mutex | `start_client_session`, `_handle_client_session`, `_process_obj_file_chunk`, `perform_local_compilation`, `terminate_client_session` | server, daemon |
| `UnixIpcManager`, `distbuild_wrapper` | one connection per call, count of connections | accept, read request, write response; the wrapper's `main` | daemon |
| `proto_io`, `send_msg`/`_writer_loop` of both sessions | strand, write queue, `_write_in_progress` | frame, enqueue, write, retry; read length and payload | the other end |
| `*.pb.*` | the fields of the eleven messages | parse, serialise, size, copy | both ends |
| `CompilerCall`, path conversions, `preprocess_compiler_call` | classified command line | take a command line apart, put it together on the server | daemon, session |
| `IncludesCache` | header cache | include search | daemon |
| `DepFilesState`, `DepFile` | dependency flags, targets | write and read dependency files | the daemon's test entry point |
| storage classes, `yaml_cfg`, mains and tests | - | - | - |

What is hard in it: four I/O threads on the server and eight on the client run
every coroutine; the pool's workers call back into sessions through raw
pointers; several sessions of a client share file states and files; a scan of
file states and a scan of the request deque take no lock; connections and
processes die; datagrams are lost and reordered; mutexes are held over
`co_await`; the two ends of the Unix socket have separate copies of the framing;
a failed parse is not noticed; a command line is rewritten twice before a
compiler sees it. `PROJECT.json` lists these hazards at their lines.

Correctness of the parts: the pool runs each accepted request once, within its
slots, and shuts down; a session is compiled when and only when its files are
there, from the contents its client declared; every client gets an object file
or compiles locally; every wrapper gets the answer of its own call; a request
finds a server if there is one.

## 2. Modules

```
CompileService        what a session may rely on when it asks for a compilation
  ^ implemented by CompilerManager   (theorem PoolImplementsService, run pool)
  ^ used by ServerSessions           (theorem SessionsKeepPoolContract, run sessions)
CompilerManager       the thread pool: mutex, condition variable, atomics, destructor
ServerSessions        ClientView + ServerSession + ClientSession's dialogue, over TCP
ClientDaemon          wrapper + IPC coroutine + session table + session coroutine
ResourceAdvertising   broadcasters, UDP, listener, clock
IncludesParser        header search, cache of system headers
LockOrder             every mutex of both programs, bounded I/O threads, suspended coroutines
Connection            one TCP session byte by byte: strands, queues, writers, readers
  uses ProtoMessages  the generated message classes and their wire format
WrapperCall           one call of the wrapper, from its command line to its exit code
  uses IpcFraming     the two copies of the Unix socket's framing
  uses CompilerCall   command lines and paths, client and server
  uses DepFiles       dependency files, written and read
EagerFold             a left fold that evaluates each step before the next
CompilerManagerProofs, ServerSessionsProofs, ClientDaemonProofs,
ResourceAdvertisingProofs, ConnectionProofs, LockOrderProofs,
IncludesParserProofs, WrapperCallProofs  theorems
MC*                   constants for TLC
```

**CompilerManager.** One action per critical section of `_mtx` and one per access
to shared state outside it. A worker's `pc` runs through `loop` (evaluates the
wait predicate), `waiting`, `announce`/`announce_store` (load of the counter,
store into the broadcaster), `compiling`, `notify`, `release`/`release_store`,
`publish`. `NotifyOne` chooses any waiting thread; `SpuriousWakeup` is allowed.
`Verbose` sessions stand for compilers that write more than a pipe holds:
`_compile_src` waits for the process before it reads the pipes, so they never
end. `invalidate_requests_for_session` takes no lock in the code; here it is one
step (marked before or after a worker's pop), the undefined reads of a deque
being changed are not modelled.

**ServerSessions.** A file's contents is a sequence of chunks, each the version
of the client's file it was read from; a hash is the contents, a size the number
of chunks. `add_session` is split where the code gives up or never takes the
view's mutex: `Register` (the locked block), `Preprocess`, then per file
`ScanRead` and, if it was INITIAL, `ScanClaim`; `Confirm`; `TryAfterAdd` (the
sweep). `process_file_chunk` is split at every access to a shared file state:
`ReceiveChunk`, `CheckSize`, `RejectUpload`, `CheckSha`, `AcceptUpload`,
`TryAfterUpload`. The session's own mutex, held over these steps, only excludes
`publish_compilation_results` and `terminate_server_session` of the same
session, which is a guard of `PublishJob`. The sweep holds the view's mutex,
which every status update takes, so it is atomic. A connection is a FIFO each
way; `Disconnect` ends it. The object file travels as one message that says
whether a chunk was marked last.

**ClientDaemon.** `ipc_pc` follows `_handle_ipc_request` and `connect_to_server`,
`sess_pc` follows `_handle_client_session`. Sessions and compiler calls are
inserted and erased together, so one table stands for both maps. The
uninitialized `_session_uuid` is a choice between the nil UUID and a value that
is no key. Publishing with the session's mutex held over the `co_await` is the
label `publishing`, during which `terminate_client_session` is blocked. The
server's messages are chosen by the environment: `MayAbort`, `MayRefuse` and
`MayLose` say which faults occur. The client waits for a compiler or linker before
it reads its pipes, as the server does: with `MayFlood` one may fill a pipe, and the
coroutine that waits for it is `hung`, with its thread; with `MayNotStart` a process
may not start, which is an exception. After a use of a freed session the model goes
on as if the memory were intact.

**ResourceAdvertising.** The network is a set of datagrams that may be delivered
any number of times, in any order, or never. Time is discrete; a tick waits for
a clean-up that is due.

**IncludesParser.** `SourceFileParser`'s recursion is the variable `stack`, one
frame per file whose directives are being followed; one action per outcome of
`_process_include_directive` (known path, unresolved, already found, cached,
read). `Client::_mtx` is held while the headers are collected, so one call is
parsed at a time; the cache outlives the call, and any sequence of calls is
allowed. The reference is `Reachable`, the least set of files closed under what
the compiler includes for a directive. The disk does not change, names have one
component (no `..`), and no include directory lies inside another.

**LockOrder.** A coroutine is the sequence of its synchronisation steps, in the
order of the code: `Lock`, `Unlock`, `Touch` (a critical section with nothing in
it that blocks), `Await`, and the few effects (`Do`) on which the order depends:
the view a connection gets, the readiness of a session, the pool's queue. The
sequences are built by operators named after the functions, so that a call in the
code is an operator inside an operator here. `Dispatch` puts a coroutine that can
be resumed on one of `IoThreads` threads; a thread stays with its coroutine until
it awaits or ends, also while it is blocked. `side` chooses the program: the two
share no mutex. `aborted` are the calls whose server sends an abort.

**ProtoMessages.** Per class four definitions, from the constructor,
`_InternalParse` (tag to field), `_InternalSerialize` (fields in order) and
`ByteSizeLong` (fields counted); the interpreter of these tables is the protobuf
runtime (external). The three tables are independent, as they are in the
generated code, and must agree for a message to arrive. A varint is one byte. A
field is stored before its UTF-8 check, and parsing stops at the first failure,
as in the generated parsers. `all_req_up_complete` is never sent and left out.

**Connection.** `posted` are the lambdas dispatched to a strand, `queue`,
`in_progress` and `writers` the writer's state, `wire` the bytes in flight.
`RunPosted` is the lambda, `WriterStarts`/`WriteSome`/`WriteFails` the writer,
which leaves the message in the queue on the client and takes it out on the
server; `ReadLength`, then one action per handler, are the reader. `holds` says
who keeps a session object alive; when nobody does, its destructor closes the
socket, and a socket closed with unread bytes resets the connection. What the
handlers decide from data that is not here (whether an upload is accepted, which
result the compiler has) is a choice; `ServerSessions` and `ClientDaemon` have it.

**WrapperCall.** `main`, `WriteRest`, `ReadResponse` are the wrapper; `accept_loop`
and one action per suspension point of `_handle_session` and
`_handle_ipc_request` the daemon. A byte is a digit below `Base`, so that lengths
need several digits. A session with a server is one step (`RemoteAnswers`, or
`perform_local_compilation` when it gives up). `ran` records the commands; their
meaning for the properties is `Meaning`: include directories in order, files
named by options, inputs, and the other words. A path is the sequence of its
components; an option that is joined to its value is one word. `Files` are the names
under which the daemon finds a file from its own directory, relative ones included:
a source is kept as it was typed. `remote.files` says by which name the server asks
for each declared file; a server compiles only what it was asked to have under the
declared names, and `_send_required_file` leaves a session `stuck` otherwise.
`Verbose` command lines may fill a pipe wherever they are run, which leaves the
coroutine `hung`; a session that gives up and finds no compiler is `stuck`, because
the exception is swallowed. `test_handle_compiler_call`, the daemon's entry point for dependency
files, may run on any call; the three flags of `DepFilesState` are uninitialised
and any of them may be set.

## 3. Runs

| Run | Instance | Shows |
|---|---|---|
| `pool` | 2 workers, 3 sessions, one of which hangs its compiler | counter = busy workers; no lost wake-up; queue drained at shutdown; an idle pool advertises a job; refinement of `CompileService`; every request served; destructor returns |
| `sessions` | 2 sessions, any non-empty subset of 2 files each, 1 edit, 1 lost connection, versions of different sizes | no ready session is forgotten; one pool request per session |
| `sessions_live` | 2 sessions, 2 files of two chunks, no faults | unless both sessions upload the same file: the declared contents is compiled, UPLOADING files have a live uploader, the pool holds no session that is gone, both clients conclude |
| `daemon` | 2 compilations, 1 link step, all faults | own answers, empty table, no wait on an erased session, every wrapper answered with the exceptions below |
| `advertising` | 2 servers, one may stop, 2 requests | silent servers forgotten in time, entries never overdrawn, every request placed |
| `includes` | 2 source files, 2 header names, 4 directories, all 1024 trees | required files are headers the compiler reads; none is missed except behind headers cached earlier; bounded recursion |
| `locks` | 2 sessions of one client, 2 I/O threads, 1 worker; both programs | no circle of waiting threads; I/O threads starve only behind sessions suspended while publishing; racing connections get one view; all threads come back |
| `connection` | 2 adverts, 2 requests, at most one file of two chunks, 3 results, frames whole or cut, 1 network failure | the advertisement is heard as it was sent; messages arrive in order and intact up to the first text that is not UTF-8; queues are never left without a writer; aborts and last chunks are heard; writers rest |
| `wrapper_call` | 12 command lines, of which 2 may fill a pipe, 3 exit codes, 2 starts of the daemon, a killed wrapper, requests cut at two places | exit code 0 means the user's command was compiled, any other that it failed on the client; framings agree; a file is asked for by its declared name exactly if that is absolute; dependency files read back; the wrapper exits with the exceptions below |

Bounds. Two workers and three requests give a full pool with a request behind
it, and both orders of every pair of loads and stores. Races on a file need two
sessions; a second file makes "all required files" different from "this file",
and lets each session wait for the other. Two chunks per file let two streams
interleave inside one file; a one-chunk and a two-chunk version make a rejected
size possible, two versions of equal size a rejected hash. In `sessions` the
sessions and the files are symmetric (no liveness is checked there). Two
requests collide in the session table; the link step shows calls without a
session. In `advertising` a tick is two seconds, so the code's 2 s and 4 s are 1
and 2 ticks; `MaxJobs` = 1 makes the two requests compete.
In `includes` two names in a source, an `-iquote`, an `-I` and an `-isystem`
directory give shadowing, cycles, self-inclusion and headers cached by either
kind of directive; the state space is finite without a bound on the calls.
In `locks` two sessions close any circle of two mutexes and can take both I/O
threads; the code has four and eight threads, and the property counts sessions
against `IoThreads`. In `connection` one file makes the dialogue go both ways, and
two chunks each way put a second frame behind a cut one; the results are a failed
compilation, an object file in two chunks, and output that is not UTF-8. In
`wrapper_call` the command lines are one for each branch of
`initialize_compiler_call` that changes where or how a call is run; one wrapper is
enough because sessions of the Unix socket share only a counter. Of the command lines, one names
its source relative to the daemon's directory, one names a compiler that is not
installed, one joins a macro to a value that ends like a source.
`MaxEdits`, `MaxDisconnects`, `MaxJobs`, `Starts`, `Cuts` are the named bounds. Deadlock is not
checked where the system may stop (all sessions over, pool destroyed).

Fairness. `pool`: each worker thread is scheduled and the destructor goes on once
begun; nothing about callers. `sessions_live`: coroutines that can run do run
(weak fairness), connected clients read; the pool gets strong fairness per
session because a slot that is freed again and again goes to the queue in FIFO
order (`EveryRequestServed` of the pool). `daemon`: coroutines run, which means that
the compilers hung at one time leave a thread for the others; servers that keep the
connection answer; a compiler that fills no pipe ends. `advertising`: timers fire, a server that stays up
has a free job again and again (`IdleAdvertises`), infinitely many datagrams of
such a server are not all lost, and a request that polls every 100 ms does not
miss entries that live for seconds for ever. `locks`: weak fairness of the whole next-state relation, some thread that
can run does. `connection`: strands, writers, readers, the IPC coroutine and the
worker run; nobody has to connect, and the network may or may not fail.
`wrapper_call`: the wrapper and the daemon's coroutines run, a compilation ends
unless it fills a pipe, and a session with a server that has its files ends (its own liveness, and the wait for a server, are the
subject of `daemon`, `connection` and `advertising`); nobody has to start a daemon.

`EveryWrapperAnswered` excepts a wrapper whose own session ends without a result
(its connection fails, or it gives up and finds no compiler), a wrapper whose own
compiler or linker hangs on a full pipe, and the state in which two sessions were
refused. `WrapperExits`, which knows nothing of lost connections, excepts by the
command line: those that may fill a pipe, and compilations whose session waits for
ever because a file has no absolute path or the compiler is not installed.

### Where the code and its comments disagree

Each of these runs shows one property, taken from a comment, violated:

| Run | Property | Cause |
|---|---|---|
| `stale_state` | `FileStateIsDeclared` | `try_emplace` keeps the old size, hash and status of an edited file (client_view.cpp:80) |
| `exact_multiple` | `FallsBackLocally` | no chunk of a 64 KiB multiple is marked last (client_session.cpp:393) |
| `swapped_streams` | `StreamsInPlace` | the response of a remote compilation is built with stderr where the constructor takes stdout (client_session.cpp:237) |

Seen while modelling, without a run.

Server and sessions: two sessions that find a file INITIAL both upload it, and the
second truncates it under the compiler of the first (client_view.cpp:161:
`SoleUploaderIsCompiled` excludes it); a session aborted while its request is
queued by a sweep or compiled is freed under the worker (server_session.cpp:568:
`RequesterOutlivesJob` excludes it). A session whose connection fails swallows the
exception and its wrapper waits for ever (client_session.cpp:94), and two refused
sessions share the nil UUID in the table (client.cpp:142). The client waits for a
compiler or linker before it reads its pipes (client.cpp:270 and 317,
client_session.cpp:148): with more output than a pipe holds the wrapper waits for
ever, and so does an I/O thread. `_handle_client_session` swallows the exception of a
compiler that is not installed. These are the exceptions of `EveryWrapperAnswered`
and `WrapperExits`. The `return false` after a hash mismatch is
commented out (server_session.cpp:533); a header taken from the includes cache is
not searched for its own includes (includes_rework.cpp:444), and its key, the text
of the directive, ignores the call's directories (includes_rework.cpp:382), which
is why `RequiresUncached` and `RequiresOnlyReachable` are conditional; a lost uploader leaves its files UPLOADING
and the sessions waiting for them hang (server_session.cpp:381), as do the other
claimed files of a session one of whose uploads was rejected
(server_session.cpp:494); an object file of a 64 KiB multiple is never finished
(server_session.cpp:306); a session the server aborts frees itself while the IPC
coroutine still holds a raw pointer to it (client.cpp:239), and an abort that
comes after the result uses the erased compiler call; the broadcaster
advertises 8 jobs until the first compilation, whatever the pool's size
(resource_broadcaster.hpp:30).

Connection: the client's writer tries a failed write again for ever
(client_session.cpp:460), also when the network is sound and the server has only
closed the session before the second abort; output of a compiler that is not UTF-8
hides `is_last_chunk`, and the wrapper waits for ever (proto_io.hpp:45); a client
that closes with unread bytes resets the connection before its abort is read, and
the server keeps the session. Each is an exception named in the property
(`WritersRest`, `LastChunkSeen`, `ServerHearsAbort`), which fails without it.

Threads: as many sessions of the client as it has I/O threads, all suspended in
`publish_unix_ipc_response` with their mutex held (client_session.cpp:195), block
all its threads at once (`StarvedOnlyByPublishing`).

Command lines: a local compilation of the session is run without the call's `-I`
options (client_session.cpp:142); the return value of `initialize_compiler_call` is
ignored (client.cpp:193), so linking into an object file is taken for a
compilation, and a source that is missing or named relative to another directory
ends in an exception and exit code 1; a relative source that exists in the daemon's
own directory is declared as it was typed (compiler_call.cpp:222; client.cpp:46 says
that paths should be converted, "TODO ENFORCE THIS"), the server asks for `a.c` as
`/a.c` (file_state_view.hpp:99), nothing is sent and the session waits for ever
(client_session.cpp:340), which is half of `AskedIsDeclared` and an exception of
`WrapperExits`; the server drops every word that ends like a
source, options such as `-DF=x.cpp` included, and a word that ends in `-o` together
with the next one (server_session.cpp:122), which `ExitCodeSpeaksOfCall` excepts
(`Plain`); `-isystem`, `-iquote`, `-include` and a header
given as the source reach the server's compiler twice; an absolute `-MT` target is
moved below the client's directory; a `-MF` file is written on the server and not
sent back; the server uses its own compiler, whatever the client asked for
(server_session.hpp:51). Dependency files: names with blanks, `$` or a backslash are
escaped twice, and a rule for several `-MT` targets is not found again under any of
them; `DepFileReadsBack` excludes both.

## 4. Proofs

TLAPS proves, for every value of the constants:

* **CompilerManagerProofs.** `PoolInv` is inductive: types, `SlotAccounting`,
  `NoLostWakeup`, `ShutdownDrains`, and what they need: the flag agrees with the
  destructor's progress; an exited worker saw the flag; a worker holds a task
  exactly while it is busy or finishing. `SlotAccounting` is proved through the
  cardinality of the set of busy workers; `NoLostWakeup` needs it, because a
  worker goes to sleep on a non-empty queue only if all slots are taken, and then
  the counter says some worker is awake. `IdleAdvertises` is not inductive: it
  follows from `ReleaseReportsFreeJob` (a worker that has just released its slot
  has loaded at least 1) and `ZeroIsTransient` (a stored 0 has a worker after it
  that will store again). `PoolImplementsService`: under `jobMap` every
  step is a step of `CompileService` or a stutter. `PlaceInv` (a session's
  request is in one place: the queue, one worker, or published) makes the mapping
  change in one session per step; the guard of `Start` comes from the injection
  of running jobs into busy workers and `SlotAccounting`.
* **ServerSessionsProofs.** `NoSessionForgotten`: whenever a step makes a session
  ready, the step's actor goes on to a sweep. `SessionsKeepPoolContract`: a
  session not yet marked `_is_compiler_running` has no job, so a sweep is
  `Request`, and the other steps are the service's own. `TypeCorrect`: the types,
  which need that an upload in progress names its file.
  Its second part, on uploads: `SoleUploader`, `UploadsHaveOwners` and
  `RequesterOutlives`, from `UploadInv`. The properties are about states without a
  race for a file, an edit or (the last two) a lost connection; all three are
  remembered in the state, so a calm state is reached through calm states, and the
  invariant may be conditional: `OrderInv` holds always (the scan asks for no file
  twice, the dialogue goes on in order), `CalmInv` without race and edit (each file
  asked for has one owner, is waiting, in the stream or being checked, and the disk
  has exactly the chunks before the next one), `QuietInv` without failed connections
  (nobody leaves before the result). A step of a session touches only files it owns,
  which leaves the other sessions' parts as they were. Before it was proved,
  `UploadInv` was model-checked on the constants of run `sessions`.
* **ConnectionProofs.** `QueuesAreManned`, from `QueuesManned`: the flag
  `_write_in_progress` says whether there is a writer, there is at most one, and
  without one the queue is empty. It needs nothing of the messages.
  `DeliveryIsOrdered`: `DeliveredInOrder`, for any messages, files, answers and pieces.
  `DeliveredInOrder` speaks of what was read and says nothing of the bytes still
  under way, so it is not inductive. The invariant `Streams` follows each direction
  from `send_msg` to the reader (`Carried`): the bytes on the wire, the piece left to
  the writer, the queue and the posted lambdas are together the frames of the messages
  sent and not yet read, the first of them without its prefix if the reader has read
  that. Three facts make it inductive. There is one writer (`QueuesManned`), so no two
  frames are mixed. A socket is closed only after its reader has ended (`Alive`), so
  bytes that are dropped or written twice after a failure are never read. And the
  server's reply to an upload is one of its messages (`ReplyIsKnown`): who sees
  `is_last_chunk` has seen the whole `filename`, which is written before it. Assumed
  of the classes (`PayloadsReadBack`, `AdvertsReadBack`): a message's bytes are read
  back as what is visible of it, an accepted datagram as one that was sent. These are
  facts about folds, which TLC evaluates for the messages of the instance
  (`ClassesReadBack` in `MCConnection`). In the model the third number of the length
  prefix is not limited to a byte; the code has the two bytes before it for that.
  Before it was proved, the invariant was model-checked on the constants of run
  `connection`.
* **LockOrderProofs.** Each coroutine's program is a table of steps, so the mutexes it
  holds are a function of its program counter (`HoldsAt`). `LockInv` says that
  `holder` is that function, that the only coroutine suspended with a mutex is a
  session that publishes its response, and how far coroutines that start one another
  have come. `LocksAreOrdered`: of a circle of waiting coroutines each would wait for
  a mutex ranked below one it holds (a session's, then the view's or the client's,
  then pool, call and cache), and after three steps down there is none left.
  `StarvationIsPublishing`: a thread stuck behind a suspended coroutine waits for its
  own session's mutex, so the stuck threads inject into the publishing sessions.
  `SameView`: a view once in the storage stays, and a connection's view is the one in
  the storage. Assumed: finitely many sessions, at least one I/O thread, a `None` that
  is no session, client or coroutine.
* **IncludesParserProofs.** `RecursionIsBounded`: every level but the outermost is of a
  header that was entered before the descent, and none is entered twice, so the levels
  inject into the files. `OnlyReachable` and `AllUncached` rest on two facts about the
  tables. `CacheOK`: a cached name is the file that the angle search of every call
  finds. `EntryOK`: a key of `_inc_directives` is a file, or a path without one that
  stands for the cached header of its name. From them each of the five ways to process
  a directive requires exactly what the compiler includes for it (`DirectiveDone`),
  hence `Needed` (every closed set has what is required and what pending directives
  include) and `Done` (a directive of a header not cached before is pending or what it
  includes is required); with nothing pending, what is required is closed itself.
  Assumed: a disk is finite, a name is no path. Before they were proved, this
  invariant (`ParserInv`) and `LockInv` were model-checked on the constants of their runs.
* **ResourceAdvertisingProofs.** `ForgottenInTime` from the invariant
  age + time to the next clean-up <= `StaleAfter` + `Period`; `LentWithinAdvert`
  and the types (`TypeCorrect`, which no run repeats) are inductive together with it.
* **ClientDaemonProofs.** `DaemonInv` is inductive. `KeyInv`: a confirmed session
  is found only under its own UUID and only until its request has disposed of it;
  the nil UUID leads to refused sessions only; a pointer to another request's
  session joins two refused requests. `NothingLeaks` follows at once.
  `AnswerInv` says whose response is in each channel, `response` and `answer`;
  with at most one refused session the pointer is the own session's, hence
  `AnswerIsOwn`. `WaitInv`: a session leaves the table early only with its
  response in the channel, hence `NoOrphanedWait`. The requests are assumed
  finite, so that "at most one refused" can be said with a cardinality.
* **WrapperCallProofs.** `RequestsAndResponsesArrive` (`FramingAgrees`) is in two
  parts. The arithmetic: a number below 2^32 (`Width`) is read back from its four
  digits, an exit code from its cast to 32 bits without a sign, hence a string, a
  response and a frame (`NumberReadBack`, `CodeReadBack`, `ResponseReadBack`,
  `FrameReadBack`), for any base and any output; and the beginning of a frame that the
  daemon takes for a whole one is the whole one (`CutFrame`). The protocol:
  `Conversation` says what is on the socket in every state of the wrapper and of its
  session. The daemon has the beginning of the frame and the wrapper the rest; only
  the whole frame is handled; what is written is the response, after which the session
  is closed; a wrapper that leaves without it returns 1, and then there is none.
  `ExitCodesAreTheUsers` (`ExitCodeSpeaksOfCall`) adds `Commands`: the call of a
  session is what `initialize_compiler_call` makes of the user's command line, and the
  last command that was run has the exit code of the response, is the user's, and is
  the client's if it failed. `ServersAskForDeclaredFiles` (`AskedIsDeclared`) rests on
  `PathThereAndBack`: what the two conversions make of a path is the path itself if it
  is absolute, and the path after `/` if it is relative, hence another. Files may have
  names of both kinds. Assumed: different words have different bytes; exit codes fit an `int` and a
  response 32 bits; the headers of a source are files, and the server's directory is
  not above a system directory (a system path below it would be cut on the way back);
  and, of the functions that fold over a
  command line, `RequestsReadBack` (the daemon's `_deserialize_request` reads what the
  wrapper's `serialize_request` has written) and `CommandsKept` (what
  `initialize_compiler_call` and `preprocess_compiler_call` make of a command line
  means the same), which TLC evaluates for the command lines of the instance
  (`CallsAreKept` in `MCWrapperCall`). Before they were proved, `Conversation` and
  `Commands` were model-checked on the constants of run `wrapper_call`.

Only model-checked: the liveness properties (`EveryRequestServed`,
`DestructorReturns`, `EverySessionConcludes`, `EveryWrapperAnswered`,
`EveryRequestPlaced`, `ThreadsComeBack`, `ServerHearsAbort`,
`WritersRest`, `LastChunkSeen`, `WrapperExits`), which need fairness and are out of
the prover's reach; what the folds of `ProtoMessages`, `IpcFraming`, `CompilerCall`
and `DepFiles` compute, which needs induction over data: with it `DepFileReadsBack`,
which is about nothing but such folds, and the hypotheses of the theorems above
(`PayloadsReadBack`, `AdvertsReadBack`, `RequestsReadBack`, `CommandsKept`).

## 5. Not modelled

* YAML parsing: it sets the constants.
* The storage classes (`lru_storage`, `object_storage`, `source_storage`): the
  daemon uses nothing of them but the path of the object store.
* Code without a caller: `MergeImpl`, `InternalSwap`, reflection and unused accessors
  of the generated classes, `all_req_up_complete`, `proto_io::send_msg`,
  `remove_client_view`, the daemon's `_serialize_request`, `mark_src_nonexistent`.
* A server that ends because a compiler cannot be started: the exception leaves the
  worker's thread (compiler_manager.cpp:88). `CompilerManager` says so.
* Files that are asked for and cannot be opened, on either side
  (client_session.cpp:340, server_session.cpp:279): the code returns without a word,
  and the session waits for ever. `ServerSessions` is about files that are there.
* I/O threads that wait for a compiler, in `LockOrder`, which counts the threads: its
  coroutines wait for mutexes and awaits only.
* Logging, durations, the names of dependency files, directory creation.
* The programs that try components by hand, and `dummy.cpp`.
* The undefined reads of a deque that is scanned without its mutex
  (compiler_manager.hpp:88): only the order of marking and popping is modelled.
* The text of compiler options other than those the code looks at, and the contents
  of source files beyond their include directives.

Clients of different UUIDs share only the pool, so one view is modelled in
`ServerSessions`.

## 6. Plan

Done: pool, its contract, sessions of one client, client daemon, advertising,
header search, locks and I/O threads, connection and messages, wrapper, command
lines, dependency files.
Proved: the safety properties of all runs but `DepFileReadsBack`.

Next: a server with several clients, whose sessions share the pool, and the reads of
a deque that is scanned while a worker changes it.
