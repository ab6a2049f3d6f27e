----------------------------- MODULE LockOrder -----------------------------
(***************************************************************************)
(* The mutexes of the two daemons, the threads that block on them and the  *)
(* coroutines that hold them. A coroutine is the sequence of its           *)
(* synchronisation steps: "lock" and "unlock" of a std::mutex, "await" (a  *)
(* co_await, or the wait of a condition variable), and the few effects the *)
(* order of locks depends on. An I/O thread runs a coroutine until it      *)
(* awaits or ends; a lock that is taken blocks the thread with it.         *)
(*                                                                         *)
(* The server (side = "server"): the storage of client views, one mutex    *)
(* per view, one per session, one of the pool. The client daemon (side =   *)
(* "client"): Client, every ClientSession, every CompilerCall, the cache   *)
(* of headers, the table of servers. The data the mutexes protect is in    *)
(* ServerSessions, CompilerManager and ClientDaemon.                       *)
(***************************************************************************)
EXTENDS Naturals, Sequences, SequencesExt, FiniteSets

CONSTANTS
    Sessions,   \* TCP sessions of a server, and compiler calls of a client
    Clients,    \* clients of the server
    ClientOf,   \* the client of every session
    IoThreads,  \* number of threads in io_context::run()
    Workers,    \* threads of the compiler pool
    None

ASSUME SessionsAssumption == IsFiniteSet(Sessions) /\ ClientOf \in [Sessions -> Clients]
ASSUME ThreadsAssumption == IoThreads \in Nat \ {0}

VARIABLES
    side,       \* the daemon that is looked at
    aborted,    \* client: calls whose server aborts the session
    pc,         \* next step of every coroutine, 0 before it is spawned
    running,    \* the coroutines a thread is in
    holder,     \* the coroutine that holds each mutex
    views,      \* ClientViewsStorage: the view of each client, by its creator
    view,       \* the view a connection was given
    ready,      \* registered sessions whose command line is prepared
    queued,     \* sessions in the pool's queue
    task,       \* the session each worker compiles for
    published   \* client: calls whose response is in the channel

vars == <<side, aborted, pc, running, holder, views, view, ready, queued, task, published>>

Coroutines ==
    IF side = "server"
    THEN ({"accept", "serve"} \X Sessions) \cup ({"worker"} \X Workers)
    ELSE {"ipc", "session"} \X Sessions

AllCoroutines == ({"accept", "serve", "ipc", "session"} \X Sessions) \cup ({"worker"} \X Workers)

ASSUME NoneAssumption == None \notin Sessions \cup Clients \cup AllCoroutines

Mutexes == ({"view", "session", "call"} \X Sessions)
              \cup {<<"storage">>, <<"pool">>, <<"client">>, <<"cache">>, <<"listener">>}

-----------------------------------------------------------------------------
(* Steps *)

Lock(m) == [op |-> "lock", arg |-> m]
Unlock(m) == [op |-> "unlock", arg |-> m]
Await(e) == [op |-> "await", arg |-> e]
Do(x) == [op |-> "do", arg |-> x]

\* A critical section that takes no further mutex and that nobody observes: a
\* getter. One step: whoever is inside can always leave.
Touch(m) == [op |-> "touch", arg |-> m]

Storage == <<"storage">>
Pool == <<"pool">>
\* The view of the session's client, which the connection was given.
View(s) == <<"view_of", s>>
Session(s) == <<"session", s>>
\* The session a worker compiles for.
SessionOf(w) == <<"session_of", w>>

\* ClientViewsStorage::get_client_view, then, if there was no view, the rest
\* of add_client_view: the mutex is given up in between.
add_client_view(s) ==
    <<Lock(Storage), Do("lookup"), Unlock(Storage), Do("skip_if_found"),
      Lock(Storage), Do("emplace"), Unlock(Storage)>>

\* Mutant: the sweep locks the session it looks at (lock_session_mtx = true).
try_compile_for_active_sessions_LockSession(s) ==
    <<Lock(View(s)), Touch(Session(s)), Lock(Pool), Do("submit"), Unlock(Pool), Unlock(View(s))>>

\* ClientView::try_compile_for_active_sessions, with the default argument of
\* ServerSession::try_request_src_compilation: no session is locked.
try_compile_for_active_sessions(s) ==
    <<Lock(View(s)), Lock(Pool), Do("submit"), Unlock(Pool), Unlock(View(s))>>

\* ServerSession::preprocess_compiler_call: get_client_id locks the view.
preprocess_compiler_call(s) ==
    <<Lock(Session(s)), Touch(View(s)), Do("args_ready"), Unlock(Session(s))>>

\* ClientView::_create_client_dir_hierarchy: get_required_files_state locks
\* the session inside the view.
create_client_dir_hierarchy(s) ==
    <<Lock(View(s)), Touch(Session(s)), Unlock(View(s)),
      Touch(View(s))>>

\* Mutant: the constructor of the session, called with the view's mutex held,
\* locks it in get_curr_working_dir.
add_session_LockInConstructor(s) ==
    <<Lock(View(s)), Touch(View(s)), Touch(Session(s)), Unlock(View(s))>>
    \o preprocess_compiler_call(s)
    \o create_client_dir_hierarchy(s)
    \o <<Touch(Session(s)), Touch(View(s)), Do("start_session")>>
    \o try_compile_for_active_sessions(s)

\* ClientView::add_session: the registration, the preparation, the scan (one
\* file), the start of the session's own coroutine, the sweep.
add_session(s) ==
    <<Lock(View(s)), Touch(Session(s)), Unlock(View(s))>>
    \o preprocess_compiler_call(s)
    \o create_client_dir_hierarchy(s)
    \o <<Touch(Session(s)), Touch(View(s)), Do("start_session")>>
    \o try_compile_for_active_sessions(s)

\* Server::handle_new_connection.
handle_new_connection(s) == <<Await("message")>> \o add_client_view(s) \o add_session(s)

\* ServerSession::process_file_chunk for the last chunk of a file: the status
\* is set, and the sweep made, under the session's mutex.
process_file_chunk(s) ==
    <<Touch(View(s)),
      Lock(Session(s)), Touch(View(s))>>
    \o try_compile_for_active_sessions(s) \o <<Unlock(Session(s))>>

\* ServerSession::terminate_server_session.
terminate_server_session(s) ==
    <<Lock(Session(s)), Do("invalidate"), Lock(View(s)), Do("remove"), Unlock(View(s)),
      Unlock(Session(s))>>

\* ServerSession::handle_server_session: an upload, then the client's abort.
handle_server_session(s) ==
    <<Await("message"), Touch(View(s))>> \o process_file_chunk(s)
    \o <<Await("message")>> \o terminate_server_session(s)

\* ServerSession::publish_compilation_results and send_compilation_result.
publish_compilation_results(w) == <<Touch(SessionOf(w)), Touch(SessionOf(w))>>

\* CompilerManager::_worker_loop.
worker_loop(w) ==
    <<Await("task"), Lock(Pool), Do("take"), Unlock(Pool), Touch(Pool)>>
    \o publish_compilation_results(w)

ClientMtx == <<"client">>
Cache == <<"cache">>
Listener == <<"listener">>
Call(c) == <<"call", c>>

\* Client::remove_client_session.
remove_client_session(c) == <<Touch(ClientMtx)>>

\* ClientSession::terminate_client_session.
terminate_client_session(c) ==
    <<Lock(Session(c))>> \o remove_client_session(c) \o <<Unlock(Session(c))>>

\* Mutant: the mutex is kept until the session is in the table.
connect_to_server_OneSection(c) ==
    <<Lock(ClientMtx), Touch(Call(c)), Touch(Cache), Await("confirmed"),
      Do("start_session"), Unlock(ClientMtx)>>

\* Client::connect_to_server: the request is built under Client::_mtx, with
\* the getters of the call and the cache of headers inside; the connection,
\* and the wait for its confirmation, are outside.
connect_to_server(c) ==
    <<Lock(ClientMtx), Touch(Call(c)), Touch(Cache),
      Unlock(ClientMtx), Await("confirmed"), Do("start_session"),
      Touch(ClientMtx)>>

\* Client::_handle_ipc_request for a compilation.
handle_ipc_request(c) ==
    <<Await("message"), Touch(Call(c)), Touch(Listener)>>
    \o connect_to_server(c) \o <<Await("response")>> \o terminate_client_session(c)

\* ClientSession::_process_obj_file_chunk for the last chunk: the response is
\* sent into the channel, and the coroutine suspended, under the mutex.
process_obj_file_chunk(c) ==
    <<Touch(Session(c)), Lock(Session(c)), Touch(Call(c)),
      Do("publish"), Await("sent"), Unlock(Session(c))>>

\* ClientSession::perform_local_compilation.
perform_local_compilation(c) ==
    <<Touch(Call(c)), Do("publish"), Await("sent")>>

\* ClientSession::_handle_client_session: the object file, or an abort.
handle_client_session(c, abort) ==
    <<Await("message")>>
    \o IF abort THEN perform_local_compilation(c) \o terminate_client_session(c)
                ELSE process_obj_file_chunk(c)

Programs == [x \in AllCoroutines \X BOOLEAN |->
    LET c == x[1] IN
    CASE c[1] = "accept"  -> handle_new_connection(c[2])
      [] c[1] = "serve"   -> handle_server_session(c[2])
      [] c[1] = "worker"  -> worker_loop(c[2])
      [] c[1] = "ipc"     -> handle_ipc_request(c[2])
      [] c[1] = "session" -> handle_client_session(c[2], x[2])]

Program(c) == Programs[<<c, c[2] \in aborted>>]

-----------------------------------------------------------------------------
Init ==
    /\ side \in {"server", "client"}
    /\ aborted \in IF side = "client" THEN SUBSET Sessions ELSE {{}}
    /\ pc = [c \in AllCoroutines |-> IF c[1] \in {"accept", "ipc", "worker"} THEN 1 ELSE 0]
    /\ running = {}
    /\ holder = [m \in Mutexes |-> None]
    /\ views = [c \in Clients |-> None]
    /\ view = [s \in Sessions |-> None]
    /\ ready = {}
    /\ queued = {}
    /\ task = [w \in Workers |-> None]
    /\ published = {}

Ended(c) == pc[c] > Len(Program(c))

Happened(c, e) ==
    CASE e = "task"     -> queued # {}
      [] e = "response" -> c[2] \in published
      [] OTHER          -> TRUE

\* What the coroutine was suspended for has happened. A connection, a message
\* of the peer, the room in the channel: they come at some time.
Resumable(c) ==
    LET before == SubSeq(Program(c), 1, pc[c] - 1) IN
    before # <<>> /\ Last(before).op = "await" => Happened(c, Last(before).arg)

OnIoThread == {c \in running : c[1] # "worker"}

\* A thread that is free takes a coroutine that can go on; a worker has a
\* thread of its own.
Dispatch(c) ==
    /\ pc[c] > 0 /\ ~Ended(c) /\ c \notin running /\ Resumable(c)
    /\ c[1] # "worker" => Cardinality(OnIoThread) < IoThreads
    /\ running' = running \cup {c}
    /\ UNCHANGED <<side, aborted, pc, holder, views, view, ready, queued, task, published>>

\* The coroutine's next step is n; one that has ended gives up the thread, a
\* worker begins again.
Advance(c, n) ==
    IF n <= Len(Program(c))
    THEN pc' = [pc EXCEPT ![c] = n] /\ UNCHANGED running
    ELSE /\ pc' = [pc EXCEPT ![c] = IF c[1] = "worker" THEN 1 ELSE n]
         /\ running' = running \ {c}

Step(c) == Program(c)[pc[c]]

\* The mutex the coroutine's step is about.
Mutex(c) ==
    LET m == Step(c).arg IN
    CASE m[1] = "view_of"    -> <<"view", view[m[2]]>>
      [] m[1] = "session_of" -> <<"session", task[m[2]]>>
      [] OTHER               -> m

Acquire(c) ==
    /\ Step(c).op \in {"lock", "touch"}
    /\ holder[Mutex(c)] = None
    /\ holder' = IF Step(c).op = "lock" THEN [holder EXCEPT ![Mutex(c)] = c] ELSE holder
    /\ Advance(c, pc[c] + 1)
    /\ UNCHANGED <<side, aborted, views, view, ready, queued, task, published>>

Release(c) ==
    /\ Step(c).op = "unlock"
    /\ holder' = [holder EXCEPT ![Mutex(c)] = None]
    /\ Advance(c, pc[c] + 1)
    /\ UNCHANGED <<side, aborted, views, view, ready, queued, task, published>>

\* A co_await: the thread goes on with another coroutine.
Suspend(c) ==
    /\ Step(c).op = "await"
    /\ pc' = [pc EXCEPT ![c] = @ + 1]
    /\ running' = running \ {c}
    /\ UNCHANGED <<side, aborted, holder, views, view, ready, queued, task, published>>

\* Mutant: the view another connection has added is replaced.
emplace_Overwrites(s) ==
    /\ views' = [views EXCEPT ![ClientOf[s]] = s]
    /\ view' = [view EXCEPT ![s] = s]

\* try_emplace keeps a view another connection has added meanwhile.
emplace(s) ==
    LET c == ClientOf[s] IN
    /\ views' = [views EXCEPT ![c] = IF @ = None THEN s ELSE @]
    /\ view' = [view EXCEPT ![s] = views'[c]]

lookup(s) ==
    /\ view' = [view EXCEPT ![s] = views[ClientOf[s]]]
    /\ UNCHANGED views

ViewEffect(c, x) ==
    \/ x = "lookup" /\ lookup(c[2]) /\ Advance(c, pc[c] + 1)
    \/ x = "emplace" /\ emplace(c[2]) /\ Advance(c, pc[c] + 1)
    \/ /\ x = "skip_if_found"
       /\ Advance(c, IF view[c[2]] # None THEN pc[c] + 4 ELSE pc[c] + 1)
       /\ UNCHANGED <<views, view>>

\* Which files have arrived is left open: a sweep submits any of the sessions
\* that are registered in the view and prepared.
submit(s) ==
    \E new \in SUBSET {r \in ready : view[r] = view[s]} :
        /\ queued' = queued \cup new
        /\ ready' = ready \ new

PoolEffect(c, x) ==
    /\ \/ x = "args_ready" /\ ready' = ready \cup {c[2]} /\ UNCHANGED queued
       \/ x = "submit" /\ submit(c[2])
       \/ x = "invalidate" /\ queued' = queued \ {c[2]} /\ UNCHANGED ready
       \/ x = "remove" /\ ready' = ready \ {c[2]} /\ UNCHANGED queued
    /\ Advance(c, pc[c] + 1)

\* A request that was invalidated since the worker was woken is gone: the
\* worker goes back to its wait.
Take(c) ==
    /\ Step(c) = Do("take")
    /\ \/ \E s \in queued :
            /\ queued' = queued \ {s}
            /\ task' = [task EXCEPT ![c[2]] = s]
            /\ Advance(c, pc[c] + 1)
            /\ UNCHANGED holder
       \/ /\ queued = {}
          /\ pc' = [pc EXCEPT ![c] = 1]
          /\ running' = running \ {c}
          /\ holder' = [holder EXCEPT ![Pool] = None]
          /\ UNCHANGED <<queued, task>>
    /\ UNCHANGED <<side, aborted, views, view, ready, published>>

Effect(c) ==
    /\ Step(c).op = "do"
    /\ LET x == Step(c).arg IN
       \/ ViewEffect(c, x) /\ UNCHANGED <<ready, queued, published>>
       \/ PoolEffect(c, x) /\ UNCHANGED <<views, view, published>>
       \/ /\ x = "publish"
          /\ published' = published \cup {c[2]}
          /\ Advance(c, pc[c] + 1)
          /\ UNCHANGED <<views, view, ready, queued>>
       \/ /\ x = "start_session"
          /\ pc' = [pc EXCEPT ![c] = @ + 1,
                              ![<<IF side = "server" THEN "serve" ELSE "session", c[2]>>] = 1]
          /\ UNCHANGED <<running, views, view, ready, queued, published>>
    /\ UNCHANGED <<side, aborted, holder, task>>

Run(c) == c \in running /\ (Acquire(c) \/ Release(c) \/ Suspend(c) \/ Take(c) \/ Effect(c))

Next == \E c \in Coroutines : Dispatch(c) \/ Run(c)

\* While some thread can go on, one does: every program is finite, so no
\* coroutine can be overtaken for ever.
Spec == Init /\ [][Next]_vars /\ WF_vars(Next)

-----------------------------------------------------------------------------
(* Properties *)

Blocked(c) == c \in running /\ Step(c).op \in {"lock", "touch"} /\ holder[Mutex(c)] # None

\* No coroutines wait for each other's mutexes in a circle, and none for a
\* mutex it holds itself: although process_file_chunk takes a session's mutex
\* before the view's and add_session takes them in the other order
\* (server_session.cpp:170 warns of the deadlock).
NoLockCycle ==
    \A D \in SUBSET running :
        D # {} => ~(\A c \in D : Blocked(c) /\ holder[Mutex(c)] \in D)

Publishing(c) ==
    /\ side = "client"
    /\ holder[Session(c)] = <<"session", c>>
    /\ <<"session", c>> \notin running

\* No I/O thread can move, because a coroutine that is suspended keeps a
\* mutex and no thread is left to resume it.
Starved ==
    /\ Cardinality(OnIoThread) = IoThreads
    /\ \A c \in OnIoThread : Blocked(c) /\ holder[Mutex(c)] \notin running \ OnIoThread
    /\ \E c \in OnIoThread : holder[Mutex(c)] \notin running

\* All I/O threads are stuck behind suspended coroutines only in the client,
\* and only if as many sessions as there are threads were suspended in the publication of
\* their response with the session's mutex held (client_session.cpp:195): no
\* other mutex is kept over a co_await.
StarvedOnlyByPublishing ==
    Starved => Cardinality({c \in Sessions : Publishing(c)}) >= IoThreads

\* Two connections of a client that arrive together are given the same view,
\* although add_client_view looks it up and adds it in two critical sections.
OneViewPerClient ==
    \A s, r \in Sessions :
        ClientOf[s] = ClientOf[r] /\ view[s] # None /\ view[r] # None => view[s] = view[r]

\* Every thread comes back from its coroutine, and every coroutine from its
\* lock, unless all I/O threads of the client starve. This is about mutexes
\* and awaits: a thread that waits for a compiler is not in this module.
ThreadsComeBack == <>[](running = {} \/ Starved)
=============================================================================
