------------------------- MODULE LockOrderProofs -------------------------
(***************************************************************************)
(* What LockOrder promises, for any number of sessions, clients, workers   *)
(* and I/O threads.                                                        *)
(*                                                                         *)
(* A coroutine's program is a sequence of known length, so that which      *)
(* mutexes it holds is a function of its program counter (HoldsAt). The    *)
(* inductive invariant LockInv says that the table of holders is exactly   *)
(* that function, that a coroutine that is not in a thread holds nothing   *)
(* unless it is the session that publishes its response, and how far the   *)
(* coroutines that start one another have come.                            *)
(***************************************************************************)
EXTENDS LockOrder, SequenceTheorems, FiniteSetTheorems, TLAPS

\* The mutexes coroutine c holds when its next step is n: between its Lock and
\* its Unlock. v is the table of views, a the set of aborted sessions.
HoldsAt(c, n, m, v, a) ==
    \/ /\ c[1] = "accept"
       /\ \/ n \in {3, 4, 7, 8} /\ m = Storage
          \/ n \in {10, 11, 17, 18, 24, 25, 26, 27} /\ m = <<"view", v[c[2]]>>
          \/ n \in 13..15 /\ m = Session(c[2])
          \/ n \in {25, 26} /\ m = Pool
    \/ /\ c[1] = "serve"
       /\ \/ n \in {5, 6, 7, 8, 9, 10, 11, 14, 15, 16, 17, 18} /\ m = Session(c[2])
          \/ n \in {7, 8, 9, 10, 16, 17} /\ m = <<"view", v[c[2]]>>
          \/ n \in {8, 9} /\ m = Pool
    \/ c[1] = "worker" /\ n \in {3, 4} /\ m = Pool
    \/ /\ c[1] = "ipc"
       /\ \/ n \in 5..7 /\ m = ClientMtx
          \/ n \in 13..14 /\ m = Session(c[2])
    \/ /\ c[1] = "session"
       /\ n \in IF c[2] \in a THEN 6..7 ELSE 4..7
       /\ m = Session(c[2])

\* What c holds now.
Holds(c, m) == HoldsAt(c, pc[c], m, view, aborted)

\* The types of the variables.
LockTypes ==
    /\ side \in {"server", "client"}
    /\ pc \in [AllCoroutines -> Nat]
    /\ running \subseteq Coroutines
    /\ holder \in [Mutexes -> AllCoroutines \cup {None}]
    /\ views \in [Clients -> Sessions \cup {None}]
    /\ view \in [Sessions -> Sessions \cup {None}]
    /\ ready \subseteq Sessions
    /\ queued \subseteq Sessions
    /\ task \in [Workers -> Sessions \cup {None}]

\* A coroutine that a thread is in has a next step.
PcInv == \A c \in running : pc[c] \in 1..Len(Program(c))

\* The coroutines of the other daemon never move.
IdleInv == \A c \in AllCoroutines \ Coroutines : pc[c] \in 0..1

\* A connection that is past add_client_view has a view; the coroutine of a
\* session does not run before it has been started.
PhaseInv ==
    \A s \in Sessions :
       /\ pc[<<"accept", s>>] >= 8 => view[s] \in Sessions
       /\ pc[<<"accept", s>>] <= 22 => pc[<<"serve", s>>] = 0
       /\ pc[<<"ipc", s>>] <= 9 => pc[<<"session", s>>] = 0

\* A worker that has left its wait for good has a task.
TaskInv == \A w \in Workers : pc[<<"worker", w>>] >= 4 => task[w] \in Sessions

\* How far the coroutines have come.
ProgressInv == PcInv /\ IdleInv /\ PhaseInv /\ TaskInv

\* The table of holders is what the program counters say.
HolderInv ==
    \A m \in Mutexes, c \in AllCoroutines : holder[m] = c <=> Holds(c, m)

\* The only coroutine that is suspended with a mutex is a client's session
\* that publishes its response (client_session.cpp:195).
SuspendInv ==
    \A m \in Mutexes, c \in AllCoroutines :
       Holds(c, m) /\ c \notin running => c[1] = "session" /\ c[2] \notin aborted /\ pc[c] = 7

\* The inductive invariant.
LockInv == LockTypes /\ ProgressInv /\ HolderInv /\ SuspendInv

\* The view a connection was given is the one in the storage.
ViewInv == \A s \in Sessions : view[s] # None => view[s] = views[ClientOf[s]]

\* The program of each kind of coroutine.
LEMMA ProgramOf ==
  /\ \A s \in Sessions :
       /\ Program(<<"accept", s>>) = handle_new_connection(s)
       /\ Program(<<"serve", s>>) = handle_server_session(s)
       /\ Program(<<"ipc", s>>) = handle_ipc_request(s)
       /\ s \in aborted => Program(<<"session", s>>) = handle_client_session(s, TRUE)
       /\ s \notin aborted => Program(<<"session", s>>) = handle_client_session(s, FALSE)
  /\ \A w \in Workers : Program(<<"worker", w>>) = worker_loop(w)
  <1>1. \A x \in AllCoroutines \X BOOLEAN : Programs[x] =
          CASE x[1][1] = "accept"  -> handle_new_connection(x[1][2])
            [] x[1][1] = "serve"   -> handle_server_session(x[1][2])
            [] x[1][1] = "worker"  -> worker_loop(x[1][2])
            [] x[1][1] = "ipc"     -> handle_ipc_request(x[1][2])
            [] x[1][1] = "session" -> handle_client_session(x[1][2], x[2])
    BY DEF Programs
  <1>2. ASSUME NEW s \in Sessions, NEW b \in BOOLEAN
        PROVE  /\ Programs[<<<<"accept", s>>, b>>] = handle_new_connection(s)
               /\ Programs[<<<<"serve", s>>, b>>] = handle_server_session(s)
               /\ Programs[<<<<"ipc", s>>, b>>] = handle_ipc_request(s)
               /\ Programs[<<<<"session", s>>, b>>] = handle_client_session(s, b)
    <2>1. \A k \in {"accept", "serve", "ipc", "session"} :
            <<<<k, s>>, b>> \in AllCoroutines \X BOOLEAN
      BY DEF AllCoroutines
    <2> QED BY <1>1, <2>1
  <1>3. ASSUME NEW w \in Workers, NEW b \in BOOLEAN
        PROVE  Programs[<<<<"worker", w>>, b>>] = worker_loop(w)
    <2>1. <<<<"worker", w>>, b>> \in AllCoroutines \X BOOLEAN
      BY DEF AllCoroutines
    <2> QED BY <1>1, <2>1
  <1>4. ASSUME NEW s \in Sessions
        PROVE  /\ Program(<<"accept", s>>) = handle_new_connection(s)
               /\ Program(<<"serve", s>>) = handle_server_session(s)
               /\ Program(<<"ipc", s>>) = handle_ipc_request(s)
               /\ s \in aborted => Program(<<"session", s>>) = handle_client_session(s, TRUE)
               /\ s \notin aborted => Program(<<"session", s>>) = handle_client_session(s, FALSE)
    <2> DEFINE b == s \in aborted
    <2>1. \A k : Program(<<k, s>>) = Programs[<<<<k, s>>, b>>]
      BY DEF Program
    <2>2. b \in BOOLEAN
      OBVIOUS
    <2>3. (s \in aborted => b = TRUE) /\ (s \notin aborted => b = FALSE)
      OBVIOUS
    <2> HIDE DEF b
    <2> QED BY <1>2, <2>1, <2>2, <2>3
  <1>5. ASSUME NEW w \in Workers PROVE Program(<<"worker", w>>) = worker_loop(w)
    <2> DEFINE b == w \in aborted
    <2>1. Program(<<"worker", w>>) = Programs[<<<<"worker", w>>, b>>]
      BY DEF Program
    <2>2. b \in BOOLEAN
      OBVIOUS
    <2> HIDE DEF b
    <2> QED BY <1>3, <2>1, <2>2
  <1> QED BY <1>4, <1>5

\* The two fields of each kind of step.
LEMMA FieldsOfSteps ==
  /\ \A m : Lock(m).op = "lock" /\ Lock(m).arg = m
  /\ \A m : Unlock(m).op = "unlock" /\ Unlock(m).arg = m
  /\ \A m : Touch(m).op = "touch" /\ Touch(m).arg = m
  /\ \A e : Await(e).op = "await" /\ Await(e).arg = e
  /\ \A e : Do(e).op = "do" /\ Do(e).arg = e
  BY DEF Lock, Unlock, Touch, Await, Do

\* The steps of Server::handle_new_connection one by one.
LEMMA AcceptTable ==
  ASSUME NEW s
  PROVE  LET P == handle_new_connection(s) IN
         /\ Len(P) = 27
         /\ P[1] = Await("message") /\ P[2] = Lock(Storage) /\ P[3] = Do("lookup")
         /\ P[4] = Unlock(Storage) /\ P[5] = Do("skip_if_found") /\ P[6] = Lock(Storage)
         /\ P[7] = Do("emplace") /\ P[8] = Unlock(Storage) /\ P[9] = Lock(View(s))
         /\ P[10] = Touch(Session(s)) /\ P[11] = Unlock(View(s)) /\ P[12] = Lock(Session(s))
         /\ P[13] = Touch(View(s)) /\ P[14] = Do("args_ready") /\ P[15] = Unlock(Session(s))
         /\ P[16] = Lock(View(s)) /\ P[17] = Touch(Session(s)) /\ P[18] = Unlock(View(s))
         /\ P[19] = Touch(View(s)) /\ P[20] = Touch(Session(s)) /\ P[21] = Touch(View(s))
         /\ P[22] = Do("start_session") /\ P[23] = Lock(View(s)) /\ P[24] = Lock(Pool)
         /\ P[25] = Do("submit") /\ P[26] = Unlock(Pool) /\ P[27] = Unlock(View(s))
  BY DEF handle_new_connection, add_client_view, add_session, preprocess_compiler_call,
           create_client_dir_hierarchy, try_compile_for_active_sessions

\* The same by operation and by argument.
LEMMA AcceptSteps ==
  ASSUME NEW s, NEW n \in 1..27
  PROVE  LET P == handle_new_connection(s) IN
         /\ Len(P) = 27
         /\ P[n].op = "await" <=> n = 1
         /\ P[n].op = "lock" <=> n \in {2, 6, 9, 12, 16, 23, 24}
         /\ P[n].op = "do" <=> n \in {3, 5, 7, 14, 22, 25}
         /\ P[n].op = "unlock" <=> n \in {4, 8, 11, 15, 18, 26, 27}
         /\ P[n].op = "touch" <=> n \in {10, 13, 17, 19, 20, 21}
         /\ n \in {2, 4, 6, 8} => P[n].arg = Storage
         /\ n \in {9, 11, 13, 16, 18, 19, 21, 23, 27} => P[n].arg = View(s)
         /\ n \in {10, 12, 15, 17, 20} => P[n].arg = Session(s)
         /\ n \in {24, 26} => P[n].arg = Pool
         /\ n = 3 => P[n].arg = "lookup"
         /\ n = 5 => P[n].arg = "skip_if_found"
         /\ n = 7 => P[n].arg = "emplace"
         /\ n = 14 => P[n].arg = "args_ready"
         /\ n = 22 => P[n].arg = "start_session"
         /\ n = 25 => P[n].arg = "submit"
  BY AcceptTable, FieldsOfSteps

\* The steps of ServerSession::handle_server_session one by one.
LEMMA ServeTable ==
  ASSUME NEW s
  PROVE  LET P == handle_server_session(s) IN
         /\ Len(P) = 18
         /\ P[1] = Await("message") /\ P[2] = Touch(View(s)) /\ P[3] = Touch(View(s))
         /\ P[4] = Lock(Session(s)) /\ P[5] = Touch(View(s)) /\ P[6] = Lock(View(s))
         /\ P[7] = Lock(Pool) /\ P[8] = Do("submit") /\ P[9] = Unlock(Pool)
         /\ P[10] = Unlock(View(s)) /\ P[11] = Unlock(Session(s))
         /\ P[12] = Await("message") /\ P[13] = Lock(Session(s)) /\ P[14] = Do("invalidate")
         /\ P[15] = Lock(View(s)) /\ P[16] = Do("remove") /\ P[17] = Unlock(View(s))
         /\ P[18] = Unlock(Session(s))
  BY DEF handle_server_session, process_file_chunk, try_compile_for_active_sessions,
           terminate_server_session

\* The same by operation and by argument.
LEMMA ServeSteps ==
  ASSUME NEW s, NEW n \in 1..18
  PROVE  LET P == handle_server_session(s) IN
         /\ Len(P) = 18
         /\ P[n].op = "await" <=> n \in {1, 12}
         /\ P[n].op = "touch" <=> n \in {2, 3, 5}
         /\ P[n].op = "lock" <=> n \in {4, 6, 7, 13, 15}
         /\ P[n].op = "do" <=> n \in {8, 14, 16}
         /\ P[n].op = "unlock" <=> n \in {9, 10, 11, 17, 18}
         /\ n \in {2, 3, 5, 6, 10, 15, 17} => P[n].arg = View(s)
         /\ n \in {4, 11, 13, 18} => P[n].arg = Session(s)
         /\ n \in {7, 9} => P[n].arg = Pool
         /\ n = 8 => P[n].arg = "submit"
         /\ n = 14 => P[n].arg = "invalidate"
         /\ n = 16 => P[n].arg = "remove"
  BY ServeTable, FieldsOfSteps

\* The steps of CompilerManager::_worker_loop one by one.
LEMMA WorkerTable ==
  ASSUME NEW w
  PROVE  LET P == worker_loop(w) IN
         /\ Len(P) = 7
         /\ P[1] = Await("task") /\ P[2] = Lock(Pool) /\ P[3] = Do("take")
         /\ P[4] = Unlock(Pool) /\ P[5] = Touch(Pool) /\ P[6] = Touch(SessionOf(w))
         /\ P[7] = Touch(SessionOf(w))
  BY DEF worker_loop, publish_compilation_results

\* The same by operation and by argument.
LEMMA WorkerSteps ==
  ASSUME NEW w, NEW n \in 1..7
  PROVE  LET P == worker_loop(w) IN
         /\ Len(P) = 7
         /\ P[n].op = "await" <=> n = 1
         /\ P[n].op = "lock" <=> n = 2
         /\ P[n].op = "do" <=> n = 3
         /\ P[n].op = "unlock" <=> n = 4
         /\ P[n].op = "touch" <=> n \in {5, 6, 7}
         /\ n \in {2, 4, 5} => P[n].arg = Pool
         /\ n \in {6, 7} => P[n].arg = SessionOf(w)
         /\ n = 3 => P[n].arg = "take"
  BY WorkerTable, FieldsOfSteps

\* The steps of Client::_handle_ipc_request one by one.
LEMMA IpcTable ==
  ASSUME NEW c
  PROVE  LET P == handle_ipc_request(c) IN
         /\ Len(P) = 14
         /\ P[1] = Await("message") /\ P[2] = Touch(Call(c)) /\ P[3] = Touch(Listener)
         /\ P[4] = Lock(ClientMtx) /\ P[5] = Touch(Call(c)) /\ P[6] = Touch(Cache)
         /\ P[7] = Unlock(ClientMtx) /\ P[8] = Await("confirmed")
         /\ P[9] = Do("start_session") /\ P[10] = Touch(ClientMtx)
         /\ P[11] = Await("response") /\ P[12] = Lock(Session(c))
         /\ P[13] = Touch(ClientMtx) /\ P[14] = Unlock(Session(c))
  BY DEF handle_ipc_request, connect_to_server, terminate_client_session, remove_client_session

\* The same by operation and by argument.
LEMMA IpcSteps ==
  ASSUME NEW c, NEW n \in 1..14
  PROVE  LET P == handle_ipc_request(c) IN
         /\ Len(P) = 14
         /\ P[n].op = "await" <=> n \in {1, 8, 11}
         /\ P[n].op = "touch" <=> n \in {2, 3, 5, 6, 10, 13}
         /\ P[n].op = "lock" <=> n \in {4, 12}
         /\ P[n].op = "unlock" <=> n \in {7, 14}
         /\ P[n].op = "do" <=> n = 9
         /\ n \in {2, 5} => P[n].arg = Call(c)
         /\ n = 3 => P[n].arg = Listener
         /\ n \in {4, 7, 10, 13} => P[n].arg = ClientMtx
         /\ n = 6 => P[n].arg = Cache
         /\ n \in {12, 14} => P[n].arg = Session(c)
         /\ n = 9 => P[n].arg = "start_session"
  BY IpcTable, FieldsOfSteps

\* The steps of ClientSession::_handle_client_session that gets an object file.
LEMMA ObjectTable ==
  ASSUME NEW c, NEW P, P = handle_client_session(c, FALSE)
  PROVE  /\ Len(P) = 7
         /\ P[1] = Await("message") /\ P[2] = Touch(Session(c)) /\ P[3] = Lock(Session(c))
         /\ P[4] = Touch(Call(c)) /\ P[5] = Do("publish") /\ P[6] = Await("sent")
         /\ P[7] = Unlock(Session(c))
  BY DEF handle_client_session, process_obj_file_chunk

\* The steps of ClientSession::_handle_client_session that gets an abort.
LEMMA AbortTable ==
  ASSUME NEW c, NEW P, P = handle_client_session(c, TRUE)
  PROVE  /\ Len(P) = 7
         /\ P[1] = Await("message") /\ P[2] = Touch(Call(c)) /\ P[3] = Do("publish")
         /\ P[4] = Await("sent") /\ P[5] = Lock(Session(c)) /\ P[6] = Touch(ClientMtx)
         /\ P[7] = Unlock(Session(c))
  BY DEF handle_client_session, perform_local_compilation, terminate_client_session,
           remove_client_session

\* The mutex a step names: a view through the connection, a session through
\* the worker's task, any other by itself.
LEMMA MutexOfStep ==
  ASSUME NEW c, NEW s
  PROVE  /\ Step(c).arg = View(s) => Mutex(c) = <<"view", view[s]>>
         /\ Step(c).arg = SessionOf(s) => Mutex(c) = <<"session", task[s]>>
         /\ Step(c).arg = Session(s) => Mutex(c) = Session(s)
         /\ Step(c).arg = Call(s) => Mutex(c) = Call(s)
         /\ Step(c).arg \in {Storage, Pool, ClientMtx, Cache, Listener} => Mutex(c) = Step(c).arg
  <1> DEFINE m == Step(c).arg
  <1>1. Mutex(c) = CASE m[1] = "view_of" -> <<"view", view[m[2]]>>
                     [] m[1] = "session_of" -> <<"session", task[m[2]]>>
                     [] OTHER -> m
    BY DEF Mutex
  <1> HIDE DEF m
  <1>2. m = View(s) => Mutex(c) = <<"view", view[s]>>
    BY <1>1 DEF View
  <1>3. m = SessionOf(s) => Mutex(c) = <<"session", task[s]>>
    BY <1>1 DEF SessionOf
  <1>4. m = Session(s) => Mutex(c) = m
    BY <1>1 DEF Session
  <1>5. m = Call(s) => Mutex(c) = m
    BY <1>1 DEF Call
  <1>6. m \in {Storage, Pool, ClientMtx, Cache, Listener} => Mutex(c) = m
    BY <1>1 DEF Storage, Pool, ClientMtx, Cache, Listener
  <1> QED BY <1>2, <1>3, <1>4, <1>5, <1>6, Zenon DEF m

\* What a connection's coroutine does at each value of its program counter.
LEMMA AcceptAt ==
  ASSUME NEW s \in Sessions, NEW c, c = <<"accept", s>>, NEW n \in 1..27, pc[c] = n
  PROVE  /\ Len(Program(c)) = 27
         /\ Step(c).op = "await" <=> n = 1
         /\ Step(c).op = "lock" <=> n \in {2, 6, 9, 12, 16, 23, 24}
         /\ Step(c).op = "do" <=> n \in {3, 5, 7, 14, 22, 25}
         /\ Step(c).op = "unlock" <=> n \in {4, 8, 11, 15, 18, 26, 27}
         /\ Step(c).op = "touch" <=> n \in {10, 13, 17, 19, 20, 21}
         /\ n \in {2, 4, 6, 8} => Mutex(c) = Storage
         /\ n \in {9, 11, 13, 16, 18, 19, 21, 23, 27} => Mutex(c) = <<"view", view[s]>>
         /\ n \in {10, 12, 15, 17, 20} => Mutex(c) = Session(s)
         /\ n \in {24, 26} => Mutex(c) = Pool
         /\ n = 3 => Step(c).arg = "lookup"
         /\ n = 5 => Step(c).arg = "skip_if_found"
         /\ n = 7 => Step(c).arg = "emplace"
         /\ n = 14 => Step(c).arg = "args_ready"
         /\ n = 22 => Step(c).arg = "start_session"
         /\ n = 25 => Step(c).arg = "submit"
  <1>1. Program(c) = handle_new_connection(s)
    BY ProgramOf
  <1>2. Step(c) = handle_new_connection(s)[n]
    BY <1>1 DEF Step
  <1>3. /\ n \in {2, 4, 6, 8} => Step(c).arg = Storage
        /\ n \in {9, 11, 13, 16, 18, 19, 21, 23, 27} => Step(c).arg = View(s)
        /\ n \in {10, 12, 15, 17, 20} => Step(c).arg = Session(s)
        /\ n \in {24, 26} => Step(c).arg = Pool
    BY <1>2, AcceptSteps
  <1>4. /\ n \in {2, 4, 6, 8} => Mutex(c) = Storage
        /\ n \in {9, 11, 13, 16, 18, 19, 21, 23, 27} => Mutex(c) = <<"view", view[s]>>
        /\ n \in {10, 12, 15, 17, 20} => Mutex(c) = Session(s)
        /\ n \in {24, 26} => Mutex(c) = Pool
    BY <1>3, MutexOfStep
  <1> QED BY <1>1, <1>2, <1>4, AcceptSteps

\* What a session's coroutine of the server does at each step.
LEMMA ServeAt ==
  ASSUME NEW s \in Sessions, NEW c, c = <<"serve", s>>, NEW n \in 1..18, pc[c] = n
  PROVE  /\ Len(Program(c)) = 18
         /\ Step(c).op = "await" <=> n \in {1, 12}
         /\ Step(c).op = "touch" <=> n \in {2, 3, 5}
         /\ Step(c).op = "lock" <=> n \in {4, 6, 7, 13, 15}
         /\ Step(c).op = "do" <=> n \in {8, 14, 16}
         /\ Step(c).op = "unlock" <=> n \in {9, 10, 11, 17, 18}
         /\ n \in {2, 3, 5, 6, 10, 15, 17} => Mutex(c) = <<"view", view[s]>>
         /\ n \in {4, 11, 13, 18} => Mutex(c) = Session(s)
         /\ n \in {7, 9} => Mutex(c) = Pool
         /\ n = 8 => Step(c).arg = "submit"
         /\ n = 14 => Step(c).arg = "invalidate"
         /\ n = 16 => Step(c).arg = "remove"
  <1>1. Program(c) = handle_server_session(s)
    BY ProgramOf
  <1>2. Step(c) = handle_server_session(s)[n]
    BY <1>1 DEF Step
  <1>3. /\ n \in {2, 3, 5, 6, 10, 15, 17} => Step(c).arg = View(s)
        /\ n \in {4, 11, 13, 18} => Step(c).arg = Session(s)
        /\ n \in {7, 9} => Step(c).arg = Pool
    BY <1>2, ServeSteps
  <1>4. /\ n \in {2, 3, 5, 6, 10, 15, 17} => Mutex(c) = <<"view", view[s]>>
        /\ n \in {4, 11, 13, 18} => Mutex(c) = Session(s)
        /\ n \in {7, 9} => Mutex(c) = Pool
    BY <1>3, MutexOfStep
  <1> QED BY <1>1, <1>2, <1>4, ServeSteps

\* What a worker does at each step.
LEMMA WorkerAt ==
  ASSUME NEW w \in Workers, NEW c, c = <<"worker", w>>, NEW n \in 1..7, pc[c] = n
  PROVE  /\ Len(Program(c)) = 7
         /\ Step(c).op = "await" <=> n = 1
         /\ Step(c).op = "lock" <=> n = 2
         /\ Step(c).op = "do" <=> n = 3
         /\ Step(c).op = "unlock" <=> n = 4
         /\ Step(c).op = "touch" <=> n \in {5, 6, 7}
         /\ n \in {2, 4, 5} => Mutex(c) = Pool
         /\ n \in {6, 7} => Mutex(c) = <<"session", task[w]>>
         /\ n = 3 => Step(c).arg = "take"
  <1>1. Program(c) = worker_loop(w)
    BY ProgramOf
  <1>2. Step(c) = worker_loop(w)[n]
    BY <1>1 DEF Step
  <1>3. /\ n \in {2, 4, 5} => Step(c).arg = Pool
        /\ n \in {6, 7} => Step(c).arg = SessionOf(w)
    BY <1>2, WorkerSteps
  <1>4. /\ n \in {2, 4, 5} => Mutex(c) = Pool
        /\ n \in {6, 7} => Mutex(c) = <<"session", task[w]>>
    BY <1>3, MutexOfStep
  <1> QED BY <1>1, <1>2, <1>4, WorkerSteps

\* What the coroutine of a compiler call does at each step.
LEMMA IpcAt ==
  ASSUME NEW x \in Sessions, NEW c, c = <<"ipc", x>>, NEW n \in 1..14, pc[c] = n
  PROVE  /\ Len(Program(c)) = 14
         /\ Step(c).op = "await" <=> n \in {1, 8, 11}
         /\ Step(c).op = "touch" <=> n \in {2, 3, 5, 6, 10, 13}
         /\ Step(c).op = "lock" <=> n \in {4, 12}
         /\ Step(c).op = "unlock" <=> n \in {7, 14}
         /\ Step(c).op = "do" <=> n = 9
         /\ n \in {2, 5} => Mutex(c) = Call(x)
         /\ n = 3 => Mutex(c) = Listener
         /\ n \in {4, 7, 10, 13} => Mutex(c) = ClientMtx
         /\ n = 6 => Mutex(c) = Cache
         /\ n \in {12, 14} => Mutex(c) = Session(x)
         /\ n = 9 => Step(c).arg = "start_session"
  <1>1. Program(c) = handle_ipc_request(x)
    BY ProgramOf
  <1>2. Step(c) = handle_ipc_request(x)[n]
    BY <1>1 DEF Step
  <1>3. /\ n \in {2, 5} => Step(c).arg = Call(x)
        /\ n = 3 => Step(c).arg = Listener
        /\ n \in {4, 7, 10, 13} => Step(c).arg = ClientMtx
        /\ n = 6 => Step(c).arg = Cache
        /\ n \in {12, 14} => Step(c).arg = Session(x)
    BY <1>2, IpcSteps
  <1>4. /\ n \in {2, 5} => Mutex(c) = Call(x)
        /\ n = 3 => Mutex(c) = Listener
        /\ n \in {4, 7, 10, 13} => Mutex(c) = ClientMtx
        /\ n = 6 => Mutex(c) = Cache
        /\ n \in {12, 14} => Mutex(c) = Session(x)
    BY <1>3, MutexOfStep
  <1> QED BY <1>1, <1>2, <1>4, IpcSteps

\* What a client's session that gets its object file does at each step.
LEMMA ObjectAt ==
  ASSUME NEW x \in Sessions, x \notin aborted, NEW c, c = <<"session", x>>,
         NEW n \in 1..7, pc[c] = n
  PROVE  /\ Len(Program(c)) = 7
         /\ Step(c).op = "await" <=> n \in {1, 6}
         /\ Step(c).op = "touch" <=> n \in {2, 4}
         /\ Step(c).op = "lock" <=> n = 3
         /\ Step(c).op = "do" <=> n = 5
         /\ Step(c).op = "unlock" <=> n = 7
         /\ n \in {2, 3, 7} => Mutex(c) = Session(x)
         /\ n = 4 => Mutex(c) = Call(x)
         /\ n = 5 => Step(c).arg = "publish"
  <1> DEFINE P == Program(c)
  <1>1. P = handle_client_session(x, FALSE)
    BY ProgramOf
  <1> HIDE DEF P
  <1>2. /\ Len(P) = 7
        /\ P[1] = Await("message") /\ P[2] = Touch(Session(x)) /\ P[3] = Lock(Session(x))
        /\ P[4] = Touch(Call(x)) /\ P[5] = Do("publish") /\ P[6] = Await("sent")
        /\ P[7] = Unlock(Session(x))
    BY <1>1, ObjectTable
  <1>3. /\ Len(P) = 7
        /\ P[n].op = "await" <=> n \in {1, 6}
        /\ P[n].op = "touch" <=> n \in {2, 4}
        /\ P[n].op = "lock" <=> n = 3
        /\ P[n].op = "do" <=> n = 5
        /\ P[n].op = "unlock" <=> n = 7
        /\ n \in {2, 3, 7} => P[n].arg = Session(x)
        /\ n = 4 => P[n].arg = Call(x)
        /\ n = 5 => P[n].arg = "publish"
    BY <1>2, FieldsOfSteps
  <1>4. Step(c) = P[n]
    BY DEF Step, P
  <1>5. /\ n \in {2, 3, 7} => Step(c).arg = Session(x)
        /\ n = 4 => Step(c).arg = Call(x)
    BY <1>3, <1>4, Zenon
  <1>6. /\ n \in {2, 3, 7} => Mutex(c) = Session(x)
        /\ n = 4 => Mutex(c) = Call(x)
    BY <1>5, MutexOfStep
  <1> QED BY <1>3, <1>4, <1>6, Zenon DEF P

\* What a client's session that is aborted does at each step.
LEMMA AbortAt ==
  ASSUME NEW x \in Sessions, x \in aborted, NEW c, c = <<"session", x>>, NEW n \in 1..7, pc[c] = n
  PROVE  /\ Len(Program(c)) = 7
         /\ Step(c).op = "await" <=> n \in {1, 4}
         /\ Step(c).op = "touch" <=> n \in {2, 6}
         /\ Step(c).op = "do" <=> n = 3
         /\ Step(c).op = "lock" <=> n = 5
         /\ Step(c).op = "unlock" <=> n = 7
         /\ n = 2 => Mutex(c) = Call(x)
         /\ n \in {5, 7} => Mutex(c) = Session(x)
         /\ n = 6 => Mutex(c) = ClientMtx
         /\ n = 3 => Step(c).arg = "publish"
  <1> DEFINE P == Program(c)
  <1>1. P = handle_client_session(x, TRUE)
    BY ProgramOf
  <1> HIDE DEF P
  <1>2. /\ Len(P) = 7
        /\ P[1] = Await("message") /\ P[2] = Touch(Call(x)) /\ P[3] = Do("publish")
        /\ P[4] = Await("sent") /\ P[5] = Lock(Session(x)) /\ P[6] = Touch(ClientMtx)
        /\ P[7] = Unlock(Session(x))
    BY <1>1, AbortTable
  <1>3. /\ Len(P) = 7
        /\ P[n].op = "await" <=> n \in {1, 4}
        /\ P[n].op = "touch" <=> n \in {2, 6}
        /\ P[n].op = "do" <=> n = 3
        /\ P[n].op = "lock" <=> n = 5
        /\ P[n].op = "unlock" <=> n = 7
        /\ n = 2 => P[n].arg = Call(x)
        /\ n \in {5, 7} => P[n].arg = Session(x)
        /\ n = 6 => P[n].arg = ClientMtx
        /\ n = 3 => P[n].arg = "publish"
    BY <1>2, FieldsOfSteps
  <1>4. Step(c) = P[n]
    BY DEF Step, P
  <1>5. /\ n = 2 => Step(c).arg = Call(x)
        /\ n \in {5, 7} => Step(c).arg = Session(x)
        /\ n = 6 => Step(c).arg = ClientMtx
    BY <1>3, <1>4, Zenon
  <1>6. /\ n = 2 => Mutex(c) = Call(x)
        /\ n \in {5, 7} => Mutex(c) = Session(x)
        /\ n = 6 => Mutex(c) = ClientMtx
    BY <1>5, MutexOfStep
  <1> QED BY <1>3, <1>4, <1>6, Zenon DEF P

\* The step agrees with HoldsAt: a lock adds its mutex to what the coroutine
\* holds, an unlock takes one away that was held, any other step changes
\* nothing; only the publication awaits with a mutex; at the end nothing is held.
StepMoves(c) ==
    LET o == Step(c).op
        n == pc[c]
    IN
    /\ n \in 1..Len(Program(c))
    /\ o \in {"lock", "touch", "unlock", "await", "do"}
    /\ o \in {"lock", "touch", "unlock"} => Mutex(c) \in Mutexes
    /\ o = "lock" =>
            \A m : HoldsAt(c, n + 1, m, view, aborted) <=>
               HoldsAt(c, n, m, view, aborted) \/ m = Mutex(c)
    /\ o = "unlock" => /\ HoldsAt(c, n, Mutex(c), view, aborted)
                       /\ \A m : HoldsAt(c, n + 1, m, view, aborted) <=>
                                HoldsAt(c, n, m, view, aborted) /\ m # Mutex(c)
    /\ o \in {"touch", "await", "do"} =>
            \A m : HoldsAt(c, n + 1, m, view, aborted) <=> HoldsAt(c, n, m, view, aborted)
    /\ o = "await" =>
            \A m : HoldsAt(c, n, m, view, aborted) =>
               c[1] = "session" /\ c[2] \notin aborted /\ n = 6
    /\ \A m : ~HoldsAt(c, Len(Program(c)) + 1, m, view, aborted)

\* HoldsAt for each kind of coroutine.
LEMMA HoldsOf ==
  ASSUME NEW c, NEW n, NEW m, NEW v, NEW a
  PROVE  /\ c[1] = "accept" =>
              (HoldsAt(c, n, m, v, a) <=>
                  \/ n \in {3, 4, 7, 8} /\ m = Storage
                  \/ n \in {10, 11, 17, 18, 24, 25, 26, 27} /\ m = <<"view", v[c[2]]>>
                  \/ n \in 13..15 /\ m = Session(c[2])
                  \/ n \in {25, 26} /\ m = Pool)
         /\ c[1] = "serve" =>
              (HoldsAt(c, n, m, v, a) <=>
                  \/ n \in {5, 6, 7, 8, 9, 10, 11, 14, 15, 16, 17, 18} /\ m = Session(c[2])
                  \/ n \in {7, 8, 9, 10, 16, 17} /\ m = <<"view", v[c[2]]>>
                  \/ n \in {8, 9} /\ m = Pool)
         /\ c[1] = "worker" => (HoldsAt(c, n, m, v, a) <=> n \in {3, 4} /\ m = Pool)
         /\ c[1] = "ipc" =>
              (HoldsAt(c, n, m, v, a) <=>
                  \/ n \in 5..7 /\ m = ClientMtx
                  \/ n \in 13..14 /\ m = Session(c[2]))
         /\ c[1] = "session" /\ c[2] \in a =>
              (HoldsAt(c, n, m, v, a) <=> n \in 6..7 /\ m = Session(c[2]))
         /\ c[1] = "session" /\ c[2] \notin a =>
              (HoldsAt(c, n, m, v, a) <=> n \in 4..7 /\ m = Session(c[2]))
  BY DEF HoldsAt

\* The mutexes are different.
LEMMA MutexesDiffer ==
  ASSUME NEW s, NEW r
  PROVE  /\ Storage # Pool /\ Storage # ClientMtx /\ Pool # ClientMtx
         /\ Session(s) \notin {Storage, Pool, ClientMtx, <<"view", r>>}
         /\ <<"view", r>> \notin {Storage, Pool, ClientMtx}
  BY DEF Storage, Pool, ClientMtx, Session

\* The mutexes the programs name are in the table of holders.
LEMMA MutexesAre ==
  /\ Storage \in Mutexes /\ Pool \in Mutexes /\ ClientMtx \in Mutexes
  /\ Cache \in Mutexes /\ Listener \in Mutexes
  /\ \A s \in Sessions : Session(s) \in Mutexes /\ Call(s) \in Mutexes
  /\ \A s \in Sessions : <<"session", s>> \in Mutexes /\ <<"view", s>> \in Mutexes
  BY DEF Mutexes, Storage, Pool, ClientMtx, Cache, Listener, Session, Call

\* Every step of a connection's coroutine agrees with HoldsAt.
LEMMA AcceptMoves ==
  ASSUME LockTypes, ProgressInv, NEW s \in Sessions, NEW c, c = <<"accept", s>>, c \in running
  PROVE  StepMoves(c)
  <1> DEFINE n == pc[c]
  <1>1. n \in 1..27 /\ Len(Program(c)) = 27
    <2>1. pc[c] \in 1..Len(Program(c))
      BY DEF ProgressInv, PcInv
    <2> QED BY <2>1, ProgramOf, AcceptTable
  <1>2. pc[c] >= 8 => view[s] \in Sessions
    BY DEF ProgressInv, PhaseInv
  <1>3. c[1] = "accept" /\ c[2] = s
    OBVIOUS
  <1>4. \A k, m : HoldsAt(c, k, m, view, aborted) <=>
            \/ k \in {3, 4, 7, 8} /\ m = Storage
            \/ k \in {10, 11, 17, 18, 24, 25, 26, 27} /\ m = <<"view", view[s]>>
            \/ k \in 13..15 /\ m = Session(s)
            \/ k \in {25, 26} /\ m = Pool
    BY <1>3, HoldsOf
  <1>5. /\ Len(Program(c)) = 27
        /\ Step(c).op = "await" <=> n = 1
        /\ Step(c).op = "lock" <=> n \in {2, 6, 9, 12, 16, 23, 24}
        /\ Step(c).op = "do" <=> n \in {3, 5, 7, 14, 22, 25}
        /\ Step(c).op = "unlock" <=> n \in {4, 8, 11, 15, 18, 26, 27}
        /\ Step(c).op = "touch" <=> n \in {10, 13, 17, 19, 20, 21}
        /\ n \in {2, 4, 6, 8} => Mutex(c) = Storage
        /\ n \in {9, 11, 13, 16, 18, 19, 21, 23, 27} => Mutex(c) = <<"view", view[s]>>
        /\ n \in {10, 12, 15, 17, 20} => Mutex(c) = Session(s)
        /\ n \in {24, 26} => Mutex(c) = Pool
    BY <1>1, AcceptAt
  <1> HIDE DEF n
  <1>6. Step(c).op \in {"lock", "touch", "unlock", "await", "do"}
    BY <1>1, <1>5
  <1>7. Step(c).op \in {"lock", "touch", "unlock"} => Mutex(c) \in Mutexes
    <2>1. n >= 8 => <<"view", view[s]>> \in Mutexes
      BY <1>2, MutexesAre DEF n
    <2> QED BY <1>1, <1>5, <2>1, MutexesAre
  <1>8. Step(c).op = "lock" =>
          \A m : HoldsAt(c, n + 1, m, view, aborted) <=>
             HoldsAt(c, n, m, view, aborted) \/ m = Mutex(c)
    BY <1>1, <1>4, <1>5
  <1>9. Step(c).op = "unlock" =>
          /\ HoldsAt(c, n, Mutex(c), view, aborted)
          /\ \A m : HoldsAt(c, n + 1, m, view, aborted) <=>
                   HoldsAt(c, n, m, view, aborted) /\ m # Mutex(c)
    BY <1>1, <1>4, <1>5, MutexesDiffer
  <1>10. Step(c).op \in {"touch", "await", "do"} =>
          \A m : HoldsAt(c, n + 1, m, view, aborted) <=> HoldsAt(c, n, m, view, aborted)
    BY <1>1, <1>4, <1>5
  <1>11. Step(c).op = "await" =>
           \A m : HoldsAt(c, n, m, view, aborted) =>
                     c[1] = "session" /\ c[2] \notin aborted /\ n = 6
    BY <1>1, <1>3, <1>4, <1>5
  <1>12. \A m : ~HoldsAt(c, 27 + 1, m, view, aborted)
    BY <1>4
  <1> QED BY <1>1, <1>6, <1>7, <1>8, <1>9, <1>10, <1>11, <1>12 DEF n, StepMoves

\* Every step of a session's coroutine of the server does.
LEMMA ServeMoves ==
  ASSUME LockTypes, ProgressInv, NEW s \in Sessions, NEW c, c = <<"serve", s>>, c \in running
  PROVE  StepMoves(c)
  <1> DEFINE n == pc[c]
  <1>1. n \in 1..18 /\ Len(Program(c)) = 18
    <2>1. pc[c] \in 1..Len(Program(c))
      BY DEF ProgressInv, PcInv
    <2> QED BY <2>1, ProgramOf, ServeTable
  <1>2. view[s] \in Sessions
    <2>1. /\ pc[<<"accept", s>>] <= 22 => pc[<<"serve", s>>] = 0
          /\ pc[<<"accept", s>>] >= 8 => view[s] \in Sessions
      BY DEF ProgressInv, PhaseInv
    <2>2. pc[<<"accept", s>>] \in Nat
      BY DEF LockTypes, AllCoroutines
    <2> QED BY <1>1, <2>1, <2>2
  <1>3. c[1] = "serve" /\ c[2] = s
    OBVIOUS
  <1>4. \A k, m : HoldsAt(c, k, m, view, aborted) <=>
            \/ k \in {5, 6, 7, 8, 9, 10, 11, 14, 15, 16, 17, 18} /\ m = Session(s)
            \/ k \in {7, 8, 9, 10, 16, 17} /\ m = <<"view", view[s]>>
            \/ k \in {8, 9} /\ m = Pool
    BY <1>3, HoldsOf
  <1>5. /\ Len(Program(c)) = 18
        /\ Step(c).op = "await" <=> n \in {1, 12}
        /\ Step(c).op = "touch" <=> n \in {2, 3, 5}
        /\ Step(c).op = "lock" <=> n \in {4, 6, 7, 13, 15}
        /\ Step(c).op = "do" <=> n \in {8, 14, 16}
        /\ Step(c).op = "unlock" <=> n \in {9, 10, 11, 17, 18}
        /\ n \in {2, 3, 5, 6, 10, 15, 17} => Mutex(c) = <<"view", view[s]>>
        /\ n \in {4, 11, 13, 18} => Mutex(c) = Session(s)
        /\ n \in {7, 9} => Mutex(c) = Pool
    BY <1>1, ServeAt
  <1> HIDE DEF n
  <1>6. Step(c).op \in {"lock", "touch", "unlock", "await", "do"}
    BY <1>1, <1>5
  <1>7. Step(c).op \in {"lock", "touch", "unlock"} => Mutex(c) \in Mutexes
    BY <1>1, <1>2, <1>5, MutexesAre
  <1>8. Step(c).op = "lock" =>
          \A m : HoldsAt(c, n + 1, m, view, aborted) <=>
             HoldsAt(c, n, m, view, aborted) \/ m = Mutex(c)
    BY <1>1, <1>4, <1>5
  <1>9. Step(c).op = "unlock" =>
          /\ HoldsAt(c, n, Mutex(c), view, aborted)
          /\ \A m : HoldsAt(c, n + 1, m, view, aborted) <=>
                   HoldsAt(c, n, m, view, aborted) /\ m # Mutex(c)
    BY <1>1, <1>4, <1>5, MutexesDiffer
  <1>10. Step(c).op \in {"touch", "await", "do"} =>
          \A m : HoldsAt(c, n + 1, m, view, aborted) <=> HoldsAt(c, n, m, view, aborted)
    BY <1>1, <1>4, <1>5
  <1>11. Step(c).op = "await" =>
           \A m : HoldsAt(c, n, m, view, aborted) =>
                     c[1] = "session" /\ c[2] \notin aborted /\ n = 6
    BY <1>1, <1>3, <1>4, <1>5
  <1>12. \A m : ~HoldsAt(c, 18 + 1, m, view, aborted)
    BY <1>4
  <1> QED BY <1>1, <1>6, <1>7, <1>8, <1>9, <1>10, <1>11, <1>12 DEF n, StepMoves

\* Every step of a worker does.
LEMMA WorkerMoves ==
  ASSUME LockTypes, ProgressInv, NEW w \in Workers, NEW c, c = <<"worker", w>>, c \in running
  PROVE  StepMoves(c)
  <1> DEFINE n == pc[c]
  <1>1. n \in 1..7 /\ Len(Program(c)) = 7
    <2>1. pc[c] \in 1..Len(Program(c))
      BY DEF ProgressInv, PcInv
    <2> QED BY <2>1, ProgramOf, WorkerTable
  <1>2. pc[c] >= 4 => task[w] \in Sessions
    BY DEF ProgressInv, TaskInv
  <1>3. c[1] = "worker" /\ c[2] = w
    OBVIOUS
  <1>4. \A k, m : HoldsAt(c, k, m, view, aborted) <=>
            k \in {3, 4} /\ m = Pool
    BY <1>3, HoldsOf
  <1>5. /\ Len(Program(c)) = 7
        /\ Step(c).op = "await" <=> n = 1
        /\ Step(c).op = "lock" <=> n = 2
        /\ Step(c).op = "do" <=> n = 3
        /\ Step(c).op = "unlock" <=> n = 4
        /\ Step(c).op = "touch" <=> n \in {5, 6, 7}
        /\ n \in {2, 4, 5} => Mutex(c) = Pool
        /\ n \in {6, 7} => Mutex(c) = <<"session", task[w]>>
    BY <1>1, WorkerAt
  <1> HIDE DEF n
  <1>6. Step(c).op \in {"lock", "touch", "unlock", "await", "do"}
    BY <1>1, <1>5
  <1>7. Step(c).op \in {"lock", "touch", "unlock"} => Mutex(c) \in Mutexes
    <2>1. n >= 4 => <<"session", task[w]>> \in Mutexes
      BY <1>2, MutexesAre DEF n
    <2> QED BY <1>1, <1>5, <2>1, MutexesAre
  <1>8. Step(c).op = "lock" =>
          \A m : HoldsAt(c, n + 1, m, view, aborted) <=>
             HoldsAt(c, n, m, view, aborted) \/ m = Mutex(c)
    BY <1>1, <1>4, <1>5
  <1>9. Step(c).op = "unlock" =>
          /\ HoldsAt(c, n, Mutex(c), view, aborted)
          /\ \A m : HoldsAt(c, n + 1, m, view, aborted) <=>
                   HoldsAt(c, n, m, view, aborted) /\ m # Mutex(c)
    BY <1>1, <1>4, <1>5, MutexesDiffer
  <1>10. Step(c).op \in {"touch", "await", "do"} =>
          \A m : HoldsAt(c, n + 1, m, view, aborted) <=> HoldsAt(c, n, m, view, aborted)
    BY <1>1, <1>4, <1>5
  <1>11. Step(c).op = "await" =>
           \A m : HoldsAt(c, n, m, view, aborted) =>
                     c[1] = "session" /\ c[2] \notin aborted /\ n = 6
    BY <1>1, <1>3, <1>4, <1>5
  <1>12. \A m : ~HoldsAt(c, 7 + 1, m, view, aborted)
    BY <1>4
  <1> QED BY <1>1, <1>6, <1>7, <1>8, <1>9, <1>10, <1>11, <1>12 DEF n, StepMoves

\* Every step of the coroutine of a compiler call does.
LEMMA IpcMoves ==
  ASSUME LockTypes, ProgressInv, NEW x \in Sessions, NEW c, c = <<"ipc", x>>, c \in running
  PROVE  StepMoves(c)
  <1> DEFINE n == pc[c]
  <1>1. n \in 1..14 /\ Len(Program(c)) = 14
    <2>1. pc[c] \in 1..Len(Program(c))
      BY DEF ProgressInv, PcInv
    <2> QED BY <2>1, ProgramOf, IpcTable
  <1>3. c[1] = "ipc" /\ c[2] = x
    OBVIOUS
  <1>4. \A k, m : HoldsAt(c, k, m, view, aborted) <=>
            \/ k \in 5..7 /\ m = ClientMtx
            \/ k \in 13..14 /\ m = Session(x)
    BY <1>3, HoldsOf
  <1>5. /\ Len(Program(c)) = 14
        /\ Step(c).op = "await" <=> n \in {1, 8, 11}
        /\ Step(c).op = "touch" <=> n \in {2, 3, 5, 6, 10, 13}
        /\ Step(c).op = "lock" <=> n \in {4, 12}
        /\ Step(c).op = "unlock" <=> n \in {7, 14}
        /\ Step(c).op = "do" <=> n = 9
        /\ n \in {2, 5} => Mutex(c) = Call(x)
        /\ n = 3 => Mutex(c) = Listener
        /\ n \in {4, 7, 10, 13} => Mutex(c) = ClientMtx
        /\ n = 6 => Mutex(c) = Cache
        /\ n \in {12, 14} => Mutex(c) = Session(x)
    BY <1>1, IpcAt
  <1> HIDE DEF n
  <1>6. Step(c).op \in {"lock", "touch", "unlock", "await", "do"}
    BY <1>1, <1>5
  <1>7. Step(c).op \in {"lock", "touch", "unlock"} => Mutex(c) \in Mutexes
    BY <1>1, <1>5, MutexesAre
  <1>8. Step(c).op = "lock" =>
          \A m : HoldsAt(c, n + 1, m, view, aborted) <=>
             HoldsAt(c, n, m, view, aborted) \/ m = Mutex(c)
    BY <1>1, <1>4, <1>5
  <1>9. Step(c).op = "unlock" =>
          /\ HoldsAt(c, n, Mutex(c), view, aborted)
          /\ \A m : HoldsAt(c, n + 1, m, view, aborted) <=>
                   HoldsAt(c, n, m, view, aborted) /\ m # Mutex(c)
    BY <1>1, <1>4, <1>5, MutexesDiffer
  <1>10. Step(c).op \in {"touch", "await", "do"} =>
          \A m : HoldsAt(c, n + 1, m, view, aborted) <=> HoldsAt(c, n, m, view, aborted)
    BY <1>1, <1>4, <1>5
  <1>11. Step(c).op = "await" =>
           \A m : HoldsAt(c, n, m, view, aborted) =>
                     c[1] = "session" /\ c[2] \notin aborted /\ n = 6
    BY <1>1, <1>3, <1>4, <1>5
  <1>12. \A m : ~HoldsAt(c, 14 + 1, m, view, aborted)
    BY <1>4
  <1> QED BY <1>1, <1>6, <1>7, <1>8, <1>9, <1>10, <1>11, <1>12 DEF n, StepMoves

\* Every step of a client's session that gets its object file does.
LEMMA ObjectMoves ==
  ASSUME LockTypes, ProgressInv, NEW x \in Sessions, x \notin aborted,
         NEW c, c = <<"session", x>>, c \in running
  PROVE  StepMoves(c)
  <1> DEFINE n == pc[c]
  <1>1. n \in 1..7 /\ Len(Program(c)) = 7
    <2>1. pc[c] \in 1..Len(Program(c))
      BY DEF ProgressInv, PcInv
    <2> QED BY <2>1, ProgramOf, ObjectTable
  <1>3. c[1] = "session" /\ c[2] = x
    OBVIOUS
  <1>4. \A k, m : HoldsAt(c, k, m, view, aborted) <=>
            k \in 4..7 /\ m = Session(x)
    BY <1>3, HoldsOf
  <1>5. /\ Len(Program(c)) = 7
        /\ Step(c).op = "await" <=> n \in {1, 6}
        /\ Step(c).op = "touch" <=> n \in {2, 4}
        /\ Step(c).op = "lock" <=> n = 3
        /\ Step(c).op = "do" <=> n = 5
        /\ Step(c).op = "unlock" <=> n = 7
        /\ n \in {2, 3, 7} => Mutex(c) = Session(x)
        /\ n = 4 => Mutex(c) = Call(x)
    BY <1>1, ObjectAt
  <1> HIDE DEF n
  <1>6. Step(c).op \in {"lock", "touch", "unlock", "await", "do"}
    BY <1>1, <1>5
  <1>7. Step(c).op \in {"lock", "touch", "unlock"} => Mutex(c) \in Mutexes
    BY <1>1, <1>5, MutexesAre
  <1>8. Step(c).op = "lock" =>
          \A m : HoldsAt(c, n + 1, m, view, aborted) <=>
             HoldsAt(c, n, m, view, aborted) \/ m = Mutex(c)
    BY <1>1, <1>4, <1>5
  <1>9. Step(c).op = "unlock" =>
          /\ HoldsAt(c, n, Mutex(c), view, aborted)
          /\ \A m : HoldsAt(c, n + 1, m, view, aborted) <=>
                   HoldsAt(c, n, m, view, aborted) /\ m # Mutex(c)
    BY <1>1, <1>4, <1>5, MutexesDiffer
  <1>10. Step(c).op \in {"touch", "await", "do"} =>
          \A m : HoldsAt(c, n + 1, m, view, aborted) <=> HoldsAt(c, n, m, view, aborted)
    BY <1>1, <1>4, <1>5
  <1>11. Step(c).op = "await" =>
           \A m : HoldsAt(c, n, m, view, aborted) =>
                     c[1] = "session" /\ c[2] \notin aborted /\ n = 6
    BY <1>1, <1>3, <1>4, <1>5
  <1>12. \A m : ~HoldsAt(c, 7 + 1, m, view, aborted)
    BY <1>4
  <1> QED BY <1>1, <1>6, <1>7, <1>8, <1>9, <1>10, <1>11, <1>12 DEF n, StepMoves

\* Every step of a client's session that is aborted does.
LEMMA AbortMoves ==
  ASSUME LockTypes, ProgressInv, NEW x \in Sessions, x \in aborted,
         NEW c, c = <<"session", x>>, c \in running
  PROVE  StepMoves(c)
  <1> DEFINE n == pc[c]
  <1>1. n \in 1..7 /\ Len(Program(c)) = 7
    <2>1. pc[c] \in 1..Len(Program(c))
      BY DEF ProgressInv, PcInv
    <2> QED BY <2>1, ProgramOf, AbortTable
  <1>3. c[1] = "session" /\ c[2] = x
    OBVIOUS
  <1>4. \A k, m : HoldsAt(c, k, m, view, aborted) <=>
            k \in 6..7 /\ m = Session(x)
    BY <1>3, HoldsOf
  <1>5. /\ Len(Program(c)) = 7
        /\ Step(c).op = "await" <=> n \in {1, 4}
        /\ Step(c).op = "touch" <=> n \in {2, 6}
        /\ Step(c).op = "do" <=> n = 3
        /\ Step(c).op = "lock" <=> n = 5
        /\ Step(c).op = "unlock" <=> n = 7
        /\ n = 2 => Mutex(c) = Call(x)
        /\ n \in {5, 7} => Mutex(c) = Session(x)
        /\ n = 6 => Mutex(c) = ClientMtx
    BY <1>1, AbortAt
  <1> HIDE DEF n
  <1>6. Step(c).op \in {"lock", "touch", "unlock", "await", "do"}
    BY <1>1, <1>5
  <1>7. Step(c).op \in {"lock", "touch", "unlock"} => Mutex(c) \in Mutexes
    BY <1>1, <1>5, MutexesAre
  <1>8. Step(c).op = "lock" =>
          \A m : HoldsAt(c, n + 1, m, view, aborted) <=>
             HoldsAt(c, n, m, view, aborted) \/ m = Mutex(c)
    BY <1>1, <1>4, <1>5
  <1>9. Step(c).op = "unlock" =>
          /\ HoldsAt(c, n, Mutex(c), view, aborted)
          /\ \A m : HoldsAt(c, n + 1, m, view, aborted) <=>
                   HoldsAt(c, n, m, view, aborted) /\ m # Mutex(c)
    BY <1>1, <1>4, <1>5, MutexesDiffer
  <1>10. Step(c).op \in {"touch", "await", "do"} =>
          \A m : HoldsAt(c, n + 1, m, view, aborted) <=> HoldsAt(c, n, m, view, aborted)
    BY <1>1, <1>4, <1>5
  <1>11. Step(c).op = "await" =>
           \A m : HoldsAt(c, n, m, view, aborted) =>
                     c[1] = "session" /\ c[2] \notin aborted /\ n = 6
    BY <1>1, <1>3, <1>4, <1>5
  <1>12. \A m : ~HoldsAt(c, 7 + 1, m, view, aborted)
    BY <1>4
  <1> QED BY <1>1, <1>6, <1>7, <1>8, <1>9, <1>10, <1>11, <1>12 DEF n, StepMoves

\* The kinds of coroutines.
LEMMA KindOf ==
  ASSUME NEW c \in AllCoroutines
  PROVE  \/ \E s \in Sessions : \/ c = <<"accept", s>> \/ c = <<"serve", s>>
                                \/ c = <<"ipc", s>> \/ c = <<"session", s>>
         \/ \E w \in Workers : c = <<"worker", w>>
  BY DEF AllCoroutines

\* The coroutines of one daemon are coroutines, and None is not one.
LEMMA CoroutinesAre ==
  /\ Coroutines \subseteq AllCoroutines
  /\ None \notin AllCoroutines
  /\ \A s \in Sessions : /\ <<"accept", s>> \in AllCoroutines /\ <<"serve", s>> \in AllCoroutines
                         /\ <<"ipc", s>> \in AllCoroutines /\ <<"session", s>> \in AllCoroutines
  /\ \A w \in Workers : <<"worker", w>> \in AllCoroutines
  BY NoneAssumption DEF Coroutines, AllCoroutines

\* The next step of any coroutine a thread is in agrees with HoldsAt.
LEMMA Moves ==
  ASSUME LockTypes, ProgressInv, NEW c \in running
  PROVE  c \in AllCoroutines /\ StepMoves(c)
  <1>1. c \in AllCoroutines
    BY CoroutinesAre DEF LockTypes
  <1>2. CASE \E s \in Sessions : c = <<"accept", s>>
    BY <1>1, <1>2, AcceptMoves
  <1>3. CASE \E s \in Sessions : c = <<"serve", s>>
    BY <1>1, <1>3, ServeMoves
  <1>4. CASE \E s \in Sessions : c = <<"ipc", s>>
    BY <1>1, <1>4, IpcMoves
  <1>5. CASE \E s \in Sessions : c = <<"session", s>>
    BY <1>1, <1>5, ObjectMoves, AbortMoves
  <1>6. CASE \E w \in Workers : c = <<"worker", w>>
    BY <1>1, <1>6, WorkerMoves
  <1> QED BY <1>1, <1>2, <1>3, <1>4, <1>5, <1>6, KindOf

\* Frame of the table of holders: if only c moves, and the table agrees with
\* HoldsAt on c's new place, it agrees with it everywhere.
LEMMA HolderKeeps ==
  ASSUME LockTypes, HolderInv, SuspendInv, NEW c \in running, NEW k,
         c \in AllCoroutines, pc' = [pc EXCEPT ![c] = k], aborted' = aborted,
         running' \in {running, running \ {c}},
         \A d \in AllCoroutines, m \in Mutexes : d # c =>
            (HoldsAt(d, pc[d], m, view', aborted) <=> HoldsAt(d, pc[d], m, view, aborted)),
         \A m \in Mutexes : holder'[m] = c <=> HoldsAt(c, k, m, view', aborted),
         \A d \in AllCoroutines, m \in Mutexes : d # c => (holder'[m] = d <=> holder[m] = d),
         c \notin running' => \A m \in Mutexes : HoldsAt(c, k, m, view', aborted) =>
            c[1] = "session" /\ c[2] \notin aborted /\ k = 7
  PROVE  HolderInv' /\ SuspendInv'
  <1>1. pc'[c] = k /\ \A d \in AllCoroutines : d # c => pc'[d] = pc[d]
    BY DEF LockTypes
  <1>2. \A d \in AllCoroutines : d # c => (d \in running' <=> d \in running)
    OBVIOUS
  <1>3. ASSUME NEW m \in Mutexes, NEW d \in AllCoroutines
        PROVE  holder'[m] = d <=> HoldsAt(d, pc'[d], m, view', aborted')
    <2>1. CASE d = c
      BY <1>1, <2>1
    <2>2. CASE d # c
      BY <1>1, <2>2 DEF HolderInv, Holds
    <2> QED BY <2>1, <2>2
  <1>4. ASSUME NEW m \in Mutexes, NEW d \in AllCoroutines,
               HoldsAt(d, pc'[d], m, view', aborted'), d \notin running'
        PROVE  d[1] = "session" /\ d[2] \notin aborted' /\ pc'[d] = 7
    <2>1. CASE d = c
      BY <1>1, <1>4, <2>1
    <2>2. CASE d # c
      BY <1>1, <1>2, <1>4, <2>2 DEF SuspendInv, Holds
    <2> QED BY <2>1, <2>2
  <1> QED BY <1>3, <1>4 DEF HolderInv, SuspendInv, Holds

\* Frame of the program counters: what moves forward, and to a step that
\* exists, keeps the order in which coroutines start one another.
LEMMA ProgressKeeps ==
  ASSUME LockTypes, ProgressInv, NEW c \in running, NEW k \in Nat \ {0},
         c \in AllCoroutines, pc' = [pc EXCEPT ![c] = k], aborted' = aborted, side' = side,
         running' \in {running, running \ {c}},
         c \in running' => k \in 1..Len(Program(c)),
         k >= pc[c] \/ c[1] = "worker",
         \A s \in Sessions : pc'[<<"accept", s>>] >= 8 => view'[s] \in Sessions,
         \A w \in Workers : pc'[<<"worker", w>>] >= 4 => task'[w] \in Sessions
  PROVE  pc' \in [AllCoroutines -> Nat] /\ (running \subseteq Coroutines)' /\ ProgressInv'
  <1>1. pc'[c] = k /\ \A d \in AllCoroutines : d # c => pc'[d] = pc[d]
    BY DEF LockTypes
  <1>2. Coroutines' = Coroutines /\ (running \subseteq Coroutines)'
    BY DEF LockTypes, Coroutines
  <1>3. pc' \in [AllCoroutines -> Nat]
    BY DEF LockTypes
  <1>4. PcInv'
    <2>1. \A d : Program(d)' = Program(d)
      BY DEF Program
    <2>2. ASSUME NEW d \in running' PROVE pc'[d] \in 1..Len(Program(d))
      <3>1. d \in running /\ d \in AllCoroutines
        BY CoroutinesAre DEF LockTypes
      <3>2. CASE d = c
        BY <1>1, <3>2
      <3>3. CASE d # c
        BY <1>1, <3>1, <3>3 DEF ProgressInv, PcInv
      <3> QED BY <3>2, <3>3
    <2> QED BY <2>1, <2>2 DEF PcInv
  <1>5. IdleInv'
    BY <1>1, <1>2 DEF IdleInv, ProgressInv, LockTypes
  <1>6. c \in Coroutines /\ pc[c] >= 1
    BY DEF LockTypes, ProgressInv, PcInv
  <1>7. PhaseInv'
    <2> SUFFICES ASSUME NEW s \in Sessions
                 PROVE  /\ pc'[<<"accept", s>>] <= 22 => pc'[<<"serve", s>>] = 0
                        /\ pc'[<<"ipc", s>>] <= 9 => pc'[<<"session", s>>] = 0
      BY DEF PhaseInv
    <2>1. /\ pc[<<"accept", s>>] <= 22 => pc[<<"serve", s>>] = 0
          /\ pc[<<"ipc", s>>] <= 9 => pc[<<"session", s>>] = 0
      BY DEF ProgressInv, PhaseInv
    <2>2. /\ pc[<<"accept", s>>] \in Nat /\ pc[<<"serve", s>>] \in Nat
          /\ pc[<<"ipc", s>>] \in Nat /\ pc[<<"session", s>>] \in Nat
      BY CoroutinesAre DEF LockTypes
    <2>3. \A d \in AllCoroutines : pc'[d] = 0 <=> pc[d] = 0
      BY <1>1, <1>6 DEF LockTypes
    <2>4. ASSUME NEW d \in AllCoroutines, d[1] # "worker" PROVE pc'[d] >= pc[d]
      <3>1. pc[d] \in Nat
        BY DEF LockTypes
      <3>2. CASE d = c
        BY <1>1, <2>4, <3>2
      <3>3. CASE d # c
        BY <1>1, <3>1, <3>3
      <3> QED BY <3>2, <3>3
    <2>5. pc'[<<"accept", s>>] >= pc[<<"accept", s>>] /\ pc'[<<"ipc", s>>] >= pc[<<"ipc", s>>]
      BY <2>4, CoroutinesAre
    <2>6. /\ pc'[<<"serve", s>>] = 0 <=> pc[<<"serve", s>>] = 0
          /\ pc'[<<"session", s>>] = 0 <=> pc[<<"session", s>>] = 0
          /\ pc'[<<"accept", s>>] \in Nat /\ pc'[<<"ipc", s>>] \in Nat
      BY <1>3, <2>3, CoroutinesAre
    <2> QED BY <2>1, <2>2, <2>5, <2>6
  <1>8. TaskInv'
    BY DEF TaskInv
  <1> QED BY <1>2, <1>3, <1>4, <1>5, <1>7, <1>8 DEF ProgressInv

\* A step that is neither the emplacement of a view nor the taking of a task
\* needs no new view and no new task.
LEMMA QuietKeeps ==
  ASSUME LockTypes, ProgressInv, NEW c \in running, NEW k \in Nat \ {0},
         c \in AllCoroutines, pc' = [pc EXCEPT ![c] = k], view' = view, task' = task,
         k = pc[c] + 1 \/ k = 1,
         c[1] = "accept" => pc[c] # 7, c[1] = "worker" => pc[c] # 3 \/ k = 1
  PROVE  /\ \A s \in Sessions : pc'[<<"accept", s>>] >= 8 => view'[s] \in Sessions
         /\ \A w \in Workers : pc'[<<"worker", w>>] >= 4 => task'[w] \in Sessions
  <1>1. pc'[c] = k /\ \A d \in AllCoroutines : d # c => pc'[d] = pc[d]
    BY DEF LockTypes
  <1>2. pc[c] \in Nat
    BY DEF LockTypes
  <1>3. ASSUME NEW s \in Sessions, pc'[<<"accept", s>>] >= 8 PROVE view[s] \in Sessions
    <2>1. pc[<<"accept", s>>] >= 8 => view[s] \in Sessions
      BY DEF ProgressInv, PhaseInv
    <2>2. CASE c = <<"accept", s>>
      BY <1>1, <1>2, <1>3, <2>1, <2>2
    <2>3. CASE c # <<"accept", s>>
      BY <1>1, <1>3, <2>1, <2>3, CoroutinesAre
    <2> QED BY <2>2, <2>3
  <1>4. ASSUME NEW w \in Workers, pc'[<<"worker", w>>] >= 4 PROVE task[w] \in Sessions
    <2>1. pc[<<"worker", w>>] >= 4 => task[w] \in Sessions
      BY DEF ProgressInv, TaskInv
    <2>2. CASE c = <<"worker", w>>
      BY <1>1, <1>2, <1>4, <2>1, <2>2
    <2>3. CASE c # <<"worker", w>>
      BY <1>1, <1>4, <2>1, <2>3, CoroutinesAre
    <2> QED BY <2>2, <2>3
  <1> QED BY <1>3, <1>4

\* Before its first step a coroutine holds nothing.
LEMMA NothingAtStart ==
  ASSUME NEW c, NEW n \in 0..1, NEW m, NEW v, NEW a
  PROVE  ~HoldsAt(c, n, m, v, a)
  BY DEF HoldsAt

\* What Advance does: the next step, or the end, where nothing is held.
LEMMA AdvanceIs ==
  ASSUME LockTypes, ProgressInv, NEW c \in running, Advance(c, pc[c] + 1)
  PROVE  \E k \in Nat \ {0} :
           /\ pc' = [pc EXCEPT ![c] = k]
           /\ running' \in {running, running \ {c}}
           /\ c \in running' => k \in 1..Len(Program(c))
           /\ k >= pc[c] \/ c[1] = "worker"
           /\ k = pc[c] + 1 \/ k = 1
           /\ \A m : HoldsAt(c, k, m, view, aborted) <=> HoldsAt(c, pc[c] + 1, m, view, aborted)
           /\ c \notin running' => \A m : ~HoldsAt(c, k, m, view, aborted)
  <1>1. /\ pc[c] \in 1..Len(Program(c))
        /\ \A m : ~HoldsAt(c, Len(Program(c)) + 1, m, view, aborted)
    BY Moves DEF StepMoves
  <1> DEFINE L == Len(Program(c))
  <1>2. \A m : ~HoldsAt(c, 1, m, view, aborted)
    BY NothingAtStart
  <1>3. pc[c] \in Nat
    BY Moves DEF LockTypes
  <1>4. IF pc[c] + 1 <= L
        THEN pc' = [pc EXCEPT ![c] = pc[c] + 1] /\ running' = running
        ELSE /\ pc' = [pc EXCEPT ![c] = IF c[1] = "worker" THEN 1 ELSE pc[c] + 1]
             /\ running' = running \ {c}
    BY DEF Advance
  <1> HIDE DEF L
  <1>5. CASE pc[c] + 1 <= L
    <2>1. pc[c] + 1 \in 1..L
      BY <1>1, <1>5, <1>3 DEF L
    <2> pc[c] + 1 \in Nat \ {0}
      BY <1>3
    <2> WITNESS pc[c] + 1 \in Nat \ {0}
    <2> QED BY <1>3, <1>4, <1>5, <2>1 DEF L
  <1>6. CASE ~(pc[c] + 1 <= L) /\ c[1] = "worker"
    <2>1. pc' = [pc EXCEPT ![c] = 1] /\ running' = running \ {c}
      BY <1>4, <1>6
    <2>2. pc[c] + 1 = L + 1
      BY <1>1, <1>3, <1>6 DEF L
    <2> WITNESS 1 \in Nat \ {0}
    <2> QED BY <1>1, <1>2, <1>6, <2>1, <2>2 DEF L
  <1>7. CASE ~(pc[c] + 1 <= L) /\ c[1] # "worker"
    <2>1. pc' = [pc EXCEPT ![c] = pc[c] + 1] /\ running' = running \ {c}
      BY <1>4, <1>7
    <2>2. pc[c] + 1 = L + 1
      BY <1>1, <1>3, <1>7 DEF L
    <2> pc[c] + 1 \in Nat \ {0}
      BY <1>3
    <2> WITNESS pc[c] + 1 \in Nat \ {0}
    <2> QED BY <1>1, <1>3, <2>1, <2>2 DEF L
  <1> QED BY <1>5, <1>6, <1>7

\* The step with effect x, at its place in the program of its kind.
DoesAt(c, kind, n, x) == c[1] = kind /\ pc[c] = n /\ Step(c).arg = x

\* Where each effect is in the programs.
LEMMA EffectsOf ==
  ASSUME LockTypes, ProgressInv, NEW c \in running
  PROVE  IF Step(c).op = "do"
         THEN \/ /\ c[2] \in Sessions
                 /\ \/ DoesAt(c, "accept", 3, "lookup")
                    \/ DoesAt(c, "accept", 5, "skip_if_found")
                    \/ DoesAt(c, "accept", 7, "emplace")
                    \/ DoesAt(c, "accept", 14, "args_ready")
                    \/ DoesAt(c, "accept", 22, "start_session")
                    \/ DoesAt(c, "accept", 25, "submit")
                    \/ DoesAt(c, "serve", 8, "submit")
                    \/ DoesAt(c, "serve", 14, "invalidate")
                    \/ DoesAt(c, "serve", 16, "remove")
                    \/ DoesAt(c, "ipc", 9, "start_session")
                    \/ c[1] = "session" /\ Step(c).arg = "publish"
              \/ /\ c[2] \in Workers
                 /\ DoesAt(c, "worker", 3, "take")
         ELSE (c[1] = "accept" => pc[c] # 7) /\ (c[1] = "worker" => pc[c] # 3)
  <1>1. c \in AllCoroutines /\ pc[c] \in 1..Len(Program(c))
    BY Moves DEF StepMoves
  <1>2. ASSUME NEW s \in Sessions, c = <<"accept", s>>
        PROVE  pc[c] \in 1..27 /\ c[1] = "accept" /\ c[2] = s
    BY <1>1, <1>2, ProgramOf, AcceptTable
  <1>3. ASSUME NEW s \in Sessions, c = <<"serve", s>>
        PROVE  pc[c] \in 1..18 /\ c[1] = "serve" /\ c[2] = s
    BY <1>1, <1>3, ProgramOf, ServeTable
  <1>4. ASSUME NEW s \in Sessions, c = <<"ipc", s>>
        PROVE  pc[c] \in 1..14 /\ c[1] = "ipc" /\ c[2] = s
    BY <1>1, <1>4, ProgramOf, IpcTable
  <1>5. ASSUME NEW s \in Sessions, c = <<"session", s>>
        PROVE  pc[c] \in 1..7 /\ c[1] = "session" /\ c[2] = s
    <2>1. Len(Program(c)) = 7
      <3>1. CASE s \in aborted
        BY <1>5, <3>1, ProgramOf, AbortTable
      <3>2. CASE s \notin aborted
        BY <1>5, <3>2, ProgramOf, ObjectTable
      <3> QED BY <3>1, <3>2
    <2> QED BY <1>1, <1>5, <2>1
  <1>6. ASSUME NEW s \in Workers, c = <<"worker", s>>
        PROVE  pc[c] \in 1..7 /\ c[1] = "worker" /\ c[2] = s
    BY <1>1, <1>6, ProgramOf, WorkerTable
  <1>7. CASE \E s \in Sessions : c = <<"accept", s>>
    <2>1. PICK s \in Sessions : c = <<"accept", s>>
      BY <1>7
    <2>2. pc[c] \in 1..27 /\ c[1] = "accept" /\ c[2] = s
      BY <1>2, <2>1
    <2>3. /\ Step(c).op = "do" <=> pc[c] \in {3, 5, 7, 14, 22, 25}
          /\ pc[c] = 3 => Step(c).arg = "lookup"
          /\ pc[c] = 5 => Step(c).arg = "skip_if_found"
          /\ pc[c] = 7 => Step(c).arg = "emplace"
          /\ pc[c] = 14 => Step(c).arg = "args_ready"
          /\ pc[c] = 22 => Step(c).arg = "start_session"
          /\ pc[c] = 25 => Step(c).arg = "submit"
      BY <2>1, <2>2, AcceptAt
    <2> QED BY <2>2, <2>3 DEF DoesAt
  <1>8. CASE \E s \in Sessions : c = <<"serve", s>>
    <2>1. PICK s \in Sessions : c = <<"serve", s>>
      BY <1>8
    <2>2. pc[c] \in 1..18 /\ c[1] = "serve" /\ c[2] = s
      BY <1>3, <2>1
    <2>3. /\ Step(c).op = "do" <=> pc[c] \in {8, 14, 16}
          /\ pc[c] = 8 => Step(c).arg = "submit"
          /\ pc[c] = 14 => Step(c).arg = "invalidate"
          /\ pc[c] = 16 => Step(c).arg = "remove"
      BY <2>1, <2>2, ServeAt
    <2> QED BY <2>2, <2>3 DEF DoesAt
  <1>9. CASE \E s \in Sessions : c = <<"ipc", s>>
    <2>1. PICK s \in Sessions : c = <<"ipc", s>>
      BY <1>9
    <2>2. pc[c] \in 1..14 /\ c[1] = "ipc" /\ c[2] = s
      BY <1>4, <2>1
    <2>3. /\ Step(c).op = "do" <=> pc[c] = 9
          /\ pc[c] = 9 => Step(c).arg = "start_session"
      BY <2>1, <2>2, IpcAt
    <2> QED BY <2>2, <2>3 DEF DoesAt
  <1>10. CASE \E s \in Sessions : c = <<"session", s>>
    <2>1. PICK s \in Sessions : c = <<"session", s>>
      BY <1>10
    <2>2. pc[c] \in 1..7 /\ c[1] = "session" /\ c[2] = s
      BY <1>5, <2>1
    <2>3. Step(c).op = "do" => Step(c).arg = "publish"
      <3>1. CASE s \in aborted
        BY <2>1, <2>2, <3>1, AbortAt
      <3>2. CASE s \notin aborted
        BY <2>1, <2>2, <3>2, ObjectAt
      <3> QED BY <3>1, <3>2
    <2> QED BY <2>2, <2>3
  <1>11. CASE \E w \in Workers : c = <<"worker", w>>
    <2>1. PICK w \in Workers : c = <<"worker", w>>
      BY <1>11
    <2>2. pc[c] \in 1..7 /\ c[1] = "worker" /\ c[2] = w
      BY <1>6, <2>1
    <2>3. /\ Step(c).op = "do" <=> pc[c] = 3
          /\ pc[c] = 3 => Step(c).arg = "take"
      BY <2>1, <2>2, WorkerAt
    <2> QED BY <2>2, <2>3 DEF DoesAt
  <1> QED BY <1>1, <1>7, <1>8, <1>9, <1>10, <1>11, KindOf

\* Taking a mutex keeps the invariant.
LEMMA AcquireKeeps ==
  ASSUME LockInv, NEW c \in running, Acquire(c)
  PROVE  LockInv'
  <1> USE DEF LockInv
  <1>1. c \in AllCoroutines /\ StepMoves(c)
    BY Moves
  <1>2. PICK k \in Nat \ {0} :
           /\ pc' = [pc EXCEPT ![c] = k]
           /\ running' \in {running, running \ {c}}
           /\ c \in running' => k \in 1..Len(Program(c))
           /\ k >= pc[c] \/ c[1] = "worker"
           /\ k = pc[c] + 1 \/ k = 1
           /\ \A m : HoldsAt(c, k, m, view, aborted) <=> HoldsAt(c, pc[c] + 1, m, view, aborted)
           /\ c \notin running' => \A m : ~HoldsAt(c, k, m, view, aborted)
    BY AdvanceIs DEF Acquire
  <1>3. UNCHANGED <<side, aborted, views, view, ready, queued, task, published>>
    BY DEF Acquire
  <1>4. (c[1] = "accept" => pc[c] # 7) /\ (c[1] = "worker" => pc[c] # 3)
    BY EffectsOf DEF Acquire
  <1>5. pc' \in [AllCoroutines -> Nat] /\ (running \subseteq Coroutines)' /\ ProgressInv'
    BY <1>1, <1>2, <1>3, <1>4, QuietKeeps, ProgressKeeps
  <1>6. holder' \in [Mutexes -> AllCoroutines \cup {None}]
    BY <1>1 DEF Acquire, LockTypes
  <1>7. LockTypes'
    BY <1>3, <1>5, <1>6 DEF LockTypes
  <1>8. \A m \in Mutexes : holder'[m] = c <=> HoldsAt(c, k, m, view, aborted)
    <2>1. \A m \in Mutexes : holder[m] = c <=> HoldsAt(c, pc[c], m, view, aborted)
      BY <1>1 DEF HolderInv, Holds
    <2>2. CASE Step(c).op = "lock"
      <3>1. Mutex(c) \in Mutexes /\ holder' = [holder EXCEPT ![Mutex(c)] = c]
        BY <1>1, <2>2 DEF Acquire, StepMoves
      <3>2. \A m : HoldsAt(c, k, m, view, aborted) <=>
               HoldsAt(c, pc[c], m, view, aborted) \/ m = Mutex(c)
        BY <1>1, <1>2, <2>2 DEF StepMoves
      <3> QED BY <2>1, <3>1, <3>2 DEF LockTypes
    <2>3. CASE Step(c).op = "touch"
      <3>1. holder' = holder
        BY <2>3 DEF Acquire
      <3>2. \A m : HoldsAt(c, k, m, view, aborted) <=> HoldsAt(c, pc[c], m, view, aborted)
        BY <1>1, <1>2, <2>3 DEF StepMoves
      <3> QED BY <2>1, <3>1, <3>2
    <2> QED BY <2>2, <2>3 DEF Acquire
  <1>9. \A d \in AllCoroutines, m \in Mutexes : d # c => (holder'[m] = d <=> holder[m] = d)
    BY CoroutinesAre DEF Acquire, LockTypes
  <1>10. HolderInv' /\ SuspendInv'
    <2>1. aborted' = aborted /\ view' = view
      BY <1>3
    <2>2. \A m \in Mutexes : holder'[m] = c <=> HoldsAt(c, k, m, view', aborted)
      BY <1>8, <2>1
    <2>3. c \notin running' => \A m \in Mutexes : HoldsAt(c, k, m, view', aborted) =>
            c[1] = "session" /\ c[2] \notin aborted /\ k = 7
      BY <1>2, <2>1
    <2>4. pc' = [pc EXCEPT ![c] = k] /\ running' \in {running, running \ {c}}
      BY <1>2
    <2> QED BY <1>1, <1>9, <2>1, <2>2, <2>3, <2>4, HolderKeeps
  <1> QED BY <1>5, <1>7, <1>10

\* Giving up a mutex keeps the invariant.
LEMMA ReleaseKeeps ==
  ASSUME LockInv, NEW c \in running, Release(c)
  PROVE  LockInv'
  <1> USE DEF LockInv
  <1>1. c \in AllCoroutines /\ StepMoves(c)
    BY Moves
  <1>2. PICK k \in Nat \ {0} :
           /\ pc' = [pc EXCEPT ![c] = k]
           /\ running' \in {running, running \ {c}}
           /\ c \in running' => k \in 1..Len(Program(c))
           /\ k >= pc[c] \/ c[1] = "worker"
           /\ k = pc[c] + 1 \/ k = 1
           /\ \A m : HoldsAt(c, k, m, view, aborted) <=> HoldsAt(c, pc[c] + 1, m, view, aborted)
           /\ c \notin running' => \A m : ~HoldsAt(c, k, m, view, aborted)
    BY AdvanceIs DEF Release
  <1>3. UNCHANGED <<side, aborted, views, view, ready, queued, task, published>>
    BY DEF Release
  <1>4. (c[1] = "accept" => pc[c] # 7) /\ (c[1] = "worker" => pc[c] # 3)
    BY EffectsOf DEF Release
  <1>5. pc' \in [AllCoroutines -> Nat] /\ (running \subseteq Coroutines)' /\ ProgressInv'
    BY <1>1, <1>2, <1>3, <1>4, QuietKeeps, ProgressKeeps
  <1>6. Mutex(c) \in Mutexes /\ holder' = [holder EXCEPT ![Mutex(c)] = None]
    BY <1>1 DEF Release, StepMoves
  <1>7. LockTypes'
    BY <1>3, <1>5, <1>6 DEF LockTypes
  <1>8. \A m \in Mutexes : holder[m] = c <=> HoldsAt(c, pc[c], m, view, aborted)
    BY <1>1 DEF HolderInv, Holds
  <1>9. /\ HoldsAt(c, pc[c], Mutex(c), view, aborted)
        /\ \A m : HoldsAt(c, k, m, view, aborted) <=>
                 HoldsAt(c, pc[c], m, view, aborted) /\ m # Mutex(c)
    BY <1>1, <1>2 DEF StepMoves, Release
  <1>10. \A m \in Mutexes : holder'[m] = c <=> HoldsAt(c, k, m, view, aborted)
    BY <1>1, <1>6, <1>8, <1>9, CoroutinesAre DEF LockTypes
  <1>11. \A d \in AllCoroutines, m \in Mutexes : d # c => (holder'[m] = d <=> holder[m] = d)
    BY <1>6, <1>8, <1>9, CoroutinesAre DEF LockTypes
  <1>12. HolderInv' /\ SuspendInv'
    <2>1. aborted' = aborted /\ view' = view
      BY <1>3
    <2>2. \A m \in Mutexes : holder'[m] = c <=> HoldsAt(c, k, m, view', aborted)
      BY <1>10, <2>1
    <2>3. c \notin running' => \A m \in Mutexes : HoldsAt(c, k, m, view', aborted) =>
            c[1] = "session" /\ c[2] \notin aborted /\ k = 7
      BY <1>2, <2>1
    <2>4. pc' = [pc EXCEPT ![c] = k] /\ running' \in {running, running \ {c}}
      BY <1>2
    <2> QED BY <1>1, <1>11, <2>1, <2>2, <2>3, <2>4, HolderKeeps
  <1> QED BY <1>5, <1>7, <1>12

\* A co_await keeps the invariant.
LEMMA SuspendKeeps ==
  ASSUME LockInv, NEW c \in running, Suspend(c)
  PROVE  LockInv'
  <1> USE DEF LockInv
  <1>1. c \in AllCoroutines /\ StepMoves(c)
    BY Moves
  <1> DEFINE k == pc[c] + 1
  <1>2. /\ k \in Nat \ {0} /\ pc[c] \in Nat
        /\ pc' = [pc EXCEPT ![c] = k] /\ running' = running \ {c} /\ Step(c).op = "await"
    BY <1>1 DEF Suspend, LockTypes
  <1>3. UNCHANGED <<side, aborted, holder, views, view, ready, queued, task, published>>
    BY DEF Suspend
  <1>4. (c[1] = "accept" => pc[c] # 7) /\ (c[1] = "worker" => pc[c] # 3)
    BY <1>2, EffectsOf
  <1>5. pc' \in [AllCoroutines -> Nat] /\ (running \subseteq Coroutines)' /\ ProgressInv'
    <2>1. k >= pc[c]
      BY <1>2
    <2> HIDE DEF k
    <2>2. k = pc[c] + 1
      BY DEF k
    <2> QED BY <1>1, <1>2, <1>3, <1>4, <2>1, <2>2, QuietKeeps, ProgressKeeps
  <1>7. LockTypes'
    BY <1>3, <1>5 DEF LockTypes
  <1>8. \A m \in Mutexes : holder[m] = c <=> HoldsAt(c, k, m, view, aborted)
    BY <1>1, <1>2 DEF HolderInv, Holds, StepMoves
  <1>9. \A m : HoldsAt(c, k, m, view, aborted) => c[1] = "session" /\ c[2] \notin aborted /\ k = 7
    BY <1>1, <1>2 DEF StepMoves
  <1>10. HolderInv' /\ SuspendInv'
    <2> HIDE DEF k
    <2> QED BY <1>1, <1>2, <1>3, <1>8, <1>9, HolderKeeps
  <1> QED BY <1>5, <1>7, <1>10

\* A client's session has seven steps, whatever it gets.
LEMMA LenSession ==
  \A s \in Sessions : Len(Program(<<"session", s>>)) = 7
  <1> TAKE s \in Sessions
  <1> DEFINE P == Program(<<"session", s>>)
  <1>1. \/ P = handle_client_session(s, TRUE)
        \/ P = handle_client_session(s, FALSE)
    BY ProgramOf
  <1> HIDE DEF P
  <1>2. Len(P) = 7
    BY <1>1, AbortTable, ObjectTable
  <1> QED BY <1>2 DEF P

\* A program is finite.
LEMMA LenProgram ==
  ASSUME NEW c \in AllCoroutines
  PROVE  Len(Program(c)) \in Nat
  BY LenSession, KindOf, ProgramOf, AcceptTable, ServeTable, IpcTable, WorkerTable

\* A thread that takes a coroutine keeps the invariant.
LEMMA DispatchKeeps ==
  ASSUME LockInv, NEW c \in Coroutines, Dispatch(c)
  PROVE  LockInv'
  <1> USE DEF LockInv
  <1>1. running' = running \cup {c} /\ pc[c] > 0 /\ ~(pc[c] > Len(Program(c)))
    BY DEF Dispatch, Ended
  <1>2. UNCHANGED <<side, aborted, pc, holder, views, view, ready, queued, task>>
    BY DEF Dispatch
  <1>3. c \in AllCoroutines /\ pc[c] \in Nat /\ Len(Program(c)) \in Nat
    BY CoroutinesAre, LenProgram DEF LockTypes
  <1>4. Coroutines' = Coroutines /\ \A d : Program(d)' = Program(d)
    BY <1>2 DEF Coroutines, Program
  <1>5. LockTypes'
    BY <1>1, <1>2, <1>4 DEF LockTypes
  <1>6. PcInv'
    <2>1. pc[c] \in 1..Len(Program(c))
      BY <1>1, <1>3
    <2> QED BY <1>1, <1>2, <1>4, <2>1 DEF PcInv, ProgressInv
  <1>7. IdleInv' /\ PhaseInv' /\ TaskInv'
    BY <1>2, <1>4 DEF IdleInv, PhaseInv, TaskInv, ProgressInv
  <1>8. HolderInv' /\ SuspendInv'
    BY <1>1, <1>2 DEF HolderInv, SuspendInv, Holds
  <1> QED BY <1>5, <1>6, <1>7, <1>8 DEF ProgressInv

\* An effect on the pool, or the publication, keeps the invariant.
LEMMA DoAdvanceKeeps ==
  ASSUME LockInv, NEW c \in running, Step(c).op = "do", Advance(c, pc[c] + 1),
         UNCHANGED <<side, aborted, holder, view, task>>,
         c[1] = "accept" => pc[c] # 7, c[1] # "worker"
  PROVE  /\ pc' \in [AllCoroutines -> Nat] /\ (running \subseteq Coroutines)' /\ ProgressInv'
         /\ HolderInv' /\ SuspendInv'
  <1> USE DEF LockInv
  <1>1. c \in AllCoroutines /\ StepMoves(c)
    BY Moves
  <1>2. PICK k \in Nat \ {0} :
           /\ pc' = [pc EXCEPT ![c] = k]
           /\ running' \in {running, running \ {c}}
           /\ c \in running' => k \in 1..Len(Program(c))
           /\ k >= pc[c] \/ c[1] = "worker"
           /\ k = pc[c] + 1 \/ k = 1
           /\ \A m : HoldsAt(c, k, m, view, aborted) <=> HoldsAt(c, pc[c] + 1, m, view, aborted)
           /\ c \notin running' => \A m : ~HoldsAt(c, k, m, view, aborted)
    BY AdvanceIs
  <1>3. pc' \in [AllCoroutines -> Nat] /\ (running \subseteq Coroutines)' /\ ProgressInv'
    BY <1>1, <1>2, QuietKeeps, ProgressKeeps
  <1>4. \A m \in Mutexes : holder'[m] = c <=> HoldsAt(c, k, m, view', aborted)
    BY <1>1, <1>2 DEF StepMoves, HolderInv, Holds
  <1>5. c \notin running' => \A m \in Mutexes : HoldsAt(c, k, m, view', aborted) =>
            c[1] = "session" /\ c[2] \notin aborted /\ k = 7
    BY <1>2
  <1>6. pc' = [pc EXCEPT ![c] = k] /\ running' \in {running, running \ {c}}
    BY <1>2
  <1> QED BY <1>1, <1>3, <1>4, <1>5, <1>6, HolderKeeps

\* A worker that takes a task, or finds the queue empty, keeps the invariant.
LEMMA TakeKeeps ==
  ASSUME LockInv, NEW c \in running, Take(c)
  PROVE  LockInv'
  <1> USE DEF LockInv
  <1>1. c \in AllCoroutines /\ StepMoves(c)
    BY Moves
  <1>2. Step(c).op = "do" /\ Step(c).arg = "take"
    BY FieldsOfSteps DEF Take
  <1>3. c[2] \in Workers /\ c[1] = "worker" /\ pc[c] = 3
    BY <1>2, EffectsOf DEF DoesAt
  <1>4. c = <<"worker", c[2]>>
    BY <1>1, <1>3, KindOf
  <1>5. UNCHANGED <<side, aborted, views, view, ready, published>>
    BY DEF Take
  <1>6. \A m \in Mutexes : holder[m] = c <=> HoldsAt(c, 3, m, view, aborted)
    BY <1>1, <1>3 DEF HolderInv, Holds
  <1>7. CASE \E s \in queued : /\ queued' = queued \ {s}
                              /\ task' = [task EXCEPT ![c[2]] = s]
                              /\ Advance(c, pc[c] + 1)
                              /\ UNCHANGED holder
    <2>1. PICK s \in queued : /\ queued' = queued \ {s}
                              /\ task' = [task EXCEPT ![c[2]] = s]
                              /\ Advance(c, pc[c] + 1)
                              /\ UNCHANGED holder
      BY <1>7
    <2>2. s \in Sessions /\ Len(Program(c)) = 7
      BY <1>3, <1>4, ProgramOf, WorkerTable DEF LockTypes
    <2>3. pc' = [pc EXCEPT ![c] = 4] /\ running' = running
      BY <1>3, <2>1, <2>2 DEF Advance
    <2>4. pc'[c] = 4 /\ \A d \in AllCoroutines : d # c => pc'[d] = pc[d]
      BY <1>1, <2>3 DEF LockTypes
    <2>5. ASSUME NEW r \in Sessions, pc'[<<"accept", r>>] >= 8 PROVE view'[r] \in Sessions
      <3>1. <<"accept", r>> # c
        BY <1>4
      <3>2. <<"accept", r>> \in AllCoroutines
        BY CoroutinesAre
      <3> QED BY <1>5, <2>4, <2>5, <3>1, <3>2 DEF ProgressInv, PhaseInv
    <2>6. ASSUME NEW w \in Workers, pc'[<<"worker", w>>] >= 4 PROVE task'[w] \in Sessions
      <3>1. CASE w = c[2]
        BY <2>1, <2>2, <3>1 DEF LockTypes
      <3>2. CASE w # c[2]
        <4>1. <<"worker", w>> # c /\ <<"worker", w>> \in AllCoroutines
          BY <3>2, CoroutinesAre
        <4> QED BY <2>1, <2>4, <2>6, <3>2, <4>1 DEF ProgressInv, TaskInv, LockTypes
      <3> QED BY <3>1, <3>2
    <2>7. pc' \in [AllCoroutines -> Nat] /\ (running \subseteq Coroutines)' /\ ProgressInv'
      <3> DEFINE k == 4
      <3>1. k \in Nat \ {0} /\ k >= pc[c] /\ k \in 1..Len(Program(c)) /\ pc' = [pc EXCEPT ![c] = k]
        BY <1>3, <2>2, <2>3
      <3> HIDE DEF k
      <3> QED BY <1>1, <1>5, <2>3, <2>5, <2>6, <3>1, ProgressKeeps
    <2>8. LockTypes'
      BY <1>5, <2>1, <2>2, <2>7 DEF LockTypes
    <2>9. \A m \in Mutexes : holder'[m] = c <=> HoldsAt(c, 4, m, view', aborted)
      BY <1>1, <1>2, <1>3, <1>5, <1>6, <2>1 DEF StepMoves
    <2>10. HolderInv' /\ SuspendInv'
      BY <1>1, <1>5, <2>1, <2>3, <2>9, HolderKeeps
    <2> QED BY <2>7, <2>8, <2>10
  <1>8. CASE /\ queued = {}
             /\ pc' = [pc EXCEPT ![c] = 1]
             /\ running' = running \ {c}
             /\ holder' = [holder EXCEPT ![Pool] = None]
             /\ UNCHANGED <<queued, task>>
    <2>1. pc' \in [AllCoroutines -> Nat] /\ (running \subseteq Coroutines)' /\ ProgressInv'
      <3> DEFINE k == 1
      <3>1. k \in Nat \ {0} /\ k = 1 /\ pc' = [pc EXCEPT ![c] = k]
        BY <1>8
      <3> HIDE DEF k
      <3>2. /\ \A s \in Sessions : pc'[<<"accept", s>>] >= 8 => view'[s] \in Sessions
            /\ \A w \in Workers : pc'[<<"worker", w>>] >= 4 => task'[w] \in Sessions
        BY <1>1, <1>3, <1>5, <1>8, <3>1, QuietKeeps
      <3>3. c \notin running' /\ running' \in {running, running \ {c}}
        BY <1>8
      <3> QED BY <1>1, <1>3, <1>5, <3>1, <3>2, <3>3, ProgressKeeps
    <2>2. LockTypes'
      BY <1>5, <1>8, <2>1 DEF LockTypes
    <2>3. Pool \in Mutexes /\ holder[Pool] = c
      BY <1>3, <1>6, HoldsOf, MutexesAre
    <2>4. \A m \in Mutexes : ~HoldsAt(c, 1, m, view', aborted)
      BY NothingAtStart
    <2>5. \A m \in Mutexes : holder'[m] # c
      BY <1>1, <1>3, <1>6, <1>8, <2>3, HoldsOf, CoroutinesAre DEF LockTypes
    <2>6. \A d \in AllCoroutines, m \in Mutexes : d # c => (holder'[m] = d <=> holder[m] = d)
      BY <1>8, <2>3, CoroutinesAre DEF LockTypes
    <2>7. HolderInv' /\ SuspendInv'
      BY <1>1, <1>5, <1>8, <2>4, <2>5, <2>6, HolderKeeps
    <2> QED BY <2>1, <2>2, <2>7
  <1> QED BY <1>7, <1>8 DEF Take

\* What a coroutine holds depends only on the view of its own session.
LEMMA HoldsSameView ==
  ASSUME NEW c, NEW n, NEW m, NEW v, NEW w, NEW a, v[c[2]] = w[c[2]]
  PROVE  HoldsAt(c, n, m, v, a) <=> HoldsAt(c, n, m, w, a)
  BY DEF HoldsAt

\* A coroutine of kind "accept" is a connection's, with 27 steps.
LEMMA AcceptIs ==
  ASSUME LockTypes, ProgressInv, NEW c \in running, c[1] = "accept"
  PROVE  c \in AllCoroutines /\ c = <<"accept", c[2]>> /\ Len(Program(c)) = 27
  <1>1. c \in AllCoroutines
    BY Moves
  <1>2. PICK s \in Sessions : c = <<"accept", s>>
    BY <1>1, KindOf
  <1>3. Program(c) = handle_new_connection(s)
    BY <1>2, ProgramOf
  <1>4. Len(Program(c)) = 27
    BY <1>3, AcceptTable
  <1> QED BY <1>1, <1>2, <1>4

\* A connection that is given a view, by the lookup or by try_emplace, keeps
\* the invariant: nobody holds a view through that session yet.
LEMMA ViewStepKeeps ==
  ASSUME LockInv, NEW s \in Sessions, NEW c \in running, c[1] = "accept", c[2] = s,
         pc[c] \in {3, 7}, Advance(c, pc[c] + 1), NEW x, view' = [view EXCEPT ![s] = x],
         pc[c] = 7 => x \in Sessions, UNCHANGED <<side, aborted, holder, task>>
  PROVE  /\ pc' \in [AllCoroutines -> Nat] /\ (running \subseteq Coroutines)' /\ ProgressInv'
         /\ HolderInv' /\ SuspendInv'
  <1> USE DEF LockInv
  <1>1. c \in AllCoroutines /\ Len(Program(c)) = 27
    BY AcceptIs
  <1>0. c = <<"accept", s>>
    BY AcceptIs
  <1> DEFINE k == pc[c] + 1
  <1>2. k \in {4, 8} /\ (k = 8 => x \in Sessions)
    OBVIOUS
  <1>3. pc' = [pc EXCEPT ![c] = k] /\ running' = running
    BY <1>1 DEF Advance
  <1>4. k >= pc[c] /\ k \in 1..Len(Program(c)) /\ k \in Nat \ {0}
    BY <1>1
  <1>5. \A m \in Mutexes : holder[m] = c <=> m = Storage
    BY <1>1, HoldsOf DEF HolderInv, Holds
  <1> HIDE DEF k
  <1>6. pc'[c] = k /\ \A d \in AllCoroutines : d # c => pc'[d] = pc[d]
    BY <1>1, <1>3 DEF LockTypes
  <1>7. ASSUME NEW r \in Sessions, pc'[<<"accept", r>>] >= 8 PROVE view'[r] \in Sessions
    <2>1. CASE r = s
      BY <1>0, <1>2, <1>6, <1>7, <2>1 DEF LockTypes
    <2>2. CASE r # s
      <3>1. <<"accept", r>> # c
        BY <1>0, <2>2
      <3>2. pc'[<<"accept", r>>] = pc[<<"accept", r>>] /\ view'[r] = view[r]
        BY <1>6, <2>2, <3>1, CoroutinesAre DEF LockTypes
      <3> QED BY <1>7, <3>2 DEF ProgressInv, PhaseInv
    <2> QED BY <2>1, <2>2
  <1>8. ASSUME NEW w \in Workers, pc'[<<"worker", w>>] >= 4 PROVE task'[w] \in Sessions
    <2>1. <<"worker", w>> # c
      BY <1>0
    <2> QED BY <1>6, <1>8, <2>1, CoroutinesAre DEF ProgressInv, TaskInv
  <1>9. pc' \in [AllCoroutines -> Nat] /\ (running \subseteq Coroutines)' /\ ProgressInv'
    BY <1>1, <1>3, <1>4, <1>7, <1>8, ProgressKeeps
  <1>10. \A m \in Mutexes : holder'[m] = c <=> HoldsAt(c, k, m, view', aborted)
    BY <1>1, <1>2, <1>5, HoldsOf
  <1>11. ASSUME NEW d \in AllCoroutines, NEW m \in Mutexes, d # c
         PROVE  HoldsAt(d, pc[d], m, view', aborted) <=> HoldsAt(d, pc[d], m, view, aborted)
    <2>1. CASE d[2] = s /\ d[1] = "serve"
      <3>1. d = <<"serve", s>>
        BY <2>1, KindOf
      <3>2. pc[d] = 0
        <4>1. pc[<<"accept", s>>] <= 22 => pc[<<"serve", s>>] = 0
          BY DEF ProgressInv, PhaseInv
        <4>2. pc[<<"accept", s>>] \in {3, 7}
          BY <1>0
        <4> QED BY <3>1, <4>1, <4>2
      <3> QED BY <3>2, NothingAtStart
    <2>2. CASE d[1] \in {"accept", "serve"} /\ d[2] # s
      <3>1. d[2] \in Sessions
        BY <2>2, KindOf
      <3>2. view'[d[2]] = view[d[2]]
        BY <2>2, <3>1 DEF LockTypes
      <3> DEFINE v == view'
      <3> HIDE DEF v
      <3>3. v[d[2]] = view[d[2]]
        BY <3>2 DEF v
      <3>4. HoldsAt(d, pc[d], m, v, aborted) <=> HoldsAt(d, pc[d], m, view, aborted)
        BY <3>3, HoldsSameView
      <3> QED BY <3>4 DEF v
    <2>3. CASE d[1] \in {"worker", "ipc", "session"}
      BY <2>3, HoldsOf
    <2>4. d[1] = "accept" => d[2] # s
      BY <1>0, <1>11, KindOf
    <2>5. d[1] \in {"accept", "serve", "worker", "ipc", "session"}
      BY KindOf
    <2> QED BY <2>1, <2>2, <2>3, <2>4, <2>5
  <1>12. HolderInv' /\ SuspendInv'
    BY <1>1, <1>3, <1>10, <1>11, HolderKeeps
  <1> QED BY <1>9, <1>12

\* The jump over the emplacement, taken when a view was found, does.
LEMMA SkipKeeps ==
  ASSUME LockInv, NEW s \in Sessions, NEW c \in running, c[1] = "accept", c[2] = s, pc[c] = 5,
         Advance(c, IF view[s] # None THEN pc[c] + 4 ELSE pc[c] + 1),
         UNCHANGED <<side, aborted, holder, view, task>>
  PROVE  /\ pc' \in [AllCoroutines -> Nat] /\ (running \subseteq Coroutines)' /\ ProgressInv'
         /\ HolderInv' /\ SuspendInv'
  <1> USE DEF LockInv
  <1>1. c \in AllCoroutines /\ Len(Program(c)) = 27
    BY AcceptIs
  <1>0. c = <<"accept", s>>
    BY AcceptIs
  <1> DEFINE k == IF view[s] # None THEN 9 ELSE 6
  <1>2. pc' = [pc EXCEPT ![c] = k] /\ running' = running
    BY <1>1 DEF Advance
  <1>3. k >= pc[c] /\ k \in 1..Len(Program(c)) /\ k \in Nat \ {0}
    BY <1>1
  <1>4. k \in {6, 9} /\ (k = 9 => view[s] \in Sessions)
    BY DEF LockTypes
  <1> HIDE DEF k
  <1>5. pc'[c] = k /\ \A d \in AllCoroutines : d # c => pc'[d] = pc[d]
    BY <1>1, <1>2 DEF LockTypes
  <1>6. ASSUME NEW r \in Sessions, pc'[<<"accept", r>>] >= 8 PROVE view'[r] \in Sessions
    <2>1. CASE r = s
      BY <1>0, <1>4, <1>5, <1>6, <2>1
    <2>2. CASE r # s
      <3>1. <<"accept", r>> # c
        BY <1>0, <2>2
      <3> QED BY <1>5, <1>6, <3>1, CoroutinesAre DEF ProgressInv, PhaseInv
    <2> QED BY <2>1, <2>2
  <1>7. ASSUME NEW w \in Workers, pc'[<<"worker", w>>] >= 4 PROVE task'[w] \in Sessions
    <2>1. <<"worker", w>> # c
      BY <1>0
    <2> QED BY <1>5, <1>7, <2>1, CoroutinesAre DEF ProgressInv, TaskInv
  <1>8. pc' \in [AllCoroutines -> Nat] /\ (running \subseteq Coroutines)' /\ ProgressInv'
    BY <1>1, <1>2, <1>3, <1>6, <1>7, ProgressKeeps
  <1>9. \A m \in Mutexes : holder[m] # c /\ ~HoldsAt(c, k, m, view, aborted)
    BY <1>1, <1>4, HoldsOf DEF HolderInv, Holds
  <1>10. HolderInv' /\ SuspendInv'
    BY <1>1, <1>2, <1>9, HolderKeeps
  <1> QED BY <1>8, <1>10

\* The coroutine that "start_session" of c starts.
Started(c) == <<IF side = "server" THEN "serve" ELSE "session", c[2]>>

\* It has not been started before, and belongs to the same session.
LEMMA StartedIs ==
  ASSUME LockInv, NEW c \in running, Step(c).op = "do", Step(c).arg = "start_session"
  PROVE  /\ c \in AllCoroutines /\ Started(c) \in AllCoroutines /\ Started(c) # c
         /\ c \in Coroutines /\ Started(c) \in Coroutines
         /\ pc[Started(c)] = 0
         /\ \E s \in Sessions :
              \/ c = <<"accept", s>> /\ Started(c) = <<"serve", s>> /\ pc[c] = 22
              \/ c = <<"ipc", s>> /\ Started(c) = <<"session", s>> /\ pc[c] = 9
  <1> USE DEF LockInv
  <1>1. c \in AllCoroutines /\ c \in Coroutines
    BY Moves DEF LockTypes
  <1>2. /\ c[2] \in Sessions
        /\ \/ c[1] = "accept" /\ pc[c] = 22
           \/ c[1] = "ipc" /\ pc[c] = 9
    BY EffectsOf DEF DoesAt
  <1>3. /\ c[1] = "accept" => side = "server"
        /\ c[1] = "ipc" => side # "server"
    BY <1>1 DEF Coroutines
  <1>4. /\ pc[<<"accept", c[2]>>] <= 22 => pc[<<"serve", c[2]>>] = 0
        /\ pc[<<"ipc", c[2]>>] <= 9 => pc[<<"session", c[2]>>] = 0
    BY <1>2 DEF ProgressInv, PhaseInv
  <1>5. CASE c[1] = "accept" /\ pc[c] = 22
    <2>1. c = <<"accept", c[2]>>
      BY <1>1, <1>5, KindOf
    <2>2. Started(c) = <<"serve", c[2]>>
      BY <1>3, <1>5 DEF Started
    <2>3. Started(c) \in Coroutines
      BY <1>2, <1>3, <1>5, <2>2 DEF Coroutines
    <2>4. pc[Started(c)] = 0
      BY <1>4, <1>5, <2>1, <2>2
    <2> QED BY <1>1, <1>2, <1>5, <2>1, <2>2, <2>3, <2>4, CoroutinesAre
  <1>6. CASE c[1] = "ipc" /\ pc[c] = 9
    <2>1. c = <<"ipc", c[2]>>
      BY <1>1, <1>6, KindOf
    <2>2. Started(c) = <<"session", c[2]>>
      BY <1>3, <1>6 DEF Started
    <2>3. Started(c) \in Coroutines
      BY <1>2, <1>3, <1>6, <2>2 DEF Coroutines
    <2>4. pc[Started(c)] = 0
      BY <1>4, <1>6, <2>1, <2>2
    <2> QED BY <1>1, <1>2, <1>6, <2>1, <2>2, <2>3, <2>4, CoroutinesAre
  <1> QED BY <1>2, <1>5, <1>6

\* The number of steps of the two coroutines that start others.
LEMMA LenStarter ==
  \A s \in Sessions : Len(Program(<<"accept", s>>)) = 27 /\ Len(Program(<<"ipc", s>>)) = 14
  <1> TAKE s \in Sessions
  <1>1. /\ Program(<<"accept", s>>) = handle_new_connection(s)
        /\ Program(<<"ipc", s>>) = handle_ipc_request(s)
    BY ProgramOf
  <1>2. Len(handle_new_connection(s)) = 27
    BY AcceptTable
  <1>3. Len(handle_ipc_request(s)) = 14
    BY IpcTable
  <1> QED BY <1>1, <1>2, <1>3, Zenon

\* Starting a session's coroutine keeps the invariant.
LEMMA StartKeeps ==
  ASSUME LockInv, NEW c \in running, Step(c).op = "do", Step(c).arg = "start_session",
         NEW e, e = Started(c),
         pc'[c] = pc[c] + 1, pc'[e] = 1, \A d \in AllCoroutines : d # c /\ d # e => pc'[d] = pc[d],
         pc' \in [AllCoroutines -> Nat], side' = side, aborted' = aborted, running' = running,
         holder' = holder, view' = view, task' = task
  PROVE  ProgressInv' /\ HolderInv' /\ SuspendInv'
  <1> USE DEF LockInv
  <1>1. StepMoves(c)
    BY Moves
  <1>2. /\ c \in AllCoroutines /\ e \in AllCoroutines /\ e # c
        /\ c \in Coroutines /\ e \in Coroutines
        /\ pc[e] = 0
    BY StartedIs
  <1>3. PICK s \in Sessions : \/ c = <<"accept", s>> /\ e = <<"serve", s>> /\ pc[c] = 22
                              \/ c = <<"ipc", s>> /\ e = <<"session", s>> /\ pc[c] = 9
    BY StartedIs
  <1>7. /\ pc'[c] = pc[c] + 1 /\ pc'[e] = 1
        /\ \A d \in AllCoroutines : d # c /\ d # e => pc'[d] = pc[d]
    OBVIOUS
  <1>9. Coroutines' = Coroutines /\ \A d : Program(d)' = Program(d)
    BY DEF Coroutines, Program
  <1>10. PcInv'
    <2> SUFFICES ASSUME NEW d \in running PROVE pc'[d] \in 1..Len(Program(d))
      BY <1>9 DEF PcInv
    <2>1. d \in AllCoroutines /\ pc[d] \in 1..Len(Program(d))
      BY CoroutinesAre DEF LockTypes, ProgressInv, PcInv
    <2>2. CASE d = c
      <3>1. c = <<"accept", s>> => Len(Program(c)) = 27
        BY LenStarter
      <3>2. c = <<"ipc", s>> => Len(Program(c)) = 14
        BY LenStarter
      <3>3. \/ pc[c] = 22 /\ Len(Program(c)) = 27
            \/ pc[c] = 9 /\ Len(Program(c)) = 14
        BY <1>3, <3>1, <3>2, Zenon
      <3>4. pc[c] + 1 \in 1..Len(Program(c))
        <4>1. \A n, l : (n = 22 /\ l = 27) \/ (n = 9 /\ l = 14) => n + 1 \in 1..l
          OBVIOUS
        <4> QED BY <3>3, <4>1, Zenon
      <3> QED BY <1>7, <2>2, <3>4, Zenon
    <2>3. d # e
      BY <1>2, <2>1
    <2> QED BY <1>7, <2>1, <2>2, <2>3
  <1>11. IdleInv'
    BY <1>2, <1>7, <1>9 DEF IdleInv, ProgressInv
  <1>12. PhaseInv'
    <2> SUFFICES ASSUME NEW r \in Sessions
                 PROVE  /\ pc'[<<"accept", r>>] >= 8 => view[r] \in Sessions
                        /\ pc'[<<"accept", r>>] <= 22 => pc'[<<"serve", r>>] = 0
                        /\ pc'[<<"ipc", r>>] <= 9 => pc'[<<"session", r>>] = 0
      BY DEF PhaseInv
    <2>1. /\ pc[<<"accept", r>>] >= 8 => view[r] \in Sessions
          /\ pc[<<"accept", r>>] <= 22 => pc[<<"serve", r>>] = 0
          /\ pc[<<"ipc", r>>] <= 9 => pc[<<"session", r>>] = 0
      BY DEF ProgressInv, PhaseInv
    <2>2. CASE r = s
      <3>1. CASE c = <<"accept", s>> /\ e = <<"serve", s>> /\ pc[c] = 22
        <4>0. c = <<"accept", r>> /\ <<"ipc", r>> \notin {c, e} /\ <<"session", r>> \notin {c, e}
          BY <2>2, <3>1
        <4>1. /\ pc'[<<"accept", r>>] = 23 /\ pc[<<"accept", r>>] = 22
              /\ pc'[<<"ipc", r>>] = pc[<<"ipc", r>>]
              /\ pc'[<<"session", r>>] = pc[<<"session", r>>]
          BY <1>7, <3>1, <4>0, CoroutinesAre
        <4> QED BY <2>1, <4>1
      <3>2. CASE c = <<"ipc", s>> /\ e = <<"session", s>> /\ pc[c] = 9
        <4>0. c = <<"ipc", r>> /\ <<"accept", r>> \notin {c, e} /\ <<"serve", r>> \notin {c, e}
          BY <2>2, <3>2
        <4>1. /\ pc'[<<"ipc", r>>] = 10
              /\ pc'[<<"accept", r>>] = pc[<<"accept", r>>]
              /\ pc'[<<"serve", r>>] = pc[<<"serve", r>>]
          BY <1>7, <3>2, <4>0, CoroutinesAre
        <4> QED BY <2>1, <4>1
      <3> QED BY <1>3, <3>1, <3>2
    <2>3. CASE r # s
      <3>1. \A k \in {"accept", "serve", "ipc", "session"} : <<k, r>> # c /\ <<k, r>> # e
        BY <1>3, <2>3
      <3>2. \A k \in {"accept", "serve", "ipc", "session"} : pc'[<<k, r>>] = pc[<<k, r>>]
        BY <1>7, <3>1, CoroutinesAre
      <3> QED BY <2>1, <3>2
    <2> QED BY <2>2, <2>3
  <1>13. TaskInv'
    <2> SUFFICES ASSUME NEW w \in Workers, pc'[<<"worker", w>>] >= 4 PROVE task[w] \in Sessions
      BY DEF TaskInv
    <2>1. <<"worker", w>> # c /\ <<"worker", w>> # e
      BY <1>3
    <2> QED BY <1>7, <2>1, CoroutinesAre DEF ProgressInv, TaskInv
  <1>14. \A d \in AllCoroutines : \A m : HoldsAt(d, pc'[d], m, view, aborted) <=>
           HoldsAt(d, pc[d], m, view, aborted)
    <2> SUFFICES ASSUME NEW d \in AllCoroutines, NEW m
                 PROVE  HoldsAt(d, pc'[d], m, view, aborted) <=> HoldsAt(d, pc[d], m, view, aborted)
      OBVIOUS
    <2>1. CASE d = c
      BY <1>1, <1>7, <2>1 DEF StepMoves
    <2>2. CASE d = e
      BY <1>2, <1>7, <2>2, NothingAtStart
    <2>3. CASE d # c /\ d # e
      BY <1>7, <2>3
    <2> QED BY <2>1, <2>2, <2>3
  <1>15. HolderInv'
    <2> SUFFICES ASSUME NEW m \in Mutexes, NEW d \in AllCoroutines
                 PROVE  holder[m] = d <=> HoldsAt(d, pc'[d], m, view, aborted)
      BY DEF HolderInv, Holds
    <2> QED BY <1>14 DEF HolderInv, Holds
  <1>16. SuspendInv'
    <2> SUFFICES ASSUME NEW m \in Mutexes, NEW d \in AllCoroutines,
                        HoldsAt(d, pc'[d], m, view, aborted), d \notin running
                 PROVE  d[1] = "session" /\ d[2] \notin aborted /\ pc'[d] = 7
      BY DEF SuspendInv, Holds
    <2>1. HoldsAt(d, pc[d], m, view, aborted)
      BY <1>14
    <2>2. d[1] = "session" /\ d[2] \notin aborted /\ pc[d] = 7
      BY <2>1 DEF SuspendInv, Holds
    <2>3. d # e /\ d # c
      BY <1>2, <1>3, <2>2
    <2> QED BY <1>7, <2>2, <2>3
  <1> QED BY <1>10, <1>11, <1>12, <1>13, <1>15, <1>16 DEF ProgressInv

\* Every effect keeps the invariant.
LEMMA EffectKeeps ==
  ASSUME LockInv, NEW c \in running, Effect(c)
  PROVE  LockInv'
  <1> USE DEF LockInv
  <1> DEFINE x == Step(c).arg
             Kept == /\ pc' \in [AllCoroutines -> Nat] /\ (running \subseteq Coroutines)'
                     /\ ProgressInv' /\ HolderInv' /\ SuspendInv'
  <1>1. Step(c).op = "do" /\ side' = side /\ aborted' = aborted /\ holder' = holder /\ task' = task
    BY DEF Effect
  <1>2. \/ ViewEffect(c, x) /\ UNCHANGED <<ready, queued, published>>
        \/ PoolEffect(c, x) /\ UNCHANGED <<views, view, published>>
        \/ /\ x = "publish"
           /\ published' = published \cup {c[2]}
           /\ Advance(c, pc[c] + 1)
           /\ UNCHANGED <<views, view, ready, queued>>
        \/ /\ x = "start_session"
           /\ pc' = [pc EXCEPT ![c] = @ + 1,
                               ![<<IF side = "server" THEN "serve" ELSE "session", c[2]>>] = 1]
           /\ UNCHANGED <<running, views, view, ready, queued, published>>
    BY DEF Effect
  <1>3. /\ x # "take" => c[2] \in Sessions /\ c[1] # "worker"
        /\ x = "lookup" => c[1] = "accept" /\ pc[c] = 3
        /\ x = "skip_if_found" => c[1] = "accept" /\ pc[c] = 5
        /\ x = "emplace" => c[1] = "accept" /\ pc[c] = 7
        /\ x # "emplace" /\ c[1] = "accept" => pc[c] # 7
    BY <1>1, EffectsOf DEF DoesAt
  <1>4. ASSUME Kept, views' \in [Clients -> Sessions \cup {None}],
               view' \in [Sessions -> Sessions \cup {None}],
               ready' \subseteq Sessions, queued' \subseteq Sessions
        PROVE  LockInv'
    <2>1. LockTypes'
      BY <1>1, <1>4 DEF LockTypes
    <2> QED BY <1>4, <2>1
  <1>5. ASSUME x \notin {"take", "emplace"}, Advance(c, pc[c] + 1), view' = view PROVE Kept
    BY <1>1, <1>3, <1>5, DoAdvanceKeeps
  <1>6. CASE ViewEffect(c, x) /\ UNCHANGED <<ready, queued, published>>
    <2>1. x \in {"lookup", "emplace", "skip_if_found"}
      BY <1>6 DEF ViewEffect
    <2>2. c[2] \in Sessions /\ ready' \subseteq Sessions /\ queued' \subseteq Sessions
      BY <1>3, <1>6, <2>1 DEF LockTypes
    <2>3. CASE x = "lookup"
      <3>1. /\ view' = [view EXCEPT ![c[2]] = views[ClientOf[c[2]]]] /\ views' = views
            /\ Advance(c, pc[c] + 1)
        BY <1>6, <2>3 DEF ViewEffect, lookup
      <3>2. views[ClientOf[c[2]]] \in Sessions \cup {None}
        BY <2>2, SessionsAssumption DEF LockTypes
      <3>3. Kept
        BY <1>1, <1>3, <2>2, <2>3, <3>1, ViewStepKeeps
      <3>4. /\ view' \in [Sessions -> Sessions \cup {None}]
            /\ views' \in [Clients -> Sessions \cup {None}]
        BY <2>2, <3>1, <3>2 DEF LockTypes
      <3> QED BY <1>4, <2>2, <3>3, <3>4
    <2>4. CASE x = "emplace"
      <3> DEFINE p == ClientOf[c[2]]
      <3>1. /\ views' = [views EXCEPT ![p] = IF @ = None THEN c[2] ELSE @]
            /\ view' = [view EXCEPT ![c[2]] = views'[p]]
            /\ Advance(c, pc[c] + 1)
        BY <1>6, <2>4 DEF ViewEffect, emplace
      <3>2. p \in Clients
        BY <2>2, SessionsAssumption
      <3> HIDE DEF p
      <3>3. views' \in [Clients -> Sessions \cup {None}] /\ views'[p] \in Sessions
        BY <2>2, <3>1, <3>2 DEF LockTypes
      <3>4. Kept
        <4> DEFINE y == views'[p]
        <4>1. view' = [view EXCEPT ![c[2]] = y] /\ y \in Sessions
          BY <3>1, <3>3
        <4> HIDE DEF y
        <4>2. c[1] = "accept" /\ pc[c] \in {3, 7} /\ Advance(c, pc[c] + 1)
          BY <1>3, <2>4, <3>1
        <4> QED BY <1>1, <2>2, <4>1, <4>2, ViewStepKeeps
      <3>5. view' \in [Sessions -> Sessions \cup {None}]
        BY <2>2, <3>1, <3>3 DEF LockTypes
      <3> QED BY <1>4, <2>2, <3>3, <3>4, <3>5
    <2>5. CASE x = "skip_if_found"
      <3>1. /\ Advance(c, IF view[c[2]] # None THEN pc[c] + 4 ELSE pc[c] + 1)
            /\ views' = views /\ view' = view
        BY <1>6, <2>5 DEF ViewEffect
      <3>2. Kept
        BY <1>1, <1>3, <2>2, <2>5, <3>1, SkipKeeps
      <3> QED BY <1>4, <2>2, <3>1, <3>2 DEF LockTypes
    <2> QED BY <2>1, <2>3, <2>4, <2>5
  <1>7. CASE PoolEffect(c, x) /\ UNCHANGED <<views, view, published>>
    <2>1. x \in {"args_ready", "submit", "invalidate", "remove"} /\ Advance(c, pc[c] + 1)
      BY <1>7 DEF PoolEffect
    <2>2. Kept
      BY <1>5, <1>7, <2>1
    <2>3. c[2] \in Sessions
      BY <1>3, <2>1
    <2>4. ready' \subseteq Sessions /\ queued' \subseteq Sessions
      BY <1>7, <2>3 DEF PoolEffect, submit, LockTypes
    <2> QED BY <1>4, <1>7, <2>2, <2>4 DEF LockTypes
  <1>8. CASE /\ x = "publish"
             /\ published' = published \cup {c[2]}
             /\ Advance(c, pc[c] + 1)
             /\ UNCHANGED <<views, view, ready, queued>>
    <2>1. Kept
      BY <1>5, <1>8
    <2> QED BY <1>4, <1>8, <2>1 DEF LockTypes
  <1>9. CASE /\ x = "start_session"
             /\ pc' = [pc EXCEPT ![c] = @ + 1,
                                 ![<<IF side = "server" THEN "serve" ELSE "session", c[2]>>] = 1]
             /\ UNCHANGED <<running, views, view, ready, queued, published>>
    <2> DEFINE e == Started(c)
    <2>1. pc' = [pc EXCEPT ![c] = @ + 1, ![e] = 1]
      BY <1>9 DEF Started
    <2>2. c \in AllCoroutines /\ e \in AllCoroutines /\ e # c
      BY <1>1, <1>9, StartedIs
    <2> HIDE DEF e
    <2>3. /\ pc'[c] = pc[c] + 1 /\ pc'[e] = 1
          /\ \A d \in AllCoroutines : d # c /\ d # e => pc'[d] = pc[d]
      BY <2>1, <2>2 DEF LockTypes
    <2>4. pc' \in [AllCoroutines -> Nat]
      <3>1. pc[c] + 1 \in Nat
        BY <2>2 DEF LockTypes
      <3> QED BY <2>1, <2>2, <3>1 DEF LockTypes
    <2>5. /\ running' = running /\ view' = view /\ views' = views
          /\ ready' = ready /\ queued' = queued
      BY <1>9
    <2>6. e = Started(c)
      BY DEF e
    <2>7. ProgressInv' /\ HolderInv' /\ SuspendInv'
      <3>1. Step(c).arg = "start_session"
        BY <1>9
      <3> QED BY <1>1, <2>3, <2>4, <2>5, <2>6, <3>1, StartKeeps
    <2>8. (running \subseteq Coroutines)'
      BY <1>1, <2>5 DEF LockTypes, Coroutines
    <2> QED BY <1>4, <2>4, <2>5, <2>7, <2>8 DEF LockTypes
  <1> QED BY <1>2, <1>6, <1>7, <1>8, <1>9

\* The invariant holds in every state both daemons can reach.
LEMMA LockInvariant == Spec => []LockInv
  <1>1. Init => LockInv
    <2> SUFFICES ASSUME Init PROVE LockInv
      OBVIOUS
    <2> USE DEF Init
    <2>1. pc \in [AllCoroutines -> Nat] /\ \A c \in AllCoroutines : pc[c] \in 0..1
      OBVIOUS
    <2>2. LockTypes
      BY <2>1 DEF LockTypes
    <2>3. PcInv /\ IdleInv
      BY <2>1 DEF PcInv, IdleInv
    <2>4. PhaseInv
      <3>1. ASSUME NEW s \in Sessions
            PROVE  /\ pc[<<"accept", s>>] = 1
                   /\ pc[<<"serve", s>>] = 0 /\ pc[<<"session", s>>] = 0
        <4>1. /\ <<"accept", s>> \in AllCoroutines /\ <<"serve", s>> \in AllCoroutines
              /\ <<"session", s>> \in AllCoroutines
          BY CoroutinesAre
        <4> QED BY <4>1
      <3> HIDE DEF Init
      <3>2. ASSUME NEW s \in Sessions PROVE ~(pc[<<"accept", s>>] >= 8)
        <4>1. pc[<<"accept", s>>] = 1
          BY <3>1, Zenon
        <4>2. ~(1 >= 8)
          OBVIOUS
        <4> QED BY <4>1, <4>2, Zenon
      <3> QED BY <3>1, <3>2 DEF PhaseInv
    <2>5. TaskInv
      <3> SUFFICES ASSUME NEW w \in Workers PROVE pc[<<"worker", w>>] \in 0..1
        BY DEF TaskInv
      <3> QED BY <2>1, CoroutinesAre
    <2>6. \A m \in Mutexes, c \in AllCoroutines : ~Holds(c, m) /\ holder[m] # c
      <3> SUFFICES ASSUME NEW m \in Mutexes, NEW c \in AllCoroutines
                   PROVE  ~Holds(c, m) /\ holder[m] # c
        OBVIOUS
      <3>1. ~HoldsAt(c, pc[c], m, view, aborted)
        BY <2>1, NothingAtStart
      <3> QED BY <3>1, CoroutinesAre DEF Holds
    <2> QED BY <2>2, <2>3, <2>4, <2>5, <2>6 DEF LockInv, ProgressInv, HolderInv, SuspendInv
  <1>2. LockInv /\ [Next]_vars => LockInv'
    <2> SUFFICES ASSUME LockInv, [Next]_vars PROVE LockInv'
      OBVIOUS
    <2>1. CASE UNCHANGED vars
      BY <2>1 DEF vars, LockInv, LockTypes, ProgressInv, PcInv, IdleInv, PhaseInv, TaskInv,
                  HolderInv, SuspendInv, Holds, Coroutines, Program
    <2>2. ASSUME NEW c \in Coroutines, Dispatch(c) PROVE LockInv'
      BY <2>2, DispatchKeeps
    <2>3. ASSUME NEW c \in Coroutines, Run(c) PROVE LockInv'
      BY <2>3, AcquireKeeps, ReleaseKeeps, SuspendKeeps, TakeKeeps, EffectKeeps DEF Run
    <2> QED BY <2>1, <2>2, <2>3 DEF Next
  <1> QED BY <1>1, <1>2, PTL DEF Spec

\* No step gives a connection another view than the one in the storage, and
\* none replaces a view that somebody was given.
LEMMA ViewKeeps ==
  ASSUME LockInv, ViewInv, NEW c \in running, Run(c)
  PROVE  ViewInv'
  <1> USE DEF LockInv
  <1> DEFINE x == Step(c).arg
  <1>1. CASE UNCHANGED <<view, views>>
    BY <1>1 DEF ViewInv
  <1>2. CASE Step(c).op = "do" /\ ViewEffect(c, x) /\ ~UNCHANGED <<view, views>>
    <2>1. x \in {"lookup", "emplace"}
      BY <1>2 DEF ViewEffect
    <2>2. c[2] \in Sessions
      BY <1>2, <2>1, EffectsOf DEF DoesAt
    <2> DEFINE s == c[2]
               p == ClientOf[s]
    <2>3. s \in Sessions /\ p \in Clients
      BY <2>2, SessionsAssumption
    <2>4. CASE x = "lookup"
      <3>1. view' = [view EXCEPT ![s] = views[p]] /\ views' = views
        BY <1>2, <2>4 DEF ViewEffect, lookup
      <3> QED BY <2>3, <3>1 DEF ViewInv, LockTypes
    <2>5. CASE x = "emplace"
      <3>1. /\ views' = [views EXCEPT ![p] = IF @ = None THEN s ELSE @]
            /\ view' = [view EXCEPT ![s] = views'[p]]
        BY <1>2, <2>5 DEF ViewEffect, emplace
      <3> HIDE DEF s
      <3>2. ASSUME NEW r \in Sessions, view'[r] # None PROVE view'[r] = views'[ClientOf[r]]
        <4>1. ClientOf[r] \in Clients
          BY SessionsAssumption
        <4>2. CASE r = s
          BY <2>3, <3>1, <4>2 DEF LockTypes
        <4>3. CASE r # s
          <5>1. view'[r] = view[r] /\ view[r] = views[ClientOf[r]]
            BY <3>1, <3>2, <4>3 DEF LockTypes, ViewInv
          <5>2. views'[ClientOf[r]] = views[ClientOf[r]]
            BY <2>3, <3>1, <3>2, <4>1, <5>1 DEF LockTypes
          <5> QED BY <5>1, <5>2
        <4> QED BY <4>2, <4>3
      <3> QED BY <3>2 DEF ViewInv
    <2> QED BY <2>1, <2>4, <2>5
  <1>3. \/ UNCHANGED <<view, views>>
        \/ Step(c).op = "do" /\ ViewEffect(c, x)
    BY DEF Run, Acquire, Release, Suspend, Take, Effect
  <1> QED BY <1>1, <1>2, <1>3

\* Two connections of one client are always given the same view, however the
\* two critical sections of ClientViewsStorage::add_client_view interleave.
THEOREM SameView == Spec => []OneViewPerClient
  <1>1. Init => ViewInv
    BY DEF Init, ViewInv
  <1>2. LockInv /\ ViewInv /\ [Next]_vars => ViewInv'
    <2> SUFFICES ASSUME LockInv, ViewInv, [Next]_vars PROVE ViewInv'
      OBVIOUS
    <2>1. CASE UNCHANGED vars
      BY <2>1 DEF vars, ViewInv
    <2>2. ASSUME NEW c \in Coroutines, Dispatch(c) PROVE ViewInv'
      BY <2>2 DEF Dispatch, ViewInv
    <2>3. ASSUME NEW c \in Coroutines, Run(c) PROVE ViewInv'
      BY <2>3, ViewKeeps DEF Run
    <2> QED BY <2>1, <2>2, <2>3 DEF Next
  <1>3. ViewInv => OneViewPerClient
    BY DEF ViewInv, OneViewPerClient
  <1> QED BY <1>1, <1>2, <1>3, LockInvariant, PTL DEF Spec

\* Who holds a mutex is a coroutine of the daemon that is looked at, and holds
\* it by its program.
LEMMA IdleHoldsNothing ==
  ASSUME LockInv, NEW c \in AllCoroutines, NEW m \in Mutexes, holder[m] = c
  PROVE  c \in Coroutines /\ HoldsAt(c, pc[c], m, view, aborted)
  <1> USE DEF LockInv
  <1>1. HoldsAt(c, pc[c], m, view, aborted)
    BY DEF HolderInv, Holds
  <1>2. c \notin Coroutines => pc[c] \in 0..1
    BY DEF ProgressInv, IdleInv
  <1> QED BY <1>1, <1>2, NothingAtStart

\* Inside the view's critical section add_session finds the session's mutex
\* free: the session's own coroutine has not been started.
LEMMA AcceptNotBlockedInView ==
  ASSUME LockInv, NEW s \in Sessions, side = "server", pc[<<"accept", s>>] \in {10, 17}
  PROVE  holder[Session(s)] = None
  <1> USE DEF LockInv
  <1> DEFINE h == holder[Session(s)]
  <1>1. Session(s) \in Mutexes
    BY MutexesAre
  <1>2. h \in AllCoroutines \cup {None}
    BY <1>1 DEF LockTypes
  <1>3. pc[<<"serve", s>>] = 0
    <2>1. pc[<<"accept", s>>] <= 22 => pc[<<"serve", s>>] = 0
      BY DEF ProgressInv, PhaseInv
    <2>2. pc[<<"accept", s>>] <= 22
      OBVIOUS
    <2> QED BY <2>1, <2>2, Zenon
  <1> SUFFICES ASSUME h \in AllCoroutines PROVE FALSE
    BY <1>2
  <1>4. h \in Coroutines /\ HoldsAt(h, pc[h], Session(s), view, aborted)
    BY <1>1, IdleHoldsNothing
  <1> HIDE DEF h
  <1>5. \/ \E r \in Sessions : h = <<"accept", r>> \/ h = <<"serve", r>>
        \/ \E w \in Workers : h = <<"worker", w>>
    BY <1>4 DEF Coroutines
  <1>6. \A r : Session(r) = Session(s) => r = s
    BY DEF Session
  <1>7. ASSUME NEW r \in Sessions, h = <<"accept", r>> PROVE FALSE
    <2>1. h[1] = "accept" /\ h[2] = r
      BY <1>7
    <2>2. pc[h] \in 13..15 /\ r = s
      BY <1>4, <1>6, <2>1, HoldsOf, MutexesDiffer
    <2> QED BY <1>7, <2>2
  <1>8. ASSUME NEW r \in Sessions, h = <<"serve", r>> PROVE FALSE
    <2>1. h[1] = "serve" /\ h[2] = r
      BY <1>8
    <2>2. pc[h] # 0 /\ r = s
      BY <1>4, <1>6, <2>1, HoldsOf, MutexesDiffer
    <2> QED BY <1>3, <1>8, <2>2
  <1>9. ASSUME NEW w \in Workers, h = <<"worker", w>> PROVE FALSE
    <2>1. h[1] = "worker"
      BY <1>9
    <2> QED BY <1>4, <2>1, HoldsOf, MutexesDiffer
  <1> QED BY <1>5, <1>7, <1>8, <1>9

\* The order of the mutexes. A coroutine that waits with a session's mutex
\* waits for a view's, the pool's, the client's or a call's; one that waits
\* with a view's or the client's, for the pool's, a call's or the cache's; and
\* nobody waits with any other.
LEMMA BlockedHolds ==
  ASSUME LockInv, NEW h, Blocked(h), NEW m \in Mutexes, holder[m] = h
  PROVE  /\ m[1] \in {"session", "view", "client"}
         /\ m[1] = "session" => Mutex(h)[1] \in {"view", "pool", "client", "call"}
         /\ m[1] \in {"view", "client"} => Mutex(h)[1] \in {"pool", "call", "cache"}
  <1> USE DEF LockInv
  <1>1. h \in running /\ Step(h).op \in {"lock", "touch"} /\ holder[Mutex(h)] # None
    BY DEF Blocked
  <1>2. h \in AllCoroutines /\ h \in Coroutines /\ pc[h] \in 1..Len(Program(h))
    BY <1>1, Moves DEF LockTypes, StepMoves
  <1>3. HoldsAt(h, pc[h], m, view, aborted)
    BY <1>2, IdleHoldsNothing
  <1>4. ASSUME NEW r
        PROVE  /\ Storage[1] = "storage" /\ Pool[1] = "pool" /\ ClientMtx[1] = "client"
               /\ Cache[1] = "cache" /\ Session(r)[1] = "session" /\ Call(r)[1] = "call"
               /\ <<"view", r>>[1] = "view"
    BY DEF Storage, Pool, ClientMtx, Cache, Session, Call
  <1>5. ASSUME NEW s \in Sessions, h = <<"accept", s>>
        PROVE  \/ m[1] = "view" /\ Mutex(h)[1] = "pool"
               \/ m[1] = "session" /\ Mutex(h)[1] = "view"
    <2>1. h[1] = "accept" /\ h[2] = s
      BY <1>5
    <2>2. pc[h] \in 1..27
      BY <1>2, <1>5, LenStarter
    <2>3. /\ pc[h] \in {2, 6, 9, 12, 16, 23, 24, 10, 13, 17, 19, 20, 21}
          /\ pc[h] \in {10, 17} => Mutex(h) = Session(s)
          /\ pc[h] = 13 => Mutex(h) = <<"view", view[s]>>
          /\ pc[h] = 24 => Mutex(h) = Pool
      BY <1>1, <1>5, <2>2, AcceptAt
    <2>4. pc[h] \notin {10, 17}
      <3> SUFFICES ASSUME pc[h] \in {10, 17} PROVE FALSE
        OBVIOUS
      <3>1. side = "server"
        BY <1>2, <2>1 DEF Coroutines
      <3>2. holder[Session(s)] = None
        BY <1>5, <3>1, AcceptNotBlockedInView
      <3> QED BY <1>1, <2>3, <3>2
    <2>5. \/ pc[h] = 24 /\ m = <<"view", view[s]>>
          \/ pc[h] = 13 /\ m = Session(s)
      BY <1>3, <2>1, <2>3, <2>4, HoldsOf
    <2> QED BY <1>4, <2>3, <2>5
  <1>6. ASSUME NEW s \in Sessions, h = <<"serve", s>>
        PROVE  \/ m[1] = "view" /\ Mutex(h)[1] = "pool"
               \/ m[1] = "session" /\ Mutex(h)[1] \in {"view", "pool"}
    <2>1. h[1] = "serve" /\ h[2] = s
      BY <1>6
    <2>2. pc[h] \in 1..18
      BY <1>2, <1>6, ProgramOf, ServeTable
    <2>3. /\ pc[h] \in {2, 3, 5, 4, 6, 7, 13, 15}
          /\ pc[h] \in {5, 6, 15} => Mutex(h) = <<"view", view[s]>>
          /\ pc[h] = 7 => Mutex(h) = Pool
      BY <1>1, <1>6, <2>2, ServeAt
    <2>4. \/ pc[h] \in {5, 6, 7, 15} /\ m = Session(s)
          \/ pc[h] = 7 /\ m = <<"view", view[s]>>
      BY <1>3, <2>1, <2>3, HoldsOf
    <2> QED BY <1>4, <2>3, <2>4
  <1>7. ASSUME NEW s \in Sessions, h = <<"ipc", s>>
        PROVE  \/ m[1] = "client" /\ Mutex(h)[1] \in {"call", "cache"}
               \/ m[1] = "session" /\ Mutex(h)[1] = "client"
    <2>1. h[1] = "ipc" /\ h[2] = s
      BY <1>7
    <2>2. pc[h] \in 1..14
      BY <1>2, <1>7, LenStarter
    <2>3. /\ pc[h] \in {2, 3, 5, 6, 10, 13, 4, 12}
          /\ pc[h] = 5 => Mutex(h) = Call(s)
          /\ pc[h] = 6 => Mutex(h) = Cache
          /\ pc[h] = 13 => Mutex(h) = ClientMtx
      BY <1>1, <1>7, <2>2, IpcAt
    <2>4. \/ pc[h] \in {5, 6} /\ m = ClientMtx
          \/ pc[h] = 13 /\ m = Session(s)
      BY <1>3, <2>1, <2>3, HoldsOf
    <2> QED BY <1>4, <2>3, <2>4
  <1>8. ASSUME NEW s \in Sessions, h = <<"session", s>>
        PROVE  m[1] = "session" /\ Mutex(h)[1] \in {"client", "call"}
    <2>1. h[1] = "session" /\ h[2] = s
      BY <1>8
    <2>2. CASE s \in aborted
      <3>1. pc[h] \in 1..7
        BY <1>2, <1>8, LenSession
      <3>2. pc[h] \in {2, 5, 6} /\ (pc[h] = 6 => Mutex(h) = ClientMtx)
        BY <1>1, <1>8, <2>2, <3>1, AbortAt
      <3>3. pc[h] = 6 /\ m = Session(s)
        BY <1>3, <2>1, <2>2, <3>2, HoldsOf
      <3> QED BY <1>4, <3>2, <3>3
    <2>3. CASE s \notin aborted
      <3>1. pc[h] \in 1..7
        BY <1>2, <1>8, LenSession
      <3>2. pc[h] \in {2, 3, 4} /\ (pc[h] = 4 => Mutex(h) = Call(s))
        BY <1>1, <1>8, <2>3, <3>1, ObjectAt
      <3>3. pc[h] = 4 /\ m = Session(s)
        BY <1>3, <2>1, <2>3, <3>2, HoldsOf
      <3> QED BY <1>4, <3>2, <3>3
    <2> QED BY <2>2, <2>3
  <1>9. ASSUME NEW w \in Workers, h = <<"worker", w>> PROVE FALSE
    <2>1. h[1] = "worker"
      BY <1>9
    <2>2. pc[h] \in 1..7
      BY <1>2, <1>9, ProgramOf, WorkerTable
    <2>3. pc[h] \in {2, 5, 6, 7}
      BY <1>1, <1>9, <2>2, WorkerAt
    <2> QED BY <1>3, <2>1, <2>3, HoldsOf
  <1> QED BY <1>2, <1>5, <1>6, <1>7, <1>8, <1>9, KindOf

\* No circle of coroutines waits for each other's mutexes, in either daemon:
\* every wait in a circle would lead down the order, and three steps down
\* there is nothing left to hold (server_session.cpp:170, client_session.cpp:195).
THEOREM LocksAreOrdered == Spec => []NoLockCycle
  <1>1. LockInv => NoLockCycle
    <2> SUFFICES ASSUME LockInv, NEW D \in SUBSET running, NEW c \in D,
                        \A d \in D : Blocked(d) /\ holder[Mutex(d)] \in D
                 PROVE  FALSE
      BY DEF NoLockCycle
    <2>1. \A d \in D : Mutex(d) \in Mutexes
      BY Moves DEF LockInv, StepMoves, Blocked
    <2> DEFINE h1 == holder[Mutex(c)]
               h2 == holder[Mutex(h1)]
               h3 == holder[Mutex(h2)]
    <2>2. h1 \in D /\ h2 \in D /\ h3 \in D
      OBVIOUS
    <2>3. Mutex(h1)[1] # "session"
      BY <2>1, <2>2, BlockedHolds
    <2>4. Mutex(h2)[1] \in {"pool", "call", "cache"}
      BY <2>1, <2>2, <2>3, BlockedHolds
    <2> QED BY <2>1, <2>2, <2>4, BlockedHolds
  <1> QED BY <1>1, LockInvariant, PTL

\* Who holds what in the client.
LEMMA ClientHolds ==
  ASSUME LockInv, side = "client", NEW m \in Mutexes, NEW h \in AllCoroutines, holder[m] = h
  PROVE  /\ h[1] \in {"ipc", "session"} /\ h[2] \in Sessions
         /\ h[1] = "session" => h = <<"session", h[2]>> /\ m = Session(h[2])
         /\ h[1] = "ipc" => m \in {ClientMtx, Session(h[2])}
  <1>1. h \in Coroutines /\ HoldsAt(h, pc[h], m, view, aborted)
    BY IdleHoldsNothing
  <1>2. /\ h[1] \in {"ipc", "session"} /\ h[2] \in Sessions
        /\ h[1] = "session" => h = <<"session", h[2]>>
    BY <1>1 DEF Coroutines
  <1> QED BY <1>1, <1>2, HoldsOf

\* What a coroutine of the client may wait for.
LEMMA ClientWaits ==
  ASSUME LockInv, side = "client", NEW c \in running, Step(c).op \in {"lock", "touch"}
  PROVE  /\ c[1] \in {"ipc", "session"} /\ c[2] \in Sessions /\ c = <<c[1], c[2]>>
         /\ Mutex(c) \in {Call(c[2]), Listener, Cache, ClientMtx, Session(c[2])}
  <1> USE DEF LockInv
  <1>1. c \in Coroutines /\ pc[c] \in 1..Len(Program(c))
    BY Moves DEF LockTypes, StepMoves
  <1>2. PICK s \in Sessions : c = <<"ipc", s>> \/ c = <<"session", s>>
    BY <1>1 DEF Coroutines
  <1>3. CASE c = <<"ipc", s>>
    <2>1. pc[c] \in 1..14
      BY <1>1, <1>3, LenStarter
    <2>2. Mutex(c) \in {Call(s), Listener, Cache, ClientMtx, Session(s)}
      BY <1>3, <2>1, IpcAt
    <2> QED BY <1>3, <2>2
  <1>4. CASE c = <<"session", s>>
    <2>1. pc[c] \in 1..7
      BY <1>1, <1>4, LenSession
    <2>2. Mutex(c) \in {Call(s), Listener, Cache, ClientMtx, Session(s)}
      <3>1. CASE s \in aborted
        BY <1>4, <2>1, <3>1, AbortAt
      <3>2. CASE s \notin aborted
        BY <1>4, <2>1, <3>2, ObjectAt
      <3> QED BY <3>1, <3>2
    <2> QED BY <1>4, <2>2
  <1> QED BY <1>2, <1>3, <1>4

\* If every thread of the client is blocked, each is in the termination of
\* a session that is suspended in the publication of its own response.
LEMMA StarvedBehindSession ==
  ASSUME LockInv, side = "client", \A c \in running : Blocked(c), NEW c \in running
  PROVE  /\ c[2] \in Sessions /\ c = <<"ipc", c[2]>>
         /\ holder[Session(c[2])] = <<"session", c[2]>> /\ <<"session", c[2]>> \notin running
  <1> USE DEF LockInv
  <1>1. ASSUME NEW d \in running
        PROVE  /\ d \in AllCoroutines /\ Step(d).op \in {"lock", "touch"} /\ Mutex(d) \in Mutexes
               /\ holder[Mutex(d)] \in AllCoroutines
               /\ d[1] \in {"ipc", "session"} /\ d[2] \in Sessions /\ d = <<d[1], d[2]>>
               /\ Mutex(d) \in {ClientMtx, Session(d[2])}
    <2>1. d \in AllCoroutines /\ Step(d).op \in {"lock", "touch"} /\ Mutex(d) \in Mutexes
      BY <1>1, Moves DEF StepMoves, Blocked
    <2>2. holder[Mutex(d)] \in AllCoroutines
      BY <1>1, <2>1 DEF Blocked, LockTypes
    <2>3. /\ d[1] \in {"ipc", "session"} /\ d[2] \in Sessions /\ d = <<d[1], d[2]>>
          /\ Mutex(d) \in {Call(d[2]), Listener, Cache, ClientMtx, Session(d[2])}
      BY <2>1, ClientWaits
    <2>4. \E r : Mutex(d) = Session(r) \/ Mutex(d) = ClientMtx
      BY <2>1, <2>2, ClientHolds
    <2>5. \A r : /\ Session(r) \notin {Call(d[2]), Listener, Cache}
                 /\ ClientMtx \notin {Call(d[2]), Listener, Cache}
      BY DEF Session, Call, Listener, Cache, ClientMtx
    <2> QED BY <2>1, <2>2, <2>3, <2>4, <2>5
  <1>2. ASSUME NEW d \in running, holder[Mutex(d)] \in running
        PROVE  Mutex(d) = Session(d[2]) /\ Mutex(holder[Mutex(d)]) = ClientMtx
    <2> DEFINE h == holder[Mutex(d)]
    <2>1. Blocked(h) /\ Mutex(d) \in Mutexes
      BY <1>1, <1>2
    <2>2. Mutex(h) \in {ClientMtx, Session(h[2])} /\ Mutex(d) \in {ClientMtx, Session(d[2])}
      BY <1>1, <1>2
    <2>3. \A r : Session(r)[1] = "session" /\ ClientMtx[1] = "client"
      BY DEF Session, ClientMtx
    <2>4. /\ Mutex(d)[1] = "session" => Mutex(h)[1] \in {"view", "pool", "client", "call"}
          /\ Mutex(d)[1] \in {"view", "client"} => Mutex(h)[1] \in {"pool", "call", "cache"}
      BY <2>1, BlockedHolds
    <2> QED BY <2>2, <2>3, <2>4
  <1>3. ASSUME NEW d \in running, holder[Mutex(d)] \notin running
        PROVE  Mutex(d) = Session(d[2]) /\ holder[Mutex(d)] = <<"session", d[2]>>
    <2> DEFINE h == holder[Mutex(d)]
    <2>1. h \in AllCoroutines /\ Mutex(d) \in Mutexes
      BY <1>1, <1>3
    <2>2. h[1] = "session"
      BY <1>3, <2>1 DEF SuspendInv, HolderInv
    <2>3. h = <<"session", h[2]>> /\ Mutex(d) = Session(h[2])
      BY <2>1, <2>2, ClientHolds
    <2>4. Mutex(d) \in {ClientMtx, Session(d[2])}
      BY <1>1, <1>3
    <2>5. \A r, q : Session(r) # ClientMtx /\ (Session(r) = Session(q) => r = q)
      BY DEF Session, ClientMtx
    <2> QED BY <2>3, <2>4, <2>5
  <1>4. holder[Mutex(c)] \notin running
    <2> SUFFICES ASSUME holder[Mutex(c)] \in running PROVE FALSE
      OBVIOUS
    <2> DEFINE h == holder[Mutex(c)]
    <2>1. Mutex(h) = ClientMtx
      BY <1>2
    <2>2. \A r : Session(r) # ClientMtx
      BY DEF Session, ClientMtx
    <2> QED BY <1>2, <1>3, <2>1, <2>2
  <1>5. Mutex(c) = Session(c[2]) /\ holder[Mutex(c)] = <<"session", c[2]>>
    BY <1>3, <1>4
  <1>6. c[1] \in {"ipc", "session"} /\ c[2] \in Sessions /\ c = <<c[1], c[2]>>
    BY <1>1
  <1> QED BY <1>4, <1>5, <1>6

\* All I/O threads are stuck behind suspended coroutines only in the client, and
\* only if there are as many suspended publications as threads
\* (client_session.cpp:195): no other mutex is kept over a co_await.
THEOREM StarvationIsPublishing == Spec => []StarvedOnlyByPublishing
  <1>1. LockInv => StarvedOnlyByPublishing
    <2> SUFFICES ASSUME LockInv, Starved
                 PROVE  Cardinality({s \in Sessions : Publishing(s)}) >= IoThreads
      BY DEF StarvedOnlyByPublishing
    <2> USE DEF LockInv
    <2> DEFINE P == {s \in Sessions : Publishing(s)}
    <2>1. Cardinality(OnIoThread) = IoThreads /\ \A c \in OnIoThread : Blocked(c)
      BY DEF Starved
    <2>2. PICK c \in OnIoThread : holder[Mutex(c)] \notin running
      BY DEF Starved
    <2>3. side = "client"
      <3> DEFINE h == holder[Mutex(c)]
      <3>1. c \in running /\ Blocked(c)
        BY <2>1 DEF OnIoThread
      <3>2. Mutex(c) \in Mutexes
        BY <3>1, Moves DEF StepMoves, Blocked
      <3>3. h \in AllCoroutines
        BY <3>1, <3>2 DEF Blocked, LockTypes
      <3>4. h[1] = "session" /\ h \in Coroutines
        BY <2>2, <3>2, <3>3, IdleHoldsNothing DEF SuspendInv, HolderInv
      <3> QED BY <3>4 DEF Coroutines, LockTypes
    <2>4. OnIoThread = running
      BY <2>3 DEF OnIoThread, LockTypes, Coroutines
    <2>5. ASSUME NEW d \in running PROVE d[2] \in P /\ d = <<"ipc", d[2]>>
      BY <2>1, <2>3, <2>4, <2>5, StarvedBehindSession DEF Publishing
    <2>6. IsFiniteSet(P)
      BY SessionsAssumption, FS_Subset
    <2> DEFINE f == [d \in running |-> d[2]]
    <2>7. f \in Injection(running, P)
      <3>1. f \in [running -> P]
        BY <2>5
      <3>2. ASSUME NEW a \in running, NEW b \in running, f[a] = f[b] PROVE a = b
        BY <2>5, <3>2
      <3> QED BY <3>1, <3>2 DEF Injection, IsInjective
    <2> HIDE DEF f
    <2>8. Cardinality(running) <= Cardinality(P) /\ Cardinality(P) \in Nat
      BY <2>6, <2>7, FS_Injection, FS_CardinalityType
    <2> QED BY <2>1, <2>4, <2>8, ThreadsAssumption
  <1> QED BY <1>1, LockInvariant, PTL
=============================================================================
