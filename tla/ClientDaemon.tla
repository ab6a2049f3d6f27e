---------------------------- MODULE ClientDaemon ----------------------------
(***************************************************************************)
(* The client daemon: what happens to a compiler call between the wrapper  *)
(* that stands in for the compiler and its answer. UnixIpcManager accepts  *)
(* the wrapper's request, Client::_handle_ipc_request classifies it, picks *)
(* a server and opens a ClientSession, whose coroutine talks to the server *)
(* and hands the result back through a channel of one element; the IPC     *)
(* coroutine then disposes of the session.                                 *)
(*                                                                         *)
(* The coroutines run on several threads. The session table is guarded by  *)
(* Client::_mtx and each operation on it is one step. What the server says *)
(* on the session's connection is chosen by the environment from what      *)
(* ServerSessions lets a client receive.                                   *)
(*                                                                         *)
(* A session object is named after the request it was made for.            *)
(***************************************************************************)
EXTENDS Naturals, Sequences, FiniteSets

CONSTANTS
    Requests,     \* the wrappers' requests
    Links,        \* those that are not CALL_TYPE_COMPILE
    NoRequest,    \* no session
    Nil,          \* the nil UUID
    Garbage,      \* the uninitialized _session_uuid, when it is no key in use
    MayAbort,     \* the server may abort a confirmed session
    MayRefuse,    \* the first message may be another than the confirmation
    MayLose,      \* a connection may fail while the client needs it
    MayFlood,     \* a compiler may write more than a pipe holds
    MayNotStart   \* the compiler or the directory may not be there

ASSUME ClientDaemonAssumption ==
    /\ IsFiniteSet(Requests)
    /\ Links \subseteq Requests
    /\ NoRequest \notin Requests
    /\ Nil \notin Requests
    /\ Garbage \notin Requests \cup {Nil}
    /\ {MayAbort, MayRefuse, MayLose, MayFlood, MayNotStart} \subseteq BOOLEAN

VARIABLES
    wrapper,          \* what each wrapper has seen
    answer,           \* the response it got: [of, remote, ok]
    ipc_pc,           \* where its _handle_ipc_request is
    client_session,   \* the raw ClientSession pointer that coroutine holds
    response,         \* the response it has taken from the channel
    sess_pc,          \* where each session's coroutine is
    session_uuid,     \* _session_uuid of each session
    terminated,       \* sessions with _terminated
    finished,         \* sessions whose object file transfer is_finished
    channel,          \* _unix_ipc_channel of each session
    client_sessions   \* _client_sessions (and _client_compiler_calls): UUID to session

vars == <<wrapper, answer, ipc_pc, client_session, response, sess_pc,
          session_uuid, terminated, finished, channel, client_sessions>>

ipcVars == <<wrapper, answer, ipc_pc, client_session, response>>
sessVars == <<sess_pc, session_uuid, terminated, finished, channel>>

Keys == Requests \cup {Nil}

(* A response: whose compilation it is of, done where, and whether the     *)
(* compiler's exit code was 0.                                             *)
Response == [of : Requests, remote : BOOLEAN, ok : BOOLEAN]

TypeOK ==
    /\ wrapper \in [Requests -> {"idle", "waiting", "answered", "failed"}]
    /\ answer \in [Requests -> Seq(Response)]
    /\ ipc_pc \in [Requests -> {"none", "pick", "connect", "insert", "compile",
                                "refused", "retrieve", "abort", "terminate",
                                "rerun", "hung", "done"}]
    /\ client_session \in [Requests -> Requests \cup {NoRequest}]
    /\ response \in [Requests -> Seq(Response)]
    /\ sess_pc \in [Requests -> {"none", "receive", "publishing", "local",
                                 "publish_local", "terminate", "hung", "ended"}]
    /\ session_uuid \in [Requests -> Keys \cup {Garbage}]
    /\ terminated \in SUBSET Requests
    /\ finished \in SUBSET Requests
    /\ channel \in [Requests -> Seq(Response)]
    /\ \A s \in Requests : Len(channel[s]) <= 1
    /\ client_sessions \in [Keys -> Requests \cup {NoRequest}]

Init ==
    /\ wrapper = [r \in Requests |-> "idle"]
    /\ answer = [r \in Requests |-> <<>>]
    /\ ipc_pc = [r \in Requests |-> "none"]
    /\ client_session = [r \in Requests |-> NoRequest]
    /\ response = [r \in Requests |-> <<>>]
    /\ sess_pc = [s \in Requests |-> "none"]
    /\ session_uuid = [s \in Requests |-> Garbage]
    /\ terminated = {}
    /\ finished = {}
    /\ channel = [s \in Requests |-> <<>>]
    /\ client_sessions = [k \in Keys |-> NoRequest]

Set(fn, key, value) == [fn EXCEPT ![key] = value]

Local(r, ok) == [of |-> r, remote |-> FALSE, ok |-> ok]

-----------------------------------------------------------------------------
(* The wrapper and the IPC coroutine.                                      *)

(* The wrapper connects and sends; the accept loop spawns _handle_session, *)
(* which reads the request and calls the handler.                          *)
Ask(r) ==
    /\ wrapper[r] = "idle"
    /\ wrapper' = Set(wrapper, r, "waiting")
    /\ ipc_pc' = Set(ipc_pc, r, "pick")
    /\ UNCHANGED <<answer, client_session, response, sessVars, client_sessions>>

(* The handler's result is written to the wrapper's socket.                *)
Reply(r, resp) ==
    /\ wrapper' = Set(wrapper, r, "answered")
    /\ answer' = Set(answer, r, Append(answer[r], resp))
    /\ ipc_pc' = Set(ipc_pc, r, "done")

(* An exception leaves the handler: the wrapper's connection is closed.    *)
Fail(r) ==
    /\ ipc_pc' = Set(ipc_pc, r, "done")
    /\ wrapper' = Set(wrapper, r, "failed")

(***************************************************************************)
(* The wrapper's own command: its result is the reply. The child's         *)
(* constructor may throw, and wait() is called before the pipes are read:  *)
(* a child that fills a pipe never ends, and keeps the I/O thread.         *)
(***************************************************************************)
RunHere(r) ==
    \/ \E ok \in BOOLEAN : Reply(r, Local(r, ok))
    \/ MayNotStart /\ Fail(r) /\ UNCHANGED answer
    \/ MayFlood /\ ipc_pc' = Set(ipc_pc, r, "hung") /\ UNCHANGED <<wrapper, answer>>

(* A call that does not compile one source file is run here.               *)
RunLink(r) ==
    /\ ipc_pc[r] = "pick"
    /\ r \in Links
    /\ RunHere(r)
    /\ UNCHANGED <<client_session, response, sessVars, client_sessions>>

(***************************************************************************)
(* The retry loop has found a server; connect_to_server makes the session, *)
(* whose _session_uuid is not initialized.                                 *)
(***************************************************************************)
PickServer(r) ==
    /\ ipc_pc[r] = "pick"
    /\ r \notin Links
    /\ ipc_pc' = Set(ipc_pc, r, "connect")
    /\ \E u \in {Nil, Garbage} : session_uuid' = Set(session_uuid, r, u)
    /\ UNCHANGED <<wrapper, answer, client_session, response, sess_pc, terminated,
                   finished, channel, client_sessions>>

(* file_size, async_connect or the first receive throws.                   *)
ConnectFails(r) ==
    /\ MayLose
    /\ ipc_pc[r] = "connect"
    /\ Fail(r)
    /\ UNCHANGED <<answer, client_session, response, sessVars, client_sessions>>

(* start_client_session spawns the session's coroutine before              *)
(* connect_to_server has put the session into the table.                   *)
Confirmed(r) ==
    /\ ipc_pc[r] = "connect"
    /\ ipc_pc' = Set(ipc_pc, r, "insert")
    /\ session_uuid' = Set(session_uuid, r, r)
    /\ sess_pc' = Set(sess_pc, r, "receive")
    /\ UNCHANGED <<wrapper, answer, client_session, response, terminated,
                   finished, channel, client_sessions>>

(* try_emplace under the key, then the raw pointer to what is there.       *)
TryEmplace(r, key) ==
    LET there == IF client_sessions[key] = NoRequest THEN r ELSE client_sessions[key]
    IN  /\ client_sessions' = Set(client_sessions, key, there)
        /\ client_session' = Set(client_session, r, there)
        /\ ipc_pc' = Set(ipc_pc, r, "retrieve")

(* Mutant: a confirmed session is entered under the nil UUID too.          *)
Insert_UnderNil(r) ==
    /\ ipc_pc[r] = "insert"
    /\ TryEmplace(r, Nil)
    /\ UNCHANGED <<wrapper, answer, response, sessVars>>

Insert(r) ==
    /\ ipc_pc[r] = "insert"
    /\ TryEmplace(r, session_uuid[r])
    /\ UNCHANGED <<wrapper, answer, response, sessVars>>

(* remove_client_session; other keys, Garbage too, are not in the table.   *)
Erase(key) ==
    client_sessions' = [k \in Keys |-> IF k = key THEN NoRequest ELSE client_sessions[k]]

(* terminate_client_session takes the session's mutex, which the session's *)
(* coroutine holds over the co_await of its publication.                   *)
terminate_client_session(s) ==
    /\ sess_pc[s] # "publishing"
    /\ terminated' = terminated \cup {s}
    /\ Erase(session_uuid[s])

(***************************************************************************)
(* The failure branch of connect_to_server: abort and terminate ...        *)
(***************************************************************************)
Refused(r) ==
    /\ MayRefuse
    /\ ipc_pc[r] = "connect"
    /\ ipc_pc' = Set(ipc_pc, r, "compile")
    /\ terminate_client_session(r)
    /\ UNCHANGED <<wrapper, answer, client_session, response, sess_pc,
                   session_uuid, finished, channel>>

(* ... perform_local_compilation, into the session's own channel ...       *)
CompileRefused(r) ==
    /\ ipc_pc[r] = "compile"
    /\ \/ /\ ipc_pc' = Set(ipc_pc, r, "refused")
          /\ \E ok \in BOOLEAN : channel' = Set(channel, r, <<Local(r, ok)>>)
          /\ UNCHANGED wrapper
       \/ MayNotStart /\ Fail(r) /\ UNCHANGED channel
       \/ MayFlood /\ ipc_pc' = Set(ipc_pc, r, "hung") /\ UNCHANGED <<wrapper, channel>>
    /\ UNCHANGED <<answer, client_session, response, sess_pc, session_uuid,
                   terminated, finished, client_sessions>>

(* ... then the table entry, under the nil UUID of the local variable.     *)
InsertRefused(r) ==
    /\ ipc_pc[r] = "refused"
    /\ TryEmplace(r, Nil)
    /\ UNCHANGED <<wrapper, answer, response, sessVars>>

(* retrieve_unix_ipc_response.                                             *)
Retrieve(r) ==
    /\ ipc_pc[r] = "retrieve"
    /\ channel[client_session[r]] # <<>>
    /\ response' = Set(response, r, channel[client_session[r]])
    /\ channel' = Set(channel, client_session[r], <<>>)
    /\ ipc_pc' = Set(ipc_pc, r, "abort")
    /\ UNCHANGED <<wrapper, answer, client_session, sess_pc, session_uuid,
                   terminated, finished, client_sessions>>

(* send_abort_to_server.                                                   *)
DisposeAbort(r) ==
    /\ ipc_pc[r] = "abort"
    /\ ipc_pc' = Set(ipc_pc, r, "terminate")
    /\ UNCHANGED <<wrapper, answer, client_session, response, sessVars,
                   client_sessions>>

(* Mutant: the table entry is left to the session's own coroutine.         *)
DisposeTerminate_KeepsEntry(r) ==
    /\ ipc_pc[r] = "terminate"
    /\ sess_pc[client_session[r]] # "publishing"
    /\ terminated' = terminated \cup {client_session[r]}
    /\ LET resp == Head(response[r]) IN
       IF resp.ok THEN Reply(r, resp)
       ELSE ipc_pc' = Set(ipc_pc, r, "rerun") /\ UNCHANGED <<wrapper, answer>>
    /\ UNCHANGED <<client_session, response, sess_pc, session_uuid, finished,
                   channel, client_sessions>>

DisposeTerminate(r) ==
    /\ ipc_pc[r] = "terminate"
    /\ terminate_client_session(client_session[r])
    /\ LET resp == Head(response[r]) IN
       IF resp.ok THEN Reply(r, resp)
       ELSE ipc_pc' = Set(ipc_pc, r, "rerun") /\ UNCHANGED <<wrapper, answer>>
    /\ UNCHANGED <<client_session, response, sess_pc, session_uuid, finished,
                   channel>>

(* Any failed compilation is repeated with the wrapper's own command.      *)
Rerun(r) ==
    /\ ipc_pc[r] = "rerun"
    /\ RunHere(r)
    /\ UNCHANGED <<client_session, response, sessVars, client_sessions>>

handle_ipc_request(r) ==
    \/ RunLink(r) \/ PickServer(r) \/ Confirmed(r) \/ Insert(r)
    \/ ConnectFails(r) \/ Refused(r) \/ CompileRefused(r) \/ InsertRefused(r)
    \/ Retrieve(r) \/ DisposeAbort(r) \/ DisposeTerminate(r) \/ Rerun(r)

-----------------------------------------------------------------------------
(* The session's coroutine, _handle_client_session.                        *)

(***************************************************************************)
(* The last chunk of the object file. publish_unix_ipc_response suspends   *)
(* the coroutine, which goes on holding the session's mutex. A chunk after *)
(* the last one changes nothing. (Uploads and the chunks before the last   *)
(* do not touch the state modelled here.)                                  *)
(***************************************************************************)
ReceiveResult(s) ==
    /\ sess_pc[s] = "receive"
    /\ s \notin finished
    /\ channel[s] = <<>>
    /\ finished' = finished \cup {s}
    /\ sess_pc' = Set(sess_pc, s, "publishing")
    /\ \E ok \in BOOLEAN :
          channel' = Set(channel, s, <<[of |-> s, remote |-> TRUE, ok |-> ok]>>)
    /\ UNCHANGED <<ipcVars, session_uuid, terminated, client_sessions>>

(* The publication is over, the mutex is free, the loop tests _terminated. *)
PublishDone(s) ==
    /\ sess_pc[s] = "publishing"
    /\ sess_pc' = Set(sess_pc, s, IF s \in terminated THEN "ended" ELSE "receive")
    /\ UNCHANGED <<ipcVars, session_uuid, terminated, finished, channel,
                   client_sessions>>

(* The server aborts, before its result or (a second upload of a file was  *)
(* rejected) after it.                                                     *)
ReceiveAbort(s) ==
    /\ MayAbort
    /\ sess_pc[s] = "receive"
    /\ sess_pc' = Set(sess_pc, s, "local")
    /\ UNCHANGED <<ipcVars, session_uuid, terminated, finished, channel,
                   client_sessions>>

(* perform_local_compilation: the compiler runs, and its result is         *)
(* published when there is room in the channel. It does not start (the     *)
(* exception is swallowed), or fills a pipe nobody reads.                  *)
CompileLocally(s) ==
    /\ sess_pc[s] = "local"
    /\ \/ sess_pc' = Set(sess_pc, s, "publish_local")
       \/ MayNotStart /\ sess_pc' = Set(sess_pc, s, "ended")
       \/ MayFlood /\ sess_pc' = Set(sess_pc, s, "hung")
    /\ UNCHANGED <<ipcVars, session_uuid, terminated, finished, channel,
                   client_sessions>>

(* Mutant: the session ends without telling the IPC coroutine.             *)
PublishLocal_Forgotten(s) ==
    /\ sess_pc[s] = "publish_local"
    /\ sess_pc' = Set(sess_pc, s, "terminate")
    /\ UNCHANGED <<ipcVars, session_uuid, terminated, finished, channel,
                   client_sessions>>

(* Mutant: the response is put into a full channel.                        *)
PublishLocal_NoRoom(s) ==
    /\ sess_pc[s] = "publish_local"
    /\ \E ok \in BOOLEAN : channel' = Set(channel, s, Append(channel[s], Local(s, ok)))
    /\ sess_pc' = Set(sess_pc, s, "terminate")
    /\ UNCHANGED <<ipcVars, session_uuid, terminated, finished, client_sessions>>

PublishLocal(s) ==
    /\ sess_pc[s] = "publish_local"
    /\ channel[s] = <<>>
    /\ \E ok \in BOOLEAN : channel' = Set(channel, s, <<Local(s, ok)>>)
    /\ sess_pc' = Set(sess_pc, s, "terminate")
    /\ UNCHANGED <<ipcVars, session_uuid, terminated, finished, client_sessions>>

TerminateSelf(s) ==
    /\ sess_pc[s] = "terminate"
    /\ terminate_client_session(s)
    /\ sess_pc' = Set(sess_pc, s, "ended")
    /\ UNCHANGED <<ipcVars, session_uuid, finished, channel>>

(* Mutant: the line that terminates the session on an error, commented out *)
(* in the code, is back.                                                   *)
ReceiveFails_Terminates(s) ==
    /\ sess_pc[s] = "receive"
    /\ MayLose \/ s \in terminated
    /\ sess_pc' = Set(sess_pc, s, "ended")
    /\ terminate_client_session(s)
    /\ UNCHANGED <<ipcVars, session_uuid, finished, channel>>

(***************************************************************************)
(* receive_msg throws and the exception is swallowed: the server closes    *)
(* the connection of a session the client has aborted; MayLose lets it     *)
(* fail before.                                                            *)
(***************************************************************************)
ReceiveFails(s) ==
    /\ sess_pc[s] = "receive"
    /\ MayLose \/ s \in terminated
    /\ sess_pc' = Set(sess_pc, s, "ended")
    /\ UNCHANGED <<ipcVars, session_uuid, terminated, finished, channel,
                   client_sessions>>

handle_client_session(s) ==
    \/ ReceiveResult(s) \/ PublishDone(s)
    \/ ReceiveAbort(s) \/ CompileLocally(s) \/ PublishLocal(s) \/ TerminateSelf(s)
    \/ ReceiveFails(s)

Next ==
    \E r \in Requests :
        Ask(r) \/ handle_ipc_request(r) \/ handle_client_session(r)

Spec == Init /\ [][Next]_vars

(***************************************************************************)
(* The I/O threads run every coroutine that can go on; a server with free  *)
(* jobs is heard of again and again, and it answers (ServerSessions'       *)
(* EverySessionConcludes). A compiler that fills a pipe blocks its thread: *)
(* there must be more threads than such compilers.                         *)
(***************************************************************************)
FairSpec ==
    /\ Spec
    /\ \A r \in Requests : /\ WF_vars(handle_ipc_request(r))
                           /\ WF_vars(handle_client_session(r))
-----------------------------------------------------------------------------
(* Properties.                                                             *)

(* The sessions that took connect_to_server's failure branch: terminated   *)
(* without having been confirmed.                                          *)
RefusedSessions == {r \in terminated : session_uuid[r] # r}

OneRefusal == Cardinality(RefusedSessions) <= 1

(* A shared_ptr to session s is left: in the table, in connect_to_server   *)
(* or in the session's own coroutine.                                      *)
SessionAlive(s) ==
    \/ \E k \in Keys : client_sessions[k] = s
    \/ ipc_pc[s] \in {"connect", "insert", "compile", "refused"}
    \/ sess_pc[s] \notin {"none", "ended"}

(* A wrapper gets the result of its own compiler call, although sessions   *)
(* are found by a UUID that is not set until the server confirms them (as  *)
(* long as no two sessions are refused, which share the nil UUID).         *)
AnswerIsOwn ==
    OneRefusal =>
        \A r \in Requests : wrapper[r] = "answered" => answer[r][1].of = r

(* A request that is over leaves nothing in the session table, whichever   *)
(* of connect_to_server, the session's coroutine and the IPC coroutine     *)
(* inserts and erases the session last. Only a refused session is exempt:  *)
(* it is entered under the nil UUID and erased under its _session_uuid,    *)
(* which is not initialized.                                               *)
NothingLeaks ==
    \A r \in Requests \ RefusedSessions : ipc_pc[r] = "done" =>
        \A k \in Keys : client_sessions[k] # r

(* While the IPC coroutine waits for a response through its raw pointer    *)
(* and none is there yet, the session still exists: nobody erases it       *)
(* without publishing first.                                               *)
NoOrphanedWait ==
    OneRefusal =>
        \A r \in Requests :
            ipc_pc[r] = "retrieve" /\ channel[client_session[r]] = <<>> =>
                SessionAlive(client_session[r])

(* The session's coroutine ended on an exception, without a result: the    *)
(* connection was lost, or the local compiler did not start.               *)
SessionFailed(r) ==
    sess_pc[r] = "ended" /\ r \notin terminated /\ r \notin finished

(* The request's own compiler, run on the client, filled a pipe.           *)
CompilerHung(r) ==
    \/ ipc_pc[r] = "hung"
    \/ sess_pc[r] = "hung" /\ r \notin finished

(* Every wrapper is answered or its connection closed, those of aborted    *)
(* sessions and of a refused one included: nobody waits for a session's    *)
(* mutex, its channel or its table entry for ever. The exceptions: its own *)
(* session failed without a result, its own compiler or linker hangs on a  *)
(* full pipe, or two sessions were refused and share the nil UUID.         *)
EveryWrapperAnswered ==
    \A r \in Requests :
        wrapper[r] = "waiting" ~>
            \/ wrapper[r] \in {"answered", "failed"}
            \/ SessionFailed(r)
            \/ CompilerHung(r)
            \/ ~OneRefusal

=============================================================================
