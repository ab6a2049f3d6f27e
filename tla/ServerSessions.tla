--------------------------- MODULE ServerSessions ---------------------------
(***************************************************************************)
(* The sessions of one client on one build server: ClientView (which files *)
(* of the client the server has), ServerSession (one compilation: the      *)
(* upload of the files it needs, the request to the compiler pool, the     *)
(* result), and the peer each session talks to, ClientSession, over TCP.   *)
(*                                                                         *)
(* Threads that interleave: the coroutine that adds a session              *)
(* (ClientView::add_session), the coroutine that receives its messages     *)
(* (ServerSession::handle_server_session), the pool's workers, and the     *)
(* clients. The pool is the abstract CompileService. A critical section of *)
(* ClientView::_mtx is one step; what the code does without that mutex is  *)
(* a step per access to the shared file states or files.                   *)
(*                                                                         *)
(* A file's contents is a sequence of chunks; a chunk is the version of    *)
(* the client's file it was read from, or Hole where nothing was written.  *)
(*                                                                         *)
(* A file that is asked for can be opened, and so can an object file that  *)
(* a compiler has made: the code returns without a word where one cannot,  *)
(* and the session then waits for ever. WrapperCall models the names by    *)
(* which a server asks for files that the client does not find.            *)
(***************************************************************************)
EXTENDS Naturals, Sequences, FiniteSets

CONSTANTS
    Sessions,        \* the compilations, one TCP connection each
    Files,           \* source files and headers of the client
    Versions,        \* what a file of the client may contain
    FirstVersion,    \* what the files contain before anybody edits them
    Chunks,          \* Chunks[v]: 64 KiB chunks in version v (its size)
    Exact,           \* versions whose last chunk is a full 64 KiB
    ObjectTails,     \* whether an object file may end in a short chunk (TRUE),
                     \* in a full one (FALSE), or either
    Hole,            \* the chunk that was never written
    NoFile,          \* no file
    PoolSize,        \* compiler threads
    MaxEdits,        \* bound: edits of the client's files
    MaxDisconnects   \* bound: connections lost

ASSUME ServerSessionsAssumption ==
    /\ IsFiniteSet(Sessions)
    /\ FirstVersion \in Versions
    /\ Chunks \in [Versions -> Nat \ {0}]
    /\ Exact \subseteq Versions
    /\ ObjectTails \in (SUBSET BOOLEAN) \ {{}}
    /\ Hole \notin Versions
    /\ NoFile \notin Files
    /\ PoolSize \in Nat \ {0}
    /\ MaxEdits \in Nat
    /\ MaxDisconnects \in Nat

VARIABLES
    \* ClientView
    file_status,          \* file_status of each FileStateView ("ABSENT": none)
    file_version,         \* the size and SHA-1 each FileStateView was made with
    associated_sessions,  \* _associated_sessions
    disk,                 \* the files under the view's directory
    \* ServerSession, one of each per session
    required_files,       \* _required_files_state
    declared,             \* size and SHA-1 in the session's start request
    args_ready,           \* sessions with _are_args_ready
    compiler_running,     \* sessions with _is_compiler_running
    add_pc,               \* where add_session is
    to_scan,              \* files its scan has not looked at
    claim,                \* file it saw INITIAL and is about to set UPLOADING
    requested_files,      \* files it asks the client for, in order
    handler_pc,           \* where handle_server_session is
    uploaded,             \* file whose last chunk it is processing
    \* the pool
    job,                  \* the state of CompileService
    output,               \* what each session's compiler read
    \* the client
    client_version,       \* what each file contains now
    client_pc,            \* where the ClientSession is
    to_send,              \* _required_files from _req_files_send_idx on
    up, down,             \* the connection, client to server and back
    edits, disconnects    \* counters for the bounds

viewVars == <<file_status, file_version, associated_sessions>>
addVars == <<required_files, declared, args_ready, add_pc, to_scan, claim, requested_files>>
handlerVars == <<handler_pc, uploaded>>
poolVars == <<compiler_running, job, output>>
clientVars == <<client_version, client_pc, to_send, edits, disconnects>>
vars == <<viewVars, disk, addVars, handlerVars, poolVars, clientVars, up, down>>

CS == INSTANCE CompileService

-----------------------------------------------------------------------------
Statuses == {"ABSENT", "INITIAL", "UPLOADING", "AVAILABLE", "FAULT"}

Chunk == [kind : {"chunk"}, file : Files, no : Nat \ {0},
          version : Versions, is_last : BOOLEAN]
AbortMsg == [kind |-> "abort"]
CompleteMsg == [kind |-> "complete"]
ConfirmMsg(files) == [kind |-> "confirmed", files |-> files]
ObjMsg(is_last) == [kind |-> "obj", is_last |-> is_last]

ServerMsg == {AbortMsg, CompleteMsg}
             \cup [kind : {"obj"}, is_last : BOOLEAN]
             \cup [kind : {"confirmed"}, files : Seq(Files)]

TypeOK ==
    /\ file_status \in [Files -> Statuses]
    /\ file_version \in [Files -> Versions]
    /\ associated_sessions \in SUBSET Sessions
    /\ disk \in [Files -> Seq(Versions \cup {Hole})]
    /\ required_files \in [Sessions -> SUBSET Files]
    /\ declared \in [Sessions -> [Files -> Versions]]
    /\ args_ready \in SUBSET Sessions
    /\ compiler_running \in SUBSET Sessions
    /\ add_pc \in [Sessions -> {"none", "registered", "scan", "claim", "try", "done"}]
    /\ to_scan \in [Sessions -> SUBSET Files]
    /\ claim \in [Sessions -> Files \cup {NoFile}]
    /\ requested_files \in [Sessions -> Seq(Files)]
    /\ handler_pc \in [Sessions -> {"off", "recv", "size", "fault", "sha",
                                    "accept", "try", "remove", "ended"}]
    /\ uploaded \in [Sessions -> Files \cup {NoFile}]
    /\ job \in [Sessions -> CS!JobStates]
    /\ output \in [Sessions -> {"none", "as_declared", "other"}]
    /\ client_version \in [Files -> Versions]
    /\ client_pc \in [Sessions -> {"idle", "await", "active", "remote", "local", "gone"}]
    /\ to_send \in [Sessions -> Seq(Files)]
    /\ up \in [Sessions -> Seq(Chunk \cup {AbortMsg})]
    /\ down \in [Sessions -> Seq(ServerMsg)]
    /\ edits \in 0 .. MaxEdits
    /\ disconnects \in 0 .. MaxDisconnects

Init ==
    /\ file_status = [f \in Files |-> "ABSENT"]
    /\ file_version = [f \in Files |-> FirstVersion]
    /\ associated_sessions = {}
    /\ disk = [f \in Files |-> <<>>]
    /\ required_files = [s \in Sessions |-> {}]
    /\ declared = [s \in Sessions |-> [f \in Files |-> FirstVersion]]
    /\ args_ready = {}
    /\ compiler_running = {}
    /\ add_pc = [s \in Sessions |-> "none"]
    /\ to_scan = [s \in Sessions |-> {}]
    /\ claim = [s \in Sessions |-> NoFile]
    /\ requested_files = [s \in Sessions |-> <<>>]
    /\ handler_pc = [s \in Sessions |-> "off"]
    /\ uploaded = [s \in Sessions |-> NoFile]
    /\ job = [s \in Sessions |-> "none"]
    /\ output = [s \in Sessions |-> "none"]
    /\ client_version = [f \in Files |-> FirstVersion]
    /\ client_pc = [s \in Sessions |-> "idle"]
    /\ to_send = [s \in Sessions |-> <<>>]
    /\ up = [s \in Sessions |-> <<>>]
    /\ down = [s \in Sessions |-> <<>>]
    /\ edits = 0
    /\ disconnects = 0

-----------------------------------------------------------------------------
(* Shared operations.                                                      *)

Set(fn, key, value) == [fn EXCEPT ![key] = value]

(* update_file_state: the record is overwritten by a copy of itself with   *)
(* another status.                                                         *)
update_file_state(f, status) == file_status' = Set(file_status, f, status)

(* send_msg of the server: a message to a client that is gone is dropped   *)
(* when the writer fails.                                                  *)
Send(s, msg) ==
    down' = IF client_pc[s] = "gone" THEN down
            ELSE Set(down, s, Append(down[s], msg))

(* Mutant: a file that is being uploaded is taken for uploaded.            *)
ReadyToCompile_Early(s) ==
    /\ s \in args_ready
    /\ \A f \in required_files[s] : file_status[f] \in {"UPLOADING", "AVAILABLE"}

ReadyToCompile(s) ==
    /\ s \in args_ready
    /\ \A f \in required_files[s] : file_status[f] = "AVAILABLE"

(* Mutant: _is_compiler_running is not tested.                             *)
try_compile_for_active_sessions_Again ==
    LET submitted == {s \in associated_sessions : ReadyToCompile(s)}
    IN  /\ compiler_running' = compiler_running \cup submitted
        /\ job' = [s \in Sessions |-> IF s \in submitted THEN "queued" ELSE job[s]]

(***************************************************************************)
(* try_compile_for_active_sessions holds ClientView::_mtx, which every     *)
(* update of a file state takes too, over the whole sweep; each session's  *)
(* try_request_src_compilation tests and sets _is_compiler_running.        *)
(***************************************************************************)
try_compile_for_active_sessions ==
    LET submitted == {s \in associated_sessions :
                          ReadyToCompile(s) /\ s \notin compiler_running}
    IN  /\ compiler_running' = compiler_running \cup submitted
        /\ job' = [s \in Sessions |-> IF s \in submitted THEN "queued" ELSE job[s]]

-----------------------------------------------------------------------------
(* The client connects; ClientView::add_session.                           *)

(***************************************************************************)
(* connect_to_server sends the start request with the size and hash of     *)
(* every required file; add_session registers the session and, per file,   *)
(* calls add_file_state: the entry found under the file's name is used if  *)
(* it has the same size and hash, and try_emplace, which does nothing when *)
(* the key exists, is called otherwise.                                    *)
(***************************************************************************)
Register(s, F) ==
    /\ add_pc[s] = "none"
    /\ add_pc' = Set(add_pc, s, "registered")
    /\ client_pc' = Set(client_pc, s, "await")
    /\ required_files' = Set(required_files, s, F)
    /\ declared' = Set(declared, s, client_version)
    /\ associated_sessions' = associated_sessions \cup {s}
    /\ file_status' = [f \in Files |->
           IF f \in F /\ file_status[f] = "ABSENT" THEN "INITIAL" ELSE file_status[f]]
    /\ file_version' = [f \in Files |->
           IF f \in F /\ file_status[f] = "ABSENT" THEN client_version[f]
           ELSE file_version[f]]
    /\ UNCHANGED <<disk, args_ready, to_scan, claim, requested_files, handlerVars,
                   poolVars, client_version, to_send, edits, disconnects, up, down>>

(* preprocess_compiler_call and _create_client_dir_hierarchy.              *)
Preprocess(s) ==
    /\ add_pc[s] = "registered"
    /\ add_pc' = Set(add_pc, s, "scan")
    /\ args_ready' = args_ready \cup {s}
    /\ to_scan' = Set(to_scan, s, required_files[s])
    /\ UNCHANGED <<viewVars, disk, required_files, declared, claim,
                   requested_files, handlerVars, poolVars, clientVars, up, down>>

(* One turn of the scan, which holds no mutex: the status is read.         *)
ScanRead(s, f) ==
    /\ add_pc[s] = "scan"
    /\ f \in to_scan[s]
    /\ to_scan' = Set(to_scan, s, to_scan[s] \ {f})
    /\ \/ /\ file_status[f] = "INITIAL"
          /\ add_pc' = Set(add_pc, s, "claim")
          /\ claim' = Set(claim, s, f)
          /\ UNCHANGED requested_files
       \/ /\ file_status[f] \in {"UPLOADING", "AVAILABLE"}
          /\ UNCHANGED <<add_pc, claim, requested_files>>
       \/ /\ file_status[f] = "FAULT"
          /\ requested_files' = Set(requested_files, s, Append(requested_files[s], f))
          /\ UNCHANGED <<add_pc, claim>>
    /\ UNCHANGED <<viewVars, disk, required_files, declared, args_ready,
                   handlerVars, poolVars, clientVars, up, down>>

(* Mutant: the claimed file is not asked for.                              *)
ScanClaim_NotRequested(s) ==
    /\ add_pc[s] = "claim"
    /\ add_pc' = Set(add_pc, s, "scan")
    /\ update_file_state(claim[s], "UPLOADING")
    /\ claim' = Set(claim, s, NoFile)
    /\ UNCHANGED <<file_version, associated_sessions, disk, required_files,
                   declared, args_ready, to_scan, requested_files, handlerVars,
                   poolVars, clientVars, up, down>>

(* ... and, for a file seen INITIAL, a copy of the record is written back. *)
ScanClaim(s) ==
    /\ add_pc[s] = "claim"
    /\ add_pc' = Set(add_pc, s, "scan")
    /\ update_file_state(claim[s], "UPLOADING")
    /\ requested_files' = Set(requested_files, s, Append(requested_files[s], claim[s]))
    /\ claim' = Set(claim, s, NoFile)
    /\ UNCHANGED <<file_version, associated_sessions, disk, required_files,
                   declared, args_ready, to_scan, handlerVars, poolVars,
                   clientVars, up, down>>

(* session_confirmed_msg is sent, then start_session spawns the handler.   *)
Confirm(s) ==
    /\ add_pc[s] = "scan"
    /\ to_scan[s] = {}
    /\ add_pc' = Set(add_pc, s, "try")
    /\ Send(s, ConfirmMsg(requested_files[s]))
    /\ handler_pc' = Set(handler_pc, s, "recv")
    /\ UNCHANGED <<viewVars, disk, required_files, declared, args_ready, to_scan,
                   claim, requested_files, uploaded, poolVars, clientVars, up>>

(* Mutant: a new session does not run the sweep.                           *)
TryAfterAdd_NoSweep(s) ==
    /\ add_pc[s] = "try"
    /\ add_pc' = Set(add_pc, s, "done")
    /\ UNCHANGED <<viewVars, disk, required_files, declared, args_ready, to_scan,
                   claim, requested_files, handlerVars, poolVars, clientVars, up, down>>

TryAfterAdd(s) ==
    /\ add_pc[s] = "try"
    /\ add_pc' = Set(add_pc, s, "done")
    /\ try_compile_for_active_sessions
    /\ UNCHANGED <<viewVars, disk, required_files, declared, args_ready, to_scan,
                   claim, requested_files, handlerVars, output, clientVars, up, down>>

add_session(s) ==
    \/ Preprocess(s) \/ (\E f \in Files : ScanRead(s, f)) \/ ScanClaim(s)
    \/ Confirm(s) \/ TryAfterAdd(s)

-----------------------------------------------------------------------------
(* ServerSession::handle_server_session and process_file_chunk.            *)

(***************************************************************************)
(* The first chunk of a file opens and truncates it, the others are        *)
(* written at the stream's position: the chunks before it that this stream *)
(* wrote may have been truncated away by another session since.            *)
(* The chunks of a connection arrive in order and each file once, so the   *)
(* sequence check and the is_finished early return are never taken.        *)
(***************************************************************************)
WriteAt(contents, no, version) ==
    [i \in 1 .. (IF no > Len(contents) THEN no ELSE Len(contents)) |->
        IF i = no THEN version
        ELSE IF i <= Len(contents) THEN contents[i] ELSE Hole]

ReceiveChunk(s) ==
    /\ handler_pc[s] = "recv"
    /\ up[s] # <<>> /\ Head(up[s]).kind = "chunk"
    /\ LET c == Head(up[s]) IN
       /\ disk' = Set(disk, c.file,
                      IF c.no = 1 THEN <<c.version>>
                      ELSE WriteAt(disk[c.file], c.no, c.version))
       /\ IF c.is_last
          THEN /\ handler_pc' = Set(handler_pc, s, "size")
               /\ uploaded' = Set(uploaded, s, c.file)
          ELSE UNCHANGED handlerVars
    /\ up' = Set(up, s, Tail(up[s]))
    /\ UNCHANGED <<viewVars, addVars, poolVars, clientVars, down>>

(* file_size of the closed file against the size declared for the entry.   *)
CheckSize(s) ==
    /\ handler_pc[s] = "size"
    /\ LET f == uploaded[s] IN
       handler_pc' = Set(handler_pc, s,
           IF Len(disk[f]) = Chunks[file_version[f]] THEN "sha" ELSE "fault")
    /\ UNCHANGED <<viewVars, disk, addVars, uploaded, poolVars, clientVars, up, down>>

(* The wrong size: the entry becomes FAULT and the client gets an abort.   *)
RejectUpload(s) ==
    /\ handler_pc[s] = "fault"
    /\ handler_pc' = Set(handler_pc, s, "recv")
    /\ uploaded' = Set(uploaded, s, NoFile)
    /\ update_file_state(uploaded[s], "FAULT")
    /\ Send(s, AbortMsg)
    /\ UNCHANGED <<file_version, associated_sessions, disk, addVars, poolVars,
                   clientVars, up>>

(* The wrong hash sets FAULT, and is then ignored (the return is commented *)
(* out).                                                                   *)
Contents(version) == [i \in 1 .. Chunks[version] |-> version]

CheckSha(s) ==
    /\ handler_pc[s] = "sha"
    /\ handler_pc' = Set(handler_pc, s, "accept")
    /\ LET f == uploaded[s] IN
       IF disk[f] = Contents(file_version[f]) THEN UNCHANGED file_status
       ELSE update_file_state(f, "FAULT")
    /\ UNCHANGED <<file_version, associated_sessions, disk, addVars, uploaded,
                   poolVars, clientVars, up, down>>

AcceptUpload(s) ==
    /\ handler_pc[s] = "accept"
    /\ handler_pc' = Set(handler_pc, s, "try")
    /\ update_file_state(uploaded[s], "AVAILABLE")
    /\ UNCHANGED <<file_version, associated_sessions, disk, addVars, uploaded,
                   poolVars, clientVars, up, down>>

(* Mutant: the client is not told that the file is complete.               *)
TryAfterUpload_NoReply(s) ==
    /\ handler_pc[s] = "try"
    /\ handler_pc' = Set(handler_pc, s, "recv")
    /\ uploaded' = Set(uploaded, s, NoFile)
    /\ try_compile_for_active_sessions
    /\ UNCHANGED <<viewVars, disk, addVars, output, clientVars, up, down>>

(***************************************************************************)
(* The sweep, then FileUpComplete to the client. The session's own mutex,  *)
(* held since the chunk arrived, keeps a worker from publishing this       *)
(* session's result in between, so the two are one step.                   *)
(***************************************************************************)
TryAfterUpload(s) ==
    /\ handler_pc[s] = "try"
    /\ handler_pc' = Set(handler_pc, s, "recv")
    /\ uploaded' = Set(uploaded, s, NoFile)
    /\ try_compile_for_active_sessions
    /\ Send(s, CompleteMsg)
    /\ UNCHANGED <<viewVars, disk, addVars, output, clientVars, up>>

(***************************************************************************)
(* terminate_server_session: the request still in the pool's queue is      *)
(* invalidated, then the view forgets the session; when the coroutine      *)
(* returns, the last shared_ptr to the session goes.                       *)
(***************************************************************************)
ReceiveAbort(s) ==
    /\ handler_pc[s] = "recv"
    /\ up[s] # <<>> /\ Head(up[s]) = AbortMsg
    /\ up' = Set(up, s, Tail(up[s]))
    /\ handler_pc' = Set(handler_pc, s, "remove")
    /\ job' = IF job[s] = "queued" THEN Set(job, s, "cancelled") ELSE job
    /\ UNCHANGED <<viewVars, disk, addVars, uploaded, compiler_running, output,
                   clientVars, down>>

RemoveSession(s) ==
    /\ handler_pc[s] = "remove"
    /\ handler_pc' = Set(handler_pc, s, "ended")
    /\ associated_sessions' = associated_sessions \ {s}
    /\ UNCHANGED <<file_status, file_version, disk, addVars, uploaded, poolVars,
                   clientVars, up, down>>

(* The read fails; the exception is swallowed and the session stays.       *)
ReceiveFails(s) ==
    /\ handler_pc[s] = "recv"
    /\ client_pc[s] = "gone"
    /\ handler_pc' = Set(handler_pc, s, "ended")
    /\ UNCHANGED <<viewVars, disk, addVars, uploaded, poolVars, clientVars, up, down>>

process_file_chunk(s) ==
    \/ ReceiveChunk(s) \/ CheckSize(s) \/ RejectUpload(s) \/ CheckSha(s)
    \/ AcceptUpload(s) \/ TryAfterUpload(s)

handle_server_session(s) ==
    \/ process_file_chunk(s)
    \/ ReceiveAbort(s) \/ RemoveSession(s) \/ ReceiveFails(s)

-----------------------------------------------------------------------------
(* The pool.                                                               *)

StartJob(s) ==
    /\ CS!Start(s)
    /\ UNCHANGED <<viewVars, disk, addVars, handlerVars, compiler_running, output,
                   clientVars, up, down>>

DropJob(s) ==
    /\ CS!Drop(s)
    /\ UNCHANGED <<viewVars, disk, addVars, handlerVars, compiler_running, output,
                   clientVars, up, down>>

(* The compiler reads the files as they are on the server's disk.          *)
FinishJob(s) ==
    /\ CS!Finish(s)
    /\ output' = Set(output, s,
           IF \A f \in required_files[s] : disk[f] = Contents(declared[s][f])
           THEN "as_declared" ELSE "other")
    /\ UNCHANGED <<viewVars, disk, addVars, handlerVars, compiler_running,
                   clientVars, up, down>>

(***************************************************************************)
(* publish_compilation_results takes the session's mutex, which the        *)
(* handler holds while it processes a chunk or terminates the session. The *)
(* object file is sent in chunks; only a chunk shorter than 64 KiB is      *)
(* marked last. The chunks travel as one message here.                     *)
(***************************************************************************)
PublishJob(s) ==
    /\ handler_pc[s] \in {"off", "recv", "ended"}
    /\ CS!Publish(s)
    /\ \E short_tail \in ObjectTails : Send(s, ObjMsg(short_tail))
    /\ UNCHANGED <<viewVars, disk, addVars, handlerVars, compiler_running, output,
                   clientVars, up>>

Pool(s) == StartJob(s) \/ DropJob(s) \/ FinishJob(s) \/ PublishJob(s)

-----------------------------------------------------------------------------
(* The client's end of the session (client_session.cpp).                   *)

(* Mutant: the chunks are numbered from zero.                              *)
FileChunks_FromZero(f) ==
    LET v == client_version[f] IN
    [i \in 1 .. Chunks[v] |->
        [kind |-> "chunk", file |-> f, no |-> i - 1, version |-> v,
         is_last |-> i = Chunks[v] /\ v \notin Exact]]

(***************************************************************************)
(* _send_required_file reads the next requested file and sends it in       *)
(* chunks; a chunk shorter than 64 KiB is the last one.                    *)
(***************************************************************************)
FileChunks(f) ==
    LET v == client_version[f] IN
    [i \in 1 .. Chunks[v] |->
        [kind |-> "chunk", file |-> f, no |-> i, version |-> v,
         is_last |-> i = Chunks[v] /\ v \notin Exact]]

SendNextFile(s, files) ==
    IF files = <<>>
    THEN /\ to_send' = Set(to_send, s, files)
         /\ UNCHANGED up
    ELSE /\ to_send' = Set(to_send, s, Tail(files))
         /\ up' = Set(up, s, up[s] \o FileChunks(Head(files)))

(* The handler's last step is to have the result (remote or local) taken   *)
(* by _handle_ipc_request, which then aborts the session on the server.    *)
Conclude(s, how) ==
    /\ client_pc' = Set(client_pc, s, how)
    /\ up' = Set(up, s, Append(up[s], AbortMsg))
    /\ UNCHANGED to_send

(* start_client_session: anything but the confirmation is a failure.       *)
ClientAwaitsConfirm(s, msg) ==
    /\ client_pc[s] = "await"
    /\ \/ /\ msg.kind = "confirmed"
          /\ client_pc' = Set(client_pc, s, "active")
          /\ SendNextFile(s, msg.files)
       \/ /\ msg.kind # "confirmed"
          /\ Conclude(s, "local")

(* _handle_client_session.                                                 *)
ClientHandles(s, msg) ==
    /\ client_pc[s] = "active"
    /\ \/ /\ msg.kind = "complete"
          /\ SendNextFile(s, to_send[s])
          /\ UNCHANGED client_pc
       \/ /\ msg.kind = "abort"
          /\ Conclude(s, "local")
       \/ /\ msg.kind = "obj" /\ msg.is_last
          /\ Conclude(s, "remote")
       \/ /\ msg.kind = "obj" /\ ~msg.is_last
          /\ UNCHANGED <<client_pc, to_send, up>>

ClientReceive(s) ==
    /\ down[s] # <<>>
    /\ down' = Set(down, s, Tail(down[s]))
    /\ LET msg == Head(down[s]) IN
       ClientAwaitsConfirm(s, msg) \/ ClientHandles(s, msg)
    /\ UNCHANGED <<viewVars, disk, addVars, handlerVars, poolVars,
                   client_version, edits, disconnects>>

(* Somebody edits a file while the client builds.                          *)
ClientEdits(f, v) ==
    /\ edits < MaxEdits
    /\ edits' = edits + 1
    /\ v # client_version[f]
    /\ client_version' = Set(client_version, f, v)
    /\ UNCHANGED <<viewVars, disk, addVars, handlerVars, poolVars, client_pc,
                   to_send, disconnects, up, down>>

(* The client or the connection dies.                                      *)
Disconnect(s) ==
    /\ disconnects < MaxDisconnects
    /\ disconnects' = disconnects + 1
    /\ client_pc[s] \in {"await", "active"}
    /\ client_pc' = Set(client_pc, s, "gone")
    /\ up' = Set(up, s, <<>>)
    /\ down' = Set(down, s, <<>>)
    /\ UNCHANGED <<viewVars, disk, addVars, handlerVars, poolVars,
                   client_version, to_send, edits>>

Next ==
    \/ \E s \in Sessions, F \in (SUBSET Files) \ {{}} : Register(s, F)
    \/ \E s \in Sessions :
          \/ add_session(s) \/ handle_server_session(s) \/ Pool(s)
          \/ ClientReceive(s) \/ Disconnect(s)
    \/ \E f \in Files, v \in Versions : ClientEdits(f, v)

Spec == Init /\ [][Next]_vars

(***************************************************************************)
(* The I/O threads run every coroutine that can go on, a mutex that is     *)
(* free again and again is obtained, the pool serves its queue in order    *)
(* (CompilerManager's EveryRequestServed), and a client that is connected  *)
(* reads what it is sent. Nothing is assumed about when sessions start,    *)
(* files are edited or connections are lost.                               *)
(***************************************************************************)
FairSpec ==
    /\ Spec
    /\ \A s \in Sessions :
          /\ WF_vars(add_session(s))
          /\ WF_vars(handle_server_session(s))
          /\ SF_vars(Pool(s))
          /\ WF_vars(ClientReceive(s))

-----------------------------------------------------------------------------
(* Properties.                                                             *)

(* No session that could be compiled is forgotten: if everything it needs  *)
(* is there and it has not been submitted, some coroutine is still going   *)
(* to run the sweep (its own add_session, or a handler that has just made  *)
(* a file available).                                                      *)
NoForgottenSession ==
    \A s \in associated_sessions :
        ReadyToCompile(s) /\ s \notin compiler_running =>
            \/ add_pc[s] \in {"scan", "claim", "try"}
            \/ \E t \in Sessions : handler_pc[t] = "try"

(* What the sessions together do to the pool is what CompileService allows:*)
(* whatever sweeps race with each other and with terminations, a session   *)
(* asks for one compilation.                                               *)
PoolContract == CS!Spec

(* The files session s asked, or is about to ask, its client for.          *)
Asked(s) ==
    {requested_files[s][i] : i \in DOMAIN requested_files[s]}
        \cup ({claim[s]} \ {NoFile})

(* Nobody lost the race between reading INITIAL and writing UPLOADING.     *)
NoDoubleUpload ==
    \A s, t \in Sessions : s # t => Asked(s) \cap Asked(t) = {}

(* Unless two sessions upload the same file or a file is edited, the       *)
(* compiler reads exactly the contents the client declared: the ignored    *)
(* hash check does no harm, and no sweep comes too early.                  *)
SoleUploaderIsCompiled ==
    NoDoubleUpload /\ edits = 0 => \A s \in Sessions : output[s] # "other"

(* A file other sessions wait for because it is UPLOADING has an uploader: *)
(* a session that asked for it and whose client is still there.            *)
UploadHasOwner ==
    NoDoubleUpload /\ edits = 0 /\ disconnects = 0 =>
        \A f \in Files : file_status[f] = "UPLOADING" =>
            \E s \in Sessions : f \in Asked(s) /\ client_pc[s] \in {"await", "active"}

(* The pool holds no pointer to a session that is gone, unless two sessions*)
(* upload the same file, a file is edited or a connection fails: then a    *)
(* client may abort its session while it is queued or compiled, and        *)
(* compiler_manager.hpp line 12 says that "this will blow up".             *)
RequesterOutlivesJob ==
    NoDoubleUpload /\ edits = 0 /\ disconnects = 0 =>
        \A s \in Sessions :
            handler_pc[s] = "ended" /\ s \notin associated_sessions =>
                job[s] \notin {"queued", "running", "finished"}

(* Every client that opened a session gets its object file or falls back to*)
(* a local compilation, the sessions that wait for a file another one      *)
(* uploads included, unless two sessions upload the same file.             *)
EverySessionConcludes ==
    [](NoDoubleUpload) =>
        \A s \in Sessions :
            client_pc[s] = "await" ~> client_pc[s] \in {"remote", "local"}

-----------------------------------------------------------------------------
(* What comments of the code say and the code does not do.                 *)

(* The state a session refers to for a required file is that of the file   *)
(* the session declared: client_view.cpp line 78 says of a file whose size *)
(* or hash differ from the stored ones "Add a new FileStateView".          *)
FileStateIsDeclared ==
    \A s \in associated_sessions : \A f \in required_files[s] :
        file_version[f] = declared[s][f]

(* A client that stays connected gets an object file or compiles locally:  *)
(* client_session.cpp line 190, "Handle error cases gracefully, especially *)
(* on the client any failure should trigger a local compilation".          *)
FallsBackLocally ==
    \A s \in Sessions :
        client_pc[s] = "await" ~> client_pc[s] \in {"remote", "local", "gone"}
=============================================================================
