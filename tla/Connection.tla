----------------------------- MODULE Connection -----------------------------
(***************************************************************************)
(* The TCP connection of one session, from the advertisement that led to   *)
(* it to the closing of both sockets: the strand, the queue and the writer *)
(* of each end, the bytes on the wire, the two readers and what the        *)
(* handlers behind them send.                                              *)
(*                                                                         *)
(* An end's session object lives while somebody holds it: a table, a       *)
(* coroutine, a lambda posted to the strand. Its destructor closes the     *)
(* socket.                                                                 *)
(***************************************************************************)
EXTENDS ProtoMessages

CONSTANTS
    Adverts,    \* the advertisements a server may broadcast
    Requests,   \* the session_start requests a client may make
    Required,   \* the files the server may ask for: {} or one file
    FileChunks, \* the chunks of the required file, in order
    Results,    \* the answers of a compilation: sequences of object chunks
    Cuts,       \* how many bytes of a frame the first piece of a write leaves
    None

(* The contents are sequences of chunks; a piece leaves a number of bytes. *)
ASSUME ContentsAssumption ==
    /\ FileChunks \in Seq([session_id : Seq(Nat), filename : Seq(Nat), sequence_no : Nat,
                           offset : Nat, data : Seq(Nat), is_last_chunk : Nat])
    /\ \A r \in Results : r \in Seq(Range(r))
    /\ Cuts \subseteq Nat

Ends == {"client", "server"}
Peer(e) == IF e = "client" THEN "server" ELSE "client"
Sends(e) == IF e = "client" THEN ClientMessage ELSE ServerMessage

VARIABLES
    heard,       \* _server_nodes: the server the listener knows, or None
    posted,      \* frames of the lambdas dispatched to the strand
    queue,       \* _write_queue
    in_progress, \* _write_in_progress
    writers,     \* the writer coroutines: what is left to write; <<>> at its start
    wire,        \* bytes written by an end and not yet read by the other
    lost,        \* whether the network has failed
    reader,      \* "none", "first" message, message "loop", "ended"
    need,        \* the bytes the reader waits for: 0 for the length prefix
    holds,       \* who keeps the session object alive
    answered,    \* whether a response for the wrapper was published
    filesSent,   \* _req_files_send_idx
    result,      \* object chunks the worker still has to send, or None
    sent,        \* history: messages given to send_msg
    got          \* history: messages the readers have parsed

net == <<posted, queue, in_progress, writers, wire, lost>>
vars == <<heard, net, reader, need, holds, answered, filesSent, result, sent, got>>

SessionId == <<7>>
ClientId == <<5>>

Message(case, value) == [content_case |-> case, value |-> value]
Abort ==
    Message("client_abort",
            [ClientSessionAbortRequest EXCEPT !.session_id = SessionId, !.client_id = ClientId])
AbortResponse ==
    Message("server_abort", [ServerSessionAbortResponse EXCEPT !.session_id = SessionId])
Confirmed(files) ==
    Message("session_confirmed",
            [ServerSessionConfirmedResponse EXCEPT !.session_id = SessionId, !.required_files = files])
UpComplete(chunk) ==
    Message("file_up_complete",
            [ServerFileUpCompleteResponse EXCEPT !.session_id = SessionId,
                !.filename = chunk.filename, !.success = 1])
Chunks(case, values) == [i \in DOMAIN values |-> Message(case, values[i])]

(* The messages of an end, and their payloads.                             *)
Messages == [
    client |-> {Message("session_start", r) : r \in Requests} \cup {Abort}
                    \cup Range(Chunks("file_chunk_upload", FileChunks)),
    server |-> {Confirmed(files) : files \in Required \cup {<<>>}} \cup {AbortResponse}
                    \cup {UpComplete(c) : c \in Range(FileChunks)}
                    \cup UNION {Range(Chunks("obj_file_chunk_transmit", r)) : r \in Results}]
Payload == [e \in Ends |-> [m \in Messages[e] |-> SerializeToString(Sends(e), m)]]

(* What receive_msg makes of the bytes of a payload, tabulated for those   *)
(* that are sent: msg is used whatever ParseFromArray has returned.        *)
Parsed == [e \in Ends |-> [bytes \in Range(Payload[e]) |-> ParseFromArray(Sends(e), bytes).msg]]
Parse(e, bytes) ==
    IF bytes \in DOMAIN Parsed[e] THEN Parsed[e][bytes] ELSE ParseFromArray(Sends(e), bytes).msg

(* A frame: the length in big-endian order, and the payload.               *)
Framed(e, m) ==
    <<0, 0, Len(Payload[e][m]) \div 256, Len(Payload[e][m]) % 256>> \o Payload[e][m]

Init ==
    /\ heard = None
    /\ posted = [e \in Ends |-> <<>>] /\ queue = [e \in Ends |-> <<>>]
    /\ in_progress = [e \in Ends |-> FALSE] /\ writers = [e \in Ends |-> <<>>]
    /\ wire = [e \in Ends |-> <<>>] /\ lost = FALSE
    /\ reader = [e \in Ends |-> "none"] /\ need = [e \in Ends |-> 0]
    /\ holds = [client |-> {"connect"}, server |-> {"accept"}]
    /\ answered = FALSE /\ filesSent = 0 /\ result = None
    /\ sent = [e \in Ends |-> <<>>] /\ got = [e \in Ends |-> <<>>]

Closed(e) == holds[e] = {} /\ posted[e] = <<>> /\ writers[e] = <<>>

(* A socket closed with bytes it has not read resets the connection: what  *)
(* it had written may be lost with it.                                     *)
Reset(e) == Closed(e) /\ wire[Peer(e)] # <<>>

-----------------------------------------------------------------------------
(* Discovery: a datagram is parsed or dropped.                             *)

Receive_loop ==
    /\ reader["client"] = "none"
    /\ \E advert \in Adverts :
        LET parsed == ParseAdvert(InternalSerialize(ResourceAdvMessage_InternalSerialize, advert))
        IN  heard' = IF parsed.ok THEN parsed.msg ELSE heard
    /\ UNCHANGED <<net, reader, need, holds, answered, filesSent, result, sent, got>>

-----------------------------------------------------------------------------
(* send_msg, the lambda it dispatches and the writer.                      *)

send_msg(e, messages) ==
    /\ posted' = [posted EXCEPT ![e] = @ \o [i \in DOMAIN messages |-> Framed(e, messages[i])]]
    /\ sent' = [sent EXCEPT ![e] = @ \o messages]

NothingSent == UNCHANGED <<posted, sent>>

Enqueue_Unguarded(e) ==
    /\ queue' = [queue EXCEPT ![e] = Append(@, Head(posted[e]))]
    /\ in_progress' = [in_progress EXCEPT ![e] = TRUE]
    /\ writers' = [writers EXCEPT ![e] = Append(@, <<>>)]

Enqueue(e) ==
    /\ queue' = [queue EXCEPT ![e] = Append(@, Head(posted[e]))]
    /\ in_progress' = [in_progress EXCEPT ![e] = TRUE]
    /\ writers' = [writers EXCEPT ![e] = IF in_progress[e] THEN @ ELSE Append(@, <<>>)]

RunPosted(e) ==
    /\ posted[e] # <<>>
    /\ posted' = [posted EXCEPT ![e] = Tail(@)]
    /\ Enqueue(e)
    /\ UNCHANGED <<wire, lost, heard, reader, need, holds, answered, filesSent, result, sent, got>>

(* The head of the loop: the client's writer leaves the message in the     *)
(* queue while it writes it, the server's takes it out.                    *)
TakeFront(e, i, q) ==
    IF q = <<>>
    THEN /\ writers' = [writers EXCEPT ![e] = RemoveAt(@, i)]
         /\ in_progress' = [in_progress EXCEPT ![e] = FALSE]
         /\ queue' = [queue EXCEPT ![e] = q]
    ELSE /\ writers' = [writers EXCEPT ![e][i] = Head(q)]
         /\ queue' = [queue EXCEPT ![e] = IF e = "client" THEN q ELSE Tail(q)]
         /\ UNCHANGED in_progress

AfterWrite(e, i) ==
    TakeFront(e, i, IF e = "client" THEN Tail(queue[e]) ELSE queue[e])

WriterStarts(e, i) ==
    /\ writers[e][i] = <<>>
    /\ TakeFront(e, i, queue[e])
    /\ UNCHANGED wire

(* A closed socket reads nothing more: one piece it has not read is enough *)
(* to reset the connection.                                                *)
Unread(e, bytes) ==
    IF Closed(Peer(e)) /\ wire[e] # <<>> THEN wire[e] ELSE wire[e] \o bytes

WriteSome(e, i) ==
    /\ writers[e][i] # <<>>
    /\ ~lost
    /\ \E left \in Cuts \cup {0} :
        LET n == Len(writers[e][i]) - left IN
        /\ n > 0
        /\ wire' = [wire EXCEPT ![e] = Unread(e, SubSeq(writers[e][i], 1, n))]
        /\ IF left = 0
           THEN AfterWrite(e, i)
           ELSE /\ writers' = [writers EXCEPT ![e][i] = SubSeq(@, n + 1, Len(@))]
                /\ UNCHANGED <<queue, in_progress>>

(* The handler of the exception: the loop is left, and a writer is spawned *)
(* if there is something in the queue.                                     *)
WriterFailed_NoRespawn(e, i) ==
    /\ in_progress' = [in_progress EXCEPT ![e] = FALSE]
    /\ writers' = [writers EXCEPT ![e] = RemoveAt(@, i)]

WriterFailed_LeavesFlag(e, i) ==
    /\ UNCHANGED in_progress
    /\ writers' = [writers EXCEPT ![e] = IF queue[e] = <<>> THEN RemoveAt(@, i)
                                         ELSE [@ EXCEPT ![i] = <<>>]]

WriterFailed(e, i) ==
    /\ in_progress' = [in_progress EXCEPT ![e] = queue[e] # <<>>]
    /\ writers' = [writers EXCEPT ![e] = IF queue[e] = <<>> THEN RemoveAt(@, i)
                                         ELSE [@ EXCEPT ![i] = <<>>]]

WriteFails(e, i) ==
    /\ writers[e][i] # <<>>
    /\ lost \/ Closed(Peer(e))
    /\ WriterFailed(e, i)
    /\ UNCHANGED <<queue, wire>>

writer_loop(e) ==
    /\ \E i \in DOMAIN writers[e] : WriterStarts(e, i) \/ WriteSome(e, i) \/ WriteFails(e, i)
    /\ UNCHANGED <<posted, lost, heard, reader, need, holds, answered, filesSent, result, sent, got>>

-----------------------------------------------------------------------------
(* receive_msg: the length, then the payload. The result of ParseFromArray *)
(* is not looked at.                                                       *)

Arrived(e) == wire[Peer(e)]

ReadLength(e) ==
    /\ reader[e] \in {"first", "loop"} /\ need[e] = 0 /\ Len(Arrived(e)) >= 4
    /\ need' = [need EXCEPT ![e] = 256 * Arrived(e)[3] + Arrived(e)[4]]
    /\ wire' = [wire EXCEPT ![Peer(e)] = SubSeq(@, 5, Len(@))]
    /\ UNCHANGED <<posted, queue, in_progress, writers, lost, heard, reader, holds, answered,
                   filesSent, result, sent, got>>

ReadPayload(e) ==
    /\ need[e] > 0 /\ Len(Arrived(e)) >= need[e]
    /\ need' = [need EXCEPT ![e] = 0]
    /\ wire' = [wire EXCEPT ![Peer(e)] = SubSeq(@, need[e] + 1, Len(@))]
    /\ got' = [got EXCEPT ![e] = Append(@, Parse(Peer(e), SubSeq(Arrived(e), 1, need[e])))]
    /\ UNCHANGED <<queue, in_progress, writers, lost, heard>>

(* The message just read.                                                  *)
In(e) == Last(got'[e])

(* The exception of a read ends the reader's coroutine; before the session *)
(* is up, the exception unwinds the coroutine that made the connection.    *)
ReceiveFails(e) ==
    /\ reader[e] \in {"first", "loop"}
    /\ \/ lost
       \/ Closed(Peer(e)) /\ Len(Arrived(e)) < (IF need[e] = 0 THEN 4 ELSE need[e])
       \/ Reset(Peer(e))
    /\ reader' = [reader EXCEPT ![e] = "ended"]
    /\ holds' = [holds EXCEPT ![e] = @ \ {"connect", "accept", "reader"}]
    /\ UNCHANGED <<net, heard, need, answered, filesSent, result, sent, got>>

-----------------------------------------------------------------------------
(* The client.                                                             *)

pick_and_connect ==
    /\ heard # None
    /\ heard.available_jobs > 0
    /\ reader["client"] = "none"
    /\ reader' = [e \in Ends |-> "first"]
    /\ \E request \in Requests : send_msg("client", <<Message("session_start", request)>>)
    /\ UNCHANGED <<queue, in_progress, writers, wire, lost, heard, need, holds, answered,
                   filesSent, result, got>>

(* _send_required_file: the chunks of the next file, if there is one.      *)
send_required_file(files) ==
    IF filesSent < Len(files)
    THEN /\ filesSent' = filesSent + 1
         /\ send_msg("client", Chunks("file_chunk_upload", FileChunks))
    ELSE NothingSent /\ UNCHANGED filesSent

RequiredFiles == got["client"][1].value.required_files

(* terminate_client_session, and the end of the coroutine that calls it.   *)
client_ends(who) ==
    /\ reader' = [reader EXCEPT !["client"] = "ended"]
    /\ holds' = [holds EXCEPT !["client"] = who]

start_client_session ==
    /\ reader["client"] = "first"
    /\ ReadPayload("client")
    /\ IF In("client").content_case = "session_confirmed"
       THEN /\ reader' = [reader EXCEPT !["client"] = "loop"]
            /\ holds' = [holds EXCEPT !["client"] = {"table", "reader"}]
            /\ send_required_file(In("client").value.required_files)
            /\ UNCHANGED answered
       ELSE \* connect_to_server aborts, terminates, compiles, and puts the session in its table
            /\ send_msg("client", <<Abort>>)
            /\ client_ends({"table"})
            /\ answered' = TRUE
            /\ UNCHANGED filesSent
    /\ UNCHANGED result

(* The session compiles locally, and says so to the server or not.         *)
GiveUp(messages) ==
    /\ answered' = TRUE
    /\ send_msg("client", messages)
    /\ client_ends({})
    /\ UNCHANGED filesSent

(* The condition of the loop: the session may have been terminated while   *)
(* the message was on its way.                                             *)
WhileNotTerminated ==
    IF "table" \in holds["client"] THEN UNCHANGED <<reader, holds>> ELSE client_ends({})

process_obj_file_chunk(chunk) ==
    IF chunk.session_id # SessionId
    THEN GiveUp(<<Abort>>)
    ELSE /\ answered' = (answered \/ chunk.is_last_chunk = 1)
         /\ NothingSent
         /\ WhileNotTerminated
         /\ UNCHANGED filesSent

handle_client_session ==
    /\ reader["client"] = "loop"
    /\ ReadPayload("client")
    /\ CASE In("client").content_case = "server_abort" -> GiveUp(<<>>)
         [] In("client").content_case = "file_up_complete" ->
                IF In("client").value.session_id = SessionId /\ In("client").value.success = 1
                THEN send_required_file(RequiredFiles) /\ WhileNotTerminated /\ UNCHANGED answered
                ELSE GiveUp(<<Abort>>)
         [] In("client").content_case = "obj_file_chunk_transmit" ->
                process_obj_file_chunk(CopyServerObjFileChunk(In("client").value))
         [] OTHER -> NothingSent /\ WhileNotTerminated /\ UNCHANGED <<answered, filesSent>>
    /\ UNCHANGED result

(* handle_ipc_request, once retrieve_unix_ipc_response has returned; the   *)
(* session must still be there.                                            *)
Conclude ==
    /\ answered
    /\ "table" \in holds["client"]
    /\ send_msg("client", <<Abort>>)
    /\ holds' = [holds EXCEPT !["client"] = @ \ {"table"}]
    /\ UNCHANGED <<queue, in_progress, writers, wire, lost, heard, reader, need, answered,
                   filesSent, result, got>>

-----------------------------------------------------------------------------
(* The server.                                                             *)

handle_new_connection ==
    /\ reader["server"] = "first"
    /\ ReadPayload("server")
    /\ IF In("server").content_case = "session_start"
       THEN /\ holds' = [holds EXCEPT !["server"] = {"accept", "table"}]
            /\ reader' = [reader EXCEPT !["server"] = "none"]
       ELSE /\ holds' = [holds EXCEPT !["server"] = {}]
            /\ reader' = [reader EXCEPT !["server"] = "ended"]
    /\ NothingSent
    /\ UNCHANGED <<answered, filesSent, result>>

(* The end of add_session: the confirmation, and the session's coroutine.  *)
add_session ==
    /\ holds["server"] = {"accept", "table"}
    /\ \E files \in Required \cup {<<>>} : send_msg("server", <<Confirmed(files)>>)
    /\ holds' = [holds EXCEPT !["server"] = {"table", "reader"}]
    /\ reader' = [reader EXCEPT !["server"] = "loop"]
    /\ UNCHANGED <<queue, in_progress, writers, wire, lost, heard, need, answered, filesSent,
                   result, got>>

(* The upload of a file is complete or, its size being wrong, refused.     *)
process_file_chunk(chunk) ==
    IF chunk.is_last_chunk = 1
    THEN \E reply \in {UpComplete(chunk), AbortResponse} : send_msg("server", <<reply>>)
    ELSE NothingSent

terminate_server_session_KeepsEntry ==
    /\ reader' = [reader EXCEPT !["server"] = "ended"]
    /\ holds' = [holds EXCEPT !["server"] = @ \ {"reader"}]
    /\ NothingSent

terminate_server_session ==
    /\ reader' = [reader EXCEPT !["server"] = "ended"]
    /\ holds' = [holds EXCEPT !["server"] = {}]
    /\ NothingSent

handle_server_session ==
    /\ reader["server"] = "loop"
    /\ ReadPayload("server")
    /\ CASE In("server").content_case = "session_start" ->
                NothingSent /\ UNCHANGED <<reader, holds>>
         [] In("server").content_case = "file_chunk_upload" ->
                /\ process_file_chunk(CopyClientFileChunk(In("server").value))
                /\ UNCHANGED <<reader, holds>>
         [] OTHER -> terminate_server_session
    /\ UNCHANGED <<answered, filesSent, result>>

(* A worker answers a session once, as soon as the session is in the view: *)
(* the sweep of another session may have asked for its compilation before  *)
(* it is confirmed.                                                        *)
publish_compilation_results ==
    /\ "table" \in holds["server"] /\ result = None
    /\ \E r \in Results : result' = r
    /\ UNCHANGED <<net, heard, reader, need, holds, answered, filesSent, sent, got>>

send_compilation_result ==
    /\ result \notin {None, <<>>}
    /\ "table" \in holds["server"]
    /\ send_msg("server", <<Message("obj_file_chunk_transmit", Head(result))>>)
    /\ result' = Tail(result)
    /\ UNCHANGED <<queue, in_progress, writers, wire, lost, heard, reader, need, holds, answered,
                   filesSent, got>>

(* The network fails.                                                      *)
Lose ==
    /\ reader["client"] # "none"
    /\ ~lost /\ lost' = TRUE
    /\ UNCHANGED <<posted, queue, in_progress, writers, wire, heard, reader, need, holds, answered,
                   filesSent, result, sent, got>>

-----------------------------------------------------------------------------
(* The coroutine that reads from the socket of an end.                     *)
Reader(e) ==
    \/ ReadLength(e) \/ ReceiveFails(e)
    \/ e = "client" /\ (start_client_session \/ handle_client_session)
    \/ e = "server" /\ (handle_new_connection \/ handle_server_session)

Worker == publish_compilation_results \/ send_compilation_result

Next ==
    \/ Receive_loop \/ pick_and_connect \/ Conclude \/ add_session \/ Worker \/ Lose
    \/ \E e \in Ends : RunPosted(e) \/ writer_loop(e) \/ Reader(e)

(* The threads of the two programs keep running their coroutines.          *)
Fairness ==
    /\ WF_vars(Conclude) /\ WF_vars(add_session) /\ WF_vars(send_compilation_result)
    /\ \A e \in Ends : WF_vars(RunPosted(e)) /\ WF_vars(writer_loop(e)) /\ WF_vars(Reader(e))

Spec == Init /\ [][Next]_vars /\ Fairness

-----------------------------------------------------------------------------
(* What a receiver sees of a message, from the fields in the order they    *)
(* are written: everything, up to the first text that is not UTF-8.        *)

CleanInfo(info) == VerifyUTF8(info.filename)
CleanField(f, v) ==
    CASE f.kind = "string"   -> VerifyUTF8(v)
      [] f.kind = "strings"  -> \A i \in DOMAIN v : VerifyUTF8(v[i])
      [] f.kind = "messages" -> \A i \in DOMAIN v : CleanInfo(v[i])
      [] OTHER               -> TRUE

UpToFirst(v, Clean(_)) == SelectInSeq(v, LAMBDA x : ~Clean(x))

CutField(f, v) ==
    CASE f.kind = "strings"  -> SubSeq(v, 1, UpToFirst(v, VerifyUTF8))
      [] f.kind = "messages" ->
            LET n == UpToFirst(v, CleanInfo)
            IN  Append(SubSeq(v, 1, n - 1), [FileInfo EXCEPT !.filename = v[n].filename])
      [] OTHER               -> v

Visible(m) ==
    LET fields == [i \in DOMAIN Classes[m.content_case].serialize |->
                        Classes[m.content_case].serialize[i][2]]
        bad == {i \in DOMAIN fields : ~CleanField(fields[i], m.value[fields[i].field])}
        first == IF bad = {} THEN Len(fields) + 1 ELSE Min(bad)
        At(name) == CHOOSE i \in DOMAIN fields : fields[i].field = name
    IN  [m EXCEPT !.value = [name \in DOMAIN m.value |->
            CASE At(name) < first -> m.value[name]
              [] At(name) = first -> CutField(fields[first], m.value[name])
              [] OTHER            -> Classes[m.content_case].new[name]]]

(* What the connection relies on of the message classes, for the messages  *)
(* and advertisements at hand: the bytes of a message, of which there are  *)
(* some, are read back as what is visible of it, and a datagram that is    *)
(* accepted as one that was sent.                                          *)
PayloadsReadBack ==
    \A e \in Ends : \A m \in Messages[e] :
        /\ Payload[e][m] \in Seq(Nat) \ {<<>>}
        /\ Parse(e, Payload[e][m]) = Visible(m)
AdvertsReadBack ==
    \A advert \in Adverts :
        LET parsed == ParseAdvert(InternalSerialize(ResourceAdvMessage_InternalSerialize, advert))
        IN  parsed.ok => parsed.msg \in Adverts

(* Whatever the pieces a frame is written in, and whoever calls send_msg,  *)
(* an end reads the other's messages in the order they were sent, none     *)
(* skipped, doubled or mixed with another. It reads them as they were      *)
(* sent, except that a text that is not UTF-8 hides the fields after it,   *)
(* since receive_msg ignores what ParseFromArray returns. The datagram     *)
(* that led the client here says the uuid, host, port and jobs that the    *)
(* server has broadcast.                                                   *)
DeliveredInOrder ==
    /\ heard # None => heard \in Adverts
    /\ \A e \in Ends :
        /\ Len(got[e]) <= Len(sent[Peer(e)])
        /\ \A i \in DOMAIN got[e] : got[e][i] = Visible(sent[Peer(e)][i])

(* A message in _write_queue always has one writer that will take it, also *)
(* after a write that failed: neither the lambda of send_msg nor the end   *)
(* of _writer_loop leaves a queue behind that nobody empties.              *)
NoMessageStranded ==
    \A e \in Ends : queue[e] # <<>> => in_progress[e] /\ Len(writers[e]) = 1

(* A session that says it aborts is removed by the server, unless the      *)
(* network fails or the client closes its socket before it has read all    *)
(* the server wrote: the reset then overtakes the abort, the server's read *)
(* throws and the session stays in its view for ever.                      *)
ServerHearsAbort ==
    (Contains(sent["client"], Abort)) ~>
        ("table" \notin holds["server"] \/ lost \/ Reset("client"))

(* A writer comes to rest. The server's always does, since it drops what   *)
(* it fails to write; the client's keeps the message and tries again, and  *)
(* rests only as long as the network holds and the server has not closed.  *)
WritersRest ==
    /\ []<>~in_progress["server"]
    /\ []<>(~in_progress["client"] \/ lost \/ Closed("server"))

(* The last chunk of an object file gets the wrapper its answer, if the    *)
(* compiler's output is UTF-8 and the network holds. With other output the *)
(* client never sees is_last_chunk and waits for ever.                     *)
LastChunkSeen ==
    (\E i \in DOMAIN sent["server"] :
        /\ sent["server"][i].content_case = "obj_file_chunk_transmit"
        /\ sent["server"][i].value.is_last_chunk = 1
        /\ Visible(sent["server"][i]) = sent["server"][i])
    ~> (answered \/ lost)
=============================================================================
