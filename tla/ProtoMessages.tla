--------------------------- MODULE ProtoMessages ---------------------------
(***************************************************************************)
(* The messages of the protocol and their wire format, from the generated  *)
(* classes of distbuild_messages.pb.cc. Each class has its own tables: the *)
(* tags its _InternalParse switches on, the fields its _InternalSerialize  *)
(* writes and its ByteSizeLong counts. The three must agree, and the       *)
(* length of an embedded message on the wire is the one ByteSizeLong has   *)
(* computed.                                                               *)
(*                                                                         *)
(* Bytes are naturals. Texts and numbers are short: a varint, and so a tag *)
(* and a length, is one byte below 128. Bad is a byte no UTF-8 text has.   *)
(***************************************************************************)
EXTENDS Naturals, Sequences, SequencesExt, FiniteSetsExt, EagerFold, TLC

Bad == 255
VerifyUTF8(text) == \A i \in DOMAIN text : text[i] # Bad

(* The kinds of fields.                                                    *)
Str(f) == [field |-> f, kind |-> "string"]
Bytes(f) == [field |-> f, kind |-> "bytes"]
Varint(f) == [field |-> f, kind |-> "varint"]
Strs(f) == [field |-> f, kind |-> "strings"]
Infos(f) == [field |-> f, kind |-> "messages"]

WireType(kind) == IF kind = "varint" THEN 0 ELSE 2

-----------------------------------------------------------------------------
(* The classes: the value the constructor and Clear() set, and the tables. *)

ResourceAdvMessage ==
    [server_uuid |-> <<>>, server_host |-> <<>>, server_port |-> 0, available_jobs |-> 0]
ResourceAdvMessage_InternalParse ==
    10 :> Str("server_uuid") @@ 18 :> Str("server_host")
        @@ 24 :> Varint("server_port") @@ 32 :> Varint("available_jobs")
ResourceAdvMessage_InternalSerialize ==
    << <<1, Str("server_uuid")>>, <<2, Str("server_host")>>,
       <<3, Varint("server_port")>>, <<4, Varint("available_jobs")>> >>
ResourceAdvMessage_ByteSizeLong ==
    {Str("server_uuid"), Str("server_host"), Varint("server_port"), Varint("available_jobs")}

FileInfo == [filename |-> <<>>, filesize |-> 0, filehash |-> <<>>]
FileInfo_InternalParse ==
    10 :> Str("filename") @@ 16 :> Varint("filesize") @@ 26 :> Bytes("filehash")
FileInfo_InternalSerialize ==
    << <<1, Str("filename")>>, <<2, Varint("filesize")>>, <<3, Bytes("filehash")>> >>
FileInfo_ByteSizeLong == {Str("filename"), Bytes("filehash"), Varint("filesize")}

ClientSessionStartRequest ==
    [client_id |-> <<>>, client_working_dir |-> <<>>, client_source_file |-> <<>>,
     client_compiler |-> <<>>, client_cmd_line_args |-> <<>>, client_idirs |-> <<>>,
     required_files_info |-> <<>>]
ClientSessionStartRequest_InternalParse ==
    10 :> Str("client_id") @@ 18 :> Str("client_working_dir")
        @@ 26 :> Str("client_source_file") @@ 34 :> Str("client_compiler")
        @@ 42 :> Strs("client_cmd_line_args") @@ 50 :> Strs("client_idirs")
        @@ 58 :> Infos("required_files_info")
ClientSessionStartRequest_InternalSerialize ==
    << <<1, Str("client_id")>>, <<2, Str("client_working_dir")>>,
       <<3, Str("client_source_file")>>, <<4, Str("client_compiler")>>,
       <<5, Strs("client_cmd_line_args")>>, <<6, Strs("client_idirs")>>,
       <<7, Infos("required_files_info")>> >>
ClientSessionStartRequest_ByteSizeLong ==
    {Strs("client_cmd_line_args"), Strs("client_idirs"), Infos("required_files_info"),
     Str("client_id"), Str("client_working_dir"), Str("client_source_file"),
     Str("client_compiler")}

ClientSessionAbortRequest == [session_id |-> <<>>, client_id |-> <<>>]
ClientSessionAbortRequest_InternalParse == 10 :> Str("session_id") @@ 18 :> Str("client_id")
ClientSessionAbortRequest_InternalSerialize == << <<1, Str("session_id")>>, <<2, Str("client_id")>> >>
ClientSessionAbortRequest_ByteSizeLong == {Str("session_id"), Str("client_id")}

ClientFileChunkUploadRequest ==
    [session_id |-> <<>>, filename |-> <<>>, sequence_no |-> 0, offset |-> 0,
     data |-> <<>>, is_last_chunk |-> 0]
ClientFileChunkUploadRequest_InternalParse ==
    10 :> Str("session_id") @@ 18 :> Str("filename") @@ 24 :> Varint("sequence_no")
        @@ 32 :> Varint("offset") @@ 42 :> Bytes("data") @@ 48 :> Varint("is_last_chunk")
ClientFileChunkUploadRequest_InternalSerialize ==
    << <<1, Str("session_id")>>, <<2, Str("filename")>>, <<3, Varint("sequence_no")>>,
       <<4, Varint("offset")>>, <<5, Bytes("data")>>, <<6, Varint("is_last_chunk")>> >>
ClientFileChunkUploadRequest_ByteSizeLong ==
    {Str("session_id"), Str("filename"), Bytes("data"), Varint("sequence_no"), Varint("offset"),
     Varint("is_last_chunk")}

ServerSessionConfirmedResponse == [session_id |-> <<>>, required_files |-> <<>>]
ServerSessionConfirmedResponse_InternalParse ==
    10 :> Str("session_id") @@ 18 :> Strs("required_files")
ServerSessionConfirmedResponse_InternalSerialize ==
    << <<1, Str("session_id")>>, <<2, Strs("required_files")>> >>
ServerSessionConfirmedResponse_ByteSizeLong == {Strs("required_files"), Str("session_id")}

ServerSessionAbortResponse == [session_id |-> <<>>, client_id |-> <<>>]
ServerSessionAbortResponse_InternalParse == 10 :> Str("session_id") @@ 18 :> Str("client_id")
ServerSessionAbortResponse_InternalSerialize == << <<1, Str("session_id")>>, <<2, Str("client_id")>> >>
ServerSessionAbortResponse_ByteSizeLong == {Str("session_id"), Str("client_id")}

ServerFileUpCompleteResponse == [session_id |-> <<>>, filename |-> <<>>, success |-> 0]
ServerFileUpCompleteResponse_InternalParse ==
    10 :> Str("session_id") @@ 18 :> Str("filename") @@ 24 :> Varint("success")
ServerFileUpCompleteResponse_InternalSerialize ==
    << <<1, Str("session_id")>>, <<2, Str("filename")>>, <<3, Varint("success")>> >>
ServerFileUpCompleteResponse_ByteSizeLong == {Str("session_id"), Str("filename"), Varint("success")}

ServerObjFileChunkResponse ==
    [session_id |-> <<>>, compiler_exit_code |-> 0, compiler_call_duration |-> 0,
     compiler_stdout |-> <<>>, compiler_stderr |-> <<>>, filesize |-> 0,
     is_last_chunk |-> 0, data |-> <<>>]
ServerObjFileChunkResponse_InternalParse ==
    10 :> Str("session_id") @@ 16 :> Varint("compiler_exit_code")
        @@ 24 :> Varint("compiler_call_duration") @@ 34 :> Str("compiler_stdout")
        @@ 42 :> Str("compiler_stderr") @@ 48 :> Varint("filesize")
        @@ 56 :> Varint("is_last_chunk") @@ 66 :> Bytes("data")
ServerObjFileChunkResponse_InternalSerialize ==
    << <<1, Str("session_id")>>, <<2, Varint("compiler_exit_code")>>,
       <<3, Varint("compiler_call_duration")>>, <<4, Str("compiler_stdout")>>,
       <<5, Str("compiler_stderr")>>, <<6, Varint("filesize")>>,
       <<7, Varint("is_last_chunk")>>, <<8, Bytes("data")>> >>
ServerObjFileChunkResponse_ByteSizeLong ==
    {Str("session_id"), Str("compiler_stdout"), Str("compiler_stderr"), Bytes("data"),
     Varint("compiler_exit_code"), Varint("compiler_call_duration"), Varint("filesize"),
     Varint("is_last_chunk")}

(* ClientMessage and ServerMessage hold one of several messages: the case  *)
(* that is set and its value.                                              *)
Class(new, parse, serialize, size) ==
    [new |-> new, parse |-> parse, serialize |-> serialize, size |-> size]

ContentNotSet == [content_case |-> "CONTENT_NOT_SET"]

Classes == [
    session_start |-> Class(ClientSessionStartRequest, ClientSessionStartRequest_InternalParse,
        ClientSessionStartRequest_InternalSerialize, ClientSessionStartRequest_ByteSizeLong),
    client_abort |-> Class(ClientSessionAbortRequest, ClientSessionAbortRequest_InternalParse,
        ClientSessionAbortRequest_InternalSerialize, ClientSessionAbortRequest_ByteSizeLong),
    file_chunk_upload |-> Class(ClientFileChunkUploadRequest,
        ClientFileChunkUploadRequest_InternalParse,
        ClientFileChunkUploadRequest_InternalSerialize, ClientFileChunkUploadRequest_ByteSizeLong),
    session_confirmed |-> Class(ServerSessionConfirmedResponse,
        ServerSessionConfirmedResponse_InternalParse,
        ServerSessionConfirmedResponse_InternalSerialize, ServerSessionConfirmedResponse_ByteSizeLong),
    server_abort |-> Class(ServerSessionAbortResponse, ServerSessionAbortResponse_InternalParse,
        ServerSessionAbortResponse_InternalSerialize, ServerSessionAbortResponse_ByteSizeLong),
    file_up_complete |-> Class(ServerFileUpCompleteResponse,
        ServerFileUpCompleteResponse_InternalParse,
        ServerFileUpCompleteResponse_InternalSerialize, ServerFileUpCompleteResponse_ByteSizeLong),
    obj_file_chunk_transmit |-> Class(ServerObjFileChunkResponse,
        ServerObjFileChunkResponse_InternalParse,
        ServerObjFileChunkResponse_InternalSerialize, ServerObjFileChunkResponse_ByteSizeLong)]

ClientMessage_InternalParse == 10 :> "session_start" @@ 18 :> "client_abort" @@ 26 :> "file_chunk_upload"
ClientMessage_InternalSerialize ==
    << <<1, "session_start">>, <<2, "client_abort">>, <<3, "file_chunk_upload">> >>
ClientMessage_ByteSizeLong == {"session_start", "client_abort", "file_chunk_upload"}

(* all_req_up_complete (field 4), which no server sends, is left out.      *)
ServerMessage_InternalParse ==
    10 :> "session_confirmed" @@ 18 :> "server_abort" @@ 26 :> "file_up_complete"
        @@ 42 :> "obj_file_chunk_transmit"
ServerMessage_InternalSerialize ==
    << <<1, "session_confirmed">>, <<2, "server_abort">>, <<3, "file_up_complete">>,
       <<5, "obj_file_chunk_transmit">> >>
ServerMessage_ByteSizeLong ==
    {"session_confirmed", "server_abort", "file_up_complete", "obj_file_chunk_transmit"}

Envelope(parse, serialize, size) == [parse |-> parse, serialize |-> serialize, size |-> size]
ClientMessage ==
    Envelope(ClientMessage_InternalParse, ClientMessage_InternalSerialize, ClientMessage_ByteSizeLong)
ServerMessage ==
    Envelope(ServerMessage_InternalParse, ServerMessage_InternalSerialize, ServerMessage_ByteSizeLong)

(* mutable_...(): another case is cleared, the same one is kept.           *)
Mutable(m, case) ==
    IF m.content_case = case THEN m ELSE [content_case |-> case, value |-> Classes[case].new]

-----------------------------------------------------------------------------
(* ByteSizeLong: fields that have their default value take no room.        *)

ScalarSize(kind, v) ==
    CASE kind = "varint"  -> IF v = 0 THEN 0 ELSE 2
      [] kind = "strings" -> FoldLeft(LAMBDA n, s : n + 2 + Len(s), 0, v)
      [] OTHER            -> IF v = <<>> THEN 0 ELSE 2 + Len(v)

FileInfoSize(info) ==
    MapThenSumSet(LAMBDA f : ScalarSize(f.kind, info[f.field]), FileInfo_ByteSizeLong)

ByteSizeLong(fields, m) ==
    MapThenSumSet(LAMBDA f : IF f.kind = "messages"
                             THEN FoldLeft(LAMBDA n, i : n + 2 + FileInfoSize(i), 0, m[f.field])
                             ELSE ScalarSize(f.kind, m[f.field]),
                  fields)

(* _InternalSerialize, in the order of its table.                          *)
Tagged(num, kind, payload) == <<8 * num + WireType(kind)>> \o payload
Delimited(s) == <<Len(s)>> \o s

PutScalar(num, kind, v) ==
    CASE kind = "varint"  -> IF v = 0 THEN <<>> ELSE Tagged(num, kind, <<v>>)
      [] kind = "strings" -> FoldLeft(LAMBDA out, s : out \o Tagged(num, kind, Delimited(s)), <<>>, v)
      [] OTHER            -> IF v = <<>> THEN <<>> ELSE Tagged(num, kind, Delimited(v))

PutFileInfo(info) ==
    FoldLeft(LAMBDA out, e : out \o PutScalar(e[1], e[2].kind, info[e[2].field]),
             <<>>, FileInfo_InternalSerialize)

Put(num, f, v) ==
    IF f.kind = "messages"
    THEN FoldLeft(LAMBDA out, i : out \o Tagged(num, f.kind, <<FileInfoSize(i)>> \o PutFileInfo(i)),
                  <<>>, v)
    ELSE PutScalar(num, f.kind, v)

InternalSerialize(table, m) ==
    FoldLeft(LAMBDA out, e : out \o Put(e[1], e[2], m[e[2].field]), <<>>, table)

(* SerializeToString of a ClientMessage or ServerMessage: the length of    *)
(* the content is its cached size.                                         *)
SerializeToString(E, m) ==
    LET class == Classes[m.content_case]
        size == IF m.content_case \in E.size THEN ByteSizeLong(class.size, m.value) ELSE 0
    IN  FoldLeft(LAMBDA out, e :
                     IF e[2] = m.content_case
                     THEN out \o Tagged(e[1], "message", <<size>> \o InternalSerialize(class.serialize, m.value))
                     ELSE out,
                 <<>>, E.serialize)

-----------------------------------------------------------------------------
(* _InternalParse. The state of the loop: the message so far, the position *)
(* in the buffer, whether the loop goes on, and whether it has failed.     *)

Loop(new) == [msg |-> new, at |-> 1, on |-> TRUE, ok |-> TRUE]
Failed(st) == [st EXCEPT !.on = FALSE, !.ok = FALSE]

(* A field's value, if it is all in the buffer.                            *)
Length(buf, at) == IF buf[at] % 8 = 2 THEN buf[at + 1] ELSE 0
Complete(buf, at) ==
    /\ at + 1 <= Len(buf)
    /\ at + 1 + Length(buf, at) <= Len(buf)
Value(buf, at) ==
    IF buf[at] % 8 = 2 THEN SubSeq(buf, at + 2, at + 1 + Length(buf, at)) ELSE buf[at + 1]
After(buf, at) == at + 2 + Length(buf, at)

(* A tag that is not in the switch: the end of a group or a zero ends the  *)
(* message, other fields are skipped.                                      *)
Unusual(buf, st) ==
    LET tag == buf[st.at] IN
    CASE tag = 0 \/ tag % 8 = 4                       -> [st EXCEPT !.on = FALSE]
      [] tag % 8 \in {0, 2} /\ Complete(buf, st.at)   -> [st EXCEPT !.at = After(buf, st.at)]
      [] OTHER                                        -> Failed(st)

(* One round of the loop. Store is what the case of the switch does: the   *)
(* message with the field in it, and whether its value was good, which is  *)
(* checked after it was stored.                                            *)
Stored(m, ok) == [msg |-> m, ok |-> ok]

Round(buf, table, st, Store(_, _, _)) ==
    IF ~st.on \/ st.at > Len(buf) THEN st
    ELSE IF buf[st.at] \notin DOMAIN table THEN Unusual(buf, st)
    ELSE IF ~Complete(buf, st.at) THEN Failed(st)
    ELSE LET new == Store(st.msg, table[buf[st.at]], Value(buf, st.at))
         IN  [st EXCEPT !.msg = new.msg, !.ok = new.ok, !.on = new.ok, !.at = After(buf, st.at)]

(* A field takes two bytes or more.                                        *)
Rounds(buf) == [i \in 1..((Len(buf) + 1) \div 2) |-> i]

StoreScalar(m, f, v) ==
    Stored([m EXCEPT ![f.field] = IF f.kind = "strings" THEN Append(@, v) ELSE v],
           f.kind \in {"string", "strings"} => VerifyUTF8(v))

ParseFileInfo(buf) ==
    FoldEager(LAMBDA st, i : Round(buf, FileInfo_InternalParse, st, StoreScalar),
             Loop(FileInfo), Rounds(buf))

StoreField(m, f, v) ==
    IF f.kind # "messages" THEN StoreScalar(m, f, v)
    ELSE LET info == ParseFileInfo(v)
         IN  Stored([m EXCEPT ![f.field] = Append(@, info.msg)], info.ok)

InternalParse(table, new, buf) ==
    FoldEager(LAMBDA st, i : Round(buf, table, st, StoreField), Loop(new), Rounds(buf))

StoreContent(m, case, v) ==
    LET there == Mutable(m, case)
        content == InternalParse(Classes[case].parse, there.value, v)
    IN  Stored([there EXCEPT !.value = content.msg], content.ok)

(* ParseFromArray into a new message. What was stored before a failure     *)
(* stays in the message.                                                   *)
ParseFromArray(E, buf) ==
    FoldEager(LAMBDA st, i : Round(buf, E.parse, st, StoreContent),
             Loop(ContentNotSet), Rounds(buf))

ParseAdvert(buf) == InternalParse(ResourceAdvMessage_InternalParse, ResourceAdvMessage, buf)

(* The copies the two handlers make of a chunk before they look at it.     *)
CopyClientFileChunk(from) ==
    [ClientFileChunkUploadRequest EXCEPT
        !.session_id = from.session_id, !.filename = from.filename, !.data = from.data,
        !.sequence_no = from.sequence_no, !.offset = from.offset,
        !.is_last_chunk = from.is_last_chunk]
(* The block of numbers is copied up to, but not with, its last member.    *)
CopyServerObjFileChunk_Short(from) ==
    [ServerObjFileChunkResponse EXCEPT
        !.session_id = from.session_id, !.compiler_stdout = from.compiler_stdout,
        !.compiler_stderr = from.compiler_stderr, !.data = from.data,
        !.compiler_exit_code = from.compiler_exit_code,
        !.compiler_call_duration = from.compiler_call_duration, !.filesize = from.filesize]
CopyServerObjFileChunk(from) ==
    [ServerObjFileChunkResponse EXCEPT
        !.session_id = from.session_id, !.compiler_stdout = from.compiler_stdout,
        !.compiler_stderr = from.compiler_stderr, !.data = from.data,
        !.compiler_exit_code = from.compiler_exit_code,
        !.compiler_call_duration = from.compiler_call_duration,
        !.filesize = from.filesize, !.is_last_chunk = from.is_last_chunk]
=============================================================================
