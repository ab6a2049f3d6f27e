---------------------------- MODULE MCConnection ----------------------------
(* Two adverts, a clean request and one whose last argument is not UTF-8,  *)
(* one file of two chunks, a failed compilation, an object file of two     *)
(* chunks, and a compilation whose output is not UTF-8.                    *)
EXTENDS Connection

Advert(jobs) ==
    [ResourceAdvMessage EXCEPT !.server_uuid = <<1>>, !.server_host = <<2, 3>>,
        !.server_port = 9, !.available_jobs = jobs]
MCAdverts == {Advert(0), Advert(2)}

Info(name) == [FileInfo EXCEPT !.filename = name, !.filesize = 4, !.filehash = <<Bad, 8>>]
Request ==
    [ClientSessionStartRequest EXCEPT !.client_id = ClientId, !.client_working_dir = <<20>>,
        !.client_source_file = <<21>>, !.client_compiler = <<22>>,
        !.client_cmd_line_args = << <<30>>, <<31, 32>> >>, !.client_idirs = << <<33>> >>,
        !.required_files_info = << Info(<<21>>), Info(<<23>>) >>]
MCRequests == {Request, [Request EXCEPT !.required_files_info[2].filename = <<Bad, 23>>]}

MCRequired == { << <<21>> >> }

FileChunk(n, last) ==
    [ClientFileChunkUploadRequest EXCEPT !.session_id = SessionId, !.filename = <<21>>,
        !.sequence_no = n, !.offset = 2 * (n - 1), !.data = <<Bad, n>>, !.is_last_chunk = last]
MCFileChunks == <<FileChunk(1, 0), FileChunk(2, 1)>>

ObjChunk(code, last, err, data) ==
    [ServerObjFileChunkResponse EXCEPT !.session_id = SessionId, !.compiler_exit_code = code,
        !.compiler_call_duration = 3, !.compiler_stderr = err, !.filesize = Len(data),
        !.is_last_chunk = last, !.data = data]
MCResults == {
    <<ObjChunk(1, 1, <<40>>, <<>>)>>,
    <<ObjChunk(0, 0, <<>>, <<60>>), ObjChunk(0, 1, <<41>>, <<61, Bad>>)>>,
    <<ObjChunk(0, 1, <<42, Bad>>, <<62>>)>> }

(* The classes read back the messages of this instance.                    *)
ASSUME ClassesReadBack == PayloadsReadBack /\ AdvertsReadBack
=============================================================================
