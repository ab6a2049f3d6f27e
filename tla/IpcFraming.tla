----------------------------- MODULE IpcFraming -----------------------------
(***************************************************************************)
(* The frames exchanged by the wrapper and the daemon over the Unix        *)
(* socket. Each program has its own copy of the functions: the wrapper     *)
(* writes requests and reads responses, the daemon the reverse.            *)
(*                                                                         *)
(* A byte is a digit below Base, a 32-bit number is four digits.           *)
(***************************************************************************)
EXTENDS Integers, Sequences, SequencesExt, EagerFold

CONSTANT Base

ASSUME BaseAssumption == Base \in Nat /\ Base > 1

Square == Base * Base
Cube == Square * Base
Width == Cube * Base

Request(cwd, args) == [current_working_dir |-> cwd, cmd_line_args |-> args]
Response(code, out, err) ==
    [compiler_exit_code |-> code, stdout_content |-> out, stderr_content |-> err]

-----------------------------------------------------------------------------
(* distbuild_wrapper.cpp                                                   *)

append_u32(out, value) ==
    out \o <<(value \div Cube) % Base, (value \div Square) % Base,
             (value \div Base) % Base, value % Base>>

read_u32(data, offset) ==
    data[offset + 1] * Cube + data[offset + 2] * Square
        + data[offset + 3] * Base + data[offset + 4]

append_string(out, s) == append_u32(out, Len(s)) \o s

(* The string at an offset, and the offset after it.                       *)
read_string(data, offset) ==
    LET len == read_u32(data, offset)
    IN  [s |-> SubSeq(data, offset + 5, offset + 4 + len), offset |-> offset + 4 + len]

serialize_request(req) ==
    FoldEager(append_string,
             append_u32(append_string(<<>>, req.current_working_dir), Len(req.cmd_line_args)),
             req.cmd_line_args)

(* static_cast<int> of the number read.                                    *)
ToInt(u) == IF u >= Width \div 2 THEN u - Width ELSE u

deserialize_response(data) ==
    LET out == read_string(data, 4)
        err == read_string(data, out.offset)
    IN  Response(ToInt(read_u32(data, 0)), out.s, err.s)

-----------------------------------------------------------------------------
(* unix_ipc_socket.hpp                                                     *)

_append_u32(out, value) ==
    out \o <<(value \div Cube) % Base, (value \div Square) % Base,
             (value \div Base) % Base, value % Base>>

_read_u32(data, offset) ==
    data[offset + 1] * Cube + data[offset + 2] * Square
        + data[offset + 3] * Base + data[offset + 4]

_append_string(out, s) == _append_u32(out, Len(s)) \o s

_read_string(data, offset) ==
    LET len == _read_u32(data, offset)
    IN  [s |-> SubSeq(data, offset + 5, offset + 4 + len), offset |-> offset + 4 + len]

_deserialize_request(data) ==
    LET cwd == _read_string(data, 0)
        argc == _read_u32(data, cwd.offset)
        ReadArg(st, i) ==
            LET arg == _read_string(data, st.offset)
            IN  [args |-> Append(st.args, arg.s), offset |-> arg.offset]
        read == FoldEager(ReadArg, [args |-> <<>>, offset |-> cwd.offset + 4], [i \in 1..argc |-> i])
    IN  Request(cwd.s, read.args)

(* The exit code is cast to 32 bits without a sign.                        *)
_serialize_response_Swapped(resp) ==
    _append_string(_append_string(_append_u32(<<>>, resp.compiler_exit_code % Width),
                                  resp.stderr_content),
                   resp.stdout_content)

_serialize_response(resp) ==
    _append_string(_append_string(_append_u32(<<>>, resp.compiler_exit_code % Width),
                                  resp.stdout_content),
                   resp.stderr_content)
=============================================================================
