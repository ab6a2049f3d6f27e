---------------------------- MODULE WrapperCall ----------------------------
(***************************************************************************)
(* One call of the compiler wrapper, from its command line to its exit     *)
(* code: the wrapper process, the daemon's Unix socket, the coroutine of   *)
(* the daemon that serves the wrapper, and the commands that are run for   *)
(* it on the server or on the client. The wrapper may be killed and the    *)
(* daemon may stop and start again at any time.                            *)
(*                                                                         *)
(* The session between client and server is an action here: ClientDaemon,  *)
(* ServerSessions and Connection are about it.                             *)
(***************************************************************************)
EXTENDS IpcFraming, CompilerCall, DepFiles

CONSTANTS
    Calls,      \* the command lines a build may start the wrapper with
    Cwd,        \* the directory it is started in
    Text,       \* the bytes of a directory or an argument
    Verbose,    \* those whose compiler or linker may print more than a pipe holds
    Files,      \* the names under which the daemon finds a file, from its own directory
    Headers(_), \* the headers of a source, in the order they are found
    Spelling(_),\* the characters of a path
    Installed,  \* the compilers on the client
    ExitCodes,  \* the exit codes of a compiler
    Output,     \* what a compiler prints: [out, err], by the place it runs
    Cuts,       \* how many bytes of a frame may be left when a write is cut
    Starts,     \* how often the daemon is started
    None

(* Different words have different bytes, and a cut leaves some number of   *)
(* them.                                                                   *)
ASSUME TextAssumption ==
    /\ Path(Cwd) \in DOMAIN Text
    /\ \A args \in Calls : args \in Seq(DOMAIN Text)
    /\ Verbose \subseteq Calls
    /\ \A a, b \in DOMAIN Text : Text[a] = Text[b] => a = b
    /\ Cuts \subseteq Nat

(* Exit codes are ints, and a response has a length of 32 bits.            *)
ASSUME OutputAssumption ==
    /\ ExitCodes \subseteq Int
    /\ \A code \in ExitCodes : 0 - Width \div 2 <= code /\ code < Width \div 2
    /\ \A place \in {"server", "session", "client"} :
        /\ Output[place].out \in Seq(Nat) /\ Output[place].err \in Seq(Nat)
        /\ 12 + Len(Output[place].out) + Len(Output[place].err) < Width

(* A file's name may be relative: initialize_compiler_call keeps a source  *)
(* as it was typed, and the headers beside it are found by such names too. *)
(* Headers are files, and no system file is below the server's directory.  *)
ASSUME PathAssumption ==
    /\ ServerDir \in Seq(STRING)
    /\ \A f \in Files : /\ f \in Seq(STRING)
                        /\ is_system_path(f) => ~IsPrefix(ServerDir, f)
    /\ \A src \in Files : \A i \in DOMAIN Headers(src) : Headers(src)[i].path \in Files

VARIABLES
    argv,       \* the wrapper's command line
    wrapper,    \* "start", "writing", "reading", "exited", "killed"
    daemon,     \* whether the daemon listens, and how often it was started
    session,    \* the state of _handle_session: "hung" in a compiler that is never
                \* read, "stuck" waiting for a session that never answers
    active,     \* _active_connections
    rest,       \* bytes the wrapper has not yet written
    up,         \* bytes from the wrapper: written and not yet read
    down,       \* bytes from the daemon: written and not yet read
    request,    \* the request the daemon has read, or None
    call,       \* its CompilerCall
    remote,     \* the command the server runs, and the name it asks for each file by
    depfile,    \* the dependency file of the call, or None
    response,   \* the response of the handler, or None
    ran,        \* history: the commands that were run
    exit        \* what the wrapper has printed and returned, or None

vars == <<argv, wrapper, daemon, session, active, rest, up, down, request, call, remote,
          depfile, response, ran, exit>>

(* What only the wrapper, and only the session, changes.                   *)
wrapperVars == <<argv, wrapper, rest, exit>>
sessionVars == <<session, active, down, request, call, remote, depfile, response, ran>>

Init ==
    /\ argv \in Calls
    /\ wrapper = "start"
    /\ daemon = [up |-> FALSE, starts |-> 0]
    /\ session = "none" /\ active = 0
    /\ rest = <<>> /\ up = <<>> /\ down = <<>>
    /\ request = None /\ call = None /\ remote = None /\ depfile = None /\ response = None
    /\ ran = <<>> /\ exit = None

-----------------------------------------------------------------------------
(* The wrapper.                                                            *)

Texts(args) == [i \in DOMAIN args |-> Text[args[i]]]
Asked == Request(Text[Path(Cwd)], Texts(argv))
FramedRequest == append_u32(<<>>, Len(serialize_request(Asked))) \o serialize_request(Asked)

Exit(resp) == wrapper' = "exited" /\ exit' = resp

(* What send_request_to_distbuild returns after an exception.              *)
Broken == Response(1, <<>>, <<0>>)

(* main() refuses a command line without an argument after the compiler.   *)
main ==
    /\ wrapper = "start"
    /\ IF Len(argv) < 2 THEN Exit(Response(1, <<>>, <<>>)) /\ UNCHANGED <<up, rest>>
       ELSE IF ~daemon.up THEN Exit(Broken) /\ UNCHANGED <<up, rest>>
       ELSE /\ wrapper' = "writing"
            /\ \E left \in Cuts \cup {0} :
                LET n == Len(FramedRequest) - left IN
                /\ n > 0
                /\ up' = SubSeq(FramedRequest, 1, n)
                /\ rest' = SubSeq(FramedRequest, n + 1, Len(FramedRequest))
            /\ UNCHANGED exit
    /\ UNCHANGED <<argv, daemon, sessionVars>>

(* The connection is closed by its session, or by the end of the daemon.   *)
PeerGone == session = "closed"

WriteRest ==
    /\ wrapper = "writing"
    /\ IF PeerGone /\ rest # <<>>
       THEN Exit(Broken) /\ UNCHANGED up
       ELSE wrapper' = "reading" /\ up' = up \o rest /\ UNCHANGED exit
    /\ rest' = <<>>
    /\ UNCHANGED <<argv, daemon, sessionVars>>

Whole(bytes, n) == Len(bytes) >= 4 /\ Len(bytes) >= 4 + n

ReadResponse ==
    /\ wrapper = "reading"
    /\ \/ /\ down # <<>> /\ Whole(down, read_u32(down, 0))
          /\ Exit(deserialize_response(SubSeq(down, 5, 4 + read_u32(down, 0))))
       \/ /\ down = <<>> /\ PeerGone
          /\ Exit(Broken)
    /\ UNCHANGED <<argv, rest, daemon, up, sessionVars>>

Killed ==
    /\ wrapper \in {"start", "writing", "reading"}
    /\ wrapper' = "killed"
    /\ UNCHANGED <<argv, rest, exit, daemon, up, sessionVars>>

-----------------------------------------------------------------------------
(* The daemon. start_ipc_manager removes the socket a dead daemon has left *)
(* and binds a new one; a stop takes the connection with it.               *)

start_ipc_manager ==
    /\ ~daemon.up /\ daemon.starts < Starts
    /\ daemon' = [up |-> TRUE, starts |-> daemon.starts + 1]
    /\ UNCHANGED <<wrapperVars, up, sessionVars>>

Connected == up # <<>> \/ session # "none"

stop_ipc_manager ==
    /\ daemon.up
    /\ daemon' = [daemon EXCEPT !.up = FALSE]
    /\ session' = IF Connected THEN "closed" ELSE session
    /\ active' = 0
    /\ UNCHANGED <<wrapperVars, up, down, request, call, remote, depfile, response, ran>>

accept_loop ==
    /\ daemon.up /\ up # <<>>
    /\ session = "none" /\ session' = "accepted"
    /\ active' = active + 1
    /\ UNCHANGED <<wrapperVars, daemon, up, down, request, call, remote, depfile, response, ran>>

Untext(bytes) == CHOOSE arg \in DOMAIN Text : Text[arg] = bytes
UntextAll(texts) == [i \in DOMAIN texts |-> Untext(texts[i])]

ReadRequest ==
    /\ session = "accepted"
    /\ LET size == IF Len(up) >= 4 THEN _read_u32(up, 0) ELSE 0 IN
       \/ /\ Whole(up, size)
          /\ request' = _deserialize_request(SubSeq(up, 5, 4 + size))
          /\ session' = "handling"
       \/ /\ ~Whole(up, size) /\ wrapper = "killed"
          /\ session' = "failed"
          /\ UNCHANGED request
    /\ UNCHANGED <<wrapperVars, daemon, active, up, down, call, remote, depfile, response, ran>>

(* _handle_ipc_request: what initialize_compiler_call returns is not used. *)
Classify ==
    /\ session = "handling"
    /\ \E args \in {UntextAll(request.cmd_line_args)} :
        call' = initialize_compiler_call(Untext(request.current_working_dir).path, args)
    /\ session' = IF call'.type = "COMPILE" THEN "connecting" ELSE "local"
    /\ UNCHANGED <<wrapperVars, daemon, active, up, down, request, remote, depfile, response, ran>>

(* The files a session declares, and the name by which a server that has   *)
(* none of them asks for each.                                             *)
Declared(src) == {src} \cup {Headers(src)[i].path : i \in DOMAIN Headers(src)}
AskedFor(src) ==
    [f \in Declared(src) |->
        cnvt_server_to_client_path(ServerDir, cnvt_client_to_server_path(ServerDir, f))]

(* connect_to_server: file_size() throws if the daemon finds no source     *)
(* file by the name that was typed.                                        *)
connect_to_server ==
    /\ session = "connecting"
    /\ IF call.src \in Files
       THEN session' = "remote" /\ remote' = [cmd |-> preprocess_compiler_call(call), files |-> AskedFor(call.src)]
       ELSE session' = "failed" /\ UNCHANGED remote
    /\ UNCHANGED <<wrapperVars, daemon, active, up, down, request, call, depfile, response, ran>>

Run(where, cwd, args, code) ==
    ran' = Append(ran, [where |-> where, cwd |-> cwd, args |-> args, code |-> code])

(* The last object chunk arrives: _process_obj_file_chunk gives the        *)
(* response its stderr where the constructor takes the stdout.             *)
process_obj_file_chunk(code) ==
    response' = Response(code, Output["server"].err, Output["server"].out)

(* Whoever runs a compiler waits for it before reading its pipes: if it    *)
(* fills one, neither ends.                                                *)
FillsPipe == argv \in Verbose /\ session' = "hung" /\ UNCHANGED <<ran, response>>

(* The server compiles when it has every file under its declared name.     *)
RemoteAnswers ==
    /\ session = "remote" /\ \A f \in DOMAIN remote.files : remote.files[f] = f
    /\ \/ /\ session' = "dispose"
          /\ \E code \in ExitCodes :
              /\ Run("server", remote.cmd.cwd, remote.cmd.args, code)
              /\ process_obj_file_chunk(code)
       \/ FillsPipe
    /\ UNCHANGED <<wrapperVars, daemon, active, up, down, request, call, remote, depfile>>

(* The server asks for a file by a name that is not the declared one. If   *)
(* there is no such file, nothing is sent and the session locks up; and if *)
(* there is one, the server awaits the declared file all the same.         *)
_send_required_file ==
    /\ session = "remote" /\ \E f \in DOMAIN remote.files : remote.files[f] # f
    /\ session' = "stuck"
    /\ UNCHANGED <<wrapperVars, daemon, active, up, down, request, call, remote, depfile, response,
                   ran>>

(* The session gives up: the client compiles with the arguments that       *)
(* initialize_compiler_call has kept. A compiler that is not installed     *)
(* raises an exception: _handle_client_session swallows it, so that no     *)
(* response is ever published, and connect_to_server does not.             *)
perform_local_compilation ==
    /\ session = "remote"
    /\ \/ /\ call.compiler \in Installed /\ session' = "dispose"
          /\ \E code \in ExitCodes :
              /\ Run("session", call.cwd, call.args, code)
              /\ response' = Response(code, Output["session"].out, Output["session"].err)
       \/ call.compiler \in Installed /\ FillsPipe
       \/ /\ call.compiler \notin Installed /\ session' \in {"stuck", "failed"}
          /\ UNCHANGED <<ran, response>>
    /\ UNCHANGED <<wrapperVars, daemon, active, up, down, request, call, remote, depfile>>

(* A compilation that failed is done again on the client.                  *)
Dispose_Trusting(resp) == "reply"

Dispose(resp) == IF resp.compiler_exit_code # 0 THEN "local" ELSE "reply"

Conclude ==
    /\ session = "dispose"
    /\ session' = Dispose(response)
    /\ UNCHANGED <<wrapperVars, daemon, active, up, down, request, call, remote, depfile, response,
                   ran>>

(* The command line as the wrapper has sent it, run by the daemon.         *)
RunHere ==
    /\ session = "local"
    /\ \E args \in {UntextAll(request.cmd_line_args)} :
       \/ /\ args[1].path \in Installed /\ session' = "reply"
          /\ \E code \in ExitCodes :
              /\ Run("client", Untext(request.current_working_dir).path, Tail(args), code)
              /\ response' = Response(code, Output["client"].out, Output["client"].err)
       \/ args[1].path \in Installed /\ FillsPipe
       \/ args[1].path \notin Installed /\ session' = "failed" /\ UNCHANGED <<ran, response>>
    /\ UNCHANGED <<wrapperVars, daemon, active, up, down, request, call, remote, depfile>>

Close_OnlyAnswered ==
    /\ session' = IF session = "failed" THEN "failed" ELSE "closed"
    /\ active' = IF session = "failed" THEN active ELSE active - 1
Close == session' = "closed" /\ active' = active - 1

(* The end of _handle_session: the response is written if the wrapper is   *)
(* there to read it, and the socket is closed whatever has happened.       *)
Reply ==
    /\ session \in {"reply", "failed"}
    /\ IF session = "reply" /\ wrapper # "killed"
       THEN LET data == _serialize_response(response)
            IN  down' = _append_u32(<<>>, Len(data)) \o data
       ELSE UNCHANGED down
    /\ Close
    /\ UNCHANGED <<wrapperVars, daemon, up, request, call, remote, depfile, response, ran>>

(* A source that cannot be read has no headers.                            *)
SpelledHeaders ==
    [i \in (IF call.src \in Files THEN DOMAIN Headers(call.src) ELSE {}) |->
        LET header == Headers(call.src)[i] IN [name |-> Spelling(header.path), system |-> header.system]]

(* The daemon's test of dependency files hands it a call. The constructor  *)
(* of CompilerCall leaves the three flags uninitialised: any of them may   *)
(* be set without its option.                                              *)
test_handle_compiler_call ==
    /\ call # None /\ depfile = None /\ ~call.done
    /\ \E garbage \in SUBSET {"-MD", "-MMD", "-MP"} :
        LET flags == call.flags \cup garbage IN
        /\ is_depfile_needed(call.mf # <<>>, flags)
        /\ depfile' = [flags |-> flags,
                       bytes |-> generate_dep_file([i \in DOMAIN call.mt |->
                                                        <<call.mt[i][1], Spelling(call.mt[i][2])>>],
                                                   Spelling(call.out), Spelling(call.src),
                                                   SpelledHeaders, flags)]
    /\ UNCHANGED <<wrapperVars, daemon, session, active, up, down, request, call, remote, response,
                   ran>>

-----------------------------------------------------------------------------
Wrapper == main \/ WriteRest \/ ReadResponse
handle_session ==
    \/ ReadRequest \/ Classify \/ connect_to_server \/ RemoteAnswers \/ _send_required_file
    \/ perform_local_compilation \/ Conclude \/ RunHere \/ Reply

Next ==
    \/ Wrapper \/ Killed
    \/ start_ipc_manager \/ stop_ipc_manager \/ accept_loop \/ handle_session
    \/ test_handle_compiler_call

(* The wrapper runs, the daemon's threads run its coroutines, a compiler   *)
(* that fills no pipe ends, and a session with a server that has the files *)
(* gets a result or gives up (ClientDaemon is about those that get none);  *)
(* nobody has to start a daemon.                                           *)
Spec ==
    /\ Init /\ [][Next]_vars
    /\ WF_vars(Wrapper) /\ WF_vars(accept_loop) /\ WF_vars(handle_session)

-----------------------------------------------------------------------------
(* What a command line asks for, run in a directory: the directories and   *)
(* files its options name, absolute, and everything else in order.         *)

Once(s) == FoldEager(LAMBDA out, x : IF Contains(out, x) THEN out ELSE Append(out, x), <<>>, s)

PathOptions == {"-isystem", "-iquote", "-include", "-MF"}

Meaning(cwd, args) ==
    LET Preceding(i) == IF i = 1 THEN "" ELSE args[i - 1].option
        Named(option) ==
            Once(FlattenSeq([i \in DOMAIN args |->
                    IF Preceding(i) = option THEN <<get_abs_path(cwd, args[i].path)>> ELSE <<>>]))
        Skipped == {i \in DOMAIN args :
                        args[i].option \in PathOptions \cup {"-o", "-I"}
                            \/ Preceding(i) \in PathOptions \cup {"-o"}}
        Input(i) == ~IsOption(args[i]) /\ (is_src_file(args[i]) \/ is_header_file(args[i]))
    IN  [dash_i |-> FlattenSeq([i \in DOMAIN args |->
                        IF args[i].option = "-I" THEN <<get_abs_path(cwd, args[i].path)>> ELSE <<>>]),
         named |-> [option \in PathOptions |-> Named(option)],
         inputs |-> {get_abs_path(cwd, args[i].path) : i \in {k \in DOMAIN args \ Skipped : Input(k)}},
         others |-> FlattenSeq([i \in DOMAIN args |->
                        IF i \in Skipped \/ Input(i) THEN <<>> ELSE <<args[i]>>])]

Moved(path) == IF is_system_path(path) THEN path ELSE ServerDir \o Tail(path)
MovedAll(paths) == [i \in DOMAIN paths |-> Moved(paths[i])]
MovedMeaning(m) ==
    [m EXCEPT !.dash_i = MovedAll(@),
              !.named = [option \in PathOptions |-> MovedAll(m.named[option])],
              !.inputs = {Moved(p) : p \in @}]

(* The commands the server is able to repeat: one source file, and no      *)
(* other word, an option's value included, that ends like a source or in   *)
(* -o, or is an absolute path.                                             *)
Dropped(arg) == is_src_file(arg) \/ ends_with_dash_o(arg)
Plain(m) ==
    /\ \A i \in DOMAIN m.others :
        ~Dropped(m.others[i]) /\ (IsOption(m.others[i]) \/ ~IsAbsolute(m.others[i].path))
    /\ \A option \in PathOptions : \A path \in Range(m.named[option]) : ~Dropped(Path(path))
    /\ Cardinality(m.inputs) = 1

(* Whether what is run somewhere is the command line the user has given.   *)
Repeats(args, where, cwd, words) ==
    LET asked == Meaning(Cwd, Tail(args)) IN
    CASE where = "client"  -> cwd = Cwd /\ words = Tail(args)
      [] where = "server"  -> Plain(asked) => Meaning(cwd, words) = MovedMeaning(asked)
      [] where = "session" -> Meaning(cwd, words) = [asked EXCEPT !.dash_i = <<>>]

SameCall(r) == Repeats(argv, r.where, r.cwd, r.args)

(* What the session relies on of the functions on command lines, for the   *)
(* command lines at hand: the daemon reads the request that the wrapper    *)
(* has written, and the server and a session that gives up run the user's  *)
(* command.                                                                *)
RequestsReadBack ==
    \A args \in Calls :
        LET req == Request(Text[Path(Cwd)], Texts(args))
            data == serialize_request(req)
        IN  data \in Seq(Nat) /\ Len(data) < Width /\ _deserialize_request(data) = req
CommandsKept ==
    \A args \in Calls :
        LET c == initialize_compiler_call(Cwd, args)
            cmd == preprocess_compiler_call(c)
        IN  c.type = "COMPILE" /\ c.src \in Files =>
                /\ Repeats(args, "server", cmd.cwd, cmd.args)
                /\ Repeats(args, "session", c.cwd, c.args)

(* The wrapper returns 0 only if the last command that was run for it      *)
(* succeeded and was the user's: on the client, the command line itself;   *)
(* on the server, if the command line is Plain, the same options and       *)
(* include directories, with every path below the client's directory; in a *)
(* session that has given up, the command without its -I options, which    *)
(* initialize_compiler_call does not keep.                                 *)
(* A compiler's failure reaches the wrapper only after the user's command  *)
(* line has itself failed on the client: what a server or a session made   *)
(* of it is never the reason.                                              *)
ExitCodeSpeaksOfCall ==
    /\ exit # None /\ exit.compiler_exit_code = 0 =>
        ran # <<>> /\ Last(ran).code = 0 /\ SameCall(Last(ran))
    /\ exit # None /\ exit.compiler_exit_code # 0 /\ down # <<>> =>
        /\ Last(ran).where = "client" /\ SameCall(Last(ran))
        /\ Last(ran).code = exit.compiler_exit_code

(* The two copies of the framing agree: the daemon handles the directory   *)
(* and the arguments the wrapper was started with, however the frame was   *)
(* cut, and the wrapper prints and returns what the daemon answered.       *)
FramingAgrees ==
    /\ request # None => request = Asked
    /\ exit # None /\ down # <<>> => exit = response

(* A server asks for a file by the path the client has declared it with,   *)
(* so that _send_required_file finds it and the server marks it as there,  *)
(* exactly if that path is absolute. connect_to_server's "all paths should *)
(* be converted to absolute paths" is not done: a source that was typed    *)
(* relative, and the headers beside it, are asked for by other names.      *)
AskedIsDeclared ==
    remote # None => \A f \in DOMAIN remote.files : remote.files[f] = f <=> IsAbsolute(f)

(* A dependency file read back gives the source and the headers it was     *)
(* written for, without those of the system under -MMD, under the target   *)
(* of the call, provided no name has a blank, a dollar or a backslash: the *)
(* writer escapes those twice.                                             *)
DepFileReadsBack ==
    depfile # None =>
        LET names == <<[name |-> Spelling(call.src), system |-> FALSE]>> \o SpelledHeaders
            kept == SelectSeq(names, LAMBDA h : ~("-MMD" \in depfile.flags /\ h.system))
            clean == \A i \in DOMAIN names :
                        {names[i].name[k] : k \in DOMAIN names[i].name} \cap {" ", "\t", "$", "\\"} = {}
            target == IF call.mt = <<>> THEN Spelling(call.out) ELSE Spelling(call.mt[1][2])
        IN  clean /\ Len(call.mt) <= 1 /\ target # <<>> /\ call.src # <<>> =>
                find_dep_list_by_target_name(parse_dep_file_contents(depfile.bytes), target)
                    = [i \in DOMAIN kept |-> kept[i].name]

(* The wrapper exits, because the socket is closed whatever exception the  *)
(* daemon's coroutine meets and whenever the daemon stops. Three kinds of  *)
(* command lines are exempt: those whose compiler or linker may fill a     *)
(* pipe, and the compilations that wait for a session which never answers, *)
(* because the server asks for a file by another name than the declared    *)
(* one, or because a session that gives up finds no compiler.              *)
Answerable ==
    {args \in Calls \ Verbose :
        LET c == initialize_compiler_call(Cwd, args) IN
        c.type = "COMPILE" /\ c.src \in Files =>
            c.compiler \in Installed /\ \A f \in Declared(c.src) : IsAbsolute(f)}
WrapperExits == argv \in Answerable => <>(wrapper \in {"exited", "killed"})

(* The names of UnixIpcResponse's members and of the parameters of its     *)
(* constructor: what a compiler has written to stdout is printed on stdout *)
(* and what it has written to stderr on stderr.                            *)
StreamsInPlace ==
    exit # None /\ down # <<>> =>
        /\ exit.stdout_content = Output[Last(ran).where].out
        /\ exit.stderr_content = Output[Last(ran).where].err
=============================================================================
