---------------------------- MODULE CompilerCall ----------------------------
(***************************************************************************)
(* How a command line is taken apart by the client and put together again  *)
(* by the server: CompilerCall::initialize_compiler_call, the arguments of *)
(* the session_start request, ServerSession::preprocess_compiler_call and  *)
(* the conversion of paths between the two machines.                       *)
(*                                                                         *)
(* A path is the sequence of its components, after "/" if it is absolute.  *)
(* An argument is an option, a path, or both: an option with the value     *)
(* that is joined to it, like -I or -DNAME= with what follows.             *)
(***************************************************************************)
EXTENDS Naturals, Sequences, SequencesExt, EagerFold

CONSTANTS
    Suffix(_),          \* how a last component ends: the suffix of a file, or -o
    Begins(_, _),       \* whether a component begins with some characters
    SupportedCompilers, \* SUPPORTED_COMPILERS
    ServerDir,          \* the directory the server keeps for this client
    ObjStore            \* the object file the server names for the session

Opt(option) == [option |-> option, path |-> <<>>]
Path(path) == [option |-> "", path |-> path]
DashI(path) == [option |-> "-I", path |-> path]

IsOption(arg) == arg.option # ""
IsAbsolute(path) == path # <<>> /\ path[1] = "/"
Ends(path, suffixes) == path # <<>> /\ Suffix(Last(path)) \in suffixes

is_header_file(arg) == Ends(arg.path, {".h", ".hpp", ".hh", ".inc", ".hxx"})
is_src_file(arg) == Ends(arg.path, {".c", ".cc", ".cpp", ".cxx"})
is_for_linking(arg) == Ends(arg.path, {".o", ".a", ".so", ".dll"})
ends_with_dash_o(arg) == IF arg.path = <<>> THEN arg.option = "-o" ELSE Ends(arg.path, {"-o"})

get_abs_path(current_dir, path) == IF IsAbsolute(path) THEN path ELSE current_dir \o path

-----------------------------------------------------------------------------
(* The client: one pass over the arguments. Done holds when the function   *)
(* has returned before the end, and skip when an option has taken the next *)
(* argument.                                                               *)

NoCall(cwd) == [
    compiler |-> <<>>, type |-> "COUNT", cwd |-> cwd, src |-> <<>>, out |-> <<>>, args |-> <<>>,
    dash_i |-> <<>>, dash_isystem |-> <<>>, dash_iquote |-> <<>>, dash_include |-> <<>>,
    mf |-> <<>>, mt |-> <<>>, flags |-> {}, done |-> FALSE, skip |-> FALSE]

Push(call, arg) == [call EXCEPT !.args = Append(@, arg)]

Compiler(call, arg) ==
    IF arg.path \in SupportedCompilers THEN [call EXCEPT !.compiler = arg.path]
                                       ELSE [call EXCEPT !.done = TRUE]

(* Options that take the next argument: they fail without one.             *)
TakesNext == {"-isystem", "-iquote", "-include", "-o", "-MF", "-MT", "-MQ"}

WithNext(call, option, next) ==
    LET abs == get_abs_path(call.cwd, next.path)
        kept == IF option \in {"-isystem", "-iquote", "-include", "-MF"} THEN Path(abs) ELSE next
        taken == [Push(Push(call, Opt(option)), kept) EXCEPT !.skip = TRUE]
    IN  CASE option = "-isystem" -> [taken EXCEPT !.dash_isystem = Append(@, abs)]
          [] option = "-iquote"  -> [taken EXCEPT !.dash_iquote = Append(@, abs)]
          [] option = "-include" -> [taken EXCEPT !.dash_include = Append(@, abs)]
          [] option = "-o"       -> [taken EXCEPT !.out = next.path]
          [] option = "-MF"      -> [taken EXCEPT !.mf = @ \o abs]
          [] OTHER               -> [taken EXCEPT !.mt = Append(@, <<option, next.path>>)]

Option(call, arg, next) ==
    CASE arg.option = "-I" ->
            [call EXCEPT !.dash_i = Append(@, get_abs_path(call.cwd, arg.path))]
      [] arg.option \in TakesNext /\ next # <<>> -> WithNext(call, arg.option, next[1])
      [] arg.option \in TakesNext /\ next = <<>> ->
            [Push(call, arg) EXCEPT !.type = "COUNT", !.done = TRUE]
      [] arg.option \in {"-MD", "-MMD", "-MP"} ->
            [Push(call, arg) EXCEPT !.flags = @ \cup {arg.option}]
      [] OTHER -> Push(call, arg)

File(call, arg) ==
    CASE is_src_file(arg) \/ is_header_file(arg) -> [Push(call, arg) EXCEPT !.src = arg.path]
      [] is_for_linking(arg)                     -> [Push(call, arg) EXCEPT !.type = "LINK"]
      [] OTHER                                   -> Push(call, arg)

initialize_compiler_call(cwd, args) ==
    LET get_next_arg(i) == IF i < Len(args) THEN <<args[i + 1]>> ELSE <<>>
        Visit(call, i) ==
            CASE call.done         -> call
              [] call.skip         -> [call EXCEPT !.skip = FALSE]
              [] i = 1             -> Compiler(call, args[i])
              [] IsOption(args[i]) -> Option(call, args[i], get_next_arg(i))
              [] OTHER             -> File(call, args[i])
        call == FoldEager(Visit, NoCall(cwd), [i \in DOMAIN args |-> i])
    IN  IF ~call.done /\ Ends(call.out, {".o"}) THEN [call EXCEPT !.type = "COMPILE"] ELSE call

(* CmdLineIncludeDirs::cnvt_to_cmd_line_args                               *)
Pairs(option, paths) ==
    FoldEager(LAMBDA out, p : out \o <<Opt(option), Path(p)>>, <<>>, paths)

cnvt_to_cmd_line_args(call) ==
    [i \in DOMAIN call.dash_i |-> DashI(call.dash_i[i])]
        \o Pairs("-iquote", call.dash_iquote) \o Pairs("-isystem", call.dash_isystem)
        \o Pairs("-include", call.dash_include)

-----------------------------------------------------------------------------
(* Paths on the two machines.                                              *)

is_system_path(path) ==
    /\ IsAbsolute(path)
    /\ \/ Len(path) > 2 /\ path[2] = "usr" /\ \E sys \in {"src", "local"} : Begins(path[3], sys)
       \/ Len(path) > 1 /\ Begins(path[2], "Library")

relative_path(path) == IF IsAbsolute(path) THEN Tail(path) ELSE path

cnvt_client_to_server_path(dir, path) ==
    IF is_system_path(path) THEN path ELSE dir \o relative_path(path)

(* The directory ends in a UUID, which is the beginning of no other name.  *)
cnvt_server_to_client_path_NoRoot(dir, path) ==
    IF IsPrefix(dir, path) THEN SubSeq(path, Len(dir) + 1, Len(path)) ELSE path

cnvt_server_to_client_path(dir, path) ==
    IF IsPrefix(dir, path) THEN <<"/">> \o SubSeq(path, Len(dir) + 1, Len(path)) ELSE path

-----------------------------------------------------------------------------
(* The server: preprocess_compiler_call.                                   *)

Idirs(idirs) ==
    [i \in DOMAIN idirs |->
        CASE idirs[i].option = "-I" -> DashI(cnvt_client_to_server_path(ServerDir, idirs[i].path))
          [] IsOption(idirs[i])     -> idirs[i]
          [] OTHER                  -> Path(cnvt_client_to_server_path(ServerDir, idirs[i].path))]

(* The loop over the other arguments: what ends like a source goes, what   *)
(* ends in -o goes with the argument after it, options included, and       *)
(* absolute paths are moved below the client's directory.                  *)
CmdLineArgs(args) ==
    LET Visit(st, arg) ==
            CASE st.skip               -> [st EXCEPT !.skip = FALSE]
              [] is_src_file(arg)      -> st
              [] ends_with_dash_o(arg) -> [st EXCEPT !.skip = TRUE]
              [] ~IsOption(arg) /\ IsAbsolute(arg.path) ->
                    [st EXCEPT !.out = Append(@, Path(cnvt_client_to_server_path(ServerDir, arg.path)))]
              [] OTHER                 -> [st EXCEPT !.out = Append(@, arg)]
    IN  FoldEager(Visit, [out |-> <<>>, skip |-> FALSE], args).out

FixedInSrcFile(src) == IF IsAbsolute(src) THEN cnvt_client_to_server_path(ServerDir, src) ELSE src

preprocess_compiler_call(call) == [
    cwd |-> cnvt_client_to_server_path(ServerDir, call.cwd),
    args |-> Idirs(cnvt_to_cmd_line_args(call)) \o CmdLineArgs(call.args)
                \o <<Path(FixedInSrcFile(call.src)), Opt("-o"), Path(ObjStore)>>]
=============================================================================
