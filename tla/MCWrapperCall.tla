--------------------------- MODULE MCWrapperCall ---------------------------
(* Command lines of every kind initialize_compiler_call tells apart, with  *)
(* bytes of two bits.                                                      *)
EXTENDS WrapperCall

Gpp == Path(<<"/", "usr", "bin", "g++">>)
Clang == Path(<<"/", "usr", "bin", "clang++">>)
Here(name) == Path(<<name>>)
Source == Path(<<"/", "w", "a.c">>)
MCCwd == <<"/", "w">>

MCCallList == <<
    \* a compilation as CMake writes it
    <<Gpp, DashI(<<"inc">>), Opt("-isystem"), Path(<<"/", "usr", "local", "i">>), Opt("-MD"),
      Opt("-MT"), Here("t.o"), Opt("-MF"), Here("d.d"), Opt("-o"), Here("a.o"), Opt("-c"), Source>>,
    \* forced includes, a language, a quoted target
    <<Gpp, Opt("-x"), Here("c++"), Opt("-include"), Here("h.h"), Opt("-iquote"), Here("q"),
      Opt("-MMD"), Opt("-MP"), Opt("-MQ"), Here("t.o"), Opt("-o"), Here("a.o"), Source>>,
    \* an absolute target, which the server moves
    <<Gpp, Opt("-MT"), Path(<<"/", "w", "t.o">>), Opt("-o"), Here("a.o"), Source>>,
    \* a macro that ends like a source
    <<Gpp, [option |-> "-DF=", path |-> <<"x.c">>], Opt("-o"), Here("a.o"), Source>>,
    \* a compiler that is not installed
    <<Clang, Opt("-o"), Here("a.o"), Source>>,
    \* a source that is not absolute, and an output that is not an object
    <<Gpp, Opt("-o"), Here("a.o"), Here("a.c")>>,
    <<Gpp, Opt("-o"), Here("prog"), Source>>,
    \* linking, and linking into an object file
    <<Gpp, Here("a.o"), Opt("-o"), Here("prog")>>,
    <<Gpp, Here("a.o"), Opt("-o"), Here("t.o")>>,
    \* an option without its argument, a compiler nobody knows, no argument
    <<Gpp, Source, Opt("-o")>>,
    <<Here("nocc"), Source>>,
    <<Gpp>> >>
MCCalls == Range(MCCallList)
MCVerbose == {MCCallList[4], MCCallList[8]}

Words == FlattenSeq(MCCallList) \o <<Path(MCCwd)>>
Number(arg) == CHOOSE i \in DOMAIN Words : Words[i] = arg /\ \A k \in 1..(i - 1) : Words[k] # arg
MCText == [arg \in Range(Words) |-> <<Number(arg) \div 16, (Number(arg) \div 4) % 4, Number(arg) % 4>>]

MCSuffix(name) ==
    CASE name \in {"a.c", "x.c"} -> ".c" [] name = "h.h" -> ".h" [] name \in {"a.o", "t.o"} -> ".o"
      [] OTHER -> ""
MCBegins(name, start) == name = start

(* The daemon finds the source in /w, and one of that name in its own      *)
(* directory; a header beside the source is named as the source is.        *)
MCSources == {Source.path, <<"a.c">>}
MCHeaders(src) ==
    IF src \in MCSources THEN <<[path |-> Front(src) \o <<"h.h">>, system |-> FALSE],
                               [path |-> <<"/", "usr", "local", "s.h">>, system |-> TRUE]>>
                         ELSE <<>>
MCFiles == MCSources \cup UNION {{MCHeaders(src)[i].path : i \in {1, 2}} : src \in MCSources}
MCSpelling(path) ==
    CASE path = <<>> -> <<>>
      [] OTHER -> CASE Last(path) = "a.c" -> <<"a">> [] Last(path) = "h.h" -> <<"h", ":">>
                    [] Last(path) = "s.h" -> <<"s", "#">> [] Last(path) = "t.o" -> <<"t">>
                    [] OTHER -> <<"o">>

MCOutput == [server |-> [out |-> <<1>>, err |-> <<1, 1>>], session |-> [out |-> <<2>>, err |-> <<>>],
             client |-> [out |-> <<>>, err |-> <<3, 3>>]]
MCServerDir == <<"/", "srv">>
MCObjStore == <<"/", "objs", "s.o">>
MCCompilers == {Gpp.path, Clang.path}
MCInstalled == {Gpp.path}

(* The functions keep the command lines of this instance.                  *)
ASSUME CallsAreKept == RequestsReadBack /\ CommandsKept
=============================================================================
