------------------------------ MODULE DepFiles ------------------------------
(***************************************************************************)
(* Make dependency files: what DepFilesState::generate_dep_file writes for *)
(* a compiler call and what DepFile::parse_dep_file_contents reads. Names  *)
(* are sequences of characters, since the escapes are what the two must    *)
(* agree on.                                                               *)
(***************************************************************************)
EXTENDS Naturals, Sequences, SequencesExt

DepTarget(target, dep_files) == [target |-> target, dep_files |-> dep_files]

(* All that is replaced here is one character.                             *)
replace_all(str, from, to) ==
    FlattenSeq([i \in DOMAIN str |-> IF str[i] = from THEN to ELSE <<str[i]>>])

escape_gnu_make_spaces(name) ==
    LET lines == replace_all(name, "\n", <<"\\", "\n">>)
        blanks == replace_all(lines, " ", <<"\\", " ">>)
    IN  replace_all(blanks, ":", <<"\\", ":">>)

(* A blank is escaped, and so are the backslashes before it.               *)
BackslashesBefore(name, i) ==
    LET runs == {n \in 0..(i - 1) : \A k \in (i - n)..(i - 1) : name[k] = "\\"}
    IN  CHOOSE n \in runs : \A k \in runs : k <= n

process_makefile_target(name) ==
    FlattenSeq([i \in DOMAIN name |->
        CASE name[i] \in {" ", "\t"} ->
                [k \in 1..(BackslashesBefore(name, i) + 1) |-> "\\"] \o <<name[i]>>
          [] name[i] = "$" -> <<"$", "$">>
          [] name[i] = "#" -> <<"\\", "#">>
          [] OTHER         -> <<name[i]>>])

-----------------------------------------------------------------------------
(* Writing.                                                                *)

(* The targets of -MT and -MQ, on lines of their own.                      *)
MtFlagPaths(mt) ==
    FoldLeft(LAMBDA out, t :
                (IF out = <<>> THEN out ELSE out \o <<" ", "\\", "\n">>)
                    \o (IF t[1] = "-MQ" THEN process_makefile_target(t[2]) ELSE t[2]),
             <<>>, mt)

is_depfile_needed(mf, flags) == mf \/ "-MD" \in flags

(* With -MMD the headers of the system are left out.                       *)
calculate_deps_for_headers(src, headers, flags) ==
    LET listed == IF "-MMD" \in flags THEN SelectSeq(headers, LAMBDA h : ~h.system) ELSE headers
    IN  <<process_makefile_target(src)>>
            \o [i \in DOMAIN listed |-> process_makefile_target(listed[i].name)]

DepTargets(target, deps, flags) ==
    <<DepTarget(target, deps)>>
        \o (IF "-MP" \in flags
            THEN [i \in 1..(Len(deps) - 1) |-> DepTarget(escape_gnu_make_spaces(deps[i + 1]), <<>>)]
            ELSE <<>>)

WriteTarget_OneLine(t) ==
    t.target \o <<":">>
        \o FlattenSeq([i \in DOMAIN t.dep_files |->
            (IF i = 1 THEN <<" ">> ELSE <<" ", "\n", " ", " ">>)
                \o escape_gnu_make_spaces(t.dep_files[i])])
        \o <<"\n">>

WriteTarget(t) ==
    t.target \o <<":">>
        \o FlattenSeq([i \in DOMAIN t.dep_files |->
            (IF i = 1 THEN <<" ">> ELSE <<" ", "\\", "\n", " ", " ">>)
                \o escape_gnu_make_spaces(t.dep_files[i])])
        \o <<"\n">>

write_to_bytes(targets) ==
    FlattenSeq([i \in DOMAIN targets |->
        WriteTarget(targets[i]) \o (IF i < Len(targets) THEN <<"\n">> ELSE <<>>)])

(* generate_dep_file, without the name of the file it writes.              *)
generate_dep_file(mt, out, src, headers, flags) ==
    LET target == IF mt = <<>> THEN out ELSE MtFlagPaths(mt)
        deps == calculate_deps_for_headers(src, headers, flags)
    IN  write_to_bytes(DepTargets(target, deps, flags))

-----------------------------------------------------------------------------
(* Reading. Each loop is a function of the position it has come to.        *)

At(name, offset) == [name |-> name, offset |-> offset]
Before(first, read) == [read EXCEPT !.name = first \o @]

parse_skip_spaces(c, start) ==
    LET Loop[o \in 1..(Len(c) + 2)] ==
            IF o <= Len(c) /\ c[o] \in {" ", "\n", "\t"} THEN Loop[o + 1] ELSE o
    IN  Loop[start]

(* A target that is not followed by a colon throws: its offset is 0.       *)
parse_target_name(c, start) ==
    LET Loop[o \in 1..(Len(c) + 2), name \in Seq({c[i] : i \in DOMAIN c} \cup {" "})] ==
            IF o > Len(c) \/ c[o] = "\n" THEN At(name, 0)
            ELSE CASE c[o] = ":"  -> At(escape_gnu_make_spaces(name), o + 1)
                   [] c[o] = "\\" ->
                        Loop[o + 2, IF o < Len(c) /\ c[o + 1] # "\n" THEN Append(name, c[o + 1])
                                                                     ELSE name]
                   [] c[o] = " "  ->
                        Loop[o + 1, IF name = <<>> \/ Last(name) # " " THEN Append(name, " ")
                                                                       ELSE name]
                   [] OTHER       -> Loop[o + 1, Append(name, c[o])]
    IN  Loop[start, <<>>]

parse_next_dep_item(c, start) ==
    LET Skip[o \in 1..(Len(c) + 2)] ==
            IF o > Len(c) THEN o
            ELSE CASE c[o] = " "  -> Skip[o + 1]
                   [] c[o] = "\\" -> Skip[o + 2]
                   [] OTHER       -> o
        Item[o \in 1..(Len(c) + 2)] ==
            IF o > Len(c) \/ c[o] \in {" ", "\n"} THEN At(<<>>, o)
            ELSE IF c[o] = "\\"
                 THEN Before(IF o < Len(c) THEN <<c[o + 1]>> ELSE <<>>, Item[o + 2])
                 ELSE Before(<<c[o]>>, Item[o + 1])
        first == Skip[start]
    IN  IF first > Len(c) THEN At(<<>>, first)
        ELSE IF c[first] = "\n" THEN At(<<>>, first + 1)
        ELSE Item[first]

(* The items up to an empty one, and the offset after it.                  *)
ParseItems(c, start) ==
    LET Loop[o \in 1..(Len(c) + 2)] ==
            LET item == parse_next_dep_item(c, o) IN
            IF item.name = <<>> THEN At(<<>>, item.offset)
            ELSE Before(<<item.name>>, Loop[item.offset])
    IN  Loop[start]

parse_dep_file_contents(c) ==
    LET Loop[o \in 1..(Len(c) + 2)] ==
            LET start == parse_skip_spaces(c, o)
                target == parse_target_name(c, start)
                items == ParseItems(c, target.offset)
            IN  IF start > Len(c) \/ target.offset = 0 THEN <<>>
                ELSE <<DepTarget(target.name, items.name)>> \o Loop[items.offset]
    IN  Loop[1]

find_dep_list_by_target_name(targets, name) ==
    LET found == SelectSeq(targets, LAMBDA t : t.target = name)
    IN  IF found = <<>> THEN <<>> ELSE found[1].dep_files
=============================================================================
