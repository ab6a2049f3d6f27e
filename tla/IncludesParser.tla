--------------------------- MODULE IncludesParser ---------------------------
(***************************************************************************)
(* How the client finds the headers a source file needs, and with them the *)
(* files a server must have: SourceFileParser follows #include directives  *)
(* depth first, and IncludesCache, which lives as long as the daemon,      *)
(* keeps what it learnt of headers in -isystem directories.                *)
(*                                                                         *)
(* Client::connect_to_server collects the headers under Client::_mtx, so   *)
(* one call is parsed at a time. The recursion is an explicit stack: after *)
(* the directives of a header the code does nothing but return, and what   *)
(* it returns is only logged.                                              *)
(*                                                                         *)
(* A path is a directory and a name; no include directory lies inside      *)
(* another. A directive's content is a name or an absolute path. Of a file *)
(* only its directives matter; the IncludeInfo of a header is its path.    *)
(***************************************************************************)
EXTENDS Naturals, Sequences, FiniteSets

CONSTANTS
    Dirs, Names,
    Calls,      \* compiler calls: [src, dash_i, dash_isystem, dash_iquote, dash_include]
    NoCall,
    Trees,      \* what may be on the disk: path to directives, for the files there are
    SysI,       \* _system_include_dirs.dash_i
    SysIsystem  \* _system_include_dirs.dash_isystem

Paths == Dirs \X Names
Contents == Names \cup Paths
Directive == [type : {"angle", "quote"}, content : Contents]

ASSUME IncludesParserAssumption ==
    /\ Names \cap Paths = {}
    /\ Calls \subseteq [src : Paths, dash_i : Seq(Dirs), dash_isystem : Seq(Dirs),
                        dash_iquote : Seq(Dirs), dash_include : Seq(Paths)]
    /\ NoCall \notin Calls
    /\ \A tree \in Trees : /\ IsFiniteSet(DOMAIN tree) /\ DOMAIN tree \subseteq Paths
                           /\ \A p \in DOMAIN tree : tree[p] \in Seq(Directive)
    /\ SysI \in Seq(Dirs) /\ SysIsystem \in Seq(Dirs)

VARIABLES
    files,              \* the disk
    call,               \* the call being parsed
    stack,              \* the recursion, innermost first: [parent, todo]
    inc_directives,     \* _inc_directives: path looked for to path of the header
    include_abs_paths,  \* _include_abs_paths: content (or path) to path
    include_cache_data, \* _include_cache_data: content or path to path of the header
    cached_before       \* history: the headers in the cache when the call began

vars == <<files, call, stack, inc_directives, include_abs_paths,
          include_cache_data, cached_before>>
cacheVars == <<include_abs_paths, include_cache_data>>

Empty == [k \in {} |-> k]

Init ==
    /\ files \in Trees
    /\ call = NoCall
    /\ stack = <<>>
    /\ inc_directives = Empty
    /\ include_abs_paths = Empty
    /\ include_cache_data = Empty
    /\ cached_before = {}

With(fn, key, value) ==
    [k \in DOMAIN fn \cup {key} |-> IF k = key THEN value ELSE fn[k]]

-----------------------------------------------------------------------------
(* The search.                                                             *)

(* The directives of a file, in their order; conditional compilation and   *)
(* comments are not looked at.                                             *)
find_file_includes(p) == files[p]

(* filesystem::path's operator/ with one directory of each list.           *)
In(dirs, content) ==
    [i \in DOMAIN dirs |-> IF content \in Names THEN <<dirs[i], content>> ELSE content]

(* append_include_dirs puts the system's directories behind the call's.    *)
dash_i(c) == c.dash_i \o SysI
dash_isystem(c) == c.dash_isystem \o SysIsystem

(* The paths _process_include_directive tries for a directive, in order.   *)
Candidates(c, parent, d) ==
    (IF d.content \in Names THEN <<>> ELSE <<d.content>>)
    \o (IF d.type = "quote"
        THEN In(<<parent[1]>>, d.content) \o In(c.dash_iquote, d.content)
        ELSE <<>>)
    \o In(dash_i(c), d.content)
    \o In(dash_isystem(c), d.content)

(* The first of a sequence of paths that satisfies a test, as a set.       *)
First(seq, Test(_)) ==
    {seq[i] : i \in {j \in DOMAIN seq : /\ Test(seq[j])
                                        /\ \A k \in 1 .. j - 1 : ~Test(seq[k])}}

requires_inc_storage(c, p) ==
    /\ \A i \in DOMAIN dash_i(c) : dash_i(c)[i] # p[1]
    /\ \E i \in DOMAIN dash_isystem(c) : dash_isystem(c)[i] = p[1]

(* Mutant: quoted headers are cached by their name, too.                   *)
CacheKey_ByContent(d, p) == d.content

(* The key a header is cached and looked up under.                         *)
CacheKey(d, p) == IF d.type = "angle" THEN d.content ELSE p

(* _try_resolve_header returns true.                                       *)
TryResolves(d, p) ==
    \/ p \in DOMAIN inc_directives
    \/ CacheKey(d, p) \in DOMAIN include_cache_data
    \/ p \in DOMAIN files

CachedHeaders == {include_cache_data[k] : k \in DOMAIN include_cache_data}

Resolved(d) ==
    LET Test(p) == TryResolves(d, p)
    IN  First(Candidates(call, stack[1].parent, d), Test)

-----------------------------------------------------------------------------
(* One directive is processed per step.                                    *)

Processing == stack # <<>> /\ stack[1].todo # <<>>
directive == Head(stack[1].todo)

(* The caller's frame once the directive at hand is done.                  *)
Popped == <<[stack[1] EXCEPT !.todo = Tail(stack[1].todo)]>> \o Tail(stack)

(* The angle directive's path is known, and cached under that path.        *)
KnownPath ==
    /\ directive.type = "angle"
    /\ directive.content \in DOMAIN include_abs_paths
    /\ include_abs_paths[directive.content] \in DOMAIN include_cache_data

TakeKnownPath ==
    /\ Processing /\ KnownPath
    /\ LET p == include_abs_paths[directive.content]
       IN  inc_directives' = With(inc_directives, p, include_cache_data[p])
    /\ stack' = Popped
    /\ UNCHANGED <<files, call, cacheVars, cached_before>>

(* No candidate is a header: the directive is skipped.                     *)
Unresolved ==
    /\ Processing /\ ~KnownPath
    /\ Resolved(directive) = {}
    /\ stack' = Popped
    /\ UNCHANGED <<files, call, inc_directives, cacheVars, cached_before>>

(* The candidate was entered earlier in this call.                         *)
AlreadyFound ==
    /\ Processing /\ ~KnownPath
    /\ \E p \in Resolved(directive) : p \in DOMAIN inc_directives
    /\ stack' = Popped
    /\ UNCHANGED <<files, call, inc_directives, cacheVars, cached_before>>

(* The header is in the cache; its own directives are not followed.        *)
TakeCached ==
    /\ Processing /\ ~KnownPath
    /\ \E p \in Resolved(directive) :
          /\ p \notin DOMAIN inc_directives
          /\ CacheKey(directive, p) \in DOMAIN include_cache_data
          /\ inc_directives' =
                With(inc_directives, p, include_cache_data[CacheKey(directive, p)])
    /\ stack' = Popped
    /\ UNCHANGED <<files, call, cacheVars, cached_before>>

(* add_include_entry.                                                      *)
Store(key, p) ==
    /\ include_abs_paths' = With(include_abs_paths, key, p)
    /\ include_cache_data' = With(include_cache_data, key, p)

(* Mutant: a system header's own directives are never followed.            *)
ReadHeader_SkipsSystem ==
    /\ Processing /\ ~KnownPath
    /\ \E p \in Resolved(directive) :
          /\ p \notin DOMAIN inc_directives
          /\ CacheKey(directive, p) \notin DOMAIN include_cache_data
          /\ inc_directives' = With(inc_directives, p, p)
          /\ IF requires_inc_storage(call, p)
             THEN Store(CacheKey(directive, p), p) /\ stack' = Popped
             ELSE /\ stack' = <<[parent |-> p, todo |-> files[p]]>> \o Popped
                  /\ UNCHANGED cacheVars
    /\ UNCHANGED <<files, call, cached_before>>

(* Mutant: only cached headers are entered before their directives are     *)
(* processed.                                                              *)
ReadHeader_NotEntered ==
    /\ Processing /\ ~KnownPath
    /\ \E p \in Resolved(directive) :
          /\ p \notin DOMAIN inc_directives
          /\ CacheKey(directive, p) \notin DOMAIN include_cache_data
          /\ IF requires_inc_storage(call, p)
             THEN /\ Store(CacheKey(directive, p), p)
                  /\ inc_directives' = With(inc_directives, p, p)
             ELSE UNCHANGED <<cacheVars, inc_directives>>
          /\ stack' = <<[parent |-> p, todo |-> files[p]]>> \o Popped
    /\ UNCHANGED <<files, call, cached_before>>

(***************************************************************************)
(* The header is read, cached if it is a system header, entered, and its   *)
(* directives are processed.                                               *)
(***************************************************************************)
ReadHeader ==
    /\ Processing /\ ~KnownPath
    /\ \E p \in Resolved(directive) :
          /\ p \notin DOMAIN inc_directives
          /\ CacheKey(directive, p) \notin DOMAIN include_cache_data
          /\ IF requires_inc_storage(call, p) THEN Store(CacheKey(directive, p), p)
             ELSE UNCHANGED cacheVars
          /\ inc_directives' = With(inc_directives, p, p)
          /\ stack' = <<[parent |-> p, todo |-> find_file_includes(p)]>> \o Popped
    /\ UNCHANGED <<files, call, cached_before>>

(* The last directive of a file is done.                                   *)
ReturnFromFile ==
    /\ stack # <<>> /\ stack[1].todo = <<>>
    /\ stack' = Tail(stack)
    /\ UNCHANGED <<files, call, inc_directives, cacheVars, cached_before>>

(* parse_source_file_includes: the -include files, as angle directives,    *)
(* and then the source file's own.                                         *)
TopDirectives(c) ==
    [i \in DOMAIN c.dash_include |-> [type |-> "angle", content |-> c.dash_include[i]]]
    \o find_file_includes(c.src)

(* A new call: a SourceFileParser of its own, the daemon's cache. Without  *)
(* its source file nothing is parsed.                                      *)
StartCall(c) ==
    /\ call = NoCall
    /\ call' = c
    /\ inc_directives' = Empty
    /\ stack' = IF c.src \in DOMAIN files
                THEN <<[parent |-> c.src, todo |-> TopDirectives(c)]>>
                ELSE <<>>
    /\ cached_before' = CachedHeaders
    /\ UNCHANGED <<files, cacheVars>>

Parsed == call # NoCall /\ stack = <<>>

(* The required files that collect_src_file_dependencies returns.          *)
required_files == {inc_directives[k] : k \in DOMAIN inc_directives}

EndCall ==
    /\ Parsed
    /\ call' = NoCall
    /\ UNCHANGED <<files, stack, inc_directives, cacheVars, cached_before>>

Parse ==
    \/ TakeKnownPath \/ Unresolved \/ AlreadyFound \/ TakeCached \/ ReadHeader
    \/ ReturnFromFile \/ EndCall

Next == Parse \/ \E c \in Calls : StartCall(c)

Spec == Init /\ [][Next]_vars

-----------------------------------------------------------------------------
(* Properties.                                                             *)

(* What the compiler includes for a directive: the first candidate that    *)
(* is a file.                                                              *)
CompilerIncludes(c, parent, d) ==
    LET Test(p) == p \in DOMAIN files
    IN  First(Candidates(c, parent, d), Test)

(* S has every file that the directives of c's source file include, and    *)
(* that the files of S outside of skipped include.                         *)
ClosedUnderIncludes(c, S, skipped) ==
    /\ \A i \in DOMAIN TopDirectives(c) :
          CompilerIncludes(c, c.src, TopDirectives(c)[i]) \subseteq S
    /\ \A p \in (S \ skipped) \cap DOMAIN files :
          \A i \in DOMAIN files[p] : CompilerIncludes(c, p, files[p][i]) \subseteq S

(* The headers the compiler reads on the way to no skipped one.            *)
Reachable(c, skipped) ==
    {p \in DOMAIN files :
        \A S \in SUBSET DOMAIN files : ClosedUnderIncludes(c, S, skipped) => p \in S}

(* The cache is keyed by the content of an angle directive, so it serves   *)
(* calls with the same directories for those.                              *)
SameAngleDirs ==
    \A c1, c2 \in Calls : dash_i(c1) = dash_i(c2) /\ dash_isystem(c1) = dash_isystem(c2)

(* An -iquote directory has no file of a cached header's name.             *)
NoQuoteShadows ==
    \A i \in DOMAIN call.dash_iquote : \A n \in Names :
        <<call.dash_iquote[i], n>> \in DOMAIN files => n \notin DOMAIN include_abs_paths

(* Every file the server is told to require is one the compiler reads for  *)
(* this source file, although the search may end in the cache, under a     *)
(* path that does not exist, or in what an earlier call left.              *)
RequiresOnlyReachable ==
    SameAngleDirs /\ Parsed /\ call.src \in DOMAIN files =>
        required_files \subseteq Reachable(call, {})

(* Every header is required that the compiler reaches without passing      *)
(* through one that was in the cache when the call began; with an empty    *)
(* cache that is every header, include cycles and headers of the same name *)
(* in several directories notwithstanding.                                 *)
(* Excepted are calls with different directories for angle includes, whose *)
(* cache is the same (SameAngleDirs), and calls with an -iquote directory  *)
(* that has a file of a cached header's name, since the parser takes the   *)
(* cached path (NoQuoteShadows).                                           *)
RequiresUncached ==
    SameAngleDirs /\ Parsed /\ NoQuoteShadows /\ call.src \in DOMAIN files =>
        Reachable(call, cached_before) \subseteq required_files

(* The recursion is no deeper than there are headers, whatever cycles the  *)
(* headers form.                                                           *)
RecursionBounded == Len(stack) <= Cardinality(DOMAIN files) + 1
=============================================================================
