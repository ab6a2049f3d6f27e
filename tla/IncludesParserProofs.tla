------------------------ MODULE IncludesParserProofs ------------------------
(***************************************************************************)
(* What IncludesParser promises, for every disk, every set of calls and    *)
(* every sequence of them.                                                 *)
(*                                                                         *)
(* A step that processes a directive requires exactly what the compiler    *)
(* includes for it (DirectiveDone), because both tables are right: a       *)
(* cached name is the file every call's angle search finds, and an entry   *)
(* of _inc_directives is either for a file or stands for a cached one.     *)
(* What is required is then in every closed set, and once nothing is       *)
(* pending it is a closed set itself.                                      *)
(***************************************************************************)
EXTENDS IncludesParser, FiniteSetTheorems, SequenceTheorems, TLAPS

\* A level of the recursion.
Frame == [parent : Paths, todo : Seq(Directive)]

\* A table from some of Keys to files on the disk.
Table(fn, Keys, tree) ==
    DOMAIN fn \subseteq Keys /\ \A k \in DOMAIN fn : fn[k] \in DOMAIN tree

\* The types of the variables. Both maps of IncludesCache are written together
\* and with the same header (add_include_entry), so they are equal.
ParserTypes ==
    /\ files \in Trees
    /\ call \in Calls \cup {NoCall}
    /\ stack \in Seq(Frame)
    /\ stack # <<>> => call # NoCall
    /\ Table(inc_directives, Paths, files)
    /\ Table(include_cache_data, Contents, files)
    /\ include_abs_paths = include_cache_data

\* Every level but the outermost is that of a header that is on the disk and
\* was entered before its directives were followed, and no two are the same.
DepthInv ==
    /\ \A i \in 1 .. Len(stack) - 1 :
          stack[i].parent \in DOMAIN inc_directives /\ stack[i].parent \in DOMAIN files
    /\ \A i, j \in 1 .. Len(stack) - 1 : stack[i].parent = stack[j].parent => i = j

\* p is the first path of seq that is a file.
IsFirstFile(tree, seq, p) ==
    /\ p \in DOMAIN tree
    /\ \E j \in DOMAIN seq : seq[j] = p /\ \A k \in 1 .. j - 1 : seq[k] \notin DOMAIN tree

\* CompilerIncludes with the disk as a parameter.
Included(tree, c, parent, d) == {p \in DOMAIN tree : IsFirstFile(tree, Candidates(c, parent, d), p)}

\* Where an angle directive's name is looked for.
AngleCandidates(c, n) == In(dash_i(c), n) \o In(dash_isystem(c), n)

\* A set of numbers that is not empty has a least element.
LEMMA LeastIndex ==
  ASSUME NEW T, T \subseteq Nat, T # {}
  PROVE  \E i \in T : \A j \in T : i <= j
  <1> DEFINE R == OpToRel(<, Nat)
  <1>1. IsWellFoundedOn(R, Nat)
    BY NatLessThanWellFounded
  <1>2. \A i, j \in Nat : i < j => <<i, j>> \in R
    BY DEF OpToRel
  <1> HIDE DEF R
  <1>3. PICK i \in T : \A j \in T : ~(<<j, i>> \in R)
    BY <1>1, WFMin
  <1>4. ASSUME NEW j \in T PROVE i <= j
    <2>1. i \in Nat /\ j \in Nat
      OBVIOUS
    <2>2. ~(j < i)
      BY <1>2, <1>3, <2>1, Zenon
    <2> QED BY <2>1, <2>2
  <1> QED BY <1>4

\* The types of a call and of its lists of directories with the system's.
LEMMA CallTypes ==
  ASSUME NEW c \in Calls
  PROVE  /\ c.src \in Paths /\ dash_i(c) \in Seq(Dirs) /\ dash_isystem(c) \in Seq(Dirs)
         /\ c.dash_iquote \in Seq(Dirs) /\ c.dash_include \in Seq(Paths) /\ c # NoCall
  <1>1. c \in [src : Paths, dash_i : Seq(Dirs), dash_isystem : Seq(Dirs),
               dash_iquote : Seq(Dirs), dash_include : Seq(Paths)]
    BY IncludesParserAssumption
  <1>2. SysI \in Seq(Dirs) /\ SysIsystem \in Seq(Dirs) /\ c # NoCall
    BY IncludesParserAssumption
  <1> QED BY <1>1, <1>2 DEF dash_i, dash_isystem

\* One path per directory, or the absolute path itself.
LEMMA InIs ==
  ASSUME NEW dirs \in Seq(Dirs), NEW content \in Contents
  PROVE  /\ In(dirs, content) \in Seq(Paths)
         /\ Len(In(dirs, content)) = Len(dirs)
         /\ content \in Names => \A i \in 1 .. Len(dirs) : In(dirs, content)[i] = <<dirs[i], content>>
         /\ content \in Paths => \A i \in 1 .. Len(dirs) : In(dirs, content)[i] = content
  <1>1. \A i \in 1 .. Len(dirs) : dirs[i] \in Dirs
    OBVIOUS
  <1>2. content \in Paths => content \notin Names
    BY IncludesParserAssumption
  <1>3. content \notin Names => content \in Paths
    BY DEF Contents
  <1>4. \A i \in 1 .. Len(dirs) : (IF content \in Names THEN <<dirs[i], content>> ELSE content) \in Paths
    BY <1>1, <1>3 DEF Paths
  <1>5. In(dirs, content) = [i \in 1 .. Len(dirs) |-> IF content \in Names THEN <<dirs[i], content>> ELSE content]
    BY DEF In
  <1>6. In(dirs, content) \in [1 .. Len(dirs) -> Paths]
    BY <1>4, <1>5
  <1>7. In(dirs, content) \in Seq(Paths) /\ Len(In(dirs, content)) = Len(dirs)
    BY <1>6
  <1> QED BY <1>2, <1>5, <1>7

\* An angle directive's candidates have the directive's name.
LEMMA AngleIs ==
  ASSUME NEW c \in Calls, NEW n \in Names
  PROVE  /\ AngleCandidates(c, n) \in Seq(Paths)
         /\ \A i \in DOMAIN AngleCandidates(c, n) : AngleCandidates(c, n)[i][2] = n
  <1> DEFINE A == In(dash_i(c), n)
             B == In(dash_isystem(c), n)
  <1>1. n \in Contents
    BY DEF Contents
  <1>2. A \in Seq(Paths) /\ \A i \in 1 .. Len(A) : A[i][2] = n
    BY <1>1, CallTypes, InIs
  <1>3. B \in Seq(Paths) /\ \A i \in 1 .. Len(B) : B[i][2] = n
    BY <1>1, CallTypes, InIs
  <1> HIDE DEF A, B
  <1>4. A \o B \in Seq(Paths) /\ \A i \in DOMAIN (A \o B) : (A \o B)[i][2] = n
    BY <1>2, <1>3
  <1> QED BY <1>4 DEF AngleCandidates, A, B

\* The search for an angle directive's name does not depend on the parent.
LEMMA AngleSearch ==
  ASSUME NEW c \in Calls, NEW parent \in Paths, NEW d \in Directive, d.type = "angle",
         d.content \in Names
  PROVE  Candidates(c, parent, d) = AngleCandidates(c, d.content)
  <1> DEFINE A == In(dash_i(c), d.content)
             B == In(dash_isystem(c), d.content)
  <1>1. d.content \in Contents
    BY DEF Contents
  <1>2. A \in Seq(Paths) /\ B \in Seq(Paths)
    BY <1>1, CallTypes, InIs
  <1>3. Candidates(c, parent, d) = ((<<>> \o <<>>) \o A) \o B
    BY DEF Candidates
  <1> HIDE DEF A, B
  <1>4. ((<<>> \o <<>>) \o A) \o B = A \o B
    BY <1>2
  <1> QED BY <1>3, <1>4 DEF AngleCandidates, A, B

\* An absolute path is the only path looked for.
LEMMA PathSearch ==
  ASSUME NEW c \in Calls, NEW parent \in Paths, NEW d \in Directive, d.content \in Paths
  PROVE  /\ Candidates(c, parent, d) \in Seq(Paths)
         /\ 1 \in DOMAIN Candidates(c, parent, d)
         /\ \A i \in DOMAIN Candidates(c, parent, d) : Candidates(c, parent, d)[i] = d.content
  <1> DEFINE p == d.content
             Q == IF d.type = "quote" THEN In(<<parent[1]>>, p) \o In(c.dash_iquote, p) ELSE <<>>
             A == In(dash_i(c), p)
             B == In(dash_isystem(c), p)
             Same(s) == s \in Seq(Paths) /\ \A i \in 1 .. Len(s) : s[i] = p
  <1>1. p \in Contents /\ p \notin Names
    BY IncludesParserAssumption DEF Contents
  <1>2. <<parent[1]>> \in Seq(Dirs)
    BY DEF Paths
  <1>3. Same(A) /\ Same(B) /\ Same(In(<<parent[1]>>, p)) /\ Same(In(c.dash_iquote, p))
    <2>1. ASSUME NEW dirs \in Seq(Dirs) PROVE Same(In(dirs, p))
      BY <1>1, InIs
    <2>2. Same(A) /\ Same(B)
      BY <2>1, CallTypes
    <2>3. Same(In(<<parent[1]>>, p)) /\ Same(In(c.dash_iquote, p))
      BY <1>2, <2>1, CallTypes
    <2> QED BY <2>2, <2>3
  <1>4. ASSUME NEW s, NEW t, Same(s), Same(t) PROVE Same(s \o t)
    <2> HIDE DEF p
    <2>1. s \o t \in Seq(Paths) /\ Len(s \o t) = Len(s) + Len(t)
      BY <1>4
    <2>2. \A i \in 1 .. Len(s \o t) : (s \o t)[i] = IF i <= Len(s) THEN s[i] ELSE t[i - Len(s)]
      BY <1>4
    <2> QED BY <1>4, <2>1, <2>2
  <1>5. Same(Q)
    <2>1. Same(<<>>)
      OBVIOUS
    <2> QED BY <1>3, <1>4, <2>1
  <1>6. Same(<<p>>)
    OBVIOUS
  <1>7. Candidates(c, parent, d) = ((<<p>> \o Q) \o A) \o B
    BY <1>1 DEF Candidates
  <1>8. Same(((<<p>> \o Q) \o A) \o B)
    <2>1. Same(<<p>> \o Q)
      BY <1>4, <1>5, <1>6
    <2>2. Same((<<p>> \o Q) \o A)
      BY <1>3, <1>4, <2>1
    <2> QED BY <1>3, <1>4, <2>2
  <1> HIDE DEF p, Q, A, B
  <1>9. Len(((<<p>> \o Q) \o A) \o B) >= 1
    BY <1>3, <1>5, <1>6
  <1> QED BY <1>7, <1>8, <1>9 DEF p

\* A quoted name is looked for beside the parent, in the -iquote directories,
\* and then where an angle directive's name is.
LEMMA QuoteSearch ==
  ASSUME NEW c \in Calls, NEW parent \in Paths, NEW d \in Directive, d.type = "quote",
         d.content \in Names
  PROVE  Candidates(c, parent, d) =
           (<<<<parent[1], d.content>>>> \o In(c.dash_iquote, d.content)) \o AngleCandidates(c, d.content)
  <1> DEFINE n == d.content
             P == In(<<parent[1]>>, n)
             Q == In(c.dash_iquote, n)
             A == In(dash_i(c), n)
             B == In(dash_isystem(c), n)
  <1>1. n \in Contents
    BY DEF Contents
  <1>2. <<parent[1]>> \in Seq(Dirs)
    BY DEF Paths
  <1>3. P \in Seq(Paths) /\ Q \in Seq(Paths) /\ A \in Seq(Paths) /\ B \in Seq(Paths)
    BY <1>1, <1>2, CallTypes, InIs
  <1>4. P = <<<<parent[1], n>>>>
    BY DEF In
  <1>5. Candidates(c, parent, d) = ((<<>> \o (P \o Q)) \o A) \o B
    BY DEF Candidates
  <1> HIDE DEF n, P, Q, A, B
  <1>6. <<>> \o (P \o Q) = P \o Q
    BY <1>3
  <1>7. ((P \o Q) \o A) \o B = (P \o Q) \o (A \o B)
    BY <1>3
  <1>8. Candidates(c, parent, d) = (P \o Q) \o (A \o B)
    BY <1>5, <1>6, <1>7
  <1> QED BY <1>4, <1>8 DEF AngleCandidates, n, Q, A, B

\* The types of a disk.
LEMMA TreeTypes ==
  ASSUME NEW tree \in Trees
  PROVE  /\ IsFiniteSet(DOMAIN tree) /\ DOMAIN tree \subseteq Paths
         /\ \A p \in DOMAIN tree : tree[p] \in Seq(Directive)
  BY IncludesParserAssumption

\* Candidates are paths, and have the directive's name if that is a name.
LEMMA CandidatesAre ==
  ASSUME NEW c \in Calls, NEW parent \in Paths, NEW d \in Directive
  PROVE  /\ Candidates(c, parent, d) \in Seq(Paths)
         /\ d.content \in Names =>
               \A i \in DOMAIN Candidates(c, parent, d) : Candidates(c, parent, d)[i][2] = d.content
  <1>1. d.content \in Names \/ d.content \in Paths
    BY DEF Directive, Contents
  <1>2. d.type = "angle" \/ d.type = "quote"
    BY DEF Directive
  <1>3. CASE d.content \in Paths
    BY <1>3, PathSearch, IncludesParserAssumption
  <1>4. CASE d.content \in Names /\ d.type = "angle"
    BY <1>4, AngleSearch, AngleIs
  <1>5. CASE d.content \in Names /\ d.type = "quote"
    <2> DEFINE n == d.content
               P == <<<<parent[1], n>>>>
               Q == In(c.dash_iquote, n)
               A == AngleCandidates(c, n)
    <2>1. Candidates(c, parent, d) = (P \o Q) \o A
      BY <1>5, QuoteSearch
    <2>2. A \in Seq(Paths) /\ \A i \in 1 .. Len(A) : A[i][2] = n
      BY <1>5, AngleIs
    <2>3. Q \in Seq(Paths) /\ \A i \in 1 .. Len(Q) : Q[i][2] = n
      <3>1. n \in Contents /\ c.dash_iquote \in Seq(Dirs)
        BY <1>5, CallTypes DEF Contents
      <3> QED BY <1>5, <3>1, InIs
    <2>4. P \in Seq(Paths) /\ \A i \in 1 .. Len(P) : P[i][2] = n
      BY <1>5 DEF Paths
    <2> HIDE DEF n, P, Q, A
    <2>5. (P \o Q) \o A \in Seq(Paths) /\ \A i \in DOMAIN ((P \o Q) \o A) : ((P \o Q) \o A)[i][2] = n
      BY <2>2, <2>3, <2>4
    <2> QED BY <2>1, <2>5 DEF n
  <1> QED BY <1>1, <1>2, <1>3, <1>4, <1>5

\* There is one first file.
LEMMA FirstFileUnique ==
  ASSUME NEW tree, NEW seq \in Seq(Paths), NEW p, NEW q, IsFirstFile(tree, seq, p),
         IsFirstFile(tree, seq, q)
  PROVE  p = q
  <1>1. PICK i \in DOMAIN seq : seq[i] = p /\ \A k \in 1 .. i - 1 : seq[k] \notin DOMAIN tree
    BY DEF IsFirstFile
  <1>2. PICK j \in DOMAIN seq : seq[j] = q /\ \A k \in 1 .. j - 1 : seq[k] \notin DOMAIN tree
    BY DEF IsFirstFile
  <1>3. p \in DOMAIN tree /\ q \in DOMAIN tree
    BY DEF IsFirstFile
  <1>4. i \in Nat \ {0} /\ j \in Nat \ {0}
    OBVIOUS
  <1>5. ~(i < j) /\ ~(j < i)
    BY <1>1, <1>2, <1>3, <1>4
  <1> QED BY <1>1, <1>2, <1>4, <1>5

\* A directive includes at most one file.
LEMMA IncludedUnique ==
  ASSUME NEW tree, NEW c \in Calls, NEW parent \in Paths, NEW d \in Directive,
         NEW p, IsFirstFile(tree, Candidates(c, parent, d), p)
  PROVE  Included(tree, c, parent, d) = {p}
  <1>1. p \in DOMAIN tree
    BY DEF IsFirstFile
  <1>2. \A q \in Included(tree, c, parent, d) : q = p
    BY CandidatesAre, FirstFileUnique DEF Included
  <1> QED BY <1>1, <1>2 DEF Included

\* Included is CompilerIncludes.
LEMMA CompilerIncludesIs ==
  ASSUME NEW c, NEW parent, NEW d
  PROVE  CompilerIncludes(c, parent, d) = Included(files, c, parent, d)
  BY DEF CompilerIncludes, Included, First, IsFirstFile

\* What the parser's search returns resolves, and nothing before it does.
LEMMA ResolvedIs ==
  ASSUME NEW d, NEW p \in Resolved(d), NEW C, C = Candidates(call, stack[1].parent, d)
  PROVE  /\ TryResolves(d, p)
         /\ \E j \in DOMAIN C : C[j] = p /\ \A k \in 1 .. j - 1 : ~TryResolves(d, C[k])
  BY DEF Resolved, First

\* When the search ends at a file, it is the one the compiler includes.
LEMMA ResolvedOnDisk ==
  ASSUME NEW d, NEW p \in Resolved(d), p \in DOMAIN files
  PROVE  IsFirstFile(files, Candidates(call, stack[1].parent, d), p)
  <1> DEFINE C == Candidates(call, stack[1].parent, d)
  <1>1. PICK j \in DOMAIN C : C[j] = p /\ \A k \in 1 .. j - 1 : ~TryResolves(d, C[k])
    BY ResolvedIs
  <1>2. \A k \in 1 .. j - 1 : C[k] \notin DOMAIN files
    BY <1>1 DEF TryResolves
  <1> QED BY <1>1, <1>2 DEF IsFirstFile

\* When the search fails, the compiler includes nothing.
LEMMA UnresolvedIncludesNothing ==
  ASSUME NEW d \in Directive, call \in Calls, stack[1].parent \in Paths, Resolved(d) = {}
  PROVE  Included(files, call, stack[1].parent, d) = {}
  <1> DEFINE C == Candidates(call, stack[1].parent, d)
             T == {j \in DOMAIN C : TryResolves(d, C[j])}
  <1>1. C \in Seq(Paths)
    BY CandidatesAre
  <1>2. T \subseteq Nat
    BY <1>1
  <1>3. T = {}
    <2> SUFFICES ASSUME T # {} PROVE FALSE
      OBVIOUS
    <2>1. PICK i \in T : \A j \in T : i <= j
      BY <1>2, LeastIndex
    <2>2. \A k \in 1 .. i - 1 : ~TryResolves(d, C[k])
      <3> SUFFICES ASSUME NEW k \in 1 .. i - 1, TryResolves(d, C[k]) PROVE FALSE
        OBVIOUS
      <3>1. i \in 1 .. Len(C)
        BY <1>1
      <3>2. k \in DOMAIN C
        BY <1>1, <3>1
      <3>3. k \in T
        BY <3>2
      <3> QED BY <2>1, <3>1, <3>3
    <2>3. C[i] \in Resolved(d)
      BY <2>2 DEF Resolved, First
    <2> QED BY <2>3
  <1> SUFFICES ASSUME NEW q \in Included(files, call, stack[1].parent, d) PROVE FALSE
    OBVIOUS
  <1>4. PICK j \in DOMAIN C : C[j] = q /\ q \in DOMAIN files
    BY DEF Included, IsFirstFile
  <1>5. j \in T
    BY <1>4 DEF TryResolves
  <1> QED BY <1>3, <1>5

\* Directive d of file h is still to be processed.
Pending(stk, h, d) ==
    \E j \in 1 .. Len(stk) : /\ stk[j].parent = h
                             /\ \E k \in 1 .. Len(stk[j].todo) : stk[j].todo[k] = d

\* A level after its todo has been replaced.
LEMMA FramePop ==
  ASSUME NEW g \in Frame, NEW t
  PROVE  [g EXCEPT !.todo = t] = [parent |-> g.parent, todo |-> t]
  BY DEF Frame

\* The stack after a directive has been taken off its innermost level.
LEMMA PoppedIs ==
  ASSUME stack \in Seq(Frame), Processing
  PROVE  /\ Popped \in Seq(Frame) /\ Len(Popped) = Len(stack) /\ Len(stack) >= 1
         /\ \A i \in 1 .. Len(stack) : Popped[i].parent = stack[i].parent
         /\ Popped[1].todo = Tail(stack[1].todo)
         /\ \A i \in 2 .. Len(stack) : Popped[i].todo = stack[i].todo
         /\ directive \in Directive /\ stack[1].parent \in Paths
  <1> DEFINE f == [stack[1] EXCEPT !.todo = Tail(stack[1].todo)]
  <1>1. stack # <<>> /\ stack[1].todo # <<>>
    BY DEF Processing
  <1>2. stack[1] \in Frame
    BY <1>1
  <1>3. /\ f \in Frame /\ f.parent = stack[1].parent /\ f.todo = Tail(stack[1].todo)
        /\ Head(stack[1].todo) \in Directive /\ stack[1].parent \in Paths
    <2>1. stack[1].parent \in Paths /\ stack[1].todo \in Seq(Directive)
      BY <1>2 DEF Frame
    <2>2. Tail(stack[1].todo) \in Seq(Directive) /\ Head(stack[1].todo) \in Directive
      BY <1>1, <2>1
    <2>3. f = [parent |-> stack[1].parent, todo |-> Tail(stack[1].todo)]
      BY <1>2, FramePop
    <2> QED BY <2>1, <2>2, <2>3 DEF Frame
  <1> HIDE DEF f
  <1>4. Popped = <<f>> \o Tail(stack)
    BY DEF Popped, f
  <1>5. /\ Popped \in Seq(Frame) /\ Len(Popped) = Len(stack) /\ Len(stack) >= 1
        /\ Popped[1] = f /\ \A i \in 2 .. Len(stack) : Popped[i] = stack[i]
    BY <1>1, <1>3, <1>4
  <1>6. \A i \in 1 .. Len(stack) : i = 1 \/ i \in 2 .. Len(stack)
    BY <1>5
  <1> QED BY <1>3, <1>5, <1>6 DEF directive

\* Taking the directive at hand off the stack disturbs no other.
LEMMA PoppedPending ==
  ASSUME stack \in Seq(Frame), Processing, NEW h, NEW d
  PROVE  /\ Pending(stack, h, d) => Pending(Popped, h, d) \/ (h = stack[1].parent /\ d = directive)
         /\ Pending(Popped, h, d) => Pending(stack, h, d)
         /\ Pending(stack, stack[1].parent, directive)
  <1>1. stack # <<>> /\ stack[1].todo # <<>> /\ stack[1].todo \in Seq(Directive)
    <2>1. stack # <<>> /\ stack[1].todo # <<>>
      BY DEF Processing
    <2>2. stack[1] \in Frame
      BY <2>1
    <2> QED BY <2>1, <2>2 DEF Frame
  <1>2. /\ Popped \in Seq(Frame) /\ Len(Popped) = Len(stack) /\ Len(stack) >= 1
        /\ \A i \in 1 .. Len(stack) : Popped[i].parent = stack[i].parent
        /\ Popped[1].todo = Tail(stack[1].todo)
        /\ \A i \in 2 .. Len(stack) : Popped[i].todo = stack[i].todo
    BY PoppedIs
  <1> DEFINE t == stack[1].todo
  <1>3. /\ t \in Seq(Directive) /\ Len(t) >= 1 /\ Len(Tail(t)) = Len(t) - 1 /\ t[1] = directive
        /\ \A k \in 1 .. Len(t) - 1 : Tail(t)[k] = t[k + 1]
    BY <1>1 DEF directive
  <1>4. \A j \in 1 .. Len(stack) : j = 1 \/ j \in 2 .. Len(stack)
    BY <1>2
  <1> HIDE DEF t
  <1>5. ASSUME Pending(stack, h, d)
        PROVE  Pending(Popped, h, d) \/ (h = stack[1].parent /\ d = directive)
    <2>1. PICK j \in 1 .. Len(stack) : /\ stack[j].parent = h
                                       /\ \E k \in 1 .. Len(stack[j].todo) : stack[j].todo[k] = d
      BY <1>5 DEF Pending
    <2>2. CASE j \in 2 .. Len(stack)
      BY <1>2, <2>1, <2>2 DEF Pending
    <2>3. CASE j = 1
      <3>1. PICK k \in 1 .. Len(t) : t[k] = d
        BY <2>1, <2>3 DEF t
      <3>2. CASE k = 1
        BY <1>3, <2>1, <2>3, <3>1, <3>2
      <3>3. CASE k # 1
        <4>1. k - 1 \in 1 .. Len(Tail(t)) /\ Tail(t)[k - 1] = d
          BY <1>3, <3>1, <3>3
        <4> QED BY <1>2, <2>1, <2>3, <4>1 DEF Pending, t
      <3> QED BY <3>2, <3>3
    <2> QED BY <1>4, <2>2, <2>3
  <1>6. ASSUME Pending(Popped, h, d) PROVE Pending(stack, h, d)
    <2>1. PICK j \in 1 .. Len(stack) : /\ Popped[j].parent = h
                                       /\ \E k \in 1 .. Len(Popped[j].todo) : Popped[j].todo[k] = d
      BY <1>2, <1>6 DEF Pending
    <2>2. CASE j \in 2 .. Len(stack)
      BY <1>2, <2>1, <2>2 DEF Pending
    <2>3. CASE j = 1
      <3>1. PICK k \in 1 .. Len(Tail(t)) : Tail(t)[k] = d
        BY <1>2, <2>1, <2>3 DEF t
      <3>2. k + 1 \in 1 .. Len(t) /\ t[k + 1] = d
        BY <1>3, <3>1
      <3> QED BY <1>2, <2>1, <2>3, <3>2 DEF Pending, t
    <2> QED BY <1>4, <2>2, <2>3
  <1>7. Pending(stack, stack[1].parent, directive)
    BY <1>2, <1>3 DEF Pending, t
  <1> QED BY <1>5, <1>6, <1>7

\* Descending into a header makes its directives pending, and no others.
LEMMA PushPending ==
  ASSUME NEW s \in Seq(Frame), NEW p \in Paths, NEW todo \in Seq(Directive), NEW h, NEW d
  PROVE  Pending(<<[parent |-> p, todo |-> todo]>> \o s, h, d) <=>
            Pending(s, h, d) \/ (h = p /\ \E k \in 1 .. Len(todo) : todo[k] = d)
  <1> DEFINE f == [parent |-> p, todo |-> todo]
             t == <<f>> \o s
  <1>1. f \in Frame /\ f.parent = p /\ f.todo = todo
    BY DEF Frame
  <1> HIDE DEF f
  <1>2. t \in Seq(Frame) /\ Len(t) = Len(s) + 1 /\ t[1] = f /\ Len(s) \in Nat
    BY <1>1
  <1>3. \A j \in 1 .. Len(s) : t[j + 1] = s[j] /\ j + 1 \in 1 .. Len(t)
    BY <1>1
  <1>4. \A j \in 1 .. Len(t) : j = 1 \/ (j - 1 \in 1 .. Len(s) /\ t[j] = s[j - 1])
    BY <1>1
  <1>5. 1 \in 1 .. Len(t)
    BY <1>2
  <1> HIDE DEF t
  <1>6. Pending(t, h, d) => Pending(s, h, d) \/ (h = p /\ \E k \in 1 .. Len(todo) : todo[k] = d)
    BY <1>1, <1>2, <1>4 DEF Pending
  <1>7. Pending(s, h, d) => Pending(t, h, d)
    <2> SUFFICES ASSUME Pending(s, h, d) PROVE Pending(t, h, d)
      OBVIOUS
    <2>1. PICK j \in 1 .. Len(s) : /\ s[j].parent = h
                                   /\ \E k \in 1 .. Len(s[j].todo) : s[j].todo[k] = d
      BY DEF Pending
    <2>2. j + 1 \in 1 .. Len(t) /\ t[j + 1] = s[j]
      BY <1>3, <2>1
    <2> QED BY <2>1, <2>2, Zenon DEF Pending
  <1>8. (h = p /\ \E k \in 1 .. Len(todo) : todo[k] = d) => Pending(t, h, d)
    BY <1>1, <1>2, <1>5 DEF Pending
  <1> QED BY <1>6, <1>7, <1>8 DEF t, f

\* Nothing pending is lost when a finished file is left.
LEMMA TailPending ==
  ASSUME stack \in Seq(Frame), stack # <<>>, stack[1].todo = <<>>, NEW h, NEW d
  PROVE  Pending(Tail(stack), h, d) <=> Pending(stack, h, d)
  <1> DEFINE s == Tail(stack)
  <1>1. s \in Seq(Frame) /\ Len(s) = Len(stack) - 1 /\ Len(stack) >= 1 /\ Len(stack[1].todo) = 0
    OBVIOUS
  <1>2. \A j \in 1 .. Len(s) : j + 1 \in 1 .. Len(stack) /\ s[j] = stack[j + 1]
    OBVIOUS
  <1>3. \A j \in 1 .. Len(stack) : j = 1 \/ (j - 1 \in 1 .. Len(s) /\ stack[j] = s[j - 1])
    OBVIOUS
  <1> HIDE DEF s
  <1>4. ASSUME Pending(s, h, d) PROVE Pending(stack, h, d)
    <2>1. PICK j \in 1 .. Len(s) : /\ s[j].parent = h
                                   /\ \E k \in 1 .. Len(s[j].todo) : s[j].todo[k] = d
      BY <1>4 DEF Pending
    <2> QED BY <1>2, <2>1, Zenon DEF Pending
  <1>5. ASSUME Pending(stack, h, d) PROVE Pending(s, h, d)
    <2>1. PICK j \in 1 .. Len(stack) : /\ stack[j].parent = h
                                       /\ \E k \in 1 .. Len(stack[j].todo) : stack[j].todo[k] = d
      BY <1>5 DEF Pending
    <2>2. j # 1
      BY <1>1, <2>1
    <2>3. j - 1 \in 1 .. Len(s) /\ stack[j] = s[j - 1]
      BY <1>3, <2>1, <2>2
    <2> QED BY <2>1, <2>3, Zenon DEF Pending
  <1> QED BY <1>4, <1>5 DEF s

\* A new entry keeps a table a table.
LEMMA TableWith ==
  ASSUME NEW fn, NEW Keys, NEW tree, Table(fn, Keys, tree), NEW key \in Keys, NEW v \in DOMAIN tree
  PROVE  Table(With(fn, key, v), Keys, tree)
  <1> DEFINE w == With(fn, key, v)
  <1>1. /\ DOMAIN w = DOMAIN fn \cup {key} /\ w[key] = v
        /\ \A k \in DOMAIN fn : k # key => w[k] = fn[k]
    BY DEF With
  <1> HIDE DEF w
  <1>2. \A k \in DOMAIN w : k = key \/ (k \in DOMAIN fn /\ k # key)
    BY <1>1
  <1>3. \A k \in DOMAIN w : w[k] \in DOMAIN tree
    BY <1>1, <1>2 DEF Table
  <1>4. DOMAIN w \subseteq Keys
    BY <1>1 DEF Table
  <1> QED BY <1>3, <1>4 DEF Table, w

\* The empty table is one.
LEMMA EmptyTable ==
  ASSUME NEW Keys, NEW tree
  PROVE  Table(Empty, Keys, tree) /\ DOMAIN Empty = {}
  BY DEF Table, Empty

\* While a directive is processed there is a call, a parent and a directive.
LEMMA InCall ==
  ASSUME ParserTypes, Processing
  PROVE  /\ call \in Calls /\ stack \in Seq(Frame) /\ stack[1].parent \in Paths /\ directive \in Directive
         /\ directive.type \in {"angle", "quote"} /\ directive.content \in Contents
  <1>1. call \in Calls /\ stack \in Seq(Frame)
    BY DEF ParserTypes, Processing
  <1>2. stack[1].parent \in Paths /\ directive \in Directive
    BY <1>1, PoppedIs
  <1> QED BY <1>1, <1>2 DEF Directive

\* What the search returns is a path and has a cache key.
LEMMA ResolvedTypes ==
  ASSUME ParserTypes, Processing, NEW p \in Resolved(directive)
  PROVE  p \in Paths /\ TryResolves(directive, p) /\ CacheKey(directive, p) \in Contents
  <1> DEFINE C == Candidates(call, stack[1].parent, directive)
  <1>1. C \in Seq(Paths)
    BY InCall, CandidatesAre
  <1>2. PICK j \in DOMAIN C : C[j] = p
    BY ResolvedIs
  <1>3. TryResolves(directive, p)
    BY ResolvedIs
  <1>4. p \in Paths
    BY <1>1, <1>2
  <1> QED BY <1>3, <1>4, InCall DEF CacheKey, Contents

\* What a call starts with is a sequence of directives.
LEMMA TopTypes ==
  ASSUME NEW tree \in Trees, NEW c \in Calls, files = tree, c.src \in DOMAIN tree
  PROVE  TopDirectives(c) \in Seq(Directive)
  <1> DEFINE s == [i \in DOMAIN c.dash_include |-> [type |-> "angle", content |-> c.dash_include[i]]]
  <1>1. c.dash_include \in Seq(Paths)
    BY CallTypes
  <1>2. \A i \in 1 .. Len(c.dash_include) : [type |-> "angle", content |-> c.dash_include[i]] \in Directive
    BY <1>1 DEF Directive, Contents
  <1>3. s \in Seq(Directive)
    BY <1>1, <1>2
  <1>4. tree[c.src] \in Seq(Directive)
    BY TreeTypes
  <1> HIDE DEF s
  <1>5. s \o tree[c.src] \in Seq(Directive)
    BY <1>3, <1>4
  <1> QED BY <1>5 DEF TopDirectives, find_file_includes, s

\* The stack after the parser has descended into header p.
LEMMA PushedStack ==
  ASSUME ParserTypes, Processing, NEW p \in DOMAIN files
  PROVE  /\ <<[parent |-> p, todo |-> files[p]]>> \o Popped \in Seq(Frame)
         /\ p \in Paths /\ files[p] \in Seq(Directive)
  <1>1. p \in Paths /\ files[p] \in Seq(Directive)
    BY TreeTypes DEF ParserTypes
  <1>2. Popped \in Seq(Frame)
    BY InCall, PoppedIs
  <1>3. [parent |-> p, todo |-> files[p]] \in Frame
    BY <1>1 DEF Frame
  <1> DEFINE f == [parent |-> p, todo |-> files[p]]
  <1> HIDE DEF f
  <1>4. <<f>> \o Popped \in Seq(Frame)
    BY <1>2, <1>3 DEF f
  <1> QED BY <1>1, <1>4 DEF f

\* A header that is neither entered nor cached is read from the disk.
LEMMA ReadIsOnDisk ==
  ASSUME ParserTypes, Processing, NEW p \in Resolved(directive), p \notin DOMAIN inc_directives,
         CacheKey(directive, p) \notin DOMAIN include_cache_data
  PROVE  p \in DOMAIN files
  BY ResolvedTypes DEF TryResolves

\* Every step keeps the types.
LEMMA TypesKept ==
  ParserTypes /\ [Next]_vars => ParserTypes'
  <1> SUFFICES ASSUME ParserTypes, [Next]_vars PROVE ParserTypes'
    OBVIOUS
  <1>0. /\ files \in Trees /\ call \in Calls \cup {NoCall} /\ stack \in Seq(Frame)
        /\ stack # <<>> => call # NoCall
        /\ Table(inc_directives, Paths, files) /\ Table(include_cache_data, Contents, files)
        /\ include_abs_paths = include_cache_data
    BY DEF ParserTypes
  <1>01. DOMAIN files \subseteq Paths
    BY <1>0, TreeTypes
  <1>1. CASE UNCHANGED vars
    BY <1>1 DEF vars, ParserTypes
  <1>2. CASE TakeKnownPath
    <2> DEFINE p == include_abs_paths[directive.content]
    <2>1. p \in DOMAIN include_cache_data /\ p \in DOMAIN files
      BY <1>0, <1>2 DEF TakeKnownPath, KnownPath, Table
    <2>2. include_cache_data[p] \in DOMAIN files /\ p \in Paths
      BY <1>0, <1>01, <2>1 DEF Table
    <2> HIDE DEF p
    <2>3. inc_directives' = With(inc_directives, p, include_cache_data[p])
      BY <1>2 DEF TakeKnownPath, p
    <2>4. Table(inc_directives', Paths, files)
      BY <1>0, <2>2, <2>3, TableWith
    <2>5. /\ Processing /\ stack' = Popped /\ files' = files /\ call' = call
          /\ include_abs_paths' = include_abs_paths /\ include_cache_data' = include_cache_data
      BY <1>2 DEF TakeKnownPath, cacheVars
    <2>6. Popped \in Seq(Frame) /\ call # NoCall
      BY <1>0, <2>5, PoppedIs DEF Processing
    <2> QED BY <1>0, <2>4, <2>5, <2>6 DEF ParserTypes
  <1>3. CASE Unresolved \/ AlreadyFound
    <2>5. /\ Processing /\ stack' = Popped /\ files' = files /\ call' = call
          /\ include_abs_paths' = include_abs_paths /\ include_cache_data' = include_cache_data
          /\ inc_directives' = inc_directives
      BY <1>3 DEF Unresolved, AlreadyFound, cacheVars
    <2>6. Popped \in Seq(Frame) /\ call # NoCall
      BY <1>0, <2>5, PoppedIs DEF Processing
    <2> QED BY <1>0, <2>5, <2>6 DEF ParserTypes
  <1>4. CASE TakeCached
    <2>1. PICK p \in Resolved(directive) :
            /\ CacheKey(directive, p) \in DOMAIN include_cache_data
            /\ inc_directives' = With(inc_directives, p, include_cache_data[CacheKey(directive, p)])
      BY <1>4 DEF TakeCached
    <2>5. /\ Processing /\ stack' = Popped /\ files' = files /\ call' = call
          /\ include_abs_paths' = include_abs_paths /\ include_cache_data' = include_cache_data
      BY <1>4 DEF TakeCached, cacheVars
    <2>2. include_cache_data[CacheKey(directive, p)] \in DOMAIN files /\ p \in Paths
      BY <1>0, <2>1, <2>5, ResolvedTypes DEF Table
    <2>4. Table(inc_directives', Paths, files)
      BY <1>0, <2>1, <2>2, TableWith
    <2>6. Popped \in Seq(Frame) /\ call # NoCall
      BY <1>0, <2>5, PoppedIs DEF Processing
    <2> QED BY <1>0, <2>4, <2>5, <2>6 DEF ParserTypes
  <1>5. CASE ReadHeader
    <2>1. PICK p \in Resolved(directive) :
            /\ p \notin DOMAIN inc_directives
            /\ CacheKey(directive, p) \notin DOMAIN include_cache_data
            /\ IF requires_inc_storage(call, p) THEN Store(CacheKey(directive, p), p) ELSE UNCHANGED cacheVars
            /\ inc_directives' = With(inc_directives, p, p)
            /\ stack' = <<[parent |-> p, todo |-> files[p]]>> \o Popped
      BY <1>5 DEF ReadHeader, find_file_includes
    <2>2. Processing /\ files' = files /\ call' = call
      BY <1>5 DEF ReadHeader
    <2>3. p \in DOMAIN files /\ p \in Paths /\ CacheKey(directive, p) \in Contents
      BY <2>1, <2>2, ReadIsOnDisk, ResolvedTypes
    <2>4. Table(inc_directives', Paths, files)
      BY <1>0, <2>1, <2>3, TableWith
    <2>5. /\ Table(include_cache_data', Contents, files)
          /\ include_abs_paths' = include_cache_data'
      BY <1>0, <2>1, <2>3, TableWith DEF Store, cacheVars
    <2>6. stack' \in Seq(Frame) /\ call # NoCall
      BY <1>0, <2>1, <2>2, <2>3, PushedStack DEF Processing
    <2> QED BY <1>0, <2>2, <2>4, <2>5, <2>6 DEF ParserTypes
  <1>6. CASE ReturnFromFile
    <2>1. Tail(stack) \in Seq(Frame) /\ call # NoCall
      BY <1>0, <1>6 DEF ReturnFromFile
    <2> QED BY <1>0, <1>6, <2>1 DEF ReturnFromFile, cacheVars, ParserTypes
  <1>7. CASE EndCall
    BY <1>0, <1>7 DEF EndCall, Parsed, cacheVars, ParserTypes
  <1>8. ASSUME NEW c \in Calls, StartCall(c) PROVE ParserTypes'
    <2>1. /\ files' = files /\ call' = c /\ inc_directives' = Empty
          /\ include_abs_paths' = include_abs_paths /\ include_cache_data' = include_cache_data
          /\ stack' = IF c.src \in DOMAIN files THEN <<[parent |-> c.src, todo |-> TopDirectives(c)]>> ELSE <<>>
      BY <1>8 DEF StartCall, cacheVars
    <2>2. c # NoCall /\ c.src \in Paths
      BY CallTypes
    <2>3. stack' \in Seq(Frame)
      <3>1. CASE c.src \in DOMAIN files
        <4>1. TopDirectives(c) \in Seq(Directive)
          BY <1>0, <3>1, TopTypes
        <4>2. [parent |-> c.src, todo |-> TopDirectives(c)] \in Frame
          BY <2>2, <4>1 DEF Frame
        <4> DEFINE f == [parent |-> c.src, todo |-> TopDirectives(c)]
        <4> HIDE DEF f
        <4>3. <<f>> \in Seq(Frame)
          BY <4>2 DEF f
        <4> QED BY <2>1, <3>1, <4>3 DEF f
      <3>2. CASE c.src \notin DOMAIN files
        BY <2>1, <3>2
      <3> QED BY <3>1, <3>2
    <2>4. Table(inc_directives', Paths, files)
      BY <2>1, EmptyTable
    <2> QED BY <1>0, <2>1, <2>2, <2>3, <2>4 DEF ParserTypes
  <1> QED BY <1>1, <1>2, <1>3, <1>4, <1>5, <1>6, <1>7, <1>8 DEF Next, Parse

\* The headers in a table.
Values(fn) == {fn[k] : k \in DOMAIN fn}

\* The headers in a table after an entry.
LEMMA ValuesWith ==
  ASSUME NEW fn, NEW key, NEW v
  PROVE  /\ DOMAIN With(fn, key, v) = DOMAIN fn \cup {key}
         /\ v \in Values(With(fn, key, v))
         /\ Values(With(fn, key, v)) \subseteq Values(fn) \cup {v}
         /\ (key \notin DOMAIN fn \/ fn[key] = v) => Values(fn) \subseteq Values(With(fn, key, v))
  <1> DEFINE w == With(fn, key, v)
  <1>1. /\ DOMAIN w = DOMAIN fn \cup {key} /\ w[key] = v
        /\ \A k \in DOMAIN fn : k # key => w[k] = fn[k]
    BY DEF With
  <1> HIDE DEF w
  <1>2. v \in Values(w)
    BY <1>1 DEF Values
  <1>3. Values(w) \subseteq Values(fn) \cup {v}
    <2> SUFFICES ASSUME NEW k \in DOMAIN w PROVE w[k] \in Values(fn) \cup {v}
      BY DEF Values
    <2>1. k = key \/ (k # key /\ k \in DOMAIN fn)
      BY <1>1
    <2> QED BY <1>1, <2>1 DEF Values
  <1>4. (key \notin DOMAIN fn \/ fn[key] = v) => Values(fn) \subseteq Values(w)
    <2> SUFFICES ASSUME key \notin DOMAIN fn \/ fn[key] = v, NEW k \in DOMAIN fn
                 PROVE  fn[k] \in Values(w)
      BY DEF Values
    <2>1. k \in DOMAIN w /\ w[k] = fn[k]
      BY <1>1
    <2> QED BY <2>1 DEF Values
  <1> QED BY <1>1, <1>2, <1>3, <1>4 DEF w

\* Every step keeps DepthInv: ReadHeader descends only into a header that was
\* not entered before, and enters it.
LEMMA DepthKept ==
  ParserTypes /\ DepthInv /\ [Next]_vars => DepthInv'
  <1> SUFFICES ASSUME ParserTypes, DepthInv, [Next]_vars PROVE DepthInv'
    OBVIOUS
  <1>0. stack \in Seq(Frame)
    BY DEF ParserTypes
  <1> DEFINE n == Len(stack) - 1
  <1>d. /\ \A i \in 1 .. n : stack[i].parent \in DOMAIN inc_directives /\ stack[i].parent \in DOMAIN files
        /\ \A i, j \in 1 .. n : stack[i].parent = stack[j].parent => i = j
    BY DEF DepthInv
  <1>1. CASE UNCHANGED vars
    BY <1>1 DEF vars, DepthInv
  <1>2. CASE TakeKnownPath \/ Unresolved \/ AlreadyFound \/ TakeCached
    <2>1. /\ Processing /\ stack' = Popped /\ files' = files
          /\ DOMAIN inc_directives \subseteq DOMAIN inc_directives'
      <3>1. \A key, v : DOMAIN inc_directives \subseteq DOMAIN With(inc_directives, key, v)
        BY DEF With
      <3> QED BY <1>2, <3>1 DEF TakeKnownPath, Unresolved, AlreadyFound, TakeCached
    <2>2. Len(Popped) = Len(stack) /\ \A i \in 1 .. Len(stack) : Popped[i].parent = stack[i].parent
      BY <1>0, <2>1, PoppedIs
    <2>3. \A i \in 1 .. n : i \in 1 .. Len(stack)
      BY <1>0
    <2> QED BY <1>d, <2>1, <2>2, <2>3 DEF DepthInv
  <1>3. CASE ReadHeader
    <2>1. PICK p \in Resolved(directive) :
            /\ p \notin DOMAIN inc_directives
            /\ CacheKey(directive, p) \notin DOMAIN include_cache_data
            /\ inc_directives' = With(inc_directives, p, p)
            /\ stack' = <<[parent |-> p, todo |-> files[p]]>> \o Popped
      BY <1>3 DEF ReadHeader, find_file_includes
    <2>2. Processing /\ files' = files
      BY <1>3 DEF ReadHeader
    <2>3. p \in DOMAIN files
      BY <2>1, <2>2, ReadIsOnDisk
    <2>4. DOMAIN inc_directives' = DOMAIN inc_directives \cup {p}
      BY <2>1, ValuesWith
    <2>5. /\ Popped \in Seq(Frame) /\ Len(Popped) = Len(stack) /\ Len(stack) >= 1
          /\ \A i \in 1 .. Len(stack) : Popped[i].parent = stack[i].parent
      BY <1>0, <2>2, PoppedIs
    <2> DEFINE f == [parent |-> p, todo |-> files[p]]
    <2>6. f.parent = p
      OBVIOUS
    <2> HIDE DEF f
    <2>7. /\ Len(<<f>> \o Popped) = Len(Popped) + 1 /\ (<<f>> \o Popped)[1] = f
          /\ \A i \in 2 .. Len(Popped) + 1 : (<<f>> \o Popped)[i] = Popped[i - 1]
      BY <2>5
    <2>8. Len(stack') - 1 = Len(stack) /\ stack'[1].parent = p
      BY <2>1, <2>5, <2>6, <2>7 DEF f
    <2>9. \A i \in 2 .. Len(stack) : stack'[i].parent = stack[i - 1].parent /\ i - 1 \in 1 .. n
      <3>1. \A i \in 2 .. Len(stack) : /\ i \in 2 .. Len(Popped) + 1 /\ i - 1 \in 1 .. n
                                       /\ i - 1 \in 1 .. Len(stack)
        BY <2>5
      <3>2. \A i \in 2 .. Len(stack) : stack'[i] = Popped[i - 1]
        BY <2>1, <2>7, <3>1 DEF f
      <3> QED BY <2>5, <3>1, <3>2
    <2>10. \A i \in 1 .. Len(stack) : i = 1 \/ i \in 2 .. Len(stack)
      BY <2>5
    <2>11. \A i \in 2 .. Len(stack) : /\ stack'[i].parent \in DOMAIN inc_directives
                                      /\ stack'[i].parent \in DOMAIN files
      BY <1>d, <2>9
    <2>12. \A i \in 1 .. Len(stack) : /\ stack'[i].parent \in DOMAIN inc_directives'
                                      /\ stack'[i].parent \in DOMAIN files'
      BY <2>2, <2>3, <2>4, <2>8, <2>10, <2>11
    <2>13. ASSUME NEW i \in 1 .. Len(stack), NEW j \in 1 .. Len(stack), stack'[i].parent = stack'[j].parent
           PROVE  i = j
      <3>1. CASE i = 1 \/ j = 1
        BY <2>1, <2>8, <2>10, <2>11, <2>13, <3>1
      <3>2. CASE i \in 2 .. Len(stack) /\ j \in 2 .. Len(stack)
        <4>1. i - 1 \in 1 .. n /\ j - 1 \in 1 .. n /\ stack[i - 1].parent = stack[j - 1].parent
          BY <2>9, <2>13, <3>2
        <4>2. i - 1 = j - 1
          BY <1>d, <4>1
        <4> QED BY <3>2, <4>2
      <3> QED BY <2>10, <3>1, <3>2
    <2> QED BY <2>8, <2>12, <2>13 DEF DepthInv
  <1>4. CASE ReturnFromFile
    <2>1. stack # <<>> /\ stack' = Tail(stack) /\ files' = files /\ inc_directives' = inc_directives
      BY <1>4 DEF ReturnFromFile
    <2>2. /\ Len(stack') = n /\ \A i \in 1 .. n - 1 : stack'[i] = stack[i + 1] /\ i + 1 \in 1 .. n
      BY <1>0, <2>1
    <2>3. ASSUME NEW i \in 1 .. n - 1, NEW j \in 1 .. n - 1, stack'[i].parent = stack'[j].parent
          PROVE  i = j
      <3>1. i + 1 = j + 1
        BY <1>d, <2>2, <2>3
      <3> QED BY <3>1
    <2>4. \A i \in 1 .. n - 1 : stack'[i].parent \in DOMAIN inc_directives /\ stack'[i].parent \in DOMAIN files
      BY <1>d, <2>2
    <2> QED BY <2>1, <2>2, <2>3, <2>4 DEF DepthInv
  <1>5. CASE EndCall
    BY <1>5 DEF EndCall, DepthInv
  <1>6. ASSUME NEW c \in Calls, StartCall(c) PROVE DepthInv'
    <2>1. stack' = <<>> \/ \E f : stack' = <<f>>
      BY <1>6 DEF StartCall
    <2>2. Len(stack') = 0 \/ Len(stack') = 1
      <3>1. ASSUME NEW f, stack' = <<f>> PROVE Len(stack') = 1
        BY <3>1
      <3>2. ASSUME stack' = <<>> PROVE Len(stack') = 0
        BY <3>2
      <3> QED BY <2>1, <3>1, <3>2
    <2>3. \A i \in 1 .. Len(stack') - 1 : FALSE
      <3>1. \A i \in 1 .. 0 - 1 : FALSE
        OBVIOUS
      <3>2. \A i \in 1 .. 1 - 1 : FALSE
        OBVIOUS
      <3> QED BY <2>2, <3>1, <3>2, Zenon
    <2> QED BY <2>3, Zenon DEF DepthInv
  <1> QED BY <1>1, <1>2, <1>3, <1>4, <1>5, <1>6 DEF Next, Parse

\* The levels but the outermost inject into the files on the disk.
LEMMA DepthBounds ==
  ASSUME ParserTypes, DepthInv
  PROVE  RecursionBounded
  <1> DEFINE n == Len(stack) - 1
             f == [i \in 1 .. n |-> stack[i].parent]
  <1>1. stack \in Seq(Frame) /\ IsFiniteSet(DOMAIN files)
    BY TreeTypes DEF ParserTypes
  <1>2. Cardinality(DOMAIN files) \in Nat
    BY <1>1, FS_CardinalityType
  <1>3. CASE stack = <<>>
    BY <1>2, <1>3 DEF RecursionBounded
  <1>4. CASE stack # <<>>
    <2>1. n \in Nat
      BY <1>1, <1>4
    <2>2. f \in Injection(1 .. n, DOMAIN files)
      <3>1. \A i \in 1 .. n : f[i] = stack[i].parent
        OBVIOUS
      <3>2. f \in [1 .. n -> DOMAIN files]
        BY DEF DepthInv
      <3>3. \A i, j \in 1 .. n : f[i] = f[j] => i = j
        BY <3>1 DEF DepthInv
      <3> QED BY <3>2, <3>3 DEF Injection, IsInjective
    <2>3. IsFiniteSet(1 .. n) /\ Cardinality(1 .. n) = n
      <3>1. n = 0 \/ 1 <= n
        BY <2>1
      <3> QED BY <2>1, <3>1, FS_Interval
    <2> HIDE DEF f
    <2>4. Cardinality(1 .. n) <= Cardinality(DOMAIN files)
      BY <1>1, <2>2, FS_Injection
    <2> QED BY <1>1, <1>2, <2>3, <2>4 DEF RecursionBounded
  <1> QED BY <1>3, <1>4

\* The cache has under an absolute path that path, and under a name the file
\* that an angle directive with this name includes in every call.
CacheOK(tree, cache) ==
    \A k \in DOMAIN cache :
        /\ k \in Paths => cache[k] = k
        /\ k \in Names => \A c \in Calls : IsFirstFile(tree, AngleCandidates(c, k), cache[k])

\* _inc_directives has under the path of a file that file; under a path where
\* there is no file it has the cached header of that name.
EntryIs(tree, cache, p, v) ==
    /\ p \in DOMAIN tree => v = p
    /\ p \notin DOMAIN tree => p[2] \in DOMAIN cache /\ v = cache[p[2]]

\* Every entry is like that.
EntryOK(tree, cache, inc) == \A p \in DOMAIN inc : EntryIs(tree, cache, p, inc[p])

\* A right entry keeps the cache right.
LEMMA CacheGrows ==
  ASSUME NEW tree, NEW cache, CacheOK(tree, cache), NEW key, NEW v,
         key \in Paths => v = key,
         key \in Names => \A c \in Calls : IsFirstFile(tree, AngleCandidates(c, key), v)
  PROVE  CacheOK(tree, With(cache, key, v))
  <1> DEFINE w == With(cache, key, v)
  <1>1. /\ DOMAIN w = DOMAIN cache \cup {key} /\ w[key] = v
        /\ \A k \in DOMAIN cache : k # key => w[k] = cache[k]
    BY DEF With
  <1> HIDE DEF w
  <1>2. ASSUME NEW k \in DOMAIN w
        PROVE  /\ k \in Paths => w[k] = k
               /\ k \in Names => \A c \in Calls : IsFirstFile(tree, AngleCandidates(c, k), w[k])
    <2>1. CASE k = key
      BY <1>1, <2>1
    <2>2. CASE k # key
      <3>1. k \in DOMAIN cache /\ w[k] = cache[k]
        BY <1>1, <2>2
      <3> QED BY <3>1 DEF CacheOK
    <2> QED BY <2>1, <2>2
  <1> QED BY <1>2, Zenon DEF CacheOK, w

\* A right entry keeps the entries right.
LEMMA EntryGrows ==
  ASSUME NEW tree, NEW cache, NEW inc, EntryOK(tree, cache, inc), NEW p, NEW v, EntryIs(tree,
         cache, p, v)
  PROVE  EntryOK(tree, cache, With(inc, p, v))
  <1> DEFINE w == With(inc, p, v)
  <1>1. /\ DOMAIN w = DOMAIN inc \cup {p} /\ w[p] = v
        /\ \A k \in DOMAIN inc : k # p => w[k] = inc[k]
    BY DEF With
  <1> HIDE DEF w
  <1>2. ASSUME NEW k \in DOMAIN w PROVE EntryIs(tree, cache, k, w[k])
    <2>1. CASE k = p
      BY <1>1, <2>1
    <2>2. CASE k # p
      <3>1. k \in DOMAIN inc /\ w[k] = inc[k]
        BY <1>1, <2>2
      <3> QED BY <3>1 DEF EntryOK
    <2> QED BY <2>1, <2>2
  <1> QED BY <1>2, Zenon DEF EntryOK, w

\* The entries stay right when the cache learns something new.
LEMMA EntryCacheGrows ==
  ASSUME NEW tree, NEW cache, NEW inc, EntryOK(tree, cache, inc), NEW key,
         key \notin DOMAIN cache, NEW v
  PROVE  EntryOK(tree, With(cache, key, v), inc)
  <1> DEFINE w == With(cache, key, v)
  <1>1. DOMAIN cache \subseteq DOMAIN w /\ \A k \in DOMAIN cache : w[k] = cache[k]
    BY DEF With
  <1> HIDE DEF w
  <1>2. ASSUME NEW p \in DOMAIN inc PROVE EntryIs(tree, w, p, inc[p])
    <2>1. EntryIs(tree, cache, p, inc[p])
      BY DEF EntryOK
    <2> QED BY <1>1, <2>1 DEF EntryIs
  <1> QED BY <1>2, Zenon DEF EntryOK, w

\* A search that finds nothing in its first part goes on in the second.
LEMMA FirstInTail ==
  ASSUME NEW tree, NEW s \in Seq(Paths), NEW t \in Seq(Paths), NEW q,
         \A i \in 1 .. Len(s) : s[i] \notin DOMAIN tree, IsFirstFile(tree, s \o t, q)
  PROVE  IsFirstFile(tree, t, q)
  <1> DEFINE m == Len(s)
             u == s \o t
  <1>1. /\ u \in Seq(Paths) /\ Len(u) = m + Len(t) /\ m \in Nat /\ Len(t) \in Nat
        /\ \A i \in 1 .. m : u[i] = s[i]
        /\ \A i \in 1 .. Len(t) : u[m + i] = t[i]
    OBVIOUS
  <1>2. q \in DOMAIN tree
    BY DEF IsFirstFile
  <1>3. PICK j \in 1 .. Len(u) : u[j] = q /\ \A k \in 1 .. j - 1 : u[k] \notin DOMAIN tree
    BY <1>1, SMTT(30) DEF IsFirstFile
  <1> HIDE DEF u
  <1>4. ~(j <= m)
    BY <1>1, <1>2, <1>3
  <1> DEFINE i == j - m
  <1>5. i \in 1 .. Len(t) /\ j = m + i
    BY <1>1, <1>3, <1>4
  <1>6. t[i] = q
    BY <1>1, <1>3, <1>5
  <1>7. \A k \in 1 .. i - 1 : t[k] \notin DOMAIN tree
    <2> SUFFICES ASSUME NEW k \in 1 .. i - 1 PROVE t[k] \notin DOMAIN tree
      OBVIOUS
    <2>1. k \in 1 .. Len(t) /\ m + k \in 1 .. j - 1
      BY <1>1, <1>3, <1>5
    <2>2. u[m + k] = t[k]
      BY <1>1, <2>1
    <2> QED BY <1>3, <2>1, <2>2
  <1>8. i \in DOMAIN t
    BY <1>5
  <1> QED BY <1>2, <1>6, <1>7, <1>8 DEF IsFirstFile

\* A directive with the absolute path of a file includes that file.
LEMMA PathFound ==
  ASSUME NEW tree, NEW c \in Calls, NEW parent \in Paths, NEW d \in Directive, d.content \in Paths,
         d.content \in DOMAIN tree
  PROVE  IsFirstFile(tree, Candidates(c, parent, d), d.content)
  <1>1. /\ 1 \in DOMAIN Candidates(c, parent, d) /\ Candidates(c, parent, d)[1] = d.content
    BY PathSearch
  <1>2. \A k \in 1 .. 1 - 1 : FALSE
    OBVIOUS
  <1> QED BY <1>1, <1>2 DEF IsFirstFile

\* TakeKnownPath takes the file that the compiler includes.
LEMMA KnownPathFinds ==
  ASSUME ParserTypes, Processing, KnownPath, CacheOK(files, include_cache_data),
         EntryOK(files, include_cache_data, inc_directives),
         NEW p, p = include_abs_paths[directive.content]
  PROVE  /\ p \in DOMAIN files /\ p \in DOMAIN include_cache_data /\ include_cache_data[p] = p
         /\ Included(files, call, stack[1].parent, directive) = {p}
         /\ EntryIs(files, include_cache_data, p, p)
         /\ p \notin DOMAIN inc_directives \/ inc_directives[p] = p
  <1>0. /\ files \in Trees /\ Table(include_cache_data, Contents, files)
        /\ include_abs_paths = include_cache_data
    BY DEF ParserTypes
  <1>1. directive.type = "angle" /\ directive.content \in DOMAIN include_cache_data
        /\ p \in DOMAIN include_cache_data /\ p = include_cache_data[directive.content]
    BY <1>0 DEF KnownPath
  <1>2. p \in DOMAIN files /\ p \in Paths
    BY <1>0, <1>1, TreeTypes DEF Table
  <1>3. include_cache_data[p] = p
    BY <1>1, <1>2 DEF CacheOK
  <1>4. /\ call \in Calls /\ stack[1].parent \in Paths /\ directive \in Directive
        /\ directive.content \in Names \/ directive.content \in Paths
    BY InCall DEF Contents
  <1>5. IsFirstFile(files, Candidates(call, stack[1].parent, directive), p)
    <2>1. CASE directive.content \in Names
      <3>1. IsFirstFile(files, AngleCandidates(call, directive.content), p)
        BY <1>1, <1>4, <2>1 DEF CacheOK
      <3> QED BY <1>1, <1>4, <2>1, <3>1, AngleSearch
    <2>2. CASE directive.content \in Paths
      <3>1. p = directive.content
        BY <1>1, <2>2 DEF CacheOK
      <3> QED BY <1>2, <1>4, <2>2, <3>1, PathFound
    <2> QED BY <1>4, <2>1, <2>2
  <1>6. Included(files, call, stack[1].parent, directive) = {p}
    BY <1>4, <1>5, IncludedUnique
  <1>7. p \notin DOMAIN inc_directives \/ inc_directives[p] = p
    BY <1>2 DEF EntryOK, EntryIs
  <1> QED BY <1>1, <1>2, <1>3, <1>6, <1>7 DEF EntryIs

\* ReadHeader reads the file that the compiler includes, and the key it is
\* cached under is right for every call with the same directories.
LEMMA ReadFinds ==
  ASSUME ParserTypes, Processing, SameAngleDirs, NEW p \in Resolved(directive), p \in DOMAIN files,
         NEW key, key = CacheKey(directive, p)
  PROVE  /\ Included(files, call, stack[1].parent, directive) = {p}
         /\ key \in Paths => p = key
         /\ key \in Names => \A c \in Calls : IsFirstFile(files, AngleCandidates(c, key), p)
  <1>1. IsFirstFile(files, Candidates(call, stack[1].parent, directive), p)
    BY ResolvedOnDisk
  <1>2. /\ call \in Calls /\ stack[1].parent \in Paths /\ directive \in Directive
        /\ directive.type = "angle" \/ directive.type = "quote"
        /\ directive.content \in Names \/ directive.content \in Paths
    BY InCall DEF Contents
  <1>3. Included(files, call, stack[1].parent, directive) = {p}
    BY <1>1, <1>2, IncludedUnique
  <1>4. p \in Paths
    BY ResolvedTypes
  <1>5. CASE directive.type = "quote"
    <2>1. key = p /\ p \notin Names
      BY <1>4, <1>5, IncludesParserAssumption DEF CacheKey
    <2> QED BY <1>3, <2>1
  <1>6. CASE directive.type = "angle" /\ directive.content \in Paths
    <2>1. key = directive.content /\ key \notin Names
      BY <1>6, IncludesParserAssumption DEF CacheKey
    <2>2. \A i \in DOMAIN Candidates(call, stack[1].parent, directive) :
             Candidates(call, stack[1].parent, directive)[i] = directive.content
      BY <1>2, <1>6, PathSearch
    <2>3. p = key
      BY <1>1, <2>1, <2>2 DEF IsFirstFile
    <2> QED BY <1>3, <2>1, <2>3
  <1>7. CASE directive.type = "angle" /\ directive.content \in Names
    <2>1. key = directive.content /\ key \notin Paths /\ key \in Names
      BY <1>7, IncludesParserAssumption DEF CacheKey
    <2>2. IsFirstFile(files, AngleCandidates(call, key), p)
      BY <1>1, <1>2, <1>7, <2>1, AngleSearch
    <2>3. \A c \in Calls : AngleCandidates(c, key) = AngleCandidates(call, key)
      BY <1>2 DEF SameAngleDirs, AngleCandidates
    <2>4. \A c \in Calls : IsFirstFile(files, AngleCandidates(c, key), p)
      BY <2>2, <2>3
    <2> QED BY <1>3, <2>1, <2>4
  <1> QED BY <1>2, <1>5, <1>6, <1>7

\* TakeCached takes the file that the compiler includes, also when the search
\* ended at a path where there is no file.
LEMMA CachedFinds ==
  ASSUME ParserTypes, Processing, CacheOK(files, include_cache_data), NEW p \in Resolved(directive),
         NEW key, key = CacheKey(directive, p), key \in DOMAIN include_cache_data
  PROVE  /\ Included(files, call, stack[1].parent, directive) = {include_cache_data[key]}
         /\ EntryIs(files, include_cache_data, p, include_cache_data[key])
  <1> DEFINE C == Candidates(call, stack[1].parent, directive)
             v == include_cache_data[key]
  <1>0. files \in Trees /\ Table(include_cache_data, Contents, files)
    BY DEF ParserTypes
  <1>1. v \in DOMAIN files
    BY <1>0 DEF Table
  <1>2. /\ call \in Calls /\ stack[1].parent \in Paths /\ directive \in Directive
        /\ directive.type = "angle" \/ directive.type = "quote"
        /\ directive.content \in Names \/ directive.content \in Paths
    BY InCall DEF Contents
  <1>3. p \in Paths
    BY ResolvedTypes
  <1>4. C \in Seq(Paths)
    BY <1>2, CandidatesAre
  <1>5. PICK j \in DOMAIN C : C[j] = p
    BY ResolvedIs
  <1>6. CASE directive.type = "quote" \/ directive.content \in Paths
    <2>1. key = p
      <3>1. CASE directive.type = "quote"
        BY <3>1 DEF CacheKey
      <3>2. CASE directive.type = "angle" /\ directive.content \in Paths
        <4>1. p = directive.content
          BY <1>2, <1>5, <3>2, PathSearch
        <4> QED BY <3>2, <4>1 DEF CacheKey
      <3> QED BY <1>2, <1>6, <3>1, <3>2
    <2>2. v = p
      BY <1>3, <2>1 DEF CacheOK
    <2>3. IsFirstFile(files, C, p)
      BY <1>1, <2>2, ResolvedOnDisk
    <2>4. Included(files, call, stack[1].parent, directive) = {p}
      BY <1>2, <2>3, IncludedUnique
    <2> QED BY <1>1, <2>2, <2>4 DEF EntryIs
  <1>7. CASE directive.type = "angle" /\ directive.content \in Names
    <2>1. key = directive.content
      BY <1>7 DEF CacheKey
    <2>2. IsFirstFile(files, C, v)
      <3>1. IsFirstFile(files, AngleCandidates(call, key), v)
        BY <1>2, <1>7, <2>1 DEF CacheOK
      <3> QED BY <1>2, <1>7, <2>1, <3>1, AngleSearch
    <2>3. Included(files, call, stack[1].parent, directive) = {v}
      BY <1>2, <2>2, IncludedUnique
    <2>4. p \in DOMAIN files => v = p
      BY <1>4, <2>2, ResolvedOnDisk, FirstFileUnique
    <2>5. p[2] = key
      BY <1>2, <1>5, <1>7, <2>1, CandidatesAre
    <2> HIDE DEF v
    <2>6. EntryIs(files, include_cache_data, p, v)
      BY <2>4, <2>5 DEF EntryIs, v
    <2> QED BY <2>3, <2>6 DEF v
  <1> QED BY <1>2, <1>6, <1>7

\* Two sequences that avoid a set avoid it together.
LEMMA ConcatAvoids ==
  ASSUME NEW s \in Seq(Paths), NEW t \in Seq(Paths), NEW S,
         \A i \in 1 .. Len(s) : s[i] \notin S, \A i \in 1 .. Len(t) : t[i] \notin S
  PROVE  s \o t \in Seq(Paths) /\ \A i \in 1 .. Len(s \o t) : (s \o t)[i] \notin S
  <1>1. s \o t \in Seq(Paths) /\ Len(s \o t) = Len(s) + Len(t) /\ Len(s) \in Nat /\ Len(t) \in Nat
    OBVIOUS
  <1>2. \A i \in 1 .. Len(s) : (s \o t)[i] = s[i]
    OBVIOUS
  <1>3. \A i \in 1 .. Len(s \o t) : i \notin 1 .. Len(s) =>
           i - Len(s) \in 1 .. Len(t) /\ (s \o t)[i] = t[i - Len(s)]
    BY <1>1
  <1> QED BY <1>1, <1>2, <1>3

\* A quoted name whose search ended at an entry for a path without a file is
\* the cached header, unless an -iquote directory has a file of that name.
LEMMA QuotedElsewhere ==
  ASSUME ParserTypes, Processing, CacheOK(files, include_cache_data), NoQuoteShadows,
         directive.type = "quote", directive.content \in Names,
         directive.content \in DOMAIN include_cache_data,
         NEW p \in Resolved(directive), p \notin DOMAIN files,
         NEW q \in Included(files, call, stack[1].parent, directive)
  PROVE  q = include_cache_data[directive.content]
  <1> DEFINE n == directive.content
             h == stack[1].parent
             C == Candidates(call, h, directive)
             P == <<<<h[1], n>>>>
             Q == In(call.dash_iquote, n)
             A == AngleCandidates(call, n)
  <1>1. call \in Calls /\ h \in Paths /\ directive \in Directive /\ n \in Contents
    BY InCall
  <1>2. C = (P \o Q) \o A
    BY <1>1, QuoteSearch
  <1>3. A \in Seq(Paths)
    BY <1>1, AngleIs
  <1>4. Q \in Seq(Paths) /\ \A i \in 1 .. Len(Q) : Q[i] \notin DOMAIN files
    <2>1. call.dash_iquote \in Seq(Dirs)
      BY <1>1, CallTypes
    <2>2. /\ Q \in Seq(Paths) /\ Len(Q) = Len(call.dash_iquote)
          /\ \A i \in 1 .. Len(Q) : Q[i] = <<call.dash_iquote[i], n>>
      BY <1>1, <2>1, InIs
    <2>3. n \in DOMAIN include_abs_paths
      BY DEF ParserTypes
    <2>4. \A i \in 1 .. Len(Q) : i \in DOMAIN call.dash_iquote
      BY <2>1, <2>2
    <2>5. \A i \in DOMAIN call.dash_iquote : <<call.dash_iquote[i], n>> \notin DOMAIN files
      BY <2>3, Zenon DEF NoQuoteShadows
    <2> QED BY <2>2, <2>4, <2>5
  <1>5. PICK j \in DOMAIN C : C[j] = p /\ \A k \in 1 .. j - 1 : ~TryResolves(directive, C[k])
    BY ResolvedIs
  <1>6. P \in Seq(Paths) /\ Len(P) = 1 /\ P[1] = <<h[1], n>>
    BY <1>1 DEF Paths
  <1> HIDE DEF P, Q, A, n, h
  <1>7. C \in Seq(Paths) /\ Len(C) >= 1 /\ C[1] = P[1]
    <2>1. (P \o Q) \o A \in Seq(Paths) /\ Len((P \o Q) \o A) >= 1 /\ ((P \o Q) \o A)[1] = P[1]
      <3> DEFINE R == P \o Q
      <3>1. R \in Seq(Paths) /\ Len(R) >= 1 /\ R[1] = P[1]
        BY <1>4, <1>6
      <3> HIDE DEF R
      <3>2. R \o A \in Seq(Paths) /\ Len(R \o A) >= 1 /\ (R \o A)[1] = P[1]
        BY <1>3, <3>1
      <3> QED BY <3>2 DEF R
    <2> HIDE DEF C
    <2> QED BY <1>2, <2>1
  <1>8. C[1] \notin DOMAIN files
    <2>1. CASE j = 1
      BY <1>5, <2>1
    <2>2. CASE j # 1
      <3>1. 1 \in 1 .. j - 1
        BY <1>5, <1>7, <2>2
      <3>2. ~TryResolves(directive, C[1])
        BY <1>5, <3>1
      <3> QED BY <3>2 DEF TryResolves
    <2> QED BY <2>1, <2>2
  <1>9. \A i \in 1 .. Len(P) : P[i] \notin DOMAIN files
    <2>1. P[1] \notin DOMAIN files
      BY <1>7, <1>8, Zenon
    <2>2. \A i \in 1 .. 1 : i = 1
      OBVIOUS
    <2> QED BY <1>6, <2>1, <2>2, Zenon
  <1> HIDE DEF C
  <1>10. P \o Q \in Seq(Paths) /\ \A i \in 1 .. Len(P \o Q) : (P \o Q)[i] \notin DOMAIN files
    BY <1>4, <1>6, <1>9, ConcatAvoids
  <1>11. IsFirstFile(files, C, q)
    BY DEF Included, C, h
  <1> DEFINE R == P \o Q
  <1> HIDE DEF R
  <1>12. R \in Seq(Paths) /\ (\A i \in 1 .. Len(R) : R[i] \notin DOMAIN files) /\ C = R \o A
    BY <1>2, <1>10 DEF R
  <1>13. IsFirstFile(files, A, q)
    BY <1>3, <1>11, <1>12, FirstInTail
  <1>14. IsFirstFile(files, A, include_cache_data[n])
    BY <1>1 DEF CacheOK, n, A
  <1>15. q = include_cache_data[n]
    BY <1>3, <1>13, <1>14, FirstFileUnique
  <1> QED BY <1>15 DEF n

\* AlreadyFound skips a directive only when the file that the compiler
\* includes is required already.
LEMMA FoundAlready ==
  ASSUME ParserTypes, Processing, CacheOK(files, include_cache_data),
         EntryOK(files, include_cache_data, inc_directives), NoQuoteShadows,
         NEW p \in Resolved(directive), p \in DOMAIN inc_directives
  PROVE  Included(files, call, stack[1].parent, directive) \subseteq Values(inc_directives)
  <1> DEFINE n == directive.content
             h == stack[1].parent
             C == Candidates(call, h, directive)
  <1>1. /\ call \in Calls /\ h \in Paths /\ directive \in Directive
        /\ directive.type = "angle" \/ directive.type = "quote"
        /\ n \in Names \/ n \in Paths
    BY InCall DEF Contents
  <1>2. inc_directives[p] \in Values(inc_directives) /\ EntryIs(files, include_cache_data, p, inc_directives[p])
    BY DEF Values, EntryOK
  <1>3. CASE p \in DOMAIN files
    <2>1. IsFirstFile(files, C, p)
      BY <1>3, ResolvedOnDisk
    <2>2. Included(files, call, h, directive) = {p}
      BY <1>1, <2>1, IncludedUnique
    <2> QED BY <1>2, <1>3, <2>2 DEF EntryIs
  <1>4. CASE p \notin DOMAIN files /\ n \in Paths
    <2>1. \A i \in DOMAIN C : C[i] = n
      BY <1>1, <1>4, PathSearch
    <2>2. n \notin DOMAIN files
      <3>1. PICK j \in DOMAIN C : C[j] = p
        BY ResolvedIs
      <3> QED BY <1>4, <2>1, <3>1
    <2>3. Included(files, call, h, directive) = {}
      BY <2>1, <2>2 DEF Included, IsFirstFile
    <2> QED BY <2>3
  <1>5. CASE p \notin DOMAIN files /\ n \in Names
    <2>1. p[2] = n
      <3>1. PICK j \in DOMAIN C : C[j] = p
        BY ResolvedIs
      <3> QED BY <1>1, <1>5, <3>1, CandidatesAre
    <2>2. n \in DOMAIN include_cache_data /\ include_cache_data[n] \in Values(inc_directives)
      BY <1>2, <1>5, <2>1 DEF EntryIs
    <2>3. ASSUME NEW q \in Included(files, call, h, directive) PROVE q = include_cache_data[n]
      <3>1. CASE directive.type = "angle"
        <4>1. IsFirstFile(files, AngleCandidates(call, n), include_cache_data[n])
          BY <1>1, <1>5, <2>2 DEF CacheOK
        <4>2. C = AngleCandidates(call, n) /\ C \in Seq(Paths)
          BY <1>1, <1>5, <3>1, AngleSearch, CandidatesAre
        <4>3. IsFirstFile(files, C, q)
          BY DEF Included
        <4> QED BY <4>1, <4>2, <4>3, FirstFileUnique
      <3>2. CASE directive.type = "quote"
        BY <1>5, <2>2, <3>2, QuotedElsewhere
      <3> QED BY <1>1, <3>1, <3>2
    <2> QED BY <2>2, <2>3
  <1> QED BY <1>1, <1>3, <1>4, <1>5

\* Both tables are right.
Tables ==
    CacheOK(files, include_cache_data) /\ EntryOK(files, include_cache_data, inc_directives)

\* What every step that processes a directive does: it requires nothing but
\* what the compiler includes for that directive, and does require that.
DirectiveDone ==
    /\ files' = files /\ call' = call /\ cached_before' = cached_before
    /\ DOMAIN include_abs_paths \subseteq DOMAIN include_abs_paths'
    /\ Values(inc_directives) \subseteq Values(inc_directives')
    /\ Values(inc_directives') \subseteq
          Values(inc_directives) \cup Included(files, call, stack[1].parent, directive)
    /\ NoQuoteShadows =>
          Included(files, call, stack[1].parent, directive) \subseteq Values(inc_directives')
    /\ Values(include_cache_data') \subseteq Values(include_cache_data) \cup Values(inc_directives')

\* The step did not descend; what it added came from the cache.
NothingPushed ==
    /\ stack' = Popped
    /\ Values(inc_directives') \subseteq Values(inc_directives) \cup Values(include_cache_data)

\* The step added header p and descended into it.
Pushes(p) ==
    /\ stack' = <<[parent |-> p, todo |-> files[p]]>> \o Popped
    /\ p \in Values(inc_directives')
    /\ Values(inc_directives') \subseteq Values(inc_directives) \cup {p}

\* TakeKnownPath is such a step.
LEMMA KnownPathStep ==
  ASSUME ParserTypes, Tables, TakeKnownPath
  PROVE  Processing /\ Tables' /\ DirectiveDone /\ NothingPushed
  <1> DEFINE p == include_abs_paths[directive.content]
             I == Included(files, call, stack[1].parent, directive)
  <1>1. /\ Processing /\ KnownPath /\ files' = files /\ call' = call
        /\ cached_before' = cached_before
        /\ stack' = Popped /\ include_cache_data' = include_cache_data
        /\ include_abs_paths' = include_abs_paths
        /\ inc_directives' = With(inc_directives, p, include_cache_data[p])
    BY DEF TakeKnownPath, cacheVars
  <1>2. /\ p \in DOMAIN files /\ p \in DOMAIN include_cache_data /\ include_cache_data[p] = p
        /\ I = {p} /\ EntryIs(files, include_cache_data, p, p)
        /\ p \notin DOMAIN inc_directives \/ inc_directives[p] = p
    BY <1>1, KnownPathFinds DEF Tables
  <1> HIDE DEF p, I
  <1>3. inc_directives' = With(inc_directives, p, p)
    BY <1>1, <1>2
  <1>4. Tables'
    BY <1>1, <1>2, <1>3, EntryGrows DEF Tables
  <1>5. /\ p \in Values(inc_directives')
        /\ Values(inc_directives') \subseteq Values(inc_directives) \cup {p}
        /\ Values(inc_directives) \subseteq Values(inc_directives')
    BY <1>2, <1>3, ValuesWith
  <1>6. p \in Values(include_cache_data)
    BY <1>2 DEF Values
  <1>7. NothingPushed
    BY <1>1, <1>5, <1>6 DEF NothingPushed
  <1>8. DirectiveDone
    BY <1>1, <1>2, <1>5 DEF DirectiveDone, I
  <1> QED BY <1>1, <1>4, <1>7, <1>8

\* Unresolved is such a step.
LEMMA UnresolvedStep ==
  ASSUME ParserTypes, Tables, Unresolved
  PROVE  Processing /\ Tables' /\ DirectiveDone /\ NothingPushed
  <1>1. /\ Processing /\ Resolved(directive) = {} /\ files' = files /\ call' = call
        /\ cached_before' = cached_before /\ stack' = Popped /\ inc_directives' = inc_directives
        /\ include_cache_data' = include_cache_data /\ include_abs_paths' = include_abs_paths
    BY DEF Unresolved, cacheVars
  <1>2. Included(files, call, stack[1].parent, directive) = {}
    BY <1>1, InCall, UnresolvedIncludesNothing
  <1> QED BY <1>1, <1>2 DEF Tables, DirectiveDone, NothingPushed

\* AlreadyFound is such a step.
LEMMA FoundStep ==
  ASSUME ParserTypes, Tables, AlreadyFound
  PROVE  Processing /\ Tables' /\ DirectiveDone /\ NothingPushed
  <1>1. /\ Processing /\ files' = files /\ call' = call
        /\ cached_before' = cached_before /\ stack' = Popped /\ inc_directives' = inc_directives
        /\ include_cache_data' = include_cache_data /\ include_abs_paths' = include_abs_paths
    BY DEF AlreadyFound, cacheVars
  <1>2. PICK p \in Resolved(directive) : p \in DOMAIN inc_directives
    BY DEF AlreadyFound
  <1>3. NoQuoteShadows => Included(files, call, stack[1].parent, directive) \subseteq Values(inc_directives)
    BY <1>1, <1>2, FoundAlready DEF Tables
  <1> QED BY <1>1, <1>3 DEF Tables, DirectiveDone, NothingPushed

\* TakeCached is such a step.
LEMMA CachedStep ==
  ASSUME ParserTypes, Tables, TakeCached
  PROVE  Processing /\ Tables' /\ DirectiveDone /\ NothingPushed
  <1> DEFINE I == Included(files, call, stack[1].parent, directive)
  <1>1. /\ Processing /\ files' = files /\ call' = call /\ cached_before' = cached_before
        /\ stack' = Popped /\ include_cache_data' = include_cache_data
        /\ include_abs_paths' = include_abs_paths
    BY DEF TakeCached, cacheVars
  <1>2. PICK p \in Resolved(directive) :
          /\ p \notin DOMAIN inc_directives
          /\ CacheKey(directive, p) \in DOMAIN include_cache_data
          /\ inc_directives' = With(inc_directives, p, include_cache_data[CacheKey(directive, p)])
    BY DEF TakeCached
  <1> DEFINE v == include_cache_data[CacheKey(directive, p)]
  <1>3. I = {v} /\ EntryIs(files, include_cache_data, p, v)
    BY <1>1, <1>2, CachedFinds DEF Tables
  <1>4. v \in Values(include_cache_data)
    BY <1>2 DEF Values
  <1> HIDE DEF v, I
  <1>5. inc_directives' = With(inc_directives, p, v)
    BY <1>2 DEF v
  <1>6. Tables'
    BY <1>1, <1>3, <1>5, EntryGrows DEF Tables
  <1>7. /\ v \in Values(inc_directives')
        /\ Values(inc_directives') \subseteq Values(inc_directives) \cup {v}
        /\ Values(inc_directives) \subseteq Values(inc_directives')
    BY <1>2, <1>5, ValuesWith
  <1>8. NothingPushed
    BY <1>1, <1>4, <1>7 DEF NothingPushed
  <1>9. DirectiveDone
    BY <1>1, <1>3, <1>7 DEF DirectiveDone, I
  <1> QED BY <1>1, <1>6, <1>8, <1>9

\* ReadHeader is such a step and descends.
LEMMA ReadStep ==
  ASSUME ParserTypes, Tables, SameAngleDirs, ReadHeader
  PROVE  Processing /\ Tables' /\ DirectiveDone /\ \E p \in DOMAIN files : Pushes(p)
  <1> DEFINE I == Included(files, call, stack[1].parent, directive)
  <1>1. Processing /\ files' = files /\ call' = call /\ cached_before' = cached_before
    BY DEF ReadHeader
  <1>2. PICK p \in Resolved(directive) :
          /\ p \notin DOMAIN inc_directives
          /\ CacheKey(directive, p) \notin DOMAIN include_cache_data
          /\ IF requires_inc_storage(call, p) THEN Store(CacheKey(directive, p), p) ELSE UNCHANGED cacheVars
          /\ inc_directives' = With(inc_directives, p, p)
          /\ stack' = <<[parent |-> p, todo |-> files[p]]>> \o Popped
    BY DEF ReadHeader, find_file_includes
  <1> DEFINE key == CacheKey(directive, p)
  <1>3. p \in DOMAIN files
    BY <1>1, <1>2, ReadIsOnDisk
  <1>4. /\ I = {p}
        /\ key \in Paths => p = key
        /\ key \in Names => \A c \in Calls : IsFirstFile(files, AngleCandidates(c, key), p)
    BY <1>1, <1>3, ReadFinds
  <1> HIDE DEF key, I
  <1>5. \/ /\ include_cache_data' = With(include_cache_data, key, p)
           /\ include_abs_paths' = With(include_abs_paths, key, p)
        \/ /\ include_cache_data' = include_cache_data
           /\ include_abs_paths' = include_abs_paths
    BY <1>2 DEF Store, cacheVars, key
  <1>6. CacheOK(files, include_cache_data')
    BY <1>4, <1>5, CacheGrows DEF Tables
  <1>7. EntryOK(files, include_cache_data', inc_directives)
    BY <1>2, <1>5, EntryCacheGrows DEF Tables, key
  <1>8. EntryIs(files, include_cache_data', p, p)
    BY <1>3 DEF EntryIs
  <1>9. EntryOK(files, include_cache_data', inc_directives')
    BY <1>2, <1>7, <1>8, EntryGrows
  <1>10. Tables'
    BY <1>1, <1>6, <1>9 DEF Tables
  <1>11. /\ p \in Values(inc_directives')
         /\ Values(inc_directives') \subseteq Values(inc_directives) \cup {p}
         /\ Values(inc_directives) \subseteq Values(inc_directives')
    BY <1>2, ValuesWith
  <1>12. Values(include_cache_data') \subseteq Values(include_cache_data) \cup {p}
    BY <1>5, ValuesWith
  <1>13. DOMAIN include_abs_paths \subseteq DOMAIN include_abs_paths'
    BY <1>5 DEF With
  <1>14. DirectiveDone
    BY <1>1, <1>4, <1>11, <1>12, <1>13 DEF DirectiveDone, I
  <1>15. Pushes(p)
    BY <1>2, <1>11 DEF Pushes
  <1> QED BY <1>1, <1>3, <1>10, <1>14, <1>15

\* TopDirectives with the disk as a parameter.
TopOf(tree, c) ==
    [i \in DOMAIN c.dash_include |-> [type |-> "angle", content |-> c.dash_include[i]]] \o tree[c.src]

\* ClosedUnderIncludes with the disk as a parameter.
Closed(tree, c, S, skipped) ==
    /\ \A i \in DOMAIN TopOf(tree, c) : Included(tree, c, c.src, TopOf(tree, c)[i]) \subseteq S
    /\ \A p \in (S \ skipped) \cap DOMAIN tree :
          \A i \in DOMAIN tree[p] : Included(tree, c, p, tree[p][i]) \subseteq S

\* Closed is ClosedUnderIncludes.
LEMMA ClosedIs ==
  ASSUME NEW c, NEW S, NEW skipped
  PROVE  ClosedUnderIncludes(c, S, skipped) <=> Closed(files, c, S, skipped)
  <1>1. TopDirectives(c) = TopOf(files, c)
    BY DEF TopDirectives, TopOf, find_file_includes
  <1>2. \A parent, d : CompilerIncludes(c, parent, d) = Included(files, c, parent, d)
    BY CompilerIncludesIs
  <1> QED BY <1>1, <1>2, Zenon DEF ClosedUnderIncludes, Closed

\* Every closed set has what is required, and what pending directives include.
Needed(tree, c, stk, req) ==
    \A S \in SUBSET DOMAIN tree :
        Closed(tree, c, S, {}) =>
            /\ req \subseteq S
            /\ \A h, d : Pending(stk, h, d) => Included(tree, c, h, d) \subseteq S

\* What directive d of file h includes is required, or d is pending.
Handled(tree, c, stk, req, h, d) ==
    Included(tree, c, h, d) \subseteq req \/ Pending(stk, h, d)

\* Every directive of the source file, and of every required header that was
\* not in the cache when the call began, is handled.
Done(tree, c, stk, req, before) ==
    /\ \A i \in DOMAIN TopOf(tree, c) : Handled(tree, c, stk, req, c.src, TopOf(tree, c)[i])
    /\ \A h \in (req \ before) \cap DOMAIN tree :
          \A i \in DOMAIN tree[h] : Handled(tree, c, stk, req, h, tree[h][i])

\* A call whose source file exists.
InProgress == call # NoCall /\ call.src \in DOMAIN files

\* What the search has established; the cache learnt in this call only headers
\* that this call requires.
SearchInv ==
    /\ Tables
    /\ call # NoCall => Values(include_cache_data) \subseteq cached_before \cup Values(inc_directives)
    /\ InProgress => Needed(files, call, stack, Values(inc_directives))
    /\ InProgress /\ NoQuoteShadows => Done(files, call, stack, Values(inc_directives), cached_before)

\* The inductive invariant.
ParserInv == ParserTypes /\ DepthInv /\ (SameAngleDirs => SearchInv)

\* Only the directive at hand stops being pending.
LEMMA PendingAfter ==
  ASSUME ParserTypes, Processing, NEW h, NEW d,
         stack' = Popped \/ \E p \in DOMAIN files : stack' = <<[parent |-> p, todo |-> files[p]]>> \o Popped
  PROVE  Pending(stack, h, d) => Pending(stack', h, d) \/ (h = stack[1].parent /\ d = directive)
  <1>1. Pending(stack, h, d) => Pending(Popped, h, d) \/ (h = stack[1].parent /\ d = directive)
    BY InCall, PoppedPending
  <1>2. CASE stack' = Popped
    BY <1>1, <1>2
  <1>3. ASSUME NEW p \in DOMAIN files, stack' = <<[parent |-> p, todo |-> files[p]]>> \o Popped
        PROVE  Pending(Popped, h, d) => Pending(stack', h, d)
    <2>1. Popped \in Seq(Frame) /\ p \in Paths /\ files[p] \in Seq(Directive)
      BY InCall, PoppedIs, PushedStack
    <2> QED BY <1>3, <2>1, PushPending
  <1> QED BY <1>1, <1>2, <1>3

\* Processing a directive keeps Needed.
LEMMA NeededKept ==
  ASSUME ParserTypes, Processing, DirectiveDone, NothingPushed \/ \E p \in DOMAIN files : Pushes(p),
         Needed(files, call, stack, Values(inc_directives))
  PROVE  Needed(files, call, stack', Values(inc_directives'))
  <1> SUFFICES ASSUME NEW S \in SUBSET DOMAIN files, Closed(files, call, S, {})
               PROVE  /\ Values(inc_directives') \subseteq S
                      /\ \A h, d : Pending(stack', h, d) => Included(files, call, h, d) \subseteq S
    BY DEF Needed
  <1>1. /\ Values(inc_directives) \subseteq S
        /\ \A h, d : Pending(stack, h, d) => Included(files, call, h, d) \subseteq S
    BY DEF Needed
  <1>2. Included(files, call, stack[1].parent, directive) \subseteq S
    BY <1>1, InCall, PoppedPending
  <1>3. Values(inc_directives') \subseteq S
    BY <1>1, <1>2 DEF DirectiveDone
  <1>4. ASSUME NEW h, NEW d, Pending(stack', h, d) PROVE Included(files, call, h, d) \subseteq S
    <2>1. Pending(Popped, h, d) => Included(files, call, h, d) \subseteq S
      BY <1>1, InCall, PoppedPending
    <2>2. CASE NothingPushed
      BY <1>4, <2>1, <2>2 DEF NothingPushed
    <2>3. ASSUME NEW p \in DOMAIN files, Pushes(p) PROVE Included(files, call, h, d) \subseteq S
      <3>1. Popped \in Seq(Frame) /\ p \in Paths /\ files[p] \in Seq(Directive)
        BY InCall, PoppedIs, PushedStack
      <3>2. Pending(Popped, h, d) \/ (h = p /\ \E k \in 1 .. Len(files[p]) : files[p][k] = d)
        BY <1>4, <2>3, <3>1, PushPending DEF Pushes
      <3>3. p \in S
        BY <1>3, <2>3 DEF Pushes
      <3>4. \A i \in DOMAIN files[p] : Included(files, call, p, files[p][i]) \subseteq S
        BY <3>3 DEF Closed
      <3>5. \A k \in 1 .. Len(files[p]) : k \in DOMAIN files[p]
        BY <3>1
      <3> QED BY <2>1, <3>2, <3>4, <3>5
    <2> QED BY <2>2, <2>3
  <1> QED BY <1>3, <1>4

\* Processing a directive keeps Done: a header that is new and not descended
\* into was in the cache when the call began.
LEMMA DoneKept ==
  ASSUME ParserTypes, Processing, DirectiveDone, NothingPushed \/ \E p \in DOMAIN files : Pushes(p),
         Values(include_cache_data) \subseteq cached_before \cup Values(inc_directives), NoQuoteShadows,
         Done(files, call, stack, Values(inc_directives), cached_before)
  PROVE  Done(files, call, stack', Values(inc_directives'), cached_before)
  <1> DEFINE R == Values(inc_directives)
             R1 == Values(inc_directives')
  <1>1. R \subseteq R1 /\ Included(files, call, stack[1].parent, directive) \subseteq R1
    BY DEF DirectiveDone
  <1>2. stack' = Popped \/ \E p \in DOMAIN files : stack' = <<[parent |-> p, todo |-> files[p]]>> \o Popped
    BY DEF NothingPushed, Pushes
  <1>3. ASSUME NEW h, NEW d, Handled(files, call, stack, R, h, d)
        PROVE  Handled(files, call, stack', R1, h, d)
    <2>1. Pending(stack, h, d) => Pending(stack', h, d) \/ (h = stack[1].parent /\ d = directive)
      BY <1>2, PendingAfter
    <2> QED BY <1>1, <1>3, <2>1 DEF Handled
  <1>4. \A i \in DOMAIN TopOf(files, call) : Handled(files, call, stack', R1, call.src, TopOf(files, call)[i])
    BY <1>3 DEF Done
  <1>5. ASSUME NEW h \in (R1 \ cached_before) \cap DOMAIN files, NEW i \in DOMAIN files[h]
        PROVE  Handled(files, call, stack', R1, h, files[h][i])
    <2>1. CASE h \in R
      BY <1>3, <2>1 DEF Done
    <2>2. CASE h \notin R
      <3>1. ~NothingPushed
        BY <2>2 DEF NothingPushed
      <3>2. PICK p \in DOMAIN files : Pushes(p)
        BY <3>1
      <3>3. h = p
        BY <2>2, <3>2 DEF Pushes
      <3>4. Popped \in Seq(Frame) /\ p \in Paths /\ files[p] \in Seq(Directive)
        BY InCall, PoppedIs, PushedStack
      <3>5. i \in 1 .. Len(files[p])
        BY <3>3, <3>4
      <3>6. Pending(stack', h, files[h][i])
        BY <3>2, <3>3, <3>4, <3>5, PushPending DEF Pushes
      <3> QED BY <3>6 DEF Handled
    <2> QED BY <2>1, <2>2
  <1> HIDE DEF R, R1
  <1> QED BY <1>4, <1>5, Zenon DEF Done, R1

\* Processing a directive keeps SearchInv.
LEMMA SearchProcessing ==
  ASSUME ParserTypes, SearchInv, Processing, Tables', DirectiveDone,
         NothingPushed \/ \E p \in DOMAIN files : Pushes(p)
  PROVE  SearchInv'
  <1>1. files' = files /\ call' = call /\ cached_before' = cached_before
    BY DEF DirectiveDone
  <1>2. call # NoCall /\ Values(include_cache_data) \subseteq cached_before \cup Values(inc_directives)
    <2>1. call \in Calls
      BY InCall
    <2> QED BY <2>1, CallTypes DEF SearchInv
  <1>3. Values(include_cache_data') \subseteq cached_before \cup Values(inc_directives')
    BY <1>2 DEF DirectiveDone
  <1>4. InProgress' <=> InProgress
    BY <1>1 DEF InProgress
  <1>5. NoQuoteShadows' => NoQuoteShadows
    <2>1. DOMAIN include_abs_paths \subseteq DOMAIN include_abs_paths'
      BY DEF DirectiveDone
    <2> QED BY <1>1, <2>1 DEF NoQuoteShadows
  <1>6. InProgress => Needed(files, call, stack', Values(inc_directives'))
    BY NeededKept DEF SearchInv
  <1>7. InProgress /\ NoQuoteShadows => Done(files, call, stack', Values(inc_directives'), cached_before)
    BY <1>2, DoneKept DEF SearchInv
  <1> QED BY <1>1, <1>3, <1>4, <1>5, <1>6, <1>7 DEF SearchInv

\* Needed and Done depend on the stack only by what is pending.
LEMMA SamePendingKept ==
  ASSUME NEW tree, NEW c, NEW s, NEW t, NEW req, NEW before,
         \A h, d : Pending(t, h, d) <=> Pending(s, h, d)
  PROVE  /\ Needed(tree, c, s, req) => Needed(tree, c, t, req)
         /\ Done(tree, c, s, req, before) => Done(tree, c, t, req, before)
  <1>1. Needed(tree, c, s, req) => Needed(tree, c, t, req)
    BY Zenon DEF Needed
  <1>2. \A h, d : Handled(tree, c, s, req, h, d) => Handled(tree, c, t, req, h, d)
    BY DEF Handled
  <1>3. Done(tree, c, s, req, before) => Done(tree, c, t, req, before)
    BY <1>2, Zenon DEF Done
  <1> QED BY <1>1, <1>3

\* Leaving a file keeps SearchInv.
LEMMA SearchReturns ==
  ASSUME ParserTypes, SearchInv, ReturnFromFile
  PROVE  SearchInv'
  <1>1. /\ stack # <<>> /\ stack[1].todo = <<>> /\ stack' = Tail(stack) /\ files' = files
        /\ call' = call
        /\ inc_directives' = inc_directives /\ include_abs_paths' = include_abs_paths
        /\ include_cache_data' = include_cache_data /\ cached_before' = cached_before
    BY DEF ReturnFromFile, cacheVars
  <1>2. \A h, d : Pending(stack', h, d) <=> Pending(stack, h, d)
    <2>1. stack \in Seq(Frame)
      BY DEF ParserTypes
    <2> QED BY <1>1, <2>1, TailPending
  <1>3. /\ InProgress => Needed(files, call, stack', Values(inc_directives))
        /\ InProgress /\ NoQuoteShadows => Done(files, call, stack', Values(inc_directives), cached_before)
    BY <1>2, SamePendingKept DEF SearchInv
  <1>4. (InProgress' <=> InProgress) /\ (NoQuoteShadows' <=> NoQuoteShadows) /\ (Tables' <=> Tables)
    BY <1>1 DEF InProgress, NoQuoteShadows, Tables
  <1> QED BY <1>1, <1>3, <1>4 DEF SearchInv

\* A new call starts with everything pending and nothing required.
LEMMA SearchStarts ==
  ASSUME ParserTypes, SearchInv, NEW c \in Calls, StartCall(c)
  PROVE  SearchInv'
  <1>1. /\ files' = files /\ call' = c /\ inc_directives' = Empty
        /\ include_abs_paths' = include_abs_paths /\ include_cache_data' = include_cache_data
        /\ cached_before' = CachedHeaders
        /\ stack' = IF c.src \in DOMAIN files THEN <<[parent |-> c.src, todo |-> TopDirectives(c)]>> ELSE <<>>
    BY DEF StartCall, cacheVars
  <1>2. Values(Empty) = {} /\ DOMAIN Empty = {}
    BY DEF Values, Empty
  <1>3. Tables'
    BY <1>1, <1>2 DEF SearchInv, Tables, EntryOK
  <1>4. Values(include_cache_data') = cached_before'
    BY <1>1 DEF Values, CachedHeaders
  <1>5. ASSUME c.src \in DOMAIN files
        PROVE  /\ Needed(files, c, stack', {})
               /\ Done(files, c, stack', {}, cached_before')
    <2> DEFINE top == TopOf(files, c)
    <2>1. top = TopDirectives(c) /\ top \in Seq(Directive) /\ c.src \in Paths
      <3>1. files \in Trees
        BY DEF ParserTypes
      <3> QED BY <1>5, <3>1, TopTypes, CallTypes DEF TopOf, TopDirectives, find_file_includes
    <2> DEFINE f == [parent |-> c.src, todo |-> top]
    <2>2. f.parent = c.src /\ f.todo = top
      OBVIOUS
    <2> HIDE DEF f, top
    <2>3. stack' = <<f>>
      BY <1>1, <1>5, <2>1 DEF f
    <2>4. Len(<<f>>) = 1 /\ <<f>>[1] = f
      OBVIOUS
    <2>5. \A j : j \in 1 .. 1 <=> j = 1
      OBVIOUS
    <2>6. \A h, d : Pending(stack', h, d) <=> h = c.src /\ \E k \in 1 .. Len(top) : top[k] = d
      BY <2>2, <2>3, <2>4, <2>5 DEF Pending
    <2>7. DOMAIN top = 1 .. Len(top)
      BY <2>1
    <2>8. Needed(files, c, stack', {})
      <3> SUFFICES ASSUME NEW S \in SUBSET DOMAIN files, Closed(files, c, S, {}), NEW h, NEW d,
                          Pending(stack', h, d)
                   PROVE  Included(files, c, h, d) \subseteq S
        BY DEF Needed
      <3>1. \A i \in DOMAIN top : Included(files, c, c.src, top[i]) \subseteq S
        BY DEF Closed, top
      <3> QED BY <2>6, <2>7, <3>1
    <2>9. \A i \in DOMAIN top : Pending(stack', c.src, top[i])
      BY <2>6, <2>7
    <2>10. Done(files, c, stack', {}, cached_before')
      BY <2>9 DEF Done, Handled, top
    <2> QED BY <2>8, <2>10
  <1>6. InProgress' => c.src \in DOMAIN files
    BY <1>1 DEF InProgress
  <1>7. Values(inc_directives') = {}
    BY <1>1, <1>2
  <1> QED BY <1>1, <1>3, <1>4, <1>5, <1>6, <1>7 DEF SearchInv

\* Every step keeps SearchInv.
LEMMA SearchKept ==
  ASSUME ParserTypes, SameAngleDirs, SearchInv, [Next]_vars
  PROVE  SearchInv'
  <1>0. Tables
    BY DEF SearchInv
  <1>1. CASE TakeKnownPath
    BY <1>0, <1>1, KnownPathStep, SearchProcessing
  <1>2. CASE Unresolved
    BY <1>0, <1>2, UnresolvedStep, SearchProcessing
  <1>3. CASE AlreadyFound
    BY <1>0, <1>3, FoundStep, SearchProcessing
  <1>4. CASE TakeCached
    BY <1>0, <1>4, CachedStep, SearchProcessing
  <1>5. CASE ReadHeader
    BY <1>0, <1>5, ReadStep, SearchProcessing
  <1>6. CASE ReturnFromFile
    BY <1>6, SearchReturns
  <1>7. CASE EndCall
    <2>1. /\ call' = NoCall /\ files' = files /\ inc_directives' = inc_directives
          /\ include_cache_data' = include_cache_data
      BY <1>7 DEF EndCall, cacheVars
    <2> QED BY <1>0, <2>1 DEF SearchInv, Tables, InProgress
  <1>8. ASSUME NEW c \in Calls, StartCall(c) PROVE SearchInv'
    BY <1>8, SearchStarts
  <1>9. CASE UNCHANGED vars
    BY <1>9 DEF vars, SearchInv, Tables, InProgress, NoQuoteShadows
  <1> QED BY <1>1, <1>2, <1>3, <1>4, <1>5, <1>6, <1>7, <1>8, <1>9 DEF Next, Parse

\* ParserInv holds initially.
LEMMA ParserInit == Init => ParserInv
  <1> SUFFICES ASSUME Init PROVE ParserInv
    OBVIOUS
  <1>1. /\ files \in Trees /\ call = NoCall /\ stack = <<>> /\ inc_directives = Empty
        /\ include_abs_paths = Empty /\ include_cache_data = Empty
    BY DEF Init
  <1>2. ParserTypes
    BY <1>1, EmptyTable DEF ParserTypes
  <1>3. DepthInv
    BY <1>1 DEF DepthInv
  <1>4. SearchInv
    BY <1>1, EmptyTable DEF SearchInv, Tables, CacheOK, EntryOK, InProgress
  <1> QED BY <1>2, <1>3, <1>4 DEF ParserInv

\* ParserInv is inductive.
LEMMA ParserNext == ParserInv /\ [Next]_vars => ParserInv'
  BY TypesKept, DepthKept, SearchKept DEF ParserInv, SameAngleDirs

\* ParserInv always holds.
LEMMA ParserSafe == Spec => []ParserInv
  BY ParserInit, ParserNext, PTL DEF Spec

\* SourceFileParser's recursion is no deeper than there are files on the disk,
\* whatever include cycles they form.
THEOREM RecursionIsBounded == Spec => []RecursionBounded
  <1>1. ParserInv => RecursionBounded
    BY DepthBounds DEF ParserInv
  <1> QED BY <1>1, ParserSafe, PTL

\* What collect_src_file_dependencies returns is what the compiler reads for
\* this source file, for every disk, every sequence of calls with the same
\* directories for angle directives, and whatever they left in IncludesCache.
THEOREM OnlyReachable == Spec => []RequiresOnlyReachable
  <1>1. ParserInv => RequiresOnlyReachable
    <2> SUFFICES ASSUME ParserInv, SameAngleDirs, Parsed, call.src \in DOMAIN files,
                        NEW p \in required_files
                 PROVE  p \in Reachable(call, {})
      BY DEF RequiresOnlyReachable
    <2>1. p \in Values(inc_directives)
      BY DEF required_files, Values
    <2>2. p \in DOMAIN files
      BY <2>1 DEF ParserInv, ParserTypes, Table, Values
    <2>3. Needed(files, call, stack, Values(inc_directives))
      BY DEF ParserInv, SearchInv, InProgress, Parsed
    <2>4. \A S \in SUBSET DOMAIN files : ClosedUnderIncludes(call, S, {}) => p \in S
      BY <2>1, <2>3, ClosedIs DEF Needed
    <2> QED BY <2>2, <2>4 DEF Reachable
  <1> QED BY <1>1, ParserSafe, PTL

\* Every header the compiler reaches without passing through one that was in
\* IncludesCache when the call began is among the required files.
THEOREM AllUncached == Spec => []RequiresUncached
  <1>1. ParserInv => RequiresUncached
    <2> SUFFICES ASSUME ParserInv, SameAngleDirs, Parsed, NoQuoteShadows, call.src \in DOMAIN files
                 PROVE  Reachable(call, cached_before) \subseteq required_files
      BY DEF RequiresUncached
    <2> DEFINE R == Values(inc_directives)
    <2>1. R = required_files
      BY DEF required_files, Values
    <2>2. R \in SUBSET DOMAIN files
      BY DEF ParserInv, ParserTypes, Table, Values
    <2>3. Done(files, call, stack, R, cached_before)
      BY DEF ParserInv, SearchInv, InProgress, Parsed
    <2>4. \A h, d : ~Pending(stack, h, d)
      <3>1. \A j \in 1 .. Len(<<>>) : FALSE
        OBVIOUS
      <3>2. stack = <<>>
        BY DEF Parsed
      <3> QED BY <3>1, <3>2, Zenon DEF Pending
    <2> HIDE DEF R
    <2>5. Closed(files, call, R, cached_before)
      BY <2>3, <2>4, Zenon DEF Done, Handled, Closed
    <2>6. ClosedUnderIncludes(call, R, cached_before)
      BY <2>5, ClosedIs
    <2> QED BY <2>1, <2>2, <2>6 DEF Reachable
  <1> QED BY <1>1, ParserSafe, PTL
=============================================================================
