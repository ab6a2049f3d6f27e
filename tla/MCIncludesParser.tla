-------------------------- MODULE MCIncludesParser --------------------------
(* Two source files that share an include path, and every way to place two *)
(* headers in four directories and let each include nothing or the other.  *)
EXTENDS IncludesParser, TLC
CONSTANTS src1, src2, inc, sys, m, a, b

Angle(content) == [type |-> "angle", content |-> content]
Quote(content) == [type |-> "quote", content |-> content]

MCCalls ==
    {[src |-> <<src1, m>>, dash_i |-> <<inc>>, dash_isystem |-> <<>>,
      dash_iquote |-> <<>>, dash_include |-> <<<<sys, b>>>>],
     [src |-> <<src2, m>>, dash_i |-> <<inc>>, dash_isystem |-> <<>>,
      dash_iquote |-> <<src1>>, dash_include |-> <<>>]}

Sources == (<<src1, m>> :> <<Quote(a), Angle(b)>>) @@ (<<src2, m>> :> <<Quote(b), Angle(a)>>)

HeaderA == {<<src1, a>>, <<inc, a>>, <<sys, a>>}
HeaderB == {<<inc, b>>, <<sys, b>>}

MCSysI == <<>>
MCSysIsystem == <<sys>>

MCTrees ==
    {Sources @@ fa @@ fb :
        fa \in UNION {[S -> {<<>>, <<Angle(b)>>, <<Quote(b)>>}] : S \in SUBSET HeaderA},
        fb \in UNION {[S -> {<<>>, <<Angle(a)>>, <<Quote(a)>>}] : S \in SUBSET HeaderB}}
=============================================================================
