--------------------------- MODULE CompileService ---------------------------
(***************************************************************************)
(* What the server's sessions rely on when they hand a translation unit to *)
(* the compiler pool, without threads, locks, queue or counters: a request *)
(* is accepted once per session, at most PoolSize compilers run at a time, *)
(* a request cancelled before it started never runs, and a result is       *)
(* published once, after its compiler has ended.                           *)
(*                                                                         *)
(* CompilerManager implements this specification (refinement mapping       *)
(* there); ServerSessions uses it in the place of the pool.                *)
(***************************************************************************)
EXTENDS Naturals, FiniteSets

CONSTANTS
    Sessions,   \* the ServerSession objects that may ask for a compilation
    PoolSize    \* compiler_threads of the server's YAML configuration

VARIABLE job    \* where each session's only compilation request is

JobStates == {"none", "queued", "cancelled", "dropped",
              "running", "finished", "published"}

JobsIn(state) == {s \in Sessions : job[s] = state}

Init == job = [s \in Sessions |-> "none"]

(***************************************************************************)
(* One sweep over the sessions of a client view can submit several         *)
(* requests, so Request takes the set of sessions submitted together.      *)
(***************************************************************************)
Request(S) ==
    /\ S \subseteq JobsIn("none")
    /\ job' = [s \in Sessions |-> IF s \in S THEN "queued" ELSE job[s]]

Move(s, from, to) ==
    /\ job[s] = from
    /\ job' = [job EXCEPT ![s] = to]

Cancel(s)  == Move(s, "queued", "cancelled")

Drop(s)    == Move(s, "cancelled", "dropped")

Start(s)   == /\ Cardinality(JobsIn("running")) < PoolSize
              /\ Move(s, "queued", "running")

Finish(s)  == Move(s, "running", "finished")

Publish(s) == Move(s, "finished", "published")

Next ==
    \/ \E S \in (SUBSET Sessions) \ {{}} : Request(S)
    \/ \E s \in Sessions : \/ Cancel(s) \/ Drop(s)
                           \/ Start(s)  \/ Finish(s) \/ Publish(s)

Spec == Init /\ [][Next]_job
=============================================================================
